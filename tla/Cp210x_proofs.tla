--------------------------- MODULE Cp210x_proofs ---------------------------
(***************************************************************************)
(* What the tty shows of a CP210x port is what the device has, and opening *)
(* the port again leaves the line alone, for every device and whatever     *)
(* requests fail.                                                          *)
(*                                                                         *)
(* The invariant follows the open: each request that get_termios makes     *)
(* adds one setting to those that agree, or to those in doubt, and the     *)
(* parts of the line control pass through bits on their way.  SetUpInv     *)
(* keeps what a device is left with that an open has set up throughout:    *)
(* a rate that quantise_baudrate maps to itself and parts that get_termios *)
(* does not correct.                                                       *)
(***************************************************************************)
EXTENDS Cp210x, FiniteSetTheorems, TLAPS

-----------------------------------------------------------------------------
(* The rates                                                               *)

(* the rows of the table, one by one *)
LEMMA Rows ==
  /\ Quantum[1][1] = 300 /\ Quantum[1][2] = 300
  /\ Quantum[2][1] = 600 /\ Quantum[2][2] = 600
  /\ Quantum[3][1] = 1200 /\ Quantum[3][2] = 1200
  /\ Quantum[4][1] = 1800 /\ Quantum[4][2] = 1800
  /\ Quantum[5][1] = 2400 /\ Quantum[5][2] = 2400
  /\ Quantum[6][1] = 4000 /\ Quantum[6][2] = 4000
  /\ Quantum[7][1] = 4803 /\ Quantum[7][2] = 4800
  /\ Quantum[8][1] = 7207 /\ Quantum[8][2] = 7200
  /\ Quantum[9][1] = 9612 /\ Quantum[9][2] = 9600
  /\ Quantum[10][1] = 14428 /\ Quantum[10][2] = 14400
  /\ Quantum[11][1] = 16062 /\ Quantum[11][2] = 16000
  /\ Quantum[12][1] = 19250 /\ Quantum[12][2] = 19200
  /\ Quantum[13][1] = 28912 /\ Quantum[13][2] = 28800
  /\ Quantum[14][1] = 38601 /\ Quantum[14][2] = 38400
  /\ Quantum[15][1] = 51558 /\ Quantum[15][2] = 51200
  /\ Quantum[16][1] = 56280 /\ Quantum[16][2] = 56000
  /\ Quantum[17][1] = 58053 /\ Quantum[17][2] = 57600
  /\ Quantum[18][1] = 64111 /\ Quantum[18][2] = 64000
  /\ Quantum[19][1] = 77608 /\ Quantum[19][2] = 76800
  /\ Quantum[20][1] = 117028 /\ Quantum[20][2] = 115200
  /\ Quantum[21][1] = 129347 /\ Quantum[21][2] = 128000
  /\ Quantum[22][1] = 156868 /\ Quantum[22][2] = 153600
  /\ Quantum[23][1] = 237832 /\ Quantum[23][2] = 230400
  /\ Quantum[24][1] = 254234 /\ Quantum[24][2] = 250000
  /\ Quantum[25][1] = 273066 /\ Quantum[25][2] = 256000
  /\ Quantum[26][1] = 491520 /\ Quantum[26][2] = 460800
  /\ Quantum[27][1] = 567138 /\ Quantum[27][2] = 500000
  /\ Quantum[28][1] = 670254 /\ Quantum[28][2] = 576000
  /\ Quantum[29][1] = 999999 /\ Quantum[29][2] = 921600
BY DEF Quantum

(* a rate lies between the limit of the row before and that of its own *)
LEMMA Ascending ==
  \A i \in 1..29 : /\ Quantum[i][2] <= Quantum[i][1]
                   /\ \A j \in 1..29 : j < i => Quantum[i][2] > Quantum[j][1]
BY Rows, SMTT(60)

(* below it the chain of comparisons is entered                            *)
Chained(baud) == baud < 1000000

(* The table of rates holds numbers, each a rate below 1000000. *)
LEMMA Numbers ==
  \A i \in 1..29 : Quantum[i][1] \in Nat /\ Quantum[i][2] \in Nat /\ Chained(Quantum[i][2])
BY Rows, SMT DEF Chained

(* exactly one row takes a rate that is in the chain *)
LEMMA OneRow ==
  ASSUME NEW baud \in Nat, Chained(baud)
  PROVE  Row(baud) \in 1..29 /\ Mapped(baud, Row(baud))
<1>1. \E i \in 1..29 : Mapped(baud, i)
  BY Rows, SMT DEF Mapped, Chained
<1>2. QED
  BY <1>1, Zenon DEF Row

(* A rate is in one row of the table only. *)
LEMMA SameRow ==
  ASSUME NEW baud \in Nat, NEW i \in 1..29, NEW j \in 1..29, Mapped(baud, i), Mapped(baud, j)
  PROVE  i = j
<1>1. ASSUME NEW k \in 1..29, NEW l \in 1..29, k < l, Mapped(baud, k), Mapped(baud, l)
      PROVE  FALSE
  <2>1. baud <= Quantum[k][1] /\ baud > Quantum[k][1]
    BY <1>1, Zenon DEF Mapped
  <2>2. Quantum[k][1] \in Nat
    BY Numbers, Zenon
  <2>3. QED
    BY <2>1, <2>2, SMT
<1>2. ~(i < j) /\ ~(j < i)
  BY <1>1, Zenon
<1>3. QED
  BY <1>2, SMT

(* A rate that cp210x_quantise_baudrate has chosen it chooses again.       *)
LEMMA Steady ==
  ASSUME NEW baud \in Nat
  PROVE  /\ quantise_baudrate(baud) \in Nat
         /\ quantise_baudrate(quantise_baudrate(baud)) = quantise_baudrate(baud)
<1>1. CASE ~Chained(baud)
  BY <1>1, SMT DEF quantise_baudrate, Chained
<1>2. CASE Chained(baud)
  <2>1. PICK i \in 1..29 : quantise_baudrate(baud) = Quantum[i][2]
    BY <1>2, OneRow, SMT DEF quantise_baudrate, Chained
  <2>2. Mapped(Quantum[i][2], i)
    BY Ascending, Zenon DEF Mapped
  <2>3. Quantum[i][2] \in Nat /\ Chained(Quantum[i][2])
    BY Numbers, Zenon
  <2>4. Row(Quantum[i][2]) = i
    BY <2>2, <2>3, OneRow, SameRow, Zenon
  <2>5. quantise_baudrate(Quantum[i][2]) = Quantum[i][2]
    BY <2>3, <2>4, SMT DEF quantise_baudrate, Chained
  <2>6. QED
    BY <2>1, <2>3, <2>5, SMT
<1>3. QED
  BY <1>1, <1>2, SMT

(* The rates themselves, which a failed open and an unset one leave        *)
LEMMA StdRate == quantise_baudrate(9600) = 9600
<1>1. Mapped(9600, 9) /\ Chained(9600)
  BY Rows, SMT DEF Mapped, Chained
<1>2. Row(9600) = 9
  BY <1>1, OneRow, SameRow, SMT
<1>3. QED
  BY <1>1, <1>2, Rows, SMT DEF quantise_baudrate, Chained

(* The parts of a line control                                             *)

(* get_termios corrects to what it would not correct again *)
LEMMA ThreeParts ==
  ASSUME NEW line \in LineControl
  PROVE  /\ line.data \in {"0", "5", "6", "7", "8", "9"}
         /\ line.parity \in {"none", "odd", "even", "mark", "space", "other"}
         /\ line.stop \in {"1", "1.5", "2", "other"}
         /\ Supported(line) \in LineControl
         /\ \A p \in LineParts :
              /\ p \in {"data", "parity", "stop"}
              /\ Supported(Supported(line))[p] = Supported(line)[p]
BY DEF LineControl, LineParts, Supported

(* Whether a part is supported does not depend on the others.              *)
LEMMA PartAlone ==
  ASSUME NEW line \in LineControl, NEW other \in LineControl, NEW p \in LineParts,
         line[p] = other[p]
  PROVE  Supported(line)[p] = Supported(other)[p]
BY DEF LineControl, LineParts, Supported

(* one part replaced *)
Put(line, p, value) == [line EXCEPT ![p] = value]

(* What writing one part of the line does to the others. *)
LEMMA OnePart ==
  ASSUME NEW line \in LineControl, NEW other \in LineControl, NEW p \in LineParts
  PROVE  /\ Put(line, p, other[p]) \in LineControl
         /\ Put(line, p, other[p])[p] = other[p]
         /\ \A q \in LineParts \ {p} : Put(line, p, other[p])[q] = line[q]
BY DEF LineControl, LineParts, Put

(* what a termios asks for is never corrected *)
LEMMA AskedParts ==
  ASSUME NEW t \in Termios
  PROVE  /\ Asked(t) \in LineControl
         /\ Asked(t).data = t.data /\ Asked(t).stop = t.stop
         /\ Asked(t).parity = Parity(t.parity)
         /\ \A p \in LineParts : Supported(Asked(t))[p] = Asked(t)[p]
<1>1. t.parity \in SUBSET Flags /\ t.data \in {"5", "6", "7", "8"} /\ t.stop \in {"1", "2"}
  BY DEF Termios
<1>2. Parity(t.parity) \in {"none", "odd", "even", "mark", "space"}
  BY <1>1 DEF Parity, Flags
<1>3. QED
  BY <1>1, <1>2 DEF Asked, LineControl, LineParts, Supported

(* What is read as the parity is what the device has, unless CMSPAR of an
   earlier one is added to it. *)
LEMMA ParityShown ==
  ASSUME NEW flags \in SUBSET Flags,
         NEW parity \in {"none", "odd", "even", "mark", "space", "other"}
  PROVE  /\ ShowParity(parity, flags) \in SUBSET Flags
         /\ "CMSPAR" \notin flags \/ Parity(flags) = parity
              => Parity(ShowParity(parity, flags)) = IF parity = "other" THEN "none" ELSE parity
BY DEF ShowParity, Parity, Flags

-----------------------------------------------------------------------------
(* Requests                                                                *)

(* what a series of requests, and one or two of them, leave *)
LEMMA FailuresCount ==
  ASSUME TypeOK, NEW results, Outcome(results),
         \/ \E a \in BOOLEAN : results = <<a>>
         \/ \E a, b \in BOOLEAN : results = <<a, b>>
  PROVE  failures' \in 0..MaxFailures
<1> DEFINE bad == {i \in DOMAIN results : ~results[i]}
<1>1. DOMAIN results = 1..Len(results) /\ Len(results) \in Int
  OBVIOUS
<1>2. IsFiniteSet(bad) /\ Cardinality(bad) \in Nat
  <2>1. IsFiniteSet(DOMAIN results)
    BY <1>1, FS_Interval
  <2>2. IsFiniteSet(bad)
    BY <2>1, FS_Subset
  <2>3. QED
    BY <2>2, FS_CardinalityType
<1>3. failures \in 0..MaxFailures /\ MaxFailures \in Nat
  BY Cp210xAssumption DEF TypeOK
<1>4. QED
  BY <1>2, <1>3 DEF Outcome

(* One request, refused or not, within the limit of failures. *)
LEMMA RequestDoes ==
  ASSUME TypeOK, NEW ok \in BOOLEAN, Request(<<ok>>)
  PROVE  failures' \in 0..MaxFailures /\ clean' \in BOOLEAN /\ (clean' => ok)
<1>1. failures' \in 0..MaxFailures
  BY FailuresCount DEF Request
<1>2. clean' = (clean /\ ok)
  BY DEF Request
<1>3. QED
  BY <1>1, <1>2 DEF TypeOK

(* A read and a write that depends on it. *)
LEMMA RequestsDo ==
  ASSUME TypeOK, NEW got \in BOOLEAN, NEW put \in BOOLEAN, Request(<<got, put>>)
  PROVE  failures' \in 0..MaxFailures /\ clean' \in BOOLEAN
<1>1. failures' \in 0..MaxFailures
  BY FailuresCount DEF Request
<1>2. QED
  BY <1>1 DEF Request, TypeOK

(* a device with one register changed *)
LEMMA DeviceFields ==
  ASSUME NEW d \in Device
  PROVE  d.speed \in Nat /\ d.line \in LineControl /\ d.cts \in BOOLEAN
BY DEF Device

(* What enabling the UART leaves alone. *)
LEMMA NewOn ==
  ASSUME NEW d \in Device, NEW b \in BOOLEAN, NEW e, e = [d EXCEPT !.on = b]
  PROVE  e \in Device /\ e.speed = d.speed /\ e.line = d.line /\ e.cts = d.cts
BY DEF Device

(* What writing the rate leaves alone. *)
LEMMA NewSpeed ==
  ASSUME NEW d \in Device, NEW b \in Nat, NEW e, e = [d EXCEPT !.speed = b]
  PROVE  e \in Device /\ e.speed = b /\ e.line = d.line /\ e.cts = d.cts
BY DEF Device

(* What writing the line leaves alone. *)
LEMMA NewLine ==
  ASSUME NEW d \in Device, NEW l \in LineControl, NEW e, e = [d EXCEPT !.line = l]
  PROVE  e \in Device /\ e.speed = d.speed /\ e.line = l /\ e.cts = d.cts
BY DEF Device

(* a termios with the rate or CRTSCTS changed *)
LEMMA TermiosFields ==
  ASSUME NEW t \in Termios
  PROVE  /\ t.speed \in Nat /\ t.parity \in SUBSET Flags /\ t.crtscts \in BOOLEAN
         /\ \A b \in Nat :
              LET e == [t EXCEPT !.speed = b]
              IN e \in Termios /\ e.speed = b /\ Asked(e) = Asked(t)
                 /\ e.parity = t.parity /\ e.crtscts = t.crtscts
         /\ \A c \in BOOLEAN :
              LET e == [t EXCEPT !.crtscts = c]
              IN e \in Termios /\ e.speed = t.speed /\ Asked(e) = Asked(t)
                 /\ e.parity = t.parity /\ e.crtscts = c
BY DEF Termios, Asked

(* a request either reaches the device or leaves it as it was *)
LEMMA WrittenIs ==
  ASSUME NEW new, NEW ok, NEW d \in Written(new, ok)
  PROVE  d = new \/ (d = dev /\ ~ok)
BY DEF Written

(* cp210x_change_speed: the rate in the tty is that of the device, or in doubt *)
LEMMA ChangeSpeedDoes ==
  ASSUME TypeOK, NEW otherwise \in Nat, ChangeSpeed(otherwise)
  PROVE  /\ dev' \in Device /\ dev'.line = dev.line /\ dev'.cts = dev.cts
         /\ dev'.speed \in {dev.speed, quantise_baudrate(termios.speed)}
         /\ clean' => dev'.speed = quantise_baudrate(termios.speed)
         /\ termios' \in Termios /\ Asked(termios') = Asked(termios)
         /\ termios'.parity = termios.parity /\ termios'.crtscts = termios.crtscts
         /\ \/ termios'.speed = dev'.speed /\ doubt' = doubt \ {"speed"}
            \/ doubt' = doubt \cup {"speed"}
         /\ failures' \in 0..MaxFailures /\ clean' \in BOOLEAN
<1> DEFINE baud == quantise_baudrate(termios.speed)
<1>1. PICK ok \in BOOLEAN :
        /\ Request(<<ok>>)
        /\ dev' \in Written([dev EXCEPT !.speed = baud], ok)
        /\ termios' = [termios EXCEPT !.speed = IF ok THEN baud ELSE otherwise]
        /\ doubt' = IF termios'.speed = dev'.speed THEN doubt \ {"speed"}
                    ELSE doubt \cup {"speed"}
  BY DEF ChangeSpeed
<1>2. dev \in Device /\ termios \in Termios /\ baud \in Nat
  BY TermiosFields, Steady DEF TypeOK
<1> HIDE DEF baud
<1>3. dev' = [dev EXCEPT !.speed = baud] \/ (dev' = dev /\ ~ok)
  BY <1>1, WrittenIs
<1>4. /\ dev' \in Device /\ dev'.line = dev.line /\ dev'.cts = dev.cts
      /\ dev'.speed = baud \/ (dev'.speed = dev.speed /\ ~ok)
  BY <1>2, <1>3, NewSpeed
<1>5. /\ termios' \in Termios /\ Asked(termios') = Asked(termios)
      /\ termios'.parity = termios.parity /\ termios'.crtscts = termios.crtscts
  BY <1>1, <1>2, TermiosFields
<1>6. failures' \in 0..MaxFailures /\ clean' \in BOOLEAN /\ (clean' => ok)
  BY <1>1, RequestDoes
<1>7. QED
  BY <1>1, <1>4, <1>5, <1>6 DEF baud

-----------------------------------------------------------------------------
(* The steps                                                               *)

Inv == TypeOK /\ LineInv /\ SpeedInv /\ FlowInv /\ SetUpInv

(* The line control and its doubts                                         *)
LEMMA SameLine ==
  ASSUME LineInv, SetUpInv, TypeOK, UNCHANGED <<programmed, todo, bits>>,
         dev'.line = dev.line, Asked(termios') = Asked(termios),
         termios'.parity = termios.parity,
         doubt' \cap LineParts = doubt \cap LineParts,
         Reading' => Reading, Read' => Read, Read \/ Reading => Read' \/ Reading',
         programmed => quantise_baudrate(dev'.speed) = dev'.speed
  PROVE  LineInv' /\ SetUpInv'
<1>1. \A p \in LineParts : (p \in doubt' <=> p \in doubt) /\ (p = "parity" \/ p # "parity")
  OBVIOUS
<1>2. "parity" \in LineParts
  BY DEF LineParts
<1>3. LineInv'
  BY <1>1, <1>2 DEF LineInv
<1>4. SetUpInv'
  BY <1>1 DEF SetUpInv
<1>5. QED
  BY <1>3, <1>4

(* The tty's old termios, the device's registers when it comes. *)
LEMMA StartupStep == ASSUME Inv, Startup PROVE Inv'
<1>1. /\ pc = "closed" /\ pc' = pc /\ plugged' = TRUE /\ programmed' = FALSE /\ dev' \in Factory
      /\ doubt' = IF "CMSPAR" \in termios.parity THEN doubt \cup {"parity"} ELSE doubt
      /\ UNCHANGED <<termios, todo, oldspeed, bits, clean, failures>>
  BY DEF Startup, locals
<1>2. TypeOK'
  BY <1>1, Cp210xAssumption DEF Inv, TypeOK, Settings, LineParts
<1>3. LineInv' /\ SpeedInv' /\ FlowInv' /\ SetUpInv'
  BY <1>1 DEF LineInv, SpeedInv, FlowInv, SetUpInv, Read, Reading
<1>4. QED
  BY <1>2, <1>3 DEF Inv

(* The device is gone. *)
LEMMA UnplugStep == ASSUME Inv, Unplug PROVE Inv'
<1>1. /\ plugged' = FALSE
      /\ UNCHANGED <<pc, dev, termios, todo, oldspeed, bits, programmed, doubt, clean, failures>>
  BY DEF Unplug, locals
<1>2. QED
  BY <1>1 DEF Inv, TypeOK, LineInv, SpeedInv, FlowInv, SetUpInv, Read, Reading

(* cp210x_open, the first request. *)
LEMMA EnableUartStep == ASSUME Inv, EnableUart PROVE Inv'
<1>1. PICK ok \in BOOLEAN :
        /\ Outcome(<<ok>>)
        /\ dev' \in Written([dev EXCEPT !.on = TRUE], ok)
        /\ pc' = IF ok THEN "get_baudrate" ELSE "closed"
        /\ clean' = ok
  BY DEF EnableUart
<1>2. pc = "closed" /\ UNCHANGED <<plugged, termios, todo, oldspeed, bits, programmed, doubt>>
  BY DEF EnableUart, locals
<1>3. TypeOK /\ dev \in Device /\ failures' \in 0..MaxFailures
  BY <1>1, FailuresCount DEF Inv, TypeOK
<1>4. /\ dev' \in Device /\ dev'.line = dev.line /\ dev'.cts = dev.cts
      /\ dev'.speed = dev.speed
  <2>1. dev' = [dev EXCEPT !.on = TRUE] \/ dev' = dev
    BY <1>1, WrittenIs
  <2>2. QED
    BY <1>3, <2>1, NewOn
<1>5. TypeOK'
  BY <1>1, <1>2, <1>3, <1>4 DEF TypeOK
<1>6. LineInv' /\ SetUpInv'
  BY <1>1, <1>2, <1>3, <1>4, SameLine DEF Inv, SetUpInv, Read, Reading
<1>7. SpeedInv' /\ FlowInv'
  BY <1>1 DEF SpeedInv, FlowInv, Read
<1>8. QED
  BY <1>5, <1>6, <1>7 DEF Inv

(* get_termios, the rate. *)
LEMMA GetBaudrateStep == ASSUME Inv, GetBaudrate PROVE Inv'
<1>1. PICK ok \in BOOLEAN :
        /\ Request(<<ok>>)
        /\ termios' = [termios EXCEPT !.speed = IF ok THEN dev.speed ELSE 0]
        /\ doubt' = IF ok THEN doubt ELSE doubt \cup {"speed"}
  BY DEF GetBaudrate
<1>2. /\ pc = "get_baudrate" /\ pc' = "get_line_ctl"
      /\ UNCHANGED <<plugged, dev, todo, oldspeed, bits, programmed>>
  BY DEF GetBaudrate, locals
<1>3. TypeOK /\ dev \in Device /\ termios \in Termios /\ todo = {} /\ doubt \subseteq Settings
  BY <1>2 DEF Inv, TypeOK
<1>4. failures' \in 0..MaxFailures /\ clean' \in BOOLEAN
  BY <1>1, <1>3, RequestDoes
<1>5. (IF ok THEN dev.speed ELSE 0) \in Nat
  BY <1>3, DeviceFields
<1>6. /\ termios' \in Termios /\ termios'.speed = (IF ok THEN dev.speed ELSE 0)
      /\ Asked(termios') = Asked(termios) /\ termios'.parity = termios.parity
  BY <1>1, <1>3, <1>5, TermiosFields
<1>7. TypeOK'
  BY <1>1, <1>2, <1>3, <1>4, <1>6 DEF TypeOK, Settings
<1>8. LineInv' /\ SetUpInv'
  BY <1>1, <1>2, <1>3, <1>6, SameLine DEF Inv, SetUpInv, Read, Reading, LineParts
<1>9. SpeedInv' /\ FlowInv'
  BY <1>1, <1>2, <1>6 DEF SpeedInv, FlowInv, Read
<1>10. QED
  BY <1>7, <1>8, <1>9 DEF Inv

(* What is read of the line control is shown, or in doubt.                 *)
LEMMA GetLineCtlStep == ASSUME Inv, GetLineCtl PROVE Inv'
<1>1. PICK ok \in BOOLEAN : \E line \in LineRead(ok) :
        /\ Request(<<ok>>)
        /\ bits' = line
        /\ termios' =
             [termios EXCEPT !.data = Supported(line).data,
                             !.parity = ShowParity(line.parity, @),
                             !.stop = Supported(line).stop]
        /\ doubt' = IF ok THEN doubt \ {s \in {"data", "stop"} :
                                         line[s] = Supported(line)[s]}
                    ELSE doubt \cup LineParts
  BY DEF GetLineCtl
<1> PICK line \in LineRead(ok) :
        /\ Request(<<ok>>)
        /\ bits' = line
        /\ termios' =
             [termios EXCEPT !.data = Supported(line).data,
                             !.parity = ShowParity(line.parity, @),
                             !.stop = Supported(line).stop]
        /\ doubt' = IF ok THEN doubt \ {s \in {"data", "stop"} :
                                         line[s] = Supported(line)[s]}
                    ELSE doubt \cup LineParts
  BY <1>1
<1>2. /\ pc = "get_line_ctl" /\ pc' = "correct"
      /\ UNCHANGED <<plugged, dev, todo, oldspeed, programmed>>
  BY DEF GetLineCtl
<1>3. TypeOK /\ dev \in Device /\ termios \in Termios /\ todo = {} /\ doubt \subseteq Settings
  BY <1>2 DEF Inv, TypeOK
<1>4. failures' \in 0..MaxFailures /\ clean' \in BOOLEAN
  BY <1>1, <1>3, RequestDoes
<1>5. line \in LineControl /\ (ok => line = dev.line)
  BY <1>1, <1>3, DeviceFields, Cp210xAssumption DEF LineRead
<1>6. /\ Supported(line).data \in {"5", "6", "7", "8"} /\ Supported(line).stop \in {"1", "2"}
      /\ Supported(line).parity = IF line.parity = "other" THEN "none" ELSE line.parity
      /\ line.parity \in {"none", "odd", "even", "mark", "space", "other"}
  BY <1>5, ThreeParts DEF Supported
<1>7. termios.parity \in SUBSET Flags /\ ShowParity(line.parity, termios.parity) \in SUBSET Flags
  BY <1>3, <1>6, ParityShown, TermiosFields
<1>8. /\ termios' \in Termios /\ termios'.speed = termios.speed
      /\ Asked(termios').data = Supported(line).data
      /\ Asked(termios').stop = Supported(line).stop
      /\ Asked(termios').parity = Parity(ShowParity(line.parity, termios.parity))
  BY <1>1, <1>3, <1>6, <1>7 DEF Termios, Asked
<1>9. TypeOK'
  BY <1>1, <1>2, <1>3, <1>4, <1>5, <1>8 DEF TypeOK, Settings, LineParts
<1>10. ASSUME ok, "parity" \notin doubt
       PROVE  Asked(termios').parity = Supported(line).parity
  <2>1. "CMSPAR" \notin termios.parity \/ Parity(termios.parity) = line.parity
    BY <1>2, <1>3, <1>5, <1>10, AskedParts DEF Inv, LineInv, Read, Reading
  <2>2. QED
    BY <1>6, <1>7, <1>8, <2>1, ParityShown
<1>11. LineInv'
  <2>1. \A p \in LineParts : p \in {"data", "parity", "stop"} /\ (p \notin doubt' => ok)
    BY <1>1 DEF LineParts
  <2>2. "parity" \notin doubt' => "parity" \notin doubt
    BY <1>1
  <2>3. ASSUME NEW p \in LineParts, p # "parity" \/ p \notin doubt'
        PROVE  Asked(termios')[p] = Supported(bits')[p]
    BY <1>1, <1>8, <1>10, <2>1, <2>2, <2>3
  <2>4. ASSUME NEW p \in LineParts, p \notin doubt' PROVE dev'.line[p] = bits'[p]
    BY <1>1, <1>2, <1>5, <2>1, <2>4
  <2>5. QED
    BY <1>2, <2>3, <2>4 DEF LineInv, Read, Reading
<1>12. SetUpInv'
  <2>1. ASSUME NEW p \in LineParts, programmed, p \notin doubt'
        PROVE  Supported(dev.line)[p] = dev.line[p]
    <3>1. ok
      BY <1>1, <2>1
    <3>2. p \notin doubt \/ Supported(line)[p] = line[p]
      BY <1>1, <2>1, <3>1
    <3>3. QED
      BY <1>5, <2>1, <3>1, <3>2 DEF Inv, SetUpInv
  <2>2. QED
    BY <1>2, <2>1 DEF Inv, SetUpInv
<1>13. SpeedInv' /\ FlowInv'
  BY <1>1, <1>2, <1>3, <1>8 DEF Inv, SpeedInv, FlowInv, Read, LineParts
<1>14. QED
  BY <1>9, <1>11, <1>12, <1>13 DEF Inv

(* A part that the device did not have in a form the termios can show is
   replaced by one it can. *)
LEMMA Replaced ==
  ASSUME NEW line \in LineControl, NEW p \in LineParts, NEW new,
         new = Put(line, p, Supported(line)[p])
  PROVE  /\ new \in LineControl
         /\ new[p] = Supported(line)[p]
         /\ \A q \in LineParts \ {p} : new[q] = line[q]
         /\ \A q \in LineParts : Supported(new)[q] = Supported(line)[q]
<1>1. /\ Supported(line) \in LineControl
      /\ Supported(Supported(line))[p] = Supported(line)[p]
  BY ThreeParts
<1>2. /\ new \in LineControl /\ new[p] = Supported(line)[p]
      /\ \A q \in LineParts \ {p} : new[q] = line[q]
  BY <1>1, OnePart
<1>3. ASSUME NEW q \in LineParts PROVE Supported(new)[q] = Supported(line)[q]
  <2>1. CASE q = p
    BY <1>1, <1>2, <2>1, PartAlone
  <2>2. CASE q # p
    BY <1>2, <2>2, PartAlone
  <2>3. QED
    BY <2>1, <2>2
<1>4. QED
  BY <1>2, <1>3

(* What get_termios works through are parts of the line. *)
LEMMA PartsAre == \A i \in DOMAIN Parts : Parts[i] \in LineParts
BY DEF Parts, LineParts

(* And no part is left out. *)
LEMMA AllParts == \A p \in LineParts : \E i \in DOMAIN Parts : Parts[i] = p
<1>1. 1 \in DOMAIN Parts /\ 2 \in DOMAIN Parts /\ 3 \in DOMAIN Parts
  BY DEF Parts
<1>2. Parts[1] = "data" /\ Parts[2] = "parity" /\ Parts[3] = "stop"
  BY DEF Parts
<1>3. QED
  BY <1>1, <1>2 DEF LineParts

(* get_termios, a part of the line it cannot show. *)
LEMMA CorrectStep == ASSUME Inv, Correct PROVE Inv'
<1>1. PICK i \in Unsupported(bits) :
        /\ bits' = [bits EXCEPT ![Parts[i]] = Supported(bits)[Parts[i]]]
        /\ \E ok \in BOOLEAN :
             /\ Request(<<ok>>)
             /\ dev' \in Written([dev EXCEPT !.line = bits'], ok)
             /\ doubt' = IF ok THEN doubt \ ({Parts[i]} \ {"parity"})
                         ELSE doubt \cup {Parts[i]}
  BY DEF Correct
<1>2. PICK ok \in BOOLEAN :
        /\ Request(<<ok>>)
        /\ dev' \in Written([dev EXCEPT !.line = bits'], ok)
        /\ doubt' = IF ok THEN doubt \ ({Parts[i]} \ {"parity"})
                    ELSE doubt \cup {Parts[i]}
  BY <1>1
<1> DEFINE p == Parts[i]
<1>3. p \in LineParts
  BY PartsAre DEF Unsupported
<1>4. /\ pc = "correct" /\ pc' = pc
      /\ UNCHANGED <<plugged, termios, todo, oldspeed, programmed>>
  BY DEF Correct
<1>5. /\ bits' = Put(bits, p, Supported(bits)[p])
      /\ dev' = [dev EXCEPT !.line = bits'] \/ (dev' = dev /\ ~ok)
      /\ doubt' = IF ok THEN doubt \ ({p} \ {"parity"}) ELSE doubt \cup {p}
  <2>1. dev' = [dev EXCEPT !.line = bits'] \/ (dev' = dev /\ ~ok)
    BY <1>2, WrittenIs
  <2>2. QED
    BY <1>1, <1>2, <2>1 DEF Put
<1> HIDE DEF p
<1>6. TypeOK /\ bits \in LineControl /\ dev \in Device /\ todo = {} /\ doubt \subseteq Settings
  BY <1>4 DEF Inv, TypeOK
<1>7. failures' \in 0..MaxFailures /\ clean' \in BOOLEAN
  BY <1>2, <1>6, RequestDoes
<1>8. /\ bits' \in LineControl /\ bits'[p] = Supported(bits)[p]
      /\ \A q \in LineParts \ {p} : bits'[q] = bits[q]
      /\ \A q \in LineParts : Supported(bits')[q] = Supported(bits)[q]
  BY <1>3, <1>5, <1>6, Replaced
<1>9. /\ dev' \in Device /\ dev'.speed = dev.speed /\ dev'.cts = dev.cts
      /\ dev'.line = bits' \/ (dev'.line = dev.line /\ ~ok)
  <2>1. CASE dev' = [dev EXCEPT !.line = bits']
    BY <1>6, <1>8, <2>1, NewLine
  <2>2. CASE dev' = dev /\ ~ok
    BY <1>6, <2>2
  <2>3. QED
    BY <1>5, <2>1, <2>2
<1>10. TypeOK'
  BY <1>3, <1>4, <1>5, <1>6, <1>7, <1>8, <1>9 DEF TypeOK, Settings
<1>11. \A q \in LineParts :
         /\ q # "parity" \/ q \notin doubt => Asked(termios)[q] = Supported(bits)[q]
         /\ q \notin doubt => dev.line[q] = bits[q]
  BY <1>4, <1>6 DEF Inv, LineInv, Reading
<1>12. \A q \in LineParts : q \notin doubt' =>
         /\ q # "parity" \/ q \notin doubt
         /\ (q # p => q \notin doubt) /\ (q = p => ok) /\ (~ok => q \notin doubt)
  BY <1>5
<1>13. LineInv'
  <2>1. ASSUME NEW q \in LineParts
        PROVE  q # "parity" \/ q \notin doubt' => Asked(termios')[q] = Supported(bits')[q]
    BY <1>4, <1>8, <1>11, <1>12
  <2>2. ASSUME NEW q \in LineParts, q \notin doubt' PROVE dev'.line[q] = bits'[q]
    BY <1>8, <1>9, <1>11, <1>12, <2>2
  <2>3. QED
    BY <1>4, <2>1, <2>2 DEF LineInv, Read, Reading
<1>14. SetUpInv'
  <2>1. ASSUME NEW q \in LineParts, programmed, q \notin doubt'
        PROVE  Supported(dev'.line)[q] = dev'.line[q]
    <3>1. CASE dev'.line = dev.line /\ ~ok
      BY <1>12, <2>1, <3>1 DEF Inv, SetUpInv
    <3>2. CASE dev'.line = bits' /\ q = p
      BY <1>8, <3>2
    <3>3. CASE dev'.line = bits' /\ q # p
      <4>1. Supported(dev.line)[q] = dev.line[q] /\ dev.line[q] = bits[q]
        BY <1>11, <1>12, <2>1, <3>3 DEF Inv, SetUpInv
      <4>2. bits'[q] = dev.line[q]
        BY <1>8, <3>3, <4>1
      <4>3. Supported(bits')[q] = Supported(dev.line)[q]
        BY <1>6, <1>8, <4>2, DeviceFields, PartAlone
      <4>4. QED
        BY <3>3, <4>1, <4>2, <4>3
    <3>4. QED
      BY <1>9, <3>1, <3>2, <3>3
  <2>2. QED
    BY <1>4, <1>9, <2>1 DEF Inv, SetUpInv
<1>15. SpeedInv' /\ FlowInv'
  BY <1>3, <1>4, <1>5, <1>9 DEF Inv, SpeedInv, FlowInv, Read, LineParts
<1>16. QED
  BY <1>10, <1>13, <1>14, <1>15 DEF Inv

(* get_termios, the flow control. *)
LEMMA GetFlowStep == ASSUME Inv, GetFlow PROVE Inv'
<1>1. PICK ok \in BOOLEAN, cts \in BOOLEAN :
        /\ Request(<<ok>>) /\ (ok => cts = dev.cts)
        /\ termios' = [termios EXCEPT !.crtscts = cts]
        /\ doubt' = IF ok THEN doubt \ {"flow"} ELSE doubt \cup {"flow"}
  BY DEF GetFlow
<1>2. /\ pc = "correct" /\ pc' = "set_baudrate" /\ bits' = NoLine
      /\ Unsupported(bits) = {}
      /\ UNCHANGED <<plugged, dev, todo, oldspeed, programmed>>
  BY DEF GetFlow
<1>3. TypeOK /\ termios \in Termios /\ todo = {} /\ doubt \subseteq Settings
  BY <1>2 DEF Inv, TypeOK
<1>4. failures' \in 0..MaxFailures /\ clean' \in BOOLEAN
  BY <1>1, <1>3, RequestDoes
<1>5. /\ termios' \in Termios /\ termios'.speed = termios.speed
      /\ Asked(termios') = Asked(termios) /\ termios'.crtscts = cts
  BY <1>1, <1>3, TermiosFields
<1>6. NoLine \in LineControl
  BY DEF NoLine, LineControl
<1>7. TypeOK'
  BY <1>1, <1>2, <1>3, <1>4, <1>5, <1>6 DEF TypeOK, Settings
<1>8. \A p \in LineParts : Supported(bits)[p] = bits[p]
  BY <1>2, AllParts DEF Unsupported
<1>9. \A p \in LineParts : p \notin doubt' => p \notin doubt
  BY <1>1 DEF LineParts
<1>10. LineInv'
  <2>1. ASSUME NEW p \in LineParts, p \notin doubt' PROVE Asked(termios')[p] = dev'.line[p]
    BY <1>2, <1>5, <1>8, <1>9, <2>1 DEF Inv, LineInv, Reading
  <2>2. QED
    BY <1>2, <2>1 DEF LineInv, Read, Reading
<1>11. SetUpInv'
  BY <1>2, <1>9 DEF Inv, SetUpInv
<1>12. SpeedInv' /\ FlowInv'
  BY <1>1, <1>2, <1>5 DEF Inv, SpeedInv, FlowInv
<1>13. QED
  BY <1>7, <1>10, <1>11, <1>12 DEF Inv

(* The open that succeeded throughout leaves a device that needs no correction *)
LEMMA InitSpeedStep == ASSUME Inv, InitSpeed PROVE Inv'
<1>1. /\ pc = "set_baudrate" /\ pc' = "generic_open" /\ programmed' = clean'
      /\ ChangeSpeed(9600)
      /\ UNCHANGED <<plugged, todo, oldspeed, bits>>
  BY DEF InitSpeed, locals
<1>2. /\ TypeOK /\ todo = {} /\ doubt \subseteq Settings
      /\ termios \in Termios /\ dev \in Device
  BY <1>1 DEF Inv, TypeOK
<1>3. /\ dev' \in Device /\ dev'.line = dev.line /\ dev'.cts = dev.cts
      /\ clean' => dev'.speed = quantise_baudrate(termios.speed)
      /\ termios' \in Termios /\ Asked(termios') = Asked(termios)
      /\ termios'.crtscts = termios.crtscts
      /\ \/ termios'.speed = dev'.speed /\ doubt' = doubt \ {"speed"}
         \/ doubt' = doubt \cup {"speed"}
      /\ failures' \in 0..MaxFailures /\ clean' \in BOOLEAN
  BY <1>1, <1>2, ChangeSpeedDoes
<1>4. TypeOK'
  <2>1. doubt' \subseteq Settings
    BY <1>2, <1>3 DEF Settings
  <2>2. QED
    BY <1>1, <1>2, <1>3, <2>1 DEF TypeOK
<1>5. \A p \in LineParts : p \notin doubt' => p \notin doubt
  BY <1>3 DEF LineParts
<1>6. ASSUME NEW p \in LineParts, p \notin doubt' PROVE Asked(termios)[p] = dev.line[p]
  BY <1>1, <1>2, <1>5, <1>6 DEF Inv, LineInv, Read
<1>7. LineInv'
  BY <1>1, <1>3, <1>6 DEF LineInv, Read, Reading
<1>8. SetUpInv'
  <2>1. ASSUME NEW p \in LineParts, p \notin doubt'
        PROVE  Supported(dev.line)[p] = dev.line[p]
    <3>1. Asked(termios) \in LineControl /\ Supported(Asked(termios))[p] = Asked(termios)[p]
      BY <1>2, AskedParts
    <3>2. Supported(dev.line)[p] = Supported(Asked(termios))[p]
      BY <1>2, <1>6, <2>1, <3>1, DeviceFields, PartAlone
    <3>3. QED
      BY <1>6, <2>1, <3>1, <3>2
  <2>2. clean' => quantise_baudrate(dev'.speed) = dev'.speed
    BY <1>2, <1>3, TermiosFields, Steady
  <2>3. QED
    BY <1>1, <1>3, <2>1, <2>2 DEF SetUpInv
<1>9. SpeedInv' /\ FlowInv'
  BY <1>1, <1>2, <1>3 DEF Inv, SpeedInv, FlowInv, Read
<1>10. QED
  BY <1>4, <1>7, <1>8, <1>9 DEF Inv

(* Open is over, whatever it returns. *)
LEMMA GenericOpenStep == ASSUME Inv, GenericOpen PROVE Inv'
<1>1. /\ pc = "generic_open" /\ pc' \in {"open", "closed"}
      /\ UNCHANGED <<plugged, dev, termios, todo, oldspeed, bits, programmed, doubt, clean, failures>>
  BY DEF GenericOpen, locals
<1>2. todo = {}
  BY <1>1 DEF Inv, TypeOK
<1>3. TypeOK'
  BY <1>1, <1>2 DEF Inv, TypeOK
<1>4. LineInv'
  BY <1>1, <1>2 DEF Inv, LineInv, Read, Reading, LineParts
<1>5. SpeedInv' /\ FlowInv' /\ SetUpInv'
  BY <1>1 DEF Inv, SpeedInv, FlowInv, SetUpInv, Read
<1>6. QED
  BY <1>3, <1>4, <1>5 DEF Inv

(* A setting that is to be changed is left out; the others are as before.  *)
LEMMA SetTermiosStep == ASSUME Inv, SetTermios PROVE Inv'
<1>1. /\ pc = "open" /\ todo = {}
      /\ todo' = {s \in Settings : Field(termios', s) # Field(termios, s)}
      /\ oldspeed' = IF "speed" \in todo' THEN termios.speed ELSE 0
      /\ UNCHANGED <<pc, plugged, dev, bits, programmed, doubt, clean, failures>>
  BY DEF SetTermios
<1>2. TypeOK /\ termios \in Termios
  BY DEF Inv, TypeOK
<1>3. termios' \in Termios
  <2>1. PICK speed \in Speeds \cup {termios.speed}, data \in Sizes,
             parity \in Parities, stop \in {"1", "2"}, crtscts \in BOOLEAN :
          termios' = [speed |-> speed, data |-> data, parity |-> parity,
                      stop |-> stop, crtscts |-> crtscts]
    BY DEF SetTermios
  <2>2. /\ speed \in Nat /\ data \in {"5", "6", "7", "8"} /\ parity \in SUBSET Flags
        /\ stop \in {"1", "2"} /\ crtscts \in BOOLEAN
    BY <1>2, <2>1, Cp210xAssumption, TermiosFields
  <2>3. QED
    BY <2>1, <2>2 DEF Termios
<1>4. todo' \subseteq Settings /\ oldspeed' \in Nat
  BY <1>1, <1>2, TermiosFields
<1>5. TypeOK'
  BY <1>1, <1>2, <1>3, <1>4 DEF TypeOK
<1>6. ASSUME NEW s \in Settings, s \notin todo' PROVE Field(termios', s) = Field(termios, s)
  BY <1>1, <1>6
<1>7. LineInv'
  <2>1. ASSUME NEW p \in LineParts, p \notin doubt, p \notin todo'
        PROVE  Asked(termios')[p] = Asked(termios)[p]
    <3>1. Field(termios', p) = Field(termios, p)
      BY <1>6, <2>1 DEF Settings
    <3>2. p \in {"data", "parity", "stop"}
      BY <2>1 DEF LineParts
    <3>3. termios'[p] = termios[p]
      BY <3>1, <3>2 DEF Field
    <3>4. QED
      BY <3>2, <3>3 DEF Asked
  <2>2. QED
    BY <1>1, <2>1 DEF Inv, LineInv, Read, Reading
<1>8. SpeedInv'
  <2>1. "speed" \notin todo' => termios'.speed = termios.speed
    BY <1>6 DEF Settings, Field
  <2>2. QED
    BY <1>1, <2>1 DEF Inv, SpeedInv
<1>9. FlowInv'
  <2>1. "flow" \notin todo' => termios'.crtscts = termios.crtscts
    BY <1>6 DEF Settings, Field
  <2>2. QED
    BY <1>1, <2>1 DEF Inv, FlowInv, Read
<1>10. SetUpInv'
  BY <1>1 DEF Inv, SetUpInv
<1>11. QED
  BY <1>5, <1>7, <1>8, <1>9, <1>10 DEF Inv

(* set_termios is at the setting whose turn it is. *)
LEMMA InTurn ==
  ASSUME TypeOK, NEW s, Turn(s)
  PROVE  /\ pc = "open" /\ s \in todo /\ todo \subseteq Settings
         /\ todo' = todo \ {s}
BY DEF TypeOK, Turn

(* A rate that is refused leaves the tty with the old one, and a doubt
   unless the device has that one. *)
LEMMA UpdateSpeedStep == ASSUME Inv, UpdateSpeed PROVE Inv'
<1>1. /\ Turn("speed") /\ ChangeSpeed(oldspeed) /\ oldspeed' = 0
      /\ UNCHANGED <<pc, plugged, bits, programmed>>
  BY DEF UpdateSpeed
<1>2. /\ TypeOK /\ oldspeed \in Nat /\ doubt \subseteq Settings
      /\ termios \in Termios /\ dev \in Device
  BY DEF Inv, TypeOK
<1>3. pc = "open" /\ todo \subseteq Settings /\ todo' = todo \ {"speed"}
  BY <1>1, <1>2, InTurn
<1>4. /\ dev' \in Device /\ dev'.line = dev.line /\ dev'.cts = dev.cts
      /\ dev'.speed \in {dev.speed, quantise_baudrate(termios.speed)}
      /\ termios' \in Termios /\ Asked(termios') = Asked(termios)
      /\ termios'.crtscts = termios.crtscts
      /\ \/ termios'.speed = dev'.speed /\ doubt' = doubt \ {"speed"}
         \/ doubt' = doubt \cup {"speed"}
      /\ failures' \in 0..MaxFailures /\ clean' \in BOOLEAN
  BY <1>1, <1>2, ChangeSpeedDoes
<1>5. TypeOK'
  <2>1. doubt' \subseteq Settings
    BY <1>2, <1>4 DEF Settings
  <2>2. QED
    BY <1>1, <1>2, <1>3, <1>4, <2>1 DEF TypeOK
<1>6. \A s \in LineParts \cup {"flow"} : s \notin doubt' \cup todo' => s \notin doubt \cup todo
  BY <1>3, <1>4 DEF LineParts
<1>7. LineInv'
  BY <1>1, <1>3, <1>4, <1>6 DEF Inv, LineInv, Read, Reading
<1>8. SetUpInv'
  <2>1. programmed => quantise_baudrate(dev'.speed) = dev'.speed
    BY <1>2, <1>4, TermiosFields, Steady DEF Inv, SetUpInv
  <2>2. \A p \in LineParts : p \notin doubt' => p \notin doubt
    BY <1>4 DEF LineParts
  <2>3. QED
    BY <1>1, <1>4, <2>1, <2>2 DEF Inv, SetUpInv
<1>9. SpeedInv' /\ FlowInv'
  BY <1>1, <1>3, <1>4, <1>6 DEF Inv, SpeedInv, FlowInv, Read
<1>10. QED
  BY <1>5, <1>7, <1>8, <1>9 DEF Inv

(* The parts that are written back are those that were read, or in doubt.  *)
LEMMA UpdateLineStep == ASSUME Inv, NEW s \in LineParts, UpdateLine(s) PROVE Inv'
<1>1. PICK got \in BOOLEAN, put \in BOOLEAN :
        \E line \in LineRead(got) :
          /\ Request(<<got, put>>)
          /\ dev' \in Written([dev EXCEPT !.line =
                                 [line EXCEPT ![s] = Asked(termios)[s]]], put)
          /\ doubt' = LET others == IF got THEN doubt ELSE doubt \cup LineParts
                      IN IF put THEN others \ {s} ELSE others \cup {s}
  BY DEF UpdateLine
<1>2. PICK line \in LineRead(got) :
        /\ Request(<<got, put>>)
        /\ dev' \in Written([dev EXCEPT !.line =
                               [line EXCEPT ![s] = Asked(termios)[s]]], put)
        /\ doubt' = LET others == IF got THEN doubt ELSE doubt \cup LineParts
                    IN IF put THEN others \ {s} ELSE others \cup {s}
  BY <1>1
<1>3. Turn(s) /\ UNCHANGED <<pc, plugged, termios, oldspeed, bits, programmed>>
  BY DEF UpdateLine
<1>4. TypeOK /\ dev \in Device /\ termios \in Termios /\ doubt \subseteq Settings
  BY DEF Inv, TypeOK
<1>5. /\ pc = "open" /\ todo \subseteq Settings /\ todo' = todo \ {s}
      /\ failures' \in 0..MaxFailures /\ clean' \in BOOLEAN
  BY <1>2, <1>3, <1>4, InTurn, RequestsDo
<1>6. line \in LineControl /\ (got => line = dev.line)
  BY <1>4, <1>2, DeviceFields, Cp210xAssumption DEF LineRead
<1> DEFINE new == Put(line, s, Asked(termios)[s])
<1>7. dev' = [dev EXCEPT !.line = new] \/ (dev' = dev /\ ~put)
  <2>1. dev' \in Written([dev EXCEPT !.line = new], put)
    BY <1>2 DEF Put
  <2>2. QED
    BY <2>1, WrittenIs
<1>8. /\ new \in LineControl /\ new[s] = Asked(termios)[s]
      /\ \A q \in LineParts \ {s} : new[q] = line[q]
  BY <1>4, <1>6, AskedParts, OnePart
<1> HIDE DEF new
<1>9. /\ dev' \in Device /\ dev'.speed = dev.speed /\ dev'.cts = dev.cts
      /\ dev'.line = new \/ (dev'.line = dev.line /\ ~put)
  <2>1. CASE dev' = [dev EXCEPT !.line = new]
    BY <1>4, <1>8, <2>1, NewLine
  <2>2. CASE dev' = dev /\ ~put
    BY <1>4, <2>2
  <2>3. QED
    BY <1>7, <2>1, <2>2
<1>10. /\ \A q \in LineParts : q \notin doubt' =>
            (q = s => put) /\ (q # s => got /\ q \notin doubt)
       /\ \A q \in {"speed", "flow"} : q \in doubt' <=> q \in doubt
       /\ doubt' \subseteq Settings
  BY <1>2, <1>4 DEF LineParts, Settings
<1>11. TypeOK'
  BY <1>3, <1>4, <1>5, <1>9, <1>10 DEF TypeOK
<1>12. ASSUME NEW q \in LineParts, q \notin doubt', q # s
       PROVE  dev'.line[q] = dev.line[q] /\ q \notin doubt
  BY <1>6, <1>8, <1>9, <1>10, <1>12
<1>13. s \notin doubt' => dev'.line[s] = Asked(termios)[s]
  BY <1>8, <1>9, <1>10
<1>14. LineInv'
  <2>1. ASSUME NEW q \in LineParts, q \notin doubt' \cup todo'
        PROVE  Asked(termios)[q] = dev'.line[q]
    <3>1. CASE q = s
      BY <1>13, <2>1, <3>1
    <3>2. CASE q # s
      BY <1>5, <1>12, <2>1, <3>2 DEF Inv, LineInv, Read
    <3>3. QED
      BY <3>1, <3>2
  <2>2. QED
    BY <1>3, <1>5, <2>1 DEF LineInv, Read, Reading
<1>15. SetUpInv'
  <2>1. ASSUME NEW q \in LineParts, q \notin doubt', programmed
        PROVE  Supported(dev'.line)[q] = dev'.line[q]
    <3>1. dev'.line \in LineControl /\ dev.line \in LineControl
      BY <1>4, <1>9, DeviceFields
    <3>2. CASE q = s
      <4>1. Asked(termios) \in LineControl /\ Supported(Asked(termios))[q] = Asked(termios)[q]
        BY <1>4, AskedParts
      <4>2. Supported(dev'.line)[q] = Supported(Asked(termios))[q]
        BY <1>13, <2>1, <3>1, <3>2, <4>1, PartAlone
      <4>3. QED
        BY <1>13, <2>1, <3>2, <4>1, <4>2
    <3>3. CASE q # s
      <4>1. dev'.line[q] = dev.line[q] /\ Supported(dev.line)[q] = dev.line[q]
        BY <1>12, <2>1, <3>3 DEF Inv, SetUpInv
      <4>2. Supported(dev'.line)[q] = Supported(dev.line)[q]
        BY <3>1, <4>1, PartAlone
      <4>3. QED
        BY <4>1, <4>2
    <3>4. QED
      BY <3>2, <3>3
  <2>2. QED
    BY <1>3, <1>9, <2>1 DEF Inv, SetUpInv
<1>16. SpeedInv' /\ FlowInv'
  <2>1. \A q \in {"speed", "flow"} : q \notin todo' => q \notin todo
    BY <1>5 DEF LineParts
  <2>2. QED
    BY <1>3, <1>5, <1>9, <1>10, <2>1 DEF Inv, SpeedInv, FlowInv, Read
<1>17. QED
  BY <1>11, <1>14, <1>15, <1>16 DEF Inv

(* set_termios, the flow control. *)
LEMMA UpdateFlowStep == ASSUME Inv, UpdateFlow PROVE Inv'
<1>1. PICK got \in BOOLEAN, put \in BOOLEAN, rts \in SUBSET {"flow", "static"} :
        /\ Request(<<got, put>>)
        /\ dev' \in Written(
             [dev EXCEPT !.cts = termios.crtscts,
                         !.rts = IF termios.crtscts THEN {"flow"}
                                 ELSE rts \cup {"static"}], put)
        /\ doubt' = IF put THEN doubt \ {"flow"} ELSE doubt \cup {"flow"}
  BY DEF UpdateFlow
<1>2. Turn("flow") /\ UNCHANGED <<pc, plugged, termios, oldspeed, bits, programmed>>
  BY DEF UpdateFlow
<1>3. TypeOK /\ dev \in Device /\ termios \in Termios /\ doubt \subseteq Settings
  BY DEF Inv, TypeOK
<1>4. /\ pc = "open" /\ todo \subseteq Settings /\ todo' = todo \ {"flow"}
      /\ failures' \in 0..MaxFailures /\ clean' \in BOOLEAN
  BY <1>1, <1>2, <1>3, InTurn, RequestsDo
<1>5. /\ dev' \in Device /\ dev'.speed = dev.speed /\ dev'.line = dev.line
      /\ dev'.cts = termios.crtscts \/ (dev'.cts = dev.cts /\ ~put)
  <2> DEFINE r == IF termios.crtscts THEN {"flow"} ELSE rts \cup {"static"}
  <2>1. \/ dev' = [dev EXCEPT !.cts = termios.crtscts, !.rts = r]
        \/ dev' = dev /\ ~put
    BY <1>1, WrittenIs
  <2>2. r \in SUBSET {"flow", "static"}
    BY <1>1
  <2> HIDE DEF r
  <2>3. CASE dev' = [dev EXCEPT !.cts = termios.crtscts, !.rts = r]
    <3>1. termios.crtscts \in BOOLEAN
      BY <1>3, TermiosFields
    <3>2. QED
      BY <1>3, <2>2, <2>3, <3>1 DEF Device
  <2>4. CASE dev' = dev /\ ~put
    BY <1>3, <2>4
  <2>5. QED
    BY <2>1, <2>3, <2>4
<1>6. doubt' \subseteq Settings
  BY <1>1, <1>3 DEF Settings
<1>7. TypeOK'
  BY <1>2, <1>3, <1>4, <1>5, <1>6 DEF TypeOK
<1>8. \A s \in LineParts \cup {"speed"} :
        (s \notin doubt' => s \notin doubt) /\ (s \notin todo' => s \notin todo)
  BY <1>1, <1>4 DEF LineParts
<1>9. LineInv'
  BY <1>2, <1>4, <1>5, <1>8 DEF Inv, LineInv, Read, Reading
<1>10. SetUpInv'
  BY <1>2, <1>5, <1>8 DEF Inv, SetUpInv
<1>11. SpeedInv' /\ FlowInv'
  BY <1>1, <1>2, <1>4, <1>5, <1>8 DEF Inv, SpeedInv, FlowInv, Read
<1>12. QED
  BY <1>7, <1>9, <1>10, <1>11 DEF Inv

(* Close forgets the tty, not the device. *)
LEMMA CloseStep == ASSUME Inv, Close PROVE Inv'
<1>1. PICK ok \in BOOLEAN :
        IF plugged THEN /\ Request(<<ok>>)
                        /\ dev' \in Written([dev EXCEPT !.on = FALSE], ok)
        ELSE UNCHANGED <<dev, clean, failures>>
  BY DEF Close
<1>2. /\ pc = "open" /\ todo = {} /\ pc' = "closed"
      /\ UNCHANGED <<plugged, termios, todo, oldspeed, bits, programmed, doubt>>
  BY DEF Close, locals
<1>3. TypeOK /\ dev \in Device
  BY DEF Inv, TypeOK
<1>4. failures' \in 0..MaxFailures /\ clean' \in BOOLEAN
  BY <1>1, <1>3, RequestDoes DEF TypeOK
<1>5. dev' \in Device /\ dev'.line = dev.line /\ dev'.cts = dev.cts /\ dev'.speed = dev.speed
  <2>1. dev' = [dev EXCEPT !.on = FALSE] \/ dev' = dev
    BY <1>1, WrittenIs
  <2>2. QED
    BY <1>3, <2>1, NewOn
<1>6. TypeOK'
  BY <1>2, <1>3, <1>4, <1>5 DEF TypeOK
<1>7. LineInv'
  BY <1>2, <1>5 DEF Inv, LineInv, Read, Reading, LineParts
<1>8. SpeedInv' /\ FlowInv' /\ SetUpInv'
  BY <1>2, <1>5 DEF Inv, SpeedInv, FlowInv, SetUpInv, Read
<1>9. QED
  BY <1>6, <1>7, <1>8 DEF Inv

-----------------------------------------------------------------------------
(* The theorems                                                            *)

(* Inv over a whole run. *)
LEMMA Invariant == Spec => []Inv
<1>1. Init => Inv
  <2> SUFFICES ASSUME Init PROVE Inv
    OBVIOUS
  <2>1. StdTermios \in Termios /\ StdTermios.parity = {}
    BY DEF StdTermios, Termios
  <2>2. NoLine \in LineControl
    BY DEF NoLine, LineControl
  <2>3. TypeOK
    <3>1. dev \in Device /\ 0 \in 0..MaxFailures
      BY Cp210xAssumption DEF Init
    <3>2. QED
      BY <2>1, <2>2, <3>1 DEF Init, TypeOK
  <2>4. QED
    BY <2>1, <2>3 DEF Init, Inv, LineInv, SpeedInv, FlowInv, SetUpInv, Read, Reading
<1>2. Inv /\ [Next]_vars => Inv'
  <2> SUFFICES ASSUME Inv, [Next]_vars PROVE Inv'
    OBVIOUS
  <2>1. CASE UNCHANGED vars
    BY <2>1 DEF vars, Inv, TypeOK, LineInv, SpeedInv, FlowInv, SetUpInv, Read, Reading
  <2>2. CASE Next
    BY <2>2, StartupStep, UnplugStep, EnableUartStep, GetBaudrateStep,
       GetLineCtlStep, CorrectStep, GetFlowStep, InitSpeedStep, GenericOpenStep,
       SetTermiosStep, UpdateSpeedStep, UpdateLineStep, UpdateFlowStep, CloseStep
       DEF Next, Open
  <2>3. QED
    BY <2>1, <2>2
<1>3. QED
  BY <1>1, <1>2, PTL DEF Spec

(* The types of the tty, of the device's registers and of the locals of open
   and set_termios, whatever fails and whenever the device is unplugged. *)
THEOREM TypesOfThePort == Spec => []TypeOK
<1>1. Inv => TypeOK
  BY DEF Inv
<1>2. QED
  BY <1>1, Invariant, PTL

(* Whatever requests fail, whenever the device is unplugged, and whatever  *)
(* its registers hold when it comes back: what get_termios, change_speed   *)
(* and set_termios leave in the tty is what the device has, for every      *)
(* setting that no failed request was about.                               *)
THEOREM TtyShowsTheDevice == Spec => []SettingsAgree
<1>1. Inv => SettingsAgree
  <2> SUFFICES ASSUME Inv, pc = "open", NEW s \in Settings, s \notin doubt, s \notin todo
               PROVE  Agree(s)
    BY DEF SettingsAgree
  <2>1. s = "speed" \/ s = "flow" \/ s \in LineParts
    BY DEF Settings
  <2>2. CASE s = "speed"
    BY <2>2 DEF Inv, SpeedInv, Agree
  <2>3. CASE s = "flow"
    BY <2>3 DEF Inv, FlowInv, Read, Agree
  <2>4. CASE s \in LineParts
    <3>1. Asked(termios)[s] = dev.line[s]
      BY <2>4 DEF Inv, LineInv, Read
    <3>2. s # "speed" /\ s # "flow"
      BY <2>4 DEF LineParts
    <3>3. QED
      BY <3>1, <3>2 DEF Agree
  <2>5. QED
    BY <2>1, <2>2, <2>3, <2>4
<1>2. QED
  BY <1>1, Invariant, PTL

(* cp210x_open of a line that the driver has set up without a failure only *)
(* enables the UART: no part is corrected, and the rate that               *)
(* quantise_baudrate chose the first time it chooses again.                *)
THEOREM ReopenLeavesTheLine == Spec => OpenChangesNothing
<1>1. ASSUME Inv, Open, programmed, doubt = {}
      PROVE  [dev' EXCEPT !.on = dev.on] = dev
  <2>1. dev \in Device /\ TypeOK
    BY <1>1 DEF Inv, TypeOK
  <2>2. CASE EnableUart
    <3>1. dev' = [dev EXCEPT !.on = TRUE] \/ dev' = dev
      BY <2>2 DEF EnableUart, Written
    <3>2. QED
      BY <2>1, <3>1 DEF Device
  <2>3. CASE GetBaudrate \/ GetLineCtl \/ GetFlow \/ GenericOpen
    <3>1. dev' = dev
      BY <2>3 DEF GetBaudrate, GetLineCtl, GetFlow, GenericOpen
    <3>2. QED
      BY <2>1, <3>1 DEF Device
  <2>4. CASE Correct
    <3>1. PICK i \in DOMAIN Parts : bits[Parts[i]] # Supported(bits)[Parts[i]]
      BY <2>4 DEF Correct, Unsupported
    <3>2. Parts[i] \in LineParts
      BY PartsAre
    <3>3. bits[Parts[i]] = dev.line[Parts[i]]
      BY <1>1, <2>4, <3>2 DEF Inv, LineInv, Reading, Correct
    <3>4. Supported(dev.line)[Parts[i]] = dev.line[Parts[i]]
      BY <1>1, <3>2 DEF Inv, SetUpInv
    <3>5. bits \in LineControl /\ dev.line \in LineControl
      BY <2>1, DeviceFields DEF TypeOK
    <3>6. Supported(bits)[Parts[i]] = Supported(dev.line)[Parts[i]]
      BY <3>2, <3>3, <3>5, PartAlone
    <3>7. QED
      BY <3>1, <3>3, <3>4, <3>6
  <2>5. CASE InitSpeed
    <3>1. pc = "set_baudrate" /\ ChangeSpeed(9600)
      BY <2>5 DEF InitSpeed
    <3>2. termios.speed = dev.speed
      BY <1>1, <2>1, <3>1 DEF Inv, SpeedInv, TypeOK
    <3>3. quantise_baudrate(dev.speed) = dev.speed
      BY <1>1 DEF Inv, SetUpInv
    <3>4. dev' = [dev EXCEPT !.speed = dev.speed] \/ dev' = dev
      BY <3>1, <3>2, <3>3 DEF ChangeSpeed, Written
    <3>5. QED
      BY <2>1, <3>4 DEF Device
  <2>6. QED
    BY <1>1, <2>2, <2>3, <2>4, <2>5 DEF Open
<1>2. QED
  BY <1>1, Invariant, PTL DEF Spec, OpenChangesNothing
=============================================================================
