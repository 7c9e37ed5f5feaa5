------------------------------- MODULE Cp210x -------------------------------
(***************************************************************************)
(* bus/uart/cp210x/cp210x_3.5.c: one port of the CP210x USB serial         *)
(* converter.  The settings of a line live twice: in the termios of the    *)
(* tty, and in registers of the device that are read and written by        *)
(* control requests, any of which may fail.                                *)
(*                                                                         *)
(* cp210x_3.4.c and cp2105_3.10.c have the same functions; the latter      *)
(* keeps the private data per device and closes without looking whether    *)
(* the device is still there.  The tty core is external: it serialises     *)
(* open, set_termios and close of a port, hands set_termios the new        *)
(* termios in the tty and the old one as an argument, and keeps the        *)
(* termios while the port is closed, also over a replug.                   *)
(* The modem lines and the break have registers of their own and are left  *)
(* out.                                                                    *)
(***************************************************************************)
EXTENDS Naturals, Sequences, FiniteSets

CONSTANTS
  Speeds, Sizes, Parities,  \* what a user asks for
  Factory,        \* what the registers of a device may hold after a reset
  Unread,         \* line control that a failed get_config may leave behind
  MaxFailures     \* bound: failed requests to a device that is there

-----------------------------------------------------------------------------
(* cp210x_quantise_baudrate                                                *)

(* the rates up to 921600, with the largest request that is mapped to each *)
Quantum == <<
  <<300, 300>>, <<600, 600>>, <<1200, 1200>>, <<1800, 1800>>, <<2400, 2400>>,
  <<4000, 4000>>, <<4803, 4800>>, <<7207, 7200>>, <<9612, 9600>>,
  <<14428, 14400>>, <<16062, 16000>>, <<19250, 19200>>, <<28912, 28800>>,
  <<38601, 38400>>, <<51558, 51200>>, <<56280, 56000>>, <<58053, 57600>>,
  <<64111, 64000>>, <<77608, 76800>>, <<117028, 115200>>, <<129347, 128000>>,
  <<156868, 153600>>, <<237832, 230400>>, <<254234, 250000>>,
  <<273066, 256000>>, <<491520, 460800>>, <<567138, 500000>>,
  <<670254, 576000>>, <<999999, 921600>> >>

(* the branch of the chain of comparisons that is taken                    *)
Mapped(baud, i) == /\ baud <= Quantum[i][1]
                   /\ \A j \in 1..29 : j < i => baud > Quantum[j][1]
Row(baud) == CHOOSE i \in 1..29 : Mapped(baud, i)

quantise_baudrate(baud) ==
  IF baud >= 1000000 THEN IF baud > 2000000 THEN 2000000 ELSE baud
  ELSE Quantum[Row(baud)][2]

-----------------------------------------------------------------------------
(* The registers of the device, and the termios of the tty                 *)

LineParts == {"data", "parity", "stop"}
Settings == {"speed", "flow"} \cup LineParts

LineControl == [data : {"0", "5", "6", "7", "8", "9"},
                parity : {"none", "odd", "even", "mark", "space", "other"},
                stop : {"1", "1.5", "2", "other"}]

(* GET_FLOW and SET_FLOW: bit 3 of modem_ctl[0], bits 7 and 6 of [1]       *)
Device == [on : BOOLEAN, speed : Nat, line : LineControl,
           cts : BOOLEAN, rts : SUBSET {"flow", "static"}]

Flags == {"PARENB", "PARODD", "CMSPAR"}
Termios == [speed : Nat, data : {"5", "6", "7", "8"}, parity : SUBSET Flags,
            stop : {"1", "2"}, crtscts : BOOLEAN]

ASSUME Cp210xAssumption ==
  /\ Speeds \subseteq Nat /\ Sizes \subseteq {"5", "6", "7", "8"}
  /\ Parities \subseteq SUBSET Flags
  /\ Factory \subseteq Device /\ Factory # {}
  /\ Unread \subseteq LineControl
  /\ MaxFailures \in Nat

(* the parity that flags of a termios ask for *)
Parity(flags) ==
  CASE "PARENB" \notin flags -> "none"
    [] flags = {"PARENB"} -> "even"
    [] flags = {"PARENB", "PARODD"} -> "odd"
    [] flags = {"PARENB", "CMSPAR"} -> "space"
    [] flags = Flags -> "mark"

(* the line control that a termios asks for *)
Asked(t) == [data |-> t.data, parity |-> Parity(t.parity), stop |-> t.stop]

(* the flags of a termios after the parity of the device has been read *)
ShowParity(parity, flags) ==
  CASE parity = "odd" -> flags \cup {"PARENB", "PARODD"}
    [] parity = "even" -> (flags \ {"PARODD"}) \cup {"PARENB"}
    [] parity = "mark" -> Flags
    [] parity = "space" -> {"PARENB", "CMSPAR"}
    [] OTHER -> flags \ {"PARENB"}

(* Mutant: two stop bits are replaced by one *)
SupportedOneStop(line) ==
  [data |-> IF line.data \in {"0", "9"} THEN "8" ELSE line.data,
   parity |-> IF line.parity = "other" THEN "none" ELSE line.parity,
   stop |-> IF line.stop \in {"1.5", "2", "other"} THEN "1" ELSE line.stop]

(* line control that get_termios writes back in place of what it cannot show *)
Supported(line) ==
  [data |-> IF line.data \in {"0", "9"} THEN "8" ELSE line.data,
   parity |-> IF line.parity = "other" THEN "none" ELSE line.parity,
   stop |-> IF line.stop \in {"1.5", "other"} THEN "1" ELSE line.stop]

-----------------------------------------------------------------------------
VARIABLES
  pc,          \* which request is next
  plugged,     \* whether the device is there
  dev,         \* its registers
  termios,     \* tty->termios
  todo,        \* settings in which it differs from old_termios in set_termios
  oldspeed,    \* old_termios->c_ospeed
  bits,        \* local variable of get_termios_port
  programmed,  \* the device was opened before, since it was plugged in
  doubt,       \* settings that failed requests, or an old CMSPAR after a
               \* replug, may have left different
  clean,       \* no request of this open has failed
  failures

vars == <<pc, plugged, dev, termios, todo, oldspeed, bits, programmed, doubt,
          clean, failures>>
locals == <<todo, oldspeed, bits>>

NoLine == [data |-> "0", parity |-> "none", stop |-> "1"]
StdTermios == [speed |-> 9600, data |-> "8", parity |-> {}, stop |-> "1",
               crtscts |-> FALSE]

Init ==
  /\ pc = "closed" /\ plugged = FALSE
  /\ dev \in Factory
  /\ termios = StdTermios
  /\ todo = {} /\ oldspeed = 0 /\ bits = NoLine
  /\ programmed = FALSE /\ doubt = {} /\ clean = TRUE /\ failures = 0

(* Whether each of a series of requests succeeds: one to a device that is  *)
(* not there fails, any other may, for want of memory or by a timeout      *)
Outcome(results) ==
  LET failed == Cardinality({i \in DOMAIN results : ~results[i]})
  IN IF plugged THEN /\ failures + failed <= MaxFailures
                     /\ failures' = failures + failed
     ELSE failed = Len(results) /\ UNCHANGED failures

Request(results) ==
  /\ Outcome(results)
  /\ clean' = (clean /\ \A i \in DOMAIN results : results[i])

(* set_config: a request that fails may still have reached the device      *)
Written(new, ok) == IF ok THEN {new}
                    ELSE IF plugged THEN {dev, new} ELSE {dev}

(* get_config: its result is never looked at *)
LineRead(ok) == IF ok THEN {dev.line} ELSE Unread

-----------------------------------------------------------------------------
(* The device comes and goes                                               *)

(* cp210x_startup: usb_reset_device, and the private data; without memory  *)
(* for it there is no port.  A CMSPAR that the termios keeps is shown with *)
(* whatever parity the device comes up with.                               *)
Startup ==
  /\ ~plugged /\ pc = "closed"
  /\ plugged' = TRUE /\ programmed' = FALSE
  /\ dev' \in Factory
  /\ doubt' = IF "CMSPAR" \in termios.parity THEN doubt \cup {"parity"} ELSE doubt
  /\ UNCHANGED <<pc, termios, locals, clean, failures>>

Unplug ==
  /\ plugged
  /\ plugged' = FALSE
  /\ UNCHANGED <<pc, dev, termios, locals, programmed, doubt, clean, failures>>

-----------------------------------------------------------------------------
(* cp210x_open                                                             *)

EnableUart ==
  /\ pc = "closed" /\ plugged
  /\ \E ok \in BOOLEAN :
       /\ Outcome(<<ok>>)
       /\ dev' \in Written([dev EXCEPT !.on = TRUE], ok)
       /\ pc' = IF ok THEN "get_baudrate" ELSE "closed"
       /\ clean' = ok
  /\ UNCHANGED <<plugged, termios, locals, programmed, doubt>>

(* after a failure the rate is that of the zeroed buffer *)
GetBaudrate ==
  /\ pc = "get_baudrate"
  /\ \E ok \in BOOLEAN :
       /\ Request(<<ok>>)
       /\ termios' = [termios EXCEPT !.speed = IF ok THEN dev.speed ELSE 0]
       /\ doubt' = IF ok THEN doubt ELSE doubt \cup {"speed"}
  /\ pc' = "get_line_ctl"
  /\ UNCHANGED <<plugged, dev, locals, programmed>>

(* CMSPAR of an earlier open is not cleared: parity stays in doubt *)
GetLineCtl ==
  /\ pc = "get_line_ctl"
  /\ \E ok \in BOOLEAN : \E line \in LineRead(ok) :
       /\ Request(<<ok>>)
       /\ bits' = line
       /\ termios' =
            [termios EXCEPT !.data = Supported(line).data,
                            !.parity = ShowParity(line.parity, @),
                            !.stop = Supported(line).stop]
       /\ doubt' = IF ok THEN doubt \ {s \in {"data", "stop"} :
                                        line[s] = Supported(line)[s]}
                   ELSE doubt \cup LineParts
  /\ pc' = "correct"
  /\ UNCHANGED <<plugged, dev, todo, oldspeed, programmed>>

(* one request for each unsupported part, in this order *)
Parts == <<"data", "parity", "stop">>
Unsupported(line) == {i \in DOMAIN Parts :
                        line[Parts[i]] # Supported(line)[Parts[i]]}

Correct ==
  /\ pc = "correct"
  /\ \E i \in Unsupported(bits) :
       /\ \A j \in Unsupported(bits) : i <= j
       /\ bits' = [bits EXCEPT ![Parts[i]] = Supported(bits)[Parts[i]]]
       /\ \E ok \in BOOLEAN :
            /\ Request(<<ok>>)
            /\ dev' \in Written([dev EXCEPT !.line = bits'], ok)
            /\ doubt' = IF ok THEN doubt \ ({Parts[i]} \ {"parity"})
                        ELSE doubt \cup {Parts[i]}
  /\ UNCHANGED <<pc, plugged, termios, todo, oldspeed, programmed>>

GetFlow ==
  /\ pc = "correct" /\ Unsupported(bits) = {}
  /\ \E ok, cts \in BOOLEAN :
       /\ Request(<<ok>>) /\ (ok => cts = dev.cts)
       /\ termios' = [termios EXCEPT !.crtscts = cts]
       /\ doubt' = IF ok THEN doubt \ {"flow"} ELSE doubt \cup {"flow"}
  /\ pc' = "set_baudrate" /\ bits' = NoLine
  /\ UNCHANGED <<plugged, dev, todo, oldspeed, programmed>>

(* cp210x_change_speed, with the rate the termios gets after a failure *)
ChangeSpeed(otherwise) ==
  LET baud == quantise_baudrate(termios.speed)
  IN \E ok \in BOOLEAN :
       /\ Request(<<ok>>)
       /\ dev' \in Written([dev EXCEPT !.speed = baud], ok)
       /\ termios' = [termios EXCEPT !.speed = IF ok THEN baud ELSE otherwise]
       /\ doubt' = IF termios'.speed = dev'.speed THEN doubt \ {"speed"}
                   ELSE doubt \cup {"speed"}

InitSpeed ==
  /\ pc = "set_baudrate"
  /\ ChangeSpeed(9600)
  /\ pc' = "generic_open"
  /\ programmed' = clean'
  /\ UNCHANGED <<plugged, locals>>

(* the UART stays enabled when usb_serial_generic_open fails *)
GenericOpen ==
  /\ pc = "generic_open"
  /\ pc' \in {"open", "closed"}
  /\ UNCHANGED <<plugged, dev, termios, locals, programmed, doubt, clean,
                 failures>>

-----------------------------------------------------------------------------
(* cp210x_set_termios                                                      *)

(* the settings are compared one after the other, in this order *)
Order == <<"speed", "data", "parity", "stop", "flow">>

Field(t, s) == CASE s = "speed" -> t.speed [] s = "flow" -> t.crtscts
                 [] OTHER -> t[s]

SetTermios ==
  /\ pc = "open" /\ todo = {}
  /\ \E speed \in Speeds \cup {termios.speed}, data \in Sizes,
        parity \in Parities, stop \in {"1", "2"}, crtscts \in BOOLEAN :
       termios' = [speed |-> speed, data |-> data, parity |-> parity,
                   stop |-> stop, crtscts |-> crtscts]
  /\ todo' = {s \in Settings : Field(termios', s) # Field(termios, s)}
  /\ oldspeed' = IF "speed" \in todo' THEN termios.speed ELSE 0
  /\ UNCHANGED <<pc, plugged, dev, bits, programmed, doubt, clean, failures>>

(* s is the next setting that is to be changed *)
Turn(s) ==
  /\ s \in todo
  /\ \E i \in DOMAIN Order : Order[i] = s /\ \A j \in 1..(i - 1) : Order[j] \notin todo
  /\ todo' = todo \ {s}

UpdateSpeed ==
  /\ Turn("speed")
  /\ ChangeSpeed(oldspeed)
  /\ oldspeed' = 0
  /\ UNCHANGED <<pc, plugged, bits, programmed>>

(* Mutant: the line control is not read before a part of it is written *)
UpdateLineBlind(s) ==
  /\ Turn(s)
  /\ \E got, put \in BOOLEAN : \E line \in LineRead(got) :
       /\ Request(<<got, put>>)
       /\ dev' \in Written([dev EXCEPT !.line =
                              [NoLine EXCEPT ![s] = Asked(termios)[s]]], put)
       /\ doubt' = LET others == IF got THEN doubt ELSE doubt \cup LineParts
                   IN IF put THEN others \ {s} ELSE others \cup {s}
  /\ UNCHANGED <<pc, plugged, termios, oldspeed, bits, programmed>>

(* Data bits, parity and stop bits: what GET_LINE_CTL has left in bits is  *)
(* written back with one part changed, whether it was read or not          *)
UpdateLine(s) ==
  /\ Turn(s)
  /\ \E got, put \in BOOLEAN : \E line \in LineRead(got) :
       /\ Request(<<got, put>>)
       /\ dev' \in Written([dev EXCEPT !.line =
                              [line EXCEPT ![s] = Asked(termios)[s]]], put)
       /\ doubt' = LET others == IF got THEN doubt ELSE doubt \cup LineParts
                   IN IF put THEN others \ {s} ELSE others \cup {s}
  /\ UNCHANGED <<pc, plugged, termios, oldspeed, bits, programmed>>

(* Without CRTSCTS bit 6 of modem_ctl[1] is added to what was there *)
UpdateFlow ==
  /\ Turn("flow")
  /\ \E got, put \in BOOLEAN : \E rts \in SUBSET {"flow", "static"} :
       /\ Request(<<got, put>>) /\ (got => rts = dev.rts)
       /\ dev' \in Written(
            [dev EXCEPT !.cts = termios.crtscts,
                        !.rts = IF termios.crtscts THEN {"flow"}
                                ELSE rts \cup {"static"}], put)
       /\ doubt' = IF put THEN doubt \ {"flow"} ELSE doubt \cup {"flow"}
  /\ UNCHANGED <<pc, plugged, termios, oldspeed, bits, programmed>>

-----------------------------------------------------------------------------
(* cp210x_close: nothing is sent to a device that is gone *)
Close ==
  /\ pc = "open" /\ todo = {}
  /\ \E ok \in BOOLEAN :
       IF plugged THEN /\ Request(<<ok>>)
                       /\ dev' \in Written([dev EXCEPT !.on = FALSE], ok)
       ELSE UNCHANGED <<dev, clean, failures>>
  /\ pc' = "closed"
  /\ UNCHANGED <<plugged, termios, locals, programmed, doubt>>

Open == EnableUart \/ GetBaudrate \/ GetLineCtl \/ Correct \/ GetFlow
          \/ InitSpeed \/ GenericOpen
Next == Startup \/ Unplug \/ Open \/ SetTermios \/ UpdateSpeed
          \/ (\E s \in LineParts : UpdateLine(s)) \/ UpdateFlow \/ Close
Spec == Init /\ [][Next]_vars

-----------------------------------------------------------------------------
TypeOK ==
  /\ pc \in {"closed", "get_baudrate", "get_line_ctl", "correct",
             "set_baudrate", "generic_open", "open"}
  /\ plugged \in BOOLEAN /\ programmed \in BOOLEAN /\ clean \in BOOLEAN
  /\ dev \in Device
  /\ termios \in Termios
  /\ todo \subseteq Settings /\ (pc # "open" => todo = {}) /\ oldspeed \in Nat
  /\ bits \in LineControl
  /\ doubt \subseteq Settings
  /\ failures \in 0..MaxFailures

(* whether the tty shows a setting as the device has it *)
Agree(s) == CASE s = "speed" -> termios.speed = dev.speed
              [] s = "flow" -> termios.crtscts = dev.cts
              [] OTHER -> Asked(termios)[s] = dev.line[s]

(* The tty shows the settings of the line as the device has them, except   *)
(* those that a failed request was about, and a parity that CMSPAR of an   *)
(* earlier device spoils: a part of the line control that is written back, *)
(* or a refused speed, changes nothing else.                               *)
SettingsAgree == pc = "open" /\ plugged => \A s \in Settings \ (doubt \cup todo) : Agree(s)

(* Opening the port again leaves a line alone that the driver has set up:  *)
(* what it reads is what it would write, and the rate it has chosen is     *)
(* quantised to itself.                                                    *)
OpenChangesNothing ==
  [][Open /\ programmed /\ doubt = {} => [dev' EXCEPT !.on = dev.on] = dev]_vars

-----------------------------------------------------------------------------
(* What makes them inductive                                               *)

(* The line control: while it is read and corrected, bits stands between   *)
(* the tty and the device; and what is left of an earlier open can be read *)
(* as the parity of the device.                                            *)
Reading == pc = "correct"
Read == pc \in {"set_baudrate", "generic_open", "open"}
LineInv ==
  /\ Read => \A p \in LineParts \ (doubt \cup todo) : Asked(termios)[p] = dev.line[p]
  /\ Reading =>
       \A p \in LineParts :
         /\ p # "parity" \/ p \notin doubt => Asked(termios)[p] = Supported(bits)[p]
         /\ p \notin doubt => dev.line[p] = bits[p]
  /\ ~Read /\ ~Reading /\ "parity" \notin doubt /\ "CMSPAR" \in termios.parity
       => Asked(termios).parity = dev.line.parity

SpeedInv ==
  pc \notin {"closed", "get_baudrate"} /\ "speed" \notin doubt \cup todo
    => termios.speed = dev.speed

FlowInv == Read /\ "flow" \notin doubt \cup todo => termios.crtscts = dev.cts

(* A device that the driver has set up needs no correction.                *)
SetUpInv ==
  programmed => /\ quantise_baudrate(dev.speed) = dev.speed
                /\ \A p \in LineParts \ doubt : Supported(dev.line)[p] = dev.line[p]
=============================================================================
