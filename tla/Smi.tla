-------------------------------- MODULE Smi --------------------------------
(***************************************************************************)
(* The Arduino tools that set up Marvell switches over SMI, on top of the  *)
(* frames of SmiFrame.  bus/smi/arduino/sketch_mar28b/sketch_mar28b.ino    *)
(* differs from soc/arduino/tools/aup_tools/aup_tools.ino and the others   *)
(* in how it reaches the SERDES registers, which are behind a command and  *)
(* a data register of the switch: an operation is started by writing the   *)
(* command and takes the switch some time, and the tools poll its busy bit *)
(* a limited number of times.                                              *)
(*                                                                         *)
(* The switch is external: it does the operation that the command register *)
(* holds, with the data register as it is by then, and clears the busy     *)
(* bit.  A user takes longer to choose from the menu than the switch needs *)
(* for what it is doing.                                                   *)
(***************************************************************************)
EXTENDS SmiFrame

CONSTANTS
  Menu,        \* <<sketch, program>>: sessions with a tool, see SmiMenu
  SerdesRegs,  \* <<device, register>> behind the switch
  Polls,       \* 100 in the code
  Wrapped,     \* what the counter of while (i--) wraps to, 2^16 - 1
  MaxGiveUps   \* bound: loops that end although the switch is busy

Bits(n, w) == [i \in 1..w |-> (n \div 2^(w - i)) % 2]
Access(op, addr, reg, word) ==
  [op |-> op, at |-> <<Bits(addr, AddrBits), Bits(reg, RegBits)>>,
   word |-> Bits(word, DataBits)]

-----------------------------------------------------------------------------
(* The operations of a program                                             *)

write_smi(addr, reg, word) ==
  [do |-> "write", addr |-> addr, reg |-> reg, word |-> word]
read_smi(addr, reg) ==
  [do |-> "read", addr |-> addr, reg |-> reg, word |-> 0]
SERDES_write(dev, reg, word) ==
  [do |-> "SERDES_write", addr |-> dev, reg |-> reg, word |-> word]
SERDES_read(dev, reg) ==
  [do |-> "SERDES_read", addr |-> dev, reg |-> reg, word |-> 0]
(* read a port register and, unless it ends in the mode, write it back so *)
C_mode(port, mode) ==
  [do |-> "C_mode", addr |-> port, reg |-> 0, word |-> mode]

(* the tool is back in its menu *)
Pause == [do |-> "pause"]

Operations ==
  [do : {"read", "write", "SERDES_read", "SERDES_write", "C_mode"},
   addr : Nat, reg : Nat, word : Nat] \cup {Pause}

SW_Reset_88E6185 == << write_smi(\h1B, 4, \h8000) >>

(* the identifier is read but nothing is made of it *)
Switch_6390init == << read_smi(10, 3), C_mode(10, 9) >>

(* one round of the loop, with the right identifier *)
setupm == << read_smi(10, 3), C_mode(10, 9), C_mode(9, \hD) >>

SW_Reset == << write_smi(\h1B, 4, \hC001) >>

Copper(dev) == << SERDES_write(dev, \h16, 0), SERDES_write(dev, \h10, \h3070),
                  SERDES_write(dev, 0, \h1140),
                  write_smi(dev + \h10, 4, \h7F) >>

Base_X(dev, port) ==
  << SERDES_write(dev, \h16, 1), SERDES_write(dev, 0, \h8000),
     SERDES_write(dev, \h10, \h400D), SERDES_write(dev, \h16, 0),
     write_smi(port, 4, \h7F) >>

(* both ports are taken through each step together *)
Marvell_88E6321_2Copper2RJ45 ==
  SW_Reset \o [i \in 1..8 |-> IF i % 2 = 1 THEN Copper(3)[(i + 1) \div 2]
                              ELSE Copper(4)[i \div 2]]

Marvell_88E6321_0Copper_1000Base_X0 == SW_Reset \o Copper(3) \o Base_X(\h12, \h10)
Marvell_88E6321_1Copper_1000Base_X1 == SW_Reset \o Copper(4) \o Base_X(\h13, \h11)

SMI_88E6321_VPU2600_init ==
  SW_Reset \o Copper(3)
    \o << write_smi(\h15, 1, \hC003), write_smi(\h15, 4, \h7F) >>
    \o Base_X(\h12, \h10) \o Base_X(\h13, \h11)

-----------------------------------------------------------------------------
(* Mutant: a write does not wait for the operation before it *)
RoutineNoWait(tool, op) ==
  CASE op.do = "read" -> <<"read">>
    [] op.do = "write" -> <<"write">>
    [] op.do = "C_mode" -> <<"read", "mode">>
    [] op.do = "pause" -> <<"pause">>
    [] op.do = "SERDES_read" /\ tool = "mar28b" ->
         <<"poll", "command", "poll", "fetch">>
    [] op.do = "SERDES_write" /\ tool = "mar28b" ->
         <<"data", "command", "poll">>
    [] op.do = "SERDES_read" /\ tool # "mar28b" ->
         <<"clear", "command", "poll", "fetch">>
    [] op.do = "SERDES_write" /\ tool # "mar28b" ->
         <<"data", "command">>

(* Mutant: the data is fetched without waiting for the operation *)
RoutineFetchesAtOnce(tool, op) ==
  CASE op.do = "read" -> <<"read">>
    [] op.do = "write" -> <<"write">>
    [] op.do = "C_mode" -> <<"read", "mode">>
    [] op.do = "pause" -> <<"pause">>
    [] op.do = "SERDES_read" /\ tool = "mar28b" ->
         <<"poll", "command", "fetch">>
    [] op.do = "SERDES_write" /\ tool = "mar28b" ->
         <<"poll", "data", "poll", "command", "poll">>
    [] op.do = "SERDES_read" /\ tool # "mar28b" ->
         <<"clear", "command", "fetch">>
    [] op.do = "SERDES_write" /\ tool # "mar28b" ->
         <<"poll", "data", "poll", "command">>

(* The steps of an operation.  "poll" reads the command register until the *)
(* busy bit is clear, "clear" writes 0 to the data register before each of *)
(* these reads.                                                            *)
Routine(tool, op) ==
  CASE op.do = "read" -> <<"read">>
    [] op.do = "write" -> <<"write">>
    [] op.do = "C_mode" -> <<"read", "mode">>
    [] op.do = "pause" -> <<"pause">>
    [] op.do = "SERDES_read" /\ tool = "mar28b" ->
         <<"poll", "command", "poll", "fetch">>
    [] op.do = "SERDES_write" /\ tool = "mar28b" ->
         <<"poll", "data", "poll", "command", "poll">>
    [] op.do = "SERDES_read" /\ tool # "mar28b" ->
         <<"clear", "command", "poll", "fetch">>
    [] op.do = "SERDES_write" /\ tool # "mar28b" ->
         <<"poll", "data", "poll", "command">>

CMD == \h18
DATA == \h19
GLOBAL2 == \h1C
CmdAt == <<Bits(GLOBAL2, AddrBits), Bits(CMD, RegBits)>>
DataAt == <<Bits(GLOBAL2, AddrBits), Bits(DATA, RegBits)>>

Command(op) ==
  (IF op.do = "SERDES_read" THEN \h9800 ELSE \h9400)
    + ((op.addr % 32) * 32) + (op.reg % 32)

(* the widths are those of the code, which the command is made for         *)
ASSUME SmiAssumption ==
  /\ AddrBits = 5 /\ RegBits = 5 /\ DataBits = 16
  /\ CmdAt \in Registers /\ DataAt \in Registers
  /\ SerdesRegs \subseteq Addr \X Reg
  /\ Polls \in Nat /\ Wrapped \in Nat /\ MaxGiveUps \in Nat
  /\ \A m \in Menu : m[2] \in Seq(Operations) \ {<<>>}

(* What the tools are asked for.  A SERDES read never follows a SERDES     *)
(* write before the tool is back in its menu, and nobody types the address *)
(* of the command or the data register.                                    *)
Orderly(p) ==
  /\ \A i, j \in 1..Len(p) :
       i < j /\ p[i].do = "SERDES_write" /\ p[j].do = "SERDES_read"
         => \E k \in (i + 1)..(j - 1) : p[k].do = "pause"
  /\ \A i \in 1..Len(p) :
       p[i].do \in {"write", "C_mode"} =>
         Access("write", p[i].addr, p[i].reg, 0).at \notin {CmdAt, DataAt}

OrderlyMenu == \A m \in Menu : Orderly(m[2])

VARIABLES
  sketch,    \* which tool is on the Arduino
  program,   \* operations that are left of what was chosen
  steps,     \* steps that are left of the first of them
  polls,     \* what is left of the polls
  cleared,   \* in "clear": the data register has been written in this round
  asked,     \* commands that have been written
  executed,  \* operations that the switch has done
  gaveup,    \* loops that have ended although the switch was busy
  serdes     \* the SERDES registers

toolvars == <<sketch, program, steps, polls, cleared, asked, gaveup>>
switch == <<executed, serdes>>
allvars == <<vars, toolvars, switch>>

Zero == [i \in 1..DataBits |-> 0]

SmiInit ==
  /\ regs = [at \in Registers |-> Zero] /\ Init
  /\ \E m \in Menu : sketch = m[1] /\ program = m[2]
  /\ steps = Routine(sketch, Head(program)) /\ polls = Polls /\ cleared = FALSE
  /\ asked = <<>> /\ executed = 0 /\ gaveup = 0
  /\ serdes = [at \in SerdesRegs |-> Bits(\h1234, DataBits)]

-----------------------------------------------------------------------------
Running == program # <<>>
Op == Head(program)
Step == IF Running THEN Head(steps) ELSE "none"
InLoop == Step \in {"poll", "clear"}
Busy == regs[CmdAt][1] = 1

Finish == steps' = <<>> /\ program' = <<>> /\ polls' = Polls

(* to the next step, with what is left of the polls *)
Advance(left) ==
  IF Len(steps) > 1 THEN steps' = Tail(steps) /\ polls' = left
                         /\ UNCHANGED program
  ELSE IF Len(program) > 1 THEN /\ program' = Tail(program) /\ polls' = Polls
                                /\ steps' = Routine(sketch, program[2])
  ELSE Finish

(* what the mode bits of a port register become *)
WithMode(word, mode) ==
  [i \in 1..DataBits |-> IF i > DataBits - 4 THEN Bits(mode, DataBits)[i]
                         ELSE word[i]]

(* the access that a step makes *)
AccessOf ==
  CASE Step = "read" -> Access("read", Op.addr, Op.reg, 0)
    [] Step = "write" -> Access("write", Op.addr, Op.reg, Op.word)
    [] Step = "mode" -> [Access("write", Op.addr, Op.reg, 0) EXCEPT !.word =
                           WithMode(result, Op.word)]
    [] Step = "clear" /\ ~cleared -> Access("write", GLOBAL2, DATA, 0)
    [] Step = "poll" \/ (Step = "clear" /\ cleared) ->
         Access("read", GLOBAL2, CMD, 0)
    [] Step = "data" -> Access("write", GLOBAL2, DATA, Op.word)
    [] Step = "command" -> Access("write", GLOBAL2, CMD, Command(Op))
    [] Step = "fetch" -> Access("read", GLOBAL2, DATA, 0)

NothingToDo ==
  \/ Step = "pause"
  \/ Step = "mode" /\ result = WithMode(result, Op.word)

Skip ==
  /\ Running /\ ~busy /\ NothingToDo
  /\ Step = "pause" => ~Busy
  /\ Advance(Polls)
  /\ UNCHANGED <<vars, sketch, cleared, asked, gaveup, switch>>

Call ==
  /\ Running /\ ~busy /\ ~NothingToDo
  /\ InLoop => polls > 0 \/ cleared
  /\ Start(AccessOf)
  /\ polls' = IF InLoop /\ ~cleared THEN polls - 1 ELSE polls
  /\ cleared' = (Step = "clear" /\ ~cleared)
  /\ asked' = IF Step = "command" THEN Append(asked, Op) ELSE asked
  /\ UNCHANGED <<sketch, program, steps, gaveup, switch>>

(* while (i--) leaves the polls that are left to the second loop, and the  *)
(* wrapped counter when there are none; for (i = 0; i < 100; i++) starts   *)
(* each loop afresh                                                        *)
Left(i) == IF sketch = "mar28b" THEN Polls ELSE i

(* Mutant: the loop waits for the switch *)
GiveUpNever ==
  /\ Running /\ ~busy /\ InLoop /\ polls = 0 /\ ~cleared /\ ~Busy
  /\ gaveup' = IF Busy THEN gaveup + 1 ELSE gaveup
  /\ gaveup' <= MaxGiveUps
  /\ Advance(Left(Wrapped))
  /\ UNCHANGED <<vars, sketch, cleared, asked, switch>>

GiveUp ==
  /\ Running /\ ~busy /\ InLoop /\ polls = 0 /\ ~cleared
  /\ gaveup' = IF Busy THEN gaveup + 1 ELSE gaveup
  /\ gaveup' <= MaxGiveUps
  /\ Advance(Left(Wrapped))
  /\ UNCHANGED <<vars, sketch, cleared, asked, switch>>

(* the frame ends; a poll that finds the busy bit set is made again *)
Done ==
  /\ Running
  /\ Return
  /\ IF cleared \/ (InLoop /\ result'[1] = 1)
     THEN UNCHANGED <<program, steps, polls>>
     ELSE Advance(Left(polls))
  /\ UNCHANGED <<sketch, cleared, asked, gaveup, switch>>

Clock ==
  /\ Pulse
  /\ UNCHANGED <<toolvars, switch>>

SerdesValue(at) == IF at \in SerdesRegs THEN serdes[at] ELSE Ones

(* the switch does what the command register says *)
Execute ==
  /\ Busy
  /\ LET cmd == regs[CmdAt]
         at == <<SubSeq(cmd, 7, 11), SubSeq(cmd, 12, 16)>>
         idle == [regs EXCEPT ![CmdAt][1] = 0]
     IN IF cmd[5] = 1
        THEN /\ regs' = [idle EXCEPT ![DataAt] = SerdesValue(at)]
             /\ UNCHANGED serdes
        ELSE /\ regs' = idle
             /\ serdes' = IF at \in SerdesRegs
                          THEN [serdes EXCEPT ![at] = regs[DataAt]] ELSE serdes
  /\ executed' = executed + 1
  /\ UNCHANGED <<master, decoder, toolvars>>

Tool == Skip \/ Call \/ GiveUp \/ Done \/ Clock
SmiNext == Tool \/ Execute

(* The Arduino runs.  The switch may stay busy for ever, but not while the *)
(* user is choosing, nor when the bound on give-ups is used up.            *)
Settle == Execute /\ (gaveup = MaxGiveUps \/ Step = "pause")

SmiSpec == SmiInit /\ [][SmiNext]_allvars /\ WF_allvars(Tool) /\ WF_allvars(Settle)

-----------------------------------------------------------------------------
SmiTypeOK ==
  /\ TypeOK
  /\ polls \in 0..(Polls + Wrapped) /\ cleared \in BOOLEAN
  /\ executed \in 0..Len(asked) /\ gaveup \in 0..MaxGiveUps
  /\ (program = <<>>) <=> (steps = <<>>)
  /\ serdes \in [SerdesRegs -> Word]

(* As long as no loop gives up, what the switch is about to do is the last *)
(* operation that was asked for, with its own data, and every one before   *)
(* was done.                                                               *)
SerdesInOrder ==
  gaveup = 0 /\ Busy =>
    LET op == asked[Len(asked)]
    IN /\ executed = Len(asked) - 1
       /\ regs[CmdAt] = Bits(Command(op), DataBits)
       /\ op.do = "SERDES_write" => regs[DataAt] = Bits(op.word, DataBits)

(* As long as no loop gives up, SERDES_read returns what the SERDES        *)
(* register holds, not what was left in the data register.                 *)
SerdesReadRight ==
  busy /\ Step = "fetch" /\ pos = Pulses /\ gaveup = 0 =>
    got = SerdesValue(<<Bits(Op.addr, AddrBits), Bits(Op.reg, RegBits)>>)

(* The tool gets through its program, also when the switch stays busy: its *)
(* loops end, with the counter that starts afresh and the one that wraps.  *)
Completes == <>(program = <<>>)
=============================================================================
