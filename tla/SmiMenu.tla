------------------------------ MODULE SmiMenu ------------------------------
(***************************************************************************)
(* The menus of the Arduino tools: what a tool does for what a user types. *)
(* The sketches have one menu, in setup(); aup_tools.ino has four, which   *)
(* it goes through with the numbers that are typed.  A request is what is  *)
(* typed at one prompt, [sel, a, b, v]: the entry and, where the entry     *)
(* asks for them, two addresses and a value.  The tools keep them in       *)
(* uint8_t, the sketches the value in uint16_t.  Numbers are not negative: *)
(* parseInt takes them as they come and returns 0 when nobody types.       *)
(***************************************************************************)
EXTENDS Smi, SequencesExt

Byte(n) == n % 256
Half(n) == n % 65536

Only(valid, ops) == IF valid THEN ops ELSE <<>>

(* every register of the ports from first to just before last *)
Dump(inner, first, last) ==
  [k \in 1..(32 * (IF last > first THEN last - first ELSE 0)) |->
     LET port == first + (k - 1) \div 32
         reg == (k - 1) % 32
     IN IF inner THEN SERDES_read(port, reg) ELSE read_smi(port, reg)]

-----------------------------------------------------------------------------
(* The sketches                                                            *)

MdioEntry(u) ==
  LET sel == Byte(u.sel)
      phy == Byte(u.a)
      reg == Byte(u.b)
      valid == phy <= 31 /\ reg <= 31
  IN CASE sel = 1 -> Only(valid, << read_smi(phy, reg) >>)
       [] sel = 2 -> Only(valid, << write_smi(phy, reg, Half(u.v)) >>)
       [] sel = 3 -> Dump(FALSE, phy, reg)
       [] sel = 4 -> Only(valid, << SERDES_read(phy, reg) >>)
       [] sel = 5 -> Only(valid, << SERDES_write(phy, reg, Half(u.v)) >>)
       [] sel = 6 -> Dump(TRUE, phy, reg)
       [] OTHER -> <<>>                        \* "input wrong"

LegacyEntry(u) == IF Byte(u.sel) = 7 THEN SW_Reset_88E6185 ELSE MdioEntry(u)

SwitchEntry(u) == IF Byte(u.sel) = 8 THEN Switch_6390init ELSE LegacyEntry(u)

(* a register that has been written is the last thing the tool does:       *)
(* "while (1);" follows                                                    *)
Hangs(u) == Byte(u.sel) = 2 /\ SwitchEntry(u) # <<>>

-----------------------------------------------------------------------------
(* aup_tools.ino.  32 passes for an address, and the frame sends it as 0.  *)

Accepted(u) == Byte(u.a) <= 32 /\ Byte(u.b) <= 32

SMI_22C_Write(u) ==
  Only(Accepted(u), << write_smi(Byte(u.a), Byte(u.b), Byte(u.v)) >>)

SMI_SERDES_Read(u) == Only(Accepted(u), << SERDES_read(Byte(u.a), Byte(u.b)) >>)

SMI_SERDES_Write(u) ==
  Only(Accepted(u), << SERDES_write(Byte(u.a), Byte(u.b), Byte(u.v)) >>)

(* "while (1)" reads the same register for ever, until the board is reset; *)
(* read once here, the rest of the session is lost                         *)
SMI_22C_Read(u) == Only(Accepted(u), << read_smi(Byte(u.a), Byte(u.b)) >>)

(* What an entry of a menu does and which menu comes next                  *)
To(menu, ops) == [menu |-> menu, ops |-> ops]

loop(sel) == To(IF sel = 0 THEN "SMI_Bus" ELSE "loop", <<>>)

SMI_Bus(u) ==
  LET sel == Byte(u.sel)
  IN CASE sel = 0 -> To(IF Accepted(u) THEN "reset" ELSE "SMI_Bus", SMI_22C_Read(u))
       [] sel = 1 -> To("SMI_Bus", SMI_22C_Write(u))
       [] sel = 4 -> To("SMI_Bus", SMI_SERDES_Read(u))
       [] sel = 5 -> To("SMI_Bus", SMI_SERDES_Write(u))
       [] sel = 9 -> To("SMI_Marvell", <<>>)
       [] sel = 10 -> To("loop", <<>>)
       [] OTHER -> To("SMI_Bus", <<>>)

(* to leave is to leave SMI_Bus as well: its case 9 runs into case 10 *)
SMI_Marvell(sel) ==
  CASE sel = 0 -> To("SMI_Marvell", SMI_88E6321_VPU2600_init)
    [] sel = 2 -> To("SMI_88E6321_TestBoard_init", <<>>)
    [] sel = 9 -> To("loop", <<>>)
    [] OTHER -> To("SMI_Marvell", <<>>)

SMI_88E6321_TestBoard_init(sel) ==
  IF sel = 9 THEN To("SMI_Marvell", <<>>)
  ELSE To("SMI_88E6321_TestBoard_init",
          CASE sel = 0 -> Marvell_88E6321_2Copper2RJ45
            [] sel = 1 -> Marvell_88E6321_0Copper_1000Base_X0
            [] sel = 2 -> Marvell_88E6321_1Copper_1000Base_X1
            [] OTHER -> <<>>)

-----------------------------------------------------------------------------
(* Sessions                                                                *)

(* one request in a menu of a tool; a tool that hangs takes no more        *)
Request(tool, menu, u) ==
  CASE menu = "reset" -> To("reset", <<>>)
    [] menu = "loop" -> loop(Byte(u.sel))
    [] menu = "SMI_Bus" -> SMI_Bus(u)
    [] menu = "SMI_Marvell" -> SMI_Marvell(Byte(u.sel))
    [] menu = "SMI_88E6321_TestBoard_init" ->
         SMI_88E6321_TestBoard_init(Byte(u.sel))
    [] menu = "setup" ->
         CASE tool = "mdio" -> To("setup", MdioEntry(u))
           [] tool = "leacy" -> To("setup", LegacyEntry(u))
           [] tool = "88E6321" -> To("setup", SwitchEntry(u))
           [] tool = "mar28b" ->
                To(IF Hangs(u) THEN "reset" ELSE "setup", SwitchEntry(u))

FirstMenu(tool) == IF tool = "aup_tools" THEN "loop" ELSE "setup"

(* the tool is back in a menu between two requests *)
Session(tool, requests) ==
  FoldLeft(LAMBDA at, u :
             LET to == Request(tool, at.menu, u)
             IN To(to.menu, at.ops \o to.ops \o <<Pause>>),
           To(FirstMenu(tool), <<>>), requests).ops
=============================================================================
