---------------------------- MODULE RegisterBus ----------------------------
(***************************************************************************)
(* What a management bus promises: a master has one access at a time, and  *)
(* each takes effect at one moment between its start and its end.  A write *)
(* changes the register that it names; a read is answered with what the    *)
(* register held at that moment.  Registers that nobody has are not        *)
(* written and read as ones.  The devices may change registers themselves. *)
(***************************************************************************)
CONSTANTS Accesses, Registers, Words, Ones

VARIABLES regs, access, state, answer

busvars == <<regs, access, state, answer>>

Value(a) == IF a.at \in Registers THEN regs[a.at] ELSE Ones

Init ==
  /\ regs \in [Registers -> Words]
  /\ access \in Accesses /\ state = "idle" /\ answer = Ones

Begin ==
  /\ state = "idle"
  /\ access' \in Accesses /\ state' = "asked"
  /\ UNCHANGED <<regs, answer>>

Read ==
  /\ state = "asked" /\ access.op = "read"
  /\ answer' = Value(access) /\ state' = "done"
  /\ UNCHANGED <<regs, access>>

Write ==
  /\ state = "asked" /\ access.op = "write"
  /\ regs' = IF access.at \in Registers
             THEN [regs EXCEPT ![access.at] = access.word] ELSE regs
  /\ state' = "done"
  /\ UNCHANGED <<access, answer>>

End ==
  /\ state = "done" /\ state' = "idle"
  /\ UNCHANGED <<regs, access, answer>>

Change ==
  /\ regs' \in [Registers -> Words]
  /\ UNCHANGED <<access, state, answer>>

Next == Begin \/ Read \/ Write \/ End \/ Change

Spec == Init /\ [][Next]_busvars
=============================================================================
