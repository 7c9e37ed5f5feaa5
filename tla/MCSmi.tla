------------------------------- MODULE MCSmi -------------------------------
EXTENDS SmiMenu

Register(addr, reg) == <<Bits(addr, 5), Bits(reg, 5)>>

(* the registers of the programs; one of them is not in this switch *)
SwitchRegisters ==
  { Register(a[1], a[2]) :
      a \in { <<GLOBAL2, CMD>>, <<GLOBAL2, DATA>>, <<\h1B, 4>>, <<10, 0>>, <<19, 4>>,
              <<9, 0>>, <<\h10, 4>>, <<\h11, 4>>, <<\h13, 4>>, <<\h14, 4>>,
              <<\h15, 4>> } }

InnerRegisters ==
  { Register(dev, reg) : dev \in {3, 4, \h12, \h13}, reg \in {0, \h10, \h16} }

Type(sel, a, b, v) == [sel |-> sel, a |-> a, b |-> b, v |-> v]

(* Every entry of every menu, accepted and refused, with numbers that do   *)
(* not fit in a byte; a dump of one port of PHYs and one SERDES device     *)
Sessions ==
  { <<tool, Session(tool, typed)>> : <<tool, typed>> \in
      { <<"mdio", << Type(2, 19, 4, 65536 + \hA5C3), Type(1, 19, 4, 0),
                     Type(1, 32, 4, 0), Type(3, 19, 20, 0) >> >>,
        <<"leacy", << Type(7, 0, 0, 0), Type(5, 3, 0, \h8001),
                      Type(4, 3, 0, 0) >> >>,
        <<"88E6321", << Type(8, 0, 0, 0), Type(6, 3, 4, 0) >> >>,
        <<"mar28b", << Type(7, 0, 0, 0), Type(8, 0, 0, 0),
                       Type(256 + 5, 3, 0, \h8001), Type(4, 3, 0, 0),
                       Type(2, 19, 4, 1), Type(1, 19, 4, 0) >> >>,
        <<"aup_tools", << Type(0, 0, 0, 0), Type(5, 4, 0, \h8001),
                          Type(4, 4, 0, 0), Type(1, 19, 4, \hA5C3),
                          Type(1, 33, 4, 0), Type(0, 32, 32, 0),
                          Type(1, 19, 4, 0) >> >>,
        <<"aup_tools", << Type(0, 0, 0, 0), Type(9, 0, 0, 0), Type(0, 0, 0, 0),
                          Type(9, 0, 0, 0), Type(1, 0, 0, 0) >> >>,
        <<"aup_tools", << Type(0, 0, 0, 0), Type(9, 0, 0, 0), Type(2, 0, 0, 0),
                          Type(1, 0, 0, 0), Type(2, 0, 0, 0), Type(3, 0, 0, 0),
                          Type(9, 0, 0, 0) >> >>,
        <<"aup_tools", << Type(0, 0, 0, 0), Type(9, 0, 0, 0), Type(2, 0, 0, 0),
                          Type(0, 0, 0, 0) >> >> } }
  \cup { <<"mar28b", setupm>> }

(* what the proofs about Smi assume of what is typed *)
ASSUME SessionsAreOrderly == OrderlyMenu
=============================================================================
