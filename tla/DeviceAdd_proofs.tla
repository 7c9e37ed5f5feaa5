------------------------- MODULE DeviceAdd_proofs -------------------------
(***************************************************************************)
(* For any number of devices of any kinds, in any hierarchy, registering a *)
(* device leaves everything or nothing of it (AddIsAllOrNothing), and no   *)
(* reference is put twice or kept (TypeOK, GlueDirFollowsDevices,          *)
(* ReferencesReturned).                                                    *)
(*                                                                         *)
(* A step moves one device from one state to another and changes what it   *)
(* has; EntriesAt relates the two.  There is one lemma for each of the     *)
(* three ways a device goes, with one step for each action.                *)
(*                                                                         *)
(* A count is the number of devices in some set.  A step moves one device  *)
(* in or out of it (OneMember), so the count must move with that device    *)
(* (GlueMoves, RefsMove, BusMoves): CountsMove proves this once, and the   *)
(* lemmas for the actions say only what one device adds before and after.  *)
(***************************************************************************)
EXTENDS DeviceAdd, FiniteSetTheorems, TLAPS

(* A step of d keeps the other devices as they are and d in EntriesAt. *)
StepOf(d) ==
  /\ pc' \in [Devices -> States]
  /\ entries' \in [Devices -> SUBSET Entries]
  /\ \A e \in Devices \ {d} : pc'[e] = pc[e] /\ entries'[e] = entries[e]
  /\ EntriesAt(d, entries'[d], pc'[d])

(* Each step makes or removes the entries of its place in the code. *)
LEMMA StepKeepsInv == ASSUME EntryInv, NEW d \in Devices, StepOf(d) PROVE EntryInv'
<1>1. ASSUME NEW e \in Devices PROVE EntriesAt(e, entries'[e], pc'[e])
  <2>1. CASE e = d
    BY <2>1 DEF StepOf
  <2>2. CASE e # d
    <3>1. entries'[e] = entries[e] /\ pc'[e] = pc[e]
      BY <2>2 DEF StepOf
    <3> QED
      BY <3>1 DEF EntryInv
  <2> QED
    BY <2>1, <2>2
<1> QED
  BY <1>1 DEF StepOf, EntryInv, EntriesAt

(* demo_device_add, while nothing fails or a callee undoes its own work *)
LEMMA AddingSteps == ASSUME EntryInv, NEW d \in Devices, Adding(d) PROVE StepOf(d)
<1> USE DEF EntryInv, States, Entries, GroupStates, TypeGroupStates, BinAttrStates,
  ClassAttrStates, ClassLinkStates, DeviceLinkStates, SubsystemLinkStates, SysDevStates,
  DevtStates, UeventStates, KobjStates, PrivateStates,
  BusKlistStates, BusLinkStates, BusAttrStates
<1>1. CASE Register(d)
  BY <1>1 DEF Register, Goto, StepOf, EntriesAt
<1>2. CASE PrivateInit(d)
  <2>1. pc[d] = "private" => EntriesAt(d, entries[d] \cup {"p"}, "name")
    BY DEF EntriesAt
  <2>2. pc[d] = "private" => EntriesAt(d, entries[d], "failing")
    BY DEF EntriesAt
  <2> HIDE DEF States, Entries
  <2> QED
    BY <1>2, <2>1, <2>2 DEF PrivateInit, Create, Goto, StepOf, States, Entries, Files
<1>3. CASE SetName(d)
  BY <1>3 DEF SetName, Goto, StepOf, EntriesAt
<1>4. CASE GetParent(d)
  BY <1>4 DEF GetParent, Goto, StepOf, EntriesAt
<1>5. CASE MakeGlue(d)
  BY <1>5 DEF MakeGlue, Goto, StepOf, EntriesAt
<1>6. CASE KobjectAdd(d)
  BY <1>6 DEF KobjectAdd, Goto, StepOf, EntriesAt
<1>7. CASE UeventFile(d)
  <2>1. pc[d] = "uevent" => EntriesAt(d, entries[d] \cup {"uevent"}, "devt")
    BY DEF EntriesAt
  <2>2. pc[d] = "uevent" => EntriesAt(d, entries[d], "attrError")
    BY DEF EntriesAt
  <2> HIDE DEF States, Entries
  <2> QED
    BY <1>7, <2>1, <2>2 DEF UeventFile, Create, Goto, StepOf, States, Entries, Files
<1>8. CASE DevtFile(d)
  <2>1. pc[d] = "devt" /\ d \in HasDevt => EntriesAt(d, entries[d] \cup {"devt"}, "sysdev")
    BY DEF EntriesAt
  <2>2. pc[d] = "devt" /\ d \in HasDevt => EntriesAt(d, entries[d], "ueventattrError")
    BY DEF EntriesAt
  <2>3. pc[d] = "devt" /\ d \notin HasDevt => EntriesAt(d, entries[d], "sysdev")
    BY DEF EntriesAt
  <2> HIDE DEF States, Entries
  <2> QED
    BY <1>8, <2>1, <2>2, <2>3 DEF DevtFile, Create, Goto, StepOf, States, Entries, Files
<1>9. CASE SysDevEntry(d)
  <2>1. pc[d] = "sysdev" /\ d \in HasDevt => EntriesAt(d, entries[d] \cup {"sysdev"}, "subsystem")
    BY DEF EntriesAt
  <2>2. pc[d] = "sysdev" /\ d \in HasDevt => EntriesAt(d, entries[d], "devtattrError")
    BY DEF EntriesAt
  <2>3. pc[d] = "sysdev" /\ d \notin HasDevt => EntriesAt(d, entries[d], "subsystem")
    BY DEF EntriesAt
  <2> HIDE DEF States, Entries
  <2> QED
    BY <1>9, <2>1, <2>2, <2>3 DEF SysDevEntry, Create, Goto, StepOf, States, Entries, Files
<1>10. CASE SubsystemLink(d)
  <2>1. pc[d] = "subsystem" /\ d \in HasClass =>
         EntriesAt(d, entries[d] \cup {"subsystem"}, "device")
    BY DEF EntriesAt
  <2>2. pc[d] = "subsystem" /\ d \in HasClass => EntriesAt(d, entries[d], "SymlinkError")
    BY DEF EntriesAt
  <2>3. pc[d] = "subsystem" /\ d \notin HasClass => EntriesAt(d, entries[d], "device")
    BY DEF EntriesAt
  <2> HIDE DEF States, Entries
  <2> QED
    BY <1>10, <2>1, <2>2, <2>3 DEF SubsystemLink, Create, Goto, StepOf, States, Entries, Files
<1>11. CASE DeviceLink(d)
  <2>1. pc[d] = "device" /\ d \in HasClass /\ Parent[d] # None =>
         EntriesAt(d, entries[d] \cup {"device"}, "class")
    BY DEF EntriesAt
  <2>2. pc[d] = "device" /\ d \in HasClass /\ Parent[d] # None =>
         EntriesAt(d, entries[d], "out_subsys")
    BY DEF EntriesAt
  <2>3. pc[d] = "device" /\ ~(d \in HasClass /\ Parent[d] # None) =>
         EntriesAt(d, entries[d], "class")
    BY DEF EntriesAt
  <2> HIDE DEF States, Entries
  <2> QED
    BY <1>11, <2>1, <2>2, <2>3 DEF DeviceLink, Create, Goto, StepOf, States, Entries, Files
<1>12. CASE ClassLink(d)
  <2>1. pc[d] = "class" /\ d \in HasClass => EntriesAt(d, entries[d] \cup {"class"}, "linked")
    BY DEF EntriesAt
  <2>2. pc[d] = "class" /\ d \in HasClass => EntriesAt(d, entries[d], "out_device")
    BY DEF EntriesAt
  <2>3. pc[d] = "class" /\ d \notin HasClass => EntriesAt(d, entries[d], "linked")
    BY DEF EntriesAt
  <2> HIDE DEF States, Entries
  <2> QED
    BY <1>12, <2>1, <2>2, <2>3 DEF ClassLink, Create, Goto, StepOf, States, Entries, Files
<1>13. CASE OutDevice(d)
  BY <1>13 DEF OutDevice, Goto, Remove, StepOf, EntriesAt
<1>14. CASE OutSubsys(d)
  BY <1>14 DEF OutSubsys, Goto, Remove, StepOf, EntriesAt
<1>15. CASE ClassAttrs(d)
  <2>1. pc[d] = "class_attrs" /\ d \in HasClass =>
         EntriesAt(d, entries[d] \cup {"class_attrs"}, "bin_attrs")
    BY DEF EntriesAt
  <2>2. pc[d] = "class_attrs" /\ d \in HasClass => EntriesAt(d, entries[d], "AttrsError")
    BY DEF EntriesAt
  <2>3. pc[d] = "class_attrs" /\ d \notin HasClass => EntriesAt(d, entries[d], "bin_attrs")
    BY DEF EntriesAt
  <2> HIDE DEF States, Entries
  <2> QED
    BY <1>15, <2>1, <2>2, <2>3 DEF ClassAttrs, Create, Goto, StepOf, States, Entries, Files
<1>16. CASE BinAttrs(d)
  <2>1. pc[d] = "bin_attrs" /\ d \in HasClass =>
         EntriesAt(d, entries[d] \cup {"bin_attrs"}, "type_groups")
    BY DEF EntriesAt
  <2>2. pc[d] = "bin_attrs" /\ d \in HasClass => EntriesAt(d, entries[d], "err_class_attrs")
    BY DEF EntriesAt
  <2>3. pc[d] = "bin_attrs" /\ d \notin HasClass => EntriesAt(d, entries[d], "type_groups")
    BY DEF EntriesAt
  <2> HIDE DEF States, Entries
  <2> QED
    BY <1>16, <2>1, <2>2, <2>3 DEF BinAttrs, Create, Goto, StepOf, States, Entries, Files
<1>17. CASE TypeGroups(d)
  <2>1. pc[d] = "type_groups" /\ d \in HasType =>
         EntriesAt(d, entries[d] \cup {"type_groups"}, "groups")
    BY DEF EntriesAt
  <2>2. pc[d] = "type_groups" /\ d \in HasType => EntriesAt(d, entries[d], "err_class_bin_attrs")
    BY DEF EntriesAt
  <2>3. pc[d] = "type_groups" /\ d \notin HasType => EntriesAt(d, entries[d], "groups")
    BY DEF EntriesAt
  <2> HIDE DEF States, Entries
  <2> QED
    BY <1>17, <2>1, <2>2, <2>3 DEF TypeGroups, Create, Goto, StepOf, States, Entries, Files
<1>18. CASE Groups(d)
  <2>1. pc[d] = "groups" => EntriesAt(d, entries[d] \cup {"groups"}, "bus")
    BY DEF EntriesAt
  <2>2. pc[d] = "groups" => EntriesAt(d, entries[d], "err_type_groups")
    BY DEF EntriesAt
  <2> HIDE DEF States, Entries
  <2> QED
    BY <1>18, <2>1, <2>2 DEF Groups, Create, Goto, StepOf, States, Entries, Files
<1>19. CASE ErrTypeGroups(d)
  BY <1>19 DEF ErrTypeGroups, Goto, Remove, StepOf, EntriesAt
<1>20. CASE ErrClassBinAttrs(d)
  BY <1>20 DEF ErrClassBinAttrs, Goto, Remove, StepOf, EntriesAt
<1>21. CASE ErrClassAttrs(d)
  BY <1>21 DEF ErrClassAttrs, Goto, Remove, StepOf, EntriesAt
<1>22. CASE BusGet(d)
  BY <1>22 DEF BusGet, Goto, StepOf, EntriesAt
<1>23. CASE BusAttrs(d)
  <2>1. pc[d] = "bus_attrs" => EntriesAt(d, entries[d] \cup {"bus_attrs"}, "bus_link")
    BY DEF EntriesAt
  <2>2. pc[d] = "bus_attrs" => EntriesAt(d, entries[d], "out_put")
    BY DEF EntriesAt
  <2> HIDE DEF States, Entries
  <2> QED
    BY <1>23, <2>1, <2>2 DEF BusAttrs, Create, Goto, StepOf, States, Entries, Files
<1>24. CASE BusLink(d)
  <2>1. pc[d] = "bus_link" => EntriesAt(d, entries[d] \cup {"bus_link"}, "bus_klist")
    BY DEF EntriesAt
  <2>2. pc[d] = "bus_link" => EntriesAt(d, entries[d], "out_id")
    BY DEF EntriesAt
  <2> HIDE DEF States, Entries
  <2> QED
    BY <1>24, <2>1, <2>2 DEF BusLink, Create, Goto, StepOf, States, Entries, Files
<1>25. CASE BusKlist(d)
  BY <1>25 DEF BusKlist, Goto, StepOf, EntriesAt
<1>26. CASE OutId(d)
  BY <1>26 DEF OutId, Goto, Remove, StepOf, EntriesAt
<1>27. CASE OutPut(d)
  BY <1>27 DEF OutPut, Goto, StepOf, EntriesAt
<1>28. CASE AddToParent(d)
  BY <1>28 DEF AddToParent, Goto, StepOf, EntriesAt
<1>29. CASE AddToClass(d)
  BY <1>29 DEF AddToClass, Goto, StepOf, EntriesAt
<1>30. CASE Done(d)
  BY <1>30 DEF Done, Goto, StepOf, EntriesAt
<1> QED
  BY <1>1, <1>2, <1>3, <1>4, <1>5, <1>6, <1>7, <1>8, <1>9, <1>10, <1>11, <1>12, <1>13, <1>14,
     <1>15, <1>16, <1>17, <1>18, <1>19, <1>20, <1>21, <1>22,
     <1>23, <1>24, <1>25, <1>26, <1>27, <1>28, <1>29, <1>30 DEF Adding

(* the error labels of demo_device_add *)
LEMMA UnwindingSteps == ASSUME EntryInv, NEW d \in Devices, Unwinding(d) PROVE StepOf(d)
<1> USE DEF EntryInv, States, Entries, GroupStates, TypeGroupStates, BinAttrStates,
  ClassAttrStates, ClassLinkStates, DeviceLinkStates, SubsystemLinkStates, SysDevStates,
  DevtStates, UeventStates, KobjStates, PrivateStates,
  BusKlistStates, BusLinkStates, BusAttrStates
<1>1. CASE BusError(d)
  BY <1>1 DEF BusError, Goto, Remove, StepOf, EntriesAt
<1>2. CASE AttrsError(d)
  BY <1>2 DEF AttrsError, Goto, Remove, StepOf, EntriesAt
<1>3. CASE SymlinkError(d)
  BY <1>3 DEF SymlinkError, Goto, Remove, StepOf, EntriesAt
<1>4. CASE DevtAttrError(d)
  BY <1>4 DEF DevtAttrError, Goto, Remove, StepOf, EntriesAt
<1>5. CASE UeventAttrError(d)
  BY <1>5 DEF UeventAttrError, Goto, Remove, StepOf, EntriesAt
<1>6. CASE AttrError(d)
  BY <1>6 DEF AttrError, Goto, KobjectDel, Files, StepOf, EntriesAt
<1>7. CASE Error(d)
  BY <1>7 DEF Error, Goto, StepOf, EntriesAt
<1>8. CASE NameError(d)
  BY <1>8 DEF NameError, Goto, Remove, StepOf, EntriesAt
<1> QED
  BY <1>1, <1>2, <1>3, <1>4, <1>5, <1>6, <1>7, <1>8 DEF Unwinding

(* demo_device_unregister *)
LEMMA DeletingSteps == ASSUME EntryInv, NEW d \in Devices, Deleting(d) PROVE StepOf(d)
<1> USE DEF EntryInv, States, Entries, GroupStates, TypeGroupStates, BinAttrStates,
  ClassAttrStates, ClassLinkStates, DeviceLinkStates, SubsystemLinkStates, SysDevStates,
  DevtStates, UeventStates, KobjStates, PrivateStates,
  BusKlistStates, BusLinkStates, BusAttrStates
<1>1. CASE Unregister(d)
  BY <1>1 DEF Unregister, Goto, StepOf, EntriesAt
<1>2. CASE DelClass(d)
  BY <1>2 DEF DelClass, Goto, Remove, StepOf, EntriesAt
<1>3. CASE DelAttrs(d)
  BY <1>3 DEF DelAttrs, Goto, Remove, StepOf, EntriesAt
<1>4. CASE DelBus(d)
  BY <1>4 DEF DelBus, Goto, StepOf, EntriesAt
<1>5. CASE DelParent(d)
  BY <1>5 DEF DelParent, Goto, StepOf, EntriesAt
<1>6. CASE DelKobj(d)
  BY <1>6 DEF DelKobj, Goto, KobjectDel, Files, StepOf, EntriesAt
<1>7. CASE PutParent(d)
  BY <1>7 DEF PutParent, Goto, StepOf, EntriesAt
<1> QED
  BY <1>1, <1>2, <1>3, <1>4, <1>5, <1>6, <1>7 DEF Deleting

-----------------------------------------------------------------------------
(* The counts                                                              *)

Bit(b) == IF b THEN 1 ELSE 0

(* A finite set that changes in one place *)
LEMMA OneMember ==
  ASSUME NEW S \in SUBSET Devices, NEW T \in SUBSET Devices, NEW d \in Devices,
         \A e \in Devices \ {d} : e \in S <=> e \in T
  PROVE  /\ Cardinality(S) \in Nat /\ Cardinality(T) \in Nat
         /\ Cardinality(T) = Cardinality(S) + Bit(d \in T) - Bit(d \in S)
<1>1. IsFiniteSet(S) /\ IsFiniteSet(T)
  BY DeviceAddAssumption, FS_Subset
<1>2. Cardinality(S) \in Nat /\ Cardinality(T) \in Nat
  BY <1>1, FS_CardinalityType
<1>3. CASE d \in S /\ d \notin T
  <2>1. T = S \ {d}
    BY <1>3
  <2>2. Cardinality(T) = Cardinality(S) - 1
    BY <1>1, <1>3, <2>1, FS_RemoveElement
  <2>3. QED
    BY <1>2, <1>3, <2>2 DEF Bit
<1>4. CASE d \notin S /\ d \in T
  <2>1. T = S \cup {d}
    BY <1>4
  <2>2. Cardinality(T) = Cardinality(S) + 1
    BY <1>1, <1>4, <2>1, FS_AddElement
  <2>3. QED
    BY <1>2, <1>4, <2>2 DEF Bit
<1>5. CASE d \in S <=> d \in T
  <2>1. T = S
    BY <1>5
  <2>2. QED
    BY <1>2, <2>1 DEF Bit
<1>6. QED
  BY <1>3, <1>4, <1>5

(* What a device adds to the counts when its parent is of kind k and its
   thread in state s *)
Looks(k, s) == Bit(k = "glue" /\ s # "del_kobj")
Places(k, s, kind) == Bit(k = kind /\ s \in KobjStates)
Loses(d, s) == Bit(UsesGlue(d) /\ s \in LostStates)
Has(s) == Bit(s \in ParentStates)
OnTheBus(d, s) == Bit(d \in OnBus /\ s \in BusStates)

Count == /\ TypeOK /\ GlueInv /\ RefInv /\ BusInv /\ PlaceInv

(* d and its parent, and nobody else: what the counts must do, given what
   d adds to them before and after *)
Frame(d) ==
  /\ pc' \in [Devices -> States] /\ entries' \in [Devices -> SUBSET Entries]
  /\ kparent' \in [Devices -> {"glue", "parent", None}]
  /\ refs' \in [Devices -> Int] /\ glue' \in [Devices \cup {None} -> Int] /\ busrefs' \in Int
  /\ \A e \in Devices \ {d} : pc'[e] = pc[e] /\ kparent'[e] = kparent[e]
  /\ \A p \in (Devices \cup {None}) \ {Parent[d]} : glue'[p] = glue[p]
  /\ \A e \in Devices \ {d, Parent[d]} : refs'[e] = refs[e]

GlueMoves(d) ==
  LET p == Parent[d]
      more == Looks(kparent'[d], pc'[d]) - Looks(kparent[d], pc[d])
              + Places(kparent'[d], pc'[d], "glue") - Places(kparent[d], pc[d], "glue")
  IN /\ glue'[p] - glue[p] >= more
     /\ glue'[p] - glue[p] <= more + Loses(d, pc'[d]) - Loses(d, pc[d])

RefsMove(d) ==
  /\ refs'[d] - refs[d] = Own(d, pc'[d]) - Own(d, pc[d])
  /\ LET p == Parent[d]
     IN p # None =>
          refs'[p] - refs[p] =
            Bit(glue'[p] > 0) - Bit(glue[p] > 0) + Has(pc'[d]) - Has(pc[d])
            + Places(kparent'[d], pc'[d], "parent") - Places(kparent[d], pc[d], "parent")

BusMoves(d) == busrefs' - busrefs = OnTheBus(d, pc'[d]) - OnTheBus(d, pc[d])

(* A parent is a device or nobody. *)
LEMMA ParentIs ==
  ASSUME NEW d \in Devices
  PROVE  Parent[d] \in Devices \cup {None} /\ (Parent[d] # None => Parent[d] \in Devices)
BY DeviceAddAssumption

(* One device moves in or out of a class directory. *)
LEMMA Members ==
  ASSUME TypeOK, NEW d \in Devices, Frame(d), NEW p \in Devices \cup {None}
  PROVE  LET here == Parent[d] = p
         IN /\ Cardinality(LookedUp(p)) \in Nat /\ Cardinality(LookedUp(p))' \in Nat
            /\ Cardinality(LookedUp(p))' = Cardinality(LookedUp(p))
                 + (IF here THEN Looks(kparent'[d], pc'[d]) - Looks(kparent[d], pc[d]) ELSE 0)
            /\ \A kind \in {"glue", "parent"} :
                 /\ Cardinality(Placed(p, kind)) \in Nat /\ Cardinality(Placed(p, kind)') \in Nat
                 /\ Cardinality(Placed(p, kind)') = Cardinality(Placed(p, kind))
                      + (IF here THEN Places(kparent'[d], pc'[d], kind)
                                      - Places(kparent[d], pc[d], kind) ELSE 0)
            /\ Cardinality(MayLose(p)) \in Nat /\ Cardinality(MayLose(p))' \in Nat
            /\ Cardinality(MayLose(p))' = Cardinality(MayLose(p))
                 + (IF here THEN Loses(d, pc'[d]) - Loses(d, pc[d]) ELSE 0)
            /\ Cardinality(HaveParent(p)) \in Nat /\ Cardinality(HaveParent(p))' \in Nat
            /\ Cardinality(HaveParent(p))' = Cardinality(HaveParent(p))
                 + (IF here THEN Has(pc'[d]) - Has(pc[d]) ELSE 0)
<1>1. /\ Cardinality(LookedUp(p)) \in Nat /\ Cardinality(LookedUp(p)') \in Nat
      /\ Cardinality(LookedUp(p)') = Cardinality(LookedUp(p))
           + (IF Parent[d] = p THEN Looks(kparent'[d], pc'[d]) - Looks(kparent[d], pc[d]) ELSE 0)
  <2>1. LookedUp(p) \in SUBSET Devices /\ LookedUp(p)' \in SUBSET Devices
    BY DEF LookedUp
  <2>2. \A e \in Devices \ {d} : e \in LookedUp(p) <=> e \in LookedUp(p)'
    BY DEF LookedUp, Frame
  <2>3. /\ d \in LookedUp(p) <=> Parent[d] = p /\ kparent[d] = "glue" /\ pc[d] # "del_kobj"
        /\ d \in LookedUp(p)' <=> Parent[d] = p /\ kparent'[d] = "glue" /\ pc'[d] # "del_kobj"
    BY DEF LookedUp
  <2>4. /\ Cardinality(LookedUp(p)) \in Nat /\ Cardinality(LookedUp(p)') \in Nat
        /\ Cardinality(LookedUp(p)') =
             Cardinality(LookedUp(p)) + Bit(d \in LookedUp(p)') - Bit(d \in LookedUp(p))
    BY <2>1, <2>2, OneMember
  <2>5. QED
    BY <2>3, <2>4 DEF Bit, Looks
<1>2. ASSUME NEW kind \in {"glue", "parent"}
      PROVE  /\ Cardinality(Placed(p, kind)) \in Nat /\ Cardinality(Placed(p, kind)') \in Nat
             /\ Cardinality(Placed(p, kind)') = Cardinality(Placed(p, kind))
                  + (IF Parent[d] = p THEN Places(kparent'[d], pc'[d], kind)
                                           - Places(kparent[d], pc[d], kind) ELSE 0)
  <2>1. Placed(p, kind) \in SUBSET Devices /\ Placed(p, kind)' \in SUBSET Devices
    BY DEF Placed
  <2>2. \A e \in Devices \ {d} : e \in Placed(p, kind) <=> e \in Placed(p, kind)'
    BY DEF Placed, Frame
  <2>3. /\ d \in Placed(p, kind) <=> Parent[d] = p /\ kparent[d] = kind /\ pc[d] \in KobjStates
        /\ d \in Placed(p, kind)' <=> Parent[d] = p /\ kparent'[d] = kind /\ pc'[d] \in KobjStates
    BY DEF Placed
  <2>4. /\ Cardinality(Placed(p, kind)) \in Nat /\ Cardinality(Placed(p, kind)') \in Nat
        /\ Cardinality(Placed(p, kind)') =
             Cardinality(Placed(p, kind)) + Bit(d \in Placed(p, kind)') - Bit(d \in Placed(p, kind))
    BY <2>1, <2>2, OneMember
  <2>5. QED
    BY <2>3, <2>4 DEF Bit, Places
<1>3. /\ Cardinality(MayLose(p)) \in Nat /\ Cardinality(MayLose(p)') \in Nat
      /\ Cardinality(MayLose(p)') = Cardinality(MayLose(p))
           + (IF Parent[d] = p THEN Loses(d, pc'[d]) - Loses(d, pc[d]) ELSE 0)
  <2>1. MayLose(p) \in SUBSET Devices /\ MayLose(p)' \in SUBSET Devices
    BY DEF MayLose
  <2>2. \A e \in Devices \ {d} : e \in MayLose(p) <=> e \in MayLose(p)'
    BY DEF MayLose, Frame
  <2>3. /\ d \in MayLose(p) <=> Parent[d] = p /\ UsesGlue(d) /\ pc[d] \in LostStates
        /\ d \in MayLose(p)' <=> Parent[d] = p /\ UsesGlue(d) /\ pc'[d] \in LostStates
    BY DEF MayLose
  <2>4. /\ Cardinality(MayLose(p)) \in Nat /\ Cardinality(MayLose(p)') \in Nat
        /\ Cardinality(MayLose(p)') =
             Cardinality(MayLose(p)) + Bit(d \in MayLose(p)') - Bit(d \in MayLose(p))
    BY <2>1, <2>2, OneMember
  <2>5. QED
    BY <2>3, <2>4 DEF Bit, Loses
<1>4. /\ Cardinality(HaveParent(p)) \in Nat /\ Cardinality(HaveParent(p)') \in Nat
      /\ Cardinality(HaveParent(p)') = Cardinality(HaveParent(p))
           + (IF Parent[d] = p THEN Has(pc'[d]) - Has(pc[d]) ELSE 0)
  <2>1. HaveParent(p) \in SUBSET Devices /\ HaveParent(p)' \in SUBSET Devices
    BY DEF HaveParent
  <2>2. \A e \in Devices \ {d} : e \in HaveParent(p) <=> e \in HaveParent(p)'
    BY DEF HaveParent, Frame
  <2>3. /\ d \in HaveParent(p) <=> Parent[d] = p /\ pc[d] \in ParentStates
        /\ d \in HaveParent(p)' <=> Parent[d] = p /\ pc'[d] \in ParentStates
    BY DEF HaveParent
  <2>4. /\ Cardinality(HaveParent(p)) \in Nat /\ Cardinality(HaveParent(p)') \in Nat
        /\ Cardinality(HaveParent(p)') =
             Cardinality(HaveParent(p)) + Bit(d \in HaveParent(p)') - Bit(d \in HaveParent(p))
    BY <2>1, <2>2, OneMember
  <2>5. QED
    BY <2>3, <2>4 DEF Bit, Has
<1>5. QED
  BY <1>1, <1>2, <1>3, <1>4

(* The counts are numbers. *)
LEMMA NumbersOf ==
  ASSUME TypeOK, NEW d \in Devices, Frame(d)
  PROVE  /\ refs[d] \in Nat /\ refs'[d] \in Int /\ busrefs \in Nat /\ busrefs' \in Int
         /\ \A p \in Devices \cup {None} : glue[p] \in Nat /\ glue'[p] \in Int
         /\ \A p \in Devices : refs[p] \in Nat /\ refs'[p] \in Int
         /\ \A s : Own(d, s) \in Nat
         /\ \A s : Has(s) \in Nat /\ Loses(d, s) \in Nat /\ OnTheBus(d, s) \in Nat
         /\ \A k, s : Looks(k, s) \in Nat /\ \A kind : Places(k, s, kind) \in Nat
BY DEF TypeOK, Frame, Own, Has, Loses, OnTheBus, Looks, Places, Bit

(* The counts move by what the step takes and puts. *)
LEMMA CountsMove ==
  ASSUME Count, NEW d \in Devices, Frame(d), GlueMoves(d), RefsMove(d), BusMoves(d),
         Parent[d] # d, PlaceInv'
  PROVE  Count'
<1>1. TypeOK
  BY DEF Count
<1>2. GlueInv'
  <2> SUFFICES ASSUME NEW p \in Devices \cup {None}
               PROVE  LET n == Cardinality(LookedUp(p)') + Cardinality(Placed(p, "glue")')
                      IN glue'[p] \in n..(n + Cardinality(MayLose(p)'))
    BY DEF GlueInv
  <2> DEFINE l == Cardinality(LookedUp(p))
             a == Cardinality(Placed(p, "glue"))
             x == Cardinality(MayLose(p))
  <2>1. l \in Nat /\ a \in Nat /\ x \in Nat /\ l' \in Nat /\ a' \in Nat /\ x' \in Nat
    BY <1>1, Members
  <2>2. glue[p] \in Nat /\ glue[p] >= l + a /\ glue[p] <= l + a + x /\ glue'[p] \in Int
    BY <1>1, <2>1, NumbersOf DEF Count, GlueInv
  <2>3. CASE Parent[d] = p
    <3> DEFINE dl == Looks(kparent'[d], pc'[d]) - Looks(kparent[d], pc[d])
               da == Places(kparent'[d], pc'[d], "glue") - Places(kparent[d], pc[d], "glue")
               dx == Loses(d, pc'[d]) - Loses(d, pc[d])
    <3>1. l' = l + dl /\ a' = a + da /\ x' = x + dx
      BY <1>1, <2>3, Members
    <3>2. glue'[p] - glue[p] >= dl + da /\ glue'[p] - glue[p] <= dl + da + dx
      BY <1>1, <2>3, NumbersOf DEF GlueMoves
    <3>3. dl \in Int /\ da \in Int /\ dx \in Int
      BY <1>1, NumbersOf
    <3> HIDE DEF l, a, x, dl, da, dx
    <3>4. glue'[p] >= l' + a' /\ glue'[p] <= l' + a' + x'
      BY <2>1, <2>2, <3>1, <3>2, <3>3
    <3>5. QED
      BY <2>1, <2>2, <3>4 DEF l, a, x
  <2>4. CASE Parent[d] # p
    <3>1. l' = l /\ a' = a /\ x' = x /\ glue'[p] = glue[p]
      BY <1>1, <2>1, <2>4, Members DEF Frame
    <3> HIDE DEF l, a, x
    <3>2. glue'[p] \in (l' + a')..(l' + a' + x')
      BY <2>1, <2>2, <3>1
    <3>3. QED
      BY <3>2 DEF l, a, x
  <2>5. QED
    BY <2>3, <2>4
<1>3. RefInv'
  <2> SUFFICES ASSUME NEW p \in Devices
               PROVE  refs'[p] = Own(p, pc'[p]) + (IF glue'[p] > 0 THEN 1 ELSE 0)
                        + Cardinality(HaveParent(p)') + Cardinality(Placed(p, "parent")')
    BY DEF RefInv
  <2> DEFINE g == Cardinality(HaveParent(p))
             k == Cardinality(Placed(p, "parent"))
  <2>1. g \in Nat /\ k \in Nat /\ g' \in Nat /\ k' \in Nat
    BY <1>1, Members
  <2>2. refs[p] = Own(p, pc[p]) + Bit(glue[p] > 0) + g + k /\ Own(p, pc[p]) \in Nat
    BY DEF Count, RefInv, Bit, Own
  <2>3. CASE Parent[d] = p
    <3> DEFINE dg == Has(pc'[d]) - Has(pc[d])
               dk == Places(kparent'[d], pc'[d], "parent") - Places(kparent[d], pc[d], "parent")
    <3>1. g' = g + dg /\ k' = k + dk
      BY <1>1, <2>3, Members
    <3>2. refs'[p] - refs[p] = Bit(glue'[p] > 0) - Bit(glue[p] > 0) + dg + dk
      <4>1. p # None
        BY DeviceAddAssumption
      <4>2. refs'[p] - refs[p] =
              Bit(glue'[p] > 0) - Bit(glue[p] > 0) + Has(pc'[d]) - Has(pc[d])
              + Places(kparent'[d], pc'[d], "parent") - Places(kparent[d], pc[d], "parent")
        BY <2>3, <4>1 DEF RefsMove
      <4>3. /\ Has(pc'[d]) \in Int /\ Has(pc[d]) \in Int
            /\ Places(kparent'[d], pc'[d], "parent") \in Int
            /\ Places(kparent[d], pc[d], "parent") \in Int
            /\ Bit(glue'[p] > 0) \in Int /\ Bit(glue[p] > 0) \in Int
        BY DEF Has, Places, Bit
      <4>4. QED
        BY <4>2, <4>3
    <3>3. dg \in Int /\ dk \in Int
      BY DEF Has, Places, Bit
    <3>4. Own(p, pc'[p]) = Own(p, pc[p]) /\ refs[p] \in Int /\ refs'[p] \in Int
      <4>1. pc'[p] = pc[p]
        BY <2>3 DEF Frame
      <4>2. QED
        BY <1>1, <4>1 DEF Frame, TypeOK
    <3>5. Bit(glue'[p] > 0) \in Nat /\ Bit(glue[p] > 0) \in Nat
      BY DEF Bit
    <3> HIDE DEF g, k, dg, dk
    <3>6. refs'[p] = Own(p, pc'[p]) + Bit(glue'[p] > 0) + g' + k'
      BY <2>1, <2>2, <3>1, <3>2, <3>3, <3>4, <3>5
    <3>7. QED
      BY <3>6 DEF g, k, Bit
  <2>4. CASE Parent[d] # p
    <3>1. g' = g /\ k' = k /\ glue'[p] = glue[p]
      BY <1>1, <2>1, <2>4, Members DEF Frame
    <3>2. refs'[p] = Own(p, pc'[p]) + Bit(glue'[p] > 0) + g' + k'
      <4>1. CASE p = d
        <5>1. refs'[d] - refs[d] = Own(d, pc'[d]) - Own(d, pc[d])
          BY DEF RefsMove
        <5>2. Own(d, pc'[d]) \in Nat /\ refs[d] \in Int /\ refs'[d] \in Int
          BY <1>1, NumbersOf
        <5>3. Bit(glue[p] > 0) \in Nat
          BY DEF Bit
        <5> HIDE DEF g, k
        <5>4. QED
          BY <2>1, <2>2, <3>1, <4>1, <5>1, <5>2, <5>3
      <4>2. CASE p # d
        <5>1. refs'[p] = refs[p] /\ pc'[p] = pc[p]
          BY <2>4, <4>2 DEF Frame
        <5> HIDE DEF g, k
        <5>2. QED
          BY <2>2, <3>1, <5>1
      <4>3. QED
        BY <4>1, <4>2
    <3>3. QED
      BY <3>2 DEF Bit
  <2>5. QED
    BY <2>3, <2>4
<1>4. BusInv'
  <2> DEFINE S == {e \in OnBus : pc[e] \in BusStates}
  <2>1. S \in SUBSET Devices /\ S' \in SUBSET Devices
    BY DeviceAddAssumption
  <2>2. \A e \in Devices \ {d} : e \in S <=> e \in S'
    BY DEF Frame
  <2>3. Bit(d \in S') = OnTheBus(d, pc'[d]) /\ Bit(d \in S) = OnTheBus(d, pc[d])
    BY DEF OnTheBus, Bit
  <2>4. Cardinality(S') = Cardinality(S) + OnTheBus(d, pc'[d]) - OnTheBus(d, pc[d])
        /\ Cardinality(S) \in Nat
    <3> HIDE DEF S
    <3> QED
      BY <2>1, <2>2, <2>3, OneMember
  <2>5. busrefs = Cardinality(S)
    BY DEF Count, BusInv
  <2>6. OnTheBus(d, pc'[d]) \in Nat /\ OnTheBus(d, pc[d]) \in Nat /\ busrefs' \in Int
    BY <1>1, NumbersOf
  <2>7. busrefs' - busrefs = OnTheBus(d, pc'[d]) - OnTheBus(d, pc[d])
    BY DEF BusMoves
  <2>8. busrefs' = Cardinality(S')
    <3> HIDE DEF S
    <3> QED
      BY <2>4, <2>5, <2>6, <2>7
  <2>9. QED
    BY <2>8 DEF BusInv
<1>5. TypeOK'
  <2>1. ASSUME NEW p \in Devices \cup {None} PROVE glue'[p] \in Nat
    <3>1. /\ Cardinality(LookedUp(p))' \in Nat /\ Cardinality(Placed(p, "glue"))' \in Nat
          /\ Cardinality(MayLose(p))' \in Nat
      BY <1>1, Members
    <3>2. QED
      BY <1>2, <3>1 DEF GlueInv
  <2>2. ASSUME NEW p \in Devices PROVE refs'[p] \in Nat
    <3>1. Cardinality(HaveParent(p))' \in Nat /\ Cardinality(Placed(p, "parent"))' \in Nat
      BY <1>1, Members
    <3>2. Own(p, pc'[p]) \in Nat
      BY DEF Own
    <3>3. QED
      BY <1>3, <3>1, <3>2 DEF RefInv
  <2>3. busrefs' \in Nat
    <3>1. Cardinality({e \in OnBus : pc'[e] \in BusStates}) \in Nat
      BY OneMember, DeviceAddAssumption
    <3>2. QED
      BY <1>4, <3>1 DEF BusInv
  <2>4. QED
    BY <2>1, <2>2, <2>3 DEF Frame, TypeOK
<1>6. QED
  BY <1>2, <1>3, <1>4, <1>5 DEF Count

(* The states that matter, by the counts they belong to *)
LEMMA StatesAre ==
  /\ {"uevent", "attrError", "bus", "bus_attrs", "out_put", "BusError", "children", "class_klist",
      "done", "added", "del_class", "del_bus", "del_parent", "del_kobj"} \subseteq KobjStates
  /\ {"new", "private", "name", "parent", "glue", "kobj", "Error", "name_error", "failing", "failed",
      "put_parent", "deleted"} \cap KobjStates = {}
  /\ {"bus_attrs", "out_put", "children", "class_klist", "done", "added", "del_class", "del_bus"}
       \subseteq BusStates
  /\ {"new", "private", "name", "parent", "glue", "kobj", "uevent", "attrError", "Error",
      "name_error", "failing", "failed", "bus", "BusError", "del_parent", "del_kobj", "put_parent",
      "deleted"} \cap BusStates = {}
BY DEF States, Entries, GroupStates, TypeGroupStates, BinAttrStates,
  ClassAttrStates, ClassLinkStates, DeviceLinkStates, SubsystemLinkStates, SysDevStates,
  DevtStates, UeventStates, KobjStates, PrivateStates,
  BusKlistStates, BusLinkStates, BusAttrStates, BusStates

(* Where in the code the parent's reference is held. *)
LEMMA InParentStates ==
  /\ \A s \in KobjStates \cup {"glue", "kobj", "Error", "put_parent"} : Has(s) = 1
  /\ \A s \in {"new", "private", "name", "parent", "name_error", "failing", "failed", "deleted"} :
       Has(s) = 0
BY StatesAre DEF Has, Bit, ParentStates

(* The rest of the state, and what PlaceInv asks of d *)
Counts(d) ==
  /\ kparent' \in [Devices -> {"glue", "parent", None}]
  /\ refs' \in [Devices -> Int] /\ glue' \in [Devices \cup {None} -> Int] /\ busrefs' \in Int
  /\ \A e \in Devices \ {d} : kparent'[e] = kparent[e]
  /\ \A p \in (Devices \cup {None}) \ {Parent[d]} : glue'[p] = glue[p]
  /\ \A e \in Devices \ {d, Parent[d]} : refs'[e] = refs[e]

Local(d) ==
  /\ kparent'[d] = "glue" => UsesGlue(d)
  /\ kparent'[d] = "parent" => Parent[d] # None
  /\ kparent'[d] # None => pc'[d] = "kobj" \/ pc'[d] \in KobjStates
  /\ pc'[d] = "glue" => UsesGlue(d)
  /\ pc[d] \in DeletedStates => pc'[d] \in DeletedStates
  /\ pc[d] = "new" /\ Parent[d] # None => pc[Parent[d]] \in DeletedStates

(* A device is not its own parent. *)
LEMMA NotItsParent ==
  ASSUME PlaceInv, NEW d \in Devices,
         pc[d] = "new" /\ Parent[d] # None => pc[Parent[d]] \in DeletedStates
  PROVE  Parent[d] # d
<1>1. "new" \notin DeletedStates /\ None # d
  BY DeviceAddAssumption DEF DeletedStates
<1>2. QED
  BY <1>1 DEF PlaceInv

(* A step that accounts for what it takes and puts keeps Count. *)
LEMMA Moves ==
  ASSUME Count, NEW d \in Devices, StepOf(d), Counts(d), Local(d),
         GlueMoves(d), RefsMove(d), BusMoves(d)
  PROVE  Count'
<1>1. Frame(d)
  BY DEF StepOf, Counts, Frame
<1>2. PlaceInv /\ Parent[d] # d
  BY NotItsParent DEF Count, Local
<1>3. PlaceInv'
  <2> SUFFICES ASSUME NEW e \in Devices
               PROVE  /\ kparent'[e] = "glue" => UsesGlue(e)
                      /\ kparent'[e] = "parent" => Parent[e] # None
                      /\ kparent'[e] # None => pc'[e] = "kobj" \/ pc'[e] \in KobjStates
                      /\ pc'[e] # "new" /\ Parent[e] # None
                           => Parent[e] # e /\ pc'[Parent[e]] \in DeletedStates
                      /\ pc'[e] = "glue" => UsesGlue(e)
    BY DEF PlaceInv
  <2>1. Parent[e] # None => Parent[e] \in Devices
    BY ParentIs
  <2>2. CASE e = d
    <3>1. Parent[d] # None => pc'[Parent[d]] = pc[Parent[d]] /\ pc[Parent[d]] \in DeletedStates
      BY <1>1, <1>2, <2>1, <2>2 DEF Frame, PlaceInv, Local
    <3>2. QED
      BY <1>2, <2>2, <3>1 DEF Local
  <2>3. CASE e # d
    <3>1. pc'[e] = pc[e] /\ kparent'[e] = kparent[e]
      BY <1>1, <2>3 DEF Frame
    <3>2. pc[e] # "new" /\ Parent[e] # None => pc'[Parent[e]] \in DeletedStates
      BY <1>1, <1>2, <2>1 DEF Frame, PlaceInv, Local
    <3>3. QED
      BY <1>2, <3>1, <3>2 DEF PlaceInv
  <2>4. QED
    BY <2>2, <2>3
<1>4. QED
  BY <1>1, <1>2, <1>3, CountsMove

(* Steps that leave kparent and the class directories alone *)
Aside(s, t) ==
  /\ s \notin {"new", "kobj", "del_kobj"} /\ t \notin {"new", "glue", "del_kobj"}
  /\ s \in KobjStates <=> t \in KobjStates
  /\ s \in ParentStates <=> t \in ParentStates
  /\ s \in LostStates => t \in LostStates
  /\ s \in DeletedStates => t \in DeletedStates

(* A step that leaves class directory and parent alone. *)
LEMMA AsideStep ==
  ASSUME Count, NEW d \in Devices, StepOf(d), UNCHANGED <<kparent, glue>>, Aside(pc[d], pc'[d]),
         refs' \in [Devices -> Int], \A e \in Devices \ {d} : refs'[e] = refs[e],
         refs'[d] - refs[d] = Own(d, pc'[d]) - Own(d, pc[d]),
         busrefs' \in Int, BusMoves(d)
  PROVE  Count'
<1>1. TypeOK /\ PlaceInv
  BY DEF Count
<1>2. Counts(d)
  BY <1>1 DEF Counts, TypeOK
<1>3. Local(d)
  BY <1>1 DEF Local, Aside, PlaceInv
<1>4. Parent[d] # d /\ Parent[d] \in Devices \cup {None} /\ glue[Parent[d]] \in Int
      /\ (Parent[d] # None => refs[Parent[d]] \in Int /\ refs'[Parent[d]] = refs[Parent[d]])
  BY <1>1, NotItsParent, ParentIs DEF TypeOK, Aside
<1>5. GlueMoves(d)
  <2>1. /\ Looks(kparent[d], pc'[d]) = Looks(kparent[d], pc[d])
        /\ Places(kparent[d], pc'[d], "glue") = Places(kparent[d], pc[d], "glue")
        /\ Loses(d, pc'[d]) - Loses(d, pc[d]) >= 0
        /\ Looks(kparent[d], pc[d]) \in Int /\ Places(kparent[d], pc[d], "glue") \in Int
        /\ Loses(d, pc'[d]) \in Int /\ Loses(d, pc[d]) \in Int
    BY DEF Aside, Looks, Places, Loses, Bit
  <2>2. QED
    BY <1>4, <2>1 DEF GlueMoves
<1>6. RefsMove(d)
  <2>1. /\ Has(pc'[d]) = Has(pc[d]) /\ Has(pc[d]) \in Int
        /\ Places(kparent[d], pc'[d], "parent") = Places(kparent[d], pc[d], "parent")
        /\ Places(kparent[d], pc[d], "parent") \in Int /\ Bit(glue[Parent[d]] > 0) \in Int
    BY DEF Aside, Has, Places, Bit
  <2>2. QED
    BY <1>4, <2>1 DEF RefsMove
<1>7. QED
  BY <1>2, <1>3, <1>5, <1>6, Moves

(* Steps that move the thread only *)
Quiet(d, s, t) ==
  /\ Aside(s, t)
  /\ d \in OnBus => (s \in BusStates <=> t \in BusStates)
  /\ t \in DeletedStates => s \in DeletedStates
  /\ s # "failed" /\ t # "failed"
  /\ Parent[d] # None =>
       (s \in {"class_klist", "done", "added"} <=> t \in {"class_klist", "done", "added"})

(* A step that takes and puts nothing. *)
LEMMA QuietStep ==
  ASSUME Count, NEW d \in Devices, StepOf(d), Unreferenced, Quiet(d, pc[d], pc'[d])
  PROVE  Count'
<1>1. TypeOK /\ UNCHANGED <<kparent, refs, glue, busrefs>> /\ Aside(pc[d], pc'[d])
  BY DEF Count, Unreferenced, Quiet
<1>2. refs' \in [Devices -> Int] /\ refs[d] \in Int /\ busrefs \in Int
  BY <1>1 DEF TypeOK
<1>3. Own(d, pc'[d]) = Own(d, pc[d]) /\ Own(d, pc[d]) \in Int
  BY DEF Quiet, Aside, Own
<1>4. OnTheBus(d, pc'[d]) = OnTheBus(d, pc[d]) /\ OnTheBus(d, pc[d]) \in Int
  BY DEF Quiet, OnTheBus, Bit
<1>5. BusMoves(d)
  BY <1>1, <1>2, <1>4 DEF BusMoves
<1>6. refs'[d] - refs[d] = Own(d, pc'[d]) - Own(d, pc[d])
  BY <1>1, <1>2, <1>3
<1>7. QED
  BY <1>1, <1>2, <1>5, <1>6, AsideStep

(* The thread of d goes from s to t *)
Way(d, s, t) == pc[d] = s /\ pc'[d] = t

(* The creations and removals of entries are such steps. *)
LEMMA QuietSteps ==
  ASSUME pc \in [Devices -> States], NEW d \in Devices,
         \/ PrivateInit(d) \/ SetName(d) \/ UeventFile(d) \/ DevtFile(d) \/ SysDevEntry(d)
         \/ SubsystemLink(d) \/ DeviceLink(d) \/ ClassLink(d) \/ OutDevice(d)
         \/ OutSubsys(d) \/ ClassAttrs(d) \/ BinAttrs(d) \/ TypeGroups(d) \/ Groups(d)
         \/ ErrTypeGroups(d) \/ ErrClassBinAttrs(d) \/ ErrClassAttrs(d) \/ BusAttrs(d)
         \/ BusLink(d) \/ BusKlist(d) \/ OutId(d) \/ AddToClass(d) \/ BusError(d)
         \/ AttrsError(d) \/ SymlinkError(d) \/ DevtAttrError(d) \/ UeventAttrError(d)
         \/ NameError(d) \/ DelClass(d) \/ DelAttrs(d)
  PROVE  Unreferenced /\ Quiet(d, pc[d], pc'[d])
<1>1. ASSUME NEW s, NEW t, <<s, t>> \in {
        <<"private", "name">>, <<"private", "failing">>, <<"name", "parent">>,
        <<"name", "name_error">>, <<"uevent", "devt">>, <<"uevent", "attrError">>,
        <<"devt", "sysdev">>, <<"devt", "ueventattrError">>, <<"sysdev", "subsystem">>,
        <<"sysdev", "devtattrError">>, <<"subsystem", "device">>,
        <<"subsystem", "SymlinkError">>, <<"device", "class">>, <<"device", "out_subsys">>,
        <<"class", "linked">>, <<"class", "out_device">>, <<"linked", "class_attrs">>,
        <<"out_device", "out_subsys">>, <<"out_subsys", "SymlinkError">>,
        <<"class_attrs", "bin_attrs">>, <<"class_attrs", "AttrsError">>,
        <<"bin_attrs", "type_groups">>, <<"bin_attrs", "err_class_attrs">>,
        <<"type_groups", "groups">>, <<"type_groups", "err_class_bin_attrs">>,
        <<"groups", "bus">>, <<"groups", "err_type_groups">>,
        <<"err_type_groups", "err_class_bin_attrs">>,
        <<"err_class_bin_attrs", "err_class_attrs">>, <<"err_class_attrs", "AttrsError">>,
        <<"bus_attrs", "bus_link">>, <<"bus_attrs", "out_put">>,
        <<"bus_link", "bus_klist">>, <<"bus_link", "out_id">>, <<"bus_klist", "children">>,
        <<"out_id", "out_put">>, <<"class_klist", "done">>, <<"BusError", "AttrsError">>,
        <<"AttrsError", "SymlinkError">>, <<"SymlinkError", "devtattrError">>,
        <<"devtattrError", "ueventattrError">>, <<"ueventattrError", "attrError">>,
        <<"name_error", "failing">>, <<"del_class", "del_attrs">>,
        <<"del_attrs", "del_bus">>}
      PROVE  Quiet(d, s, t)
  BY <1>1 DEF Quiet, Aside, ParentStates, LostStates, BusStates, DeletedStates, States, Entries,
    GroupStates, TypeGroupStates, BinAttrStates,
  ClassAttrStates, ClassLinkStates, DeviceLinkStates, SubsystemLinkStates, SysDevStates,
  DevtStates, UeventStates, KobjStates, PrivateStates,
  BusKlistStates, BusLinkStates, BusAttrStates
<1>2. CASE PrivateInit(d)
  <2>1. Unreferenced /\ (Way(d, "private", "name") \/ Way(d, "private", "failing"))
    BY <1>2 DEF PrivateInit, Create, Remove, Goto, Way, Unreferenced
  <2>2. QED
    BY <1>1, <2>1 DEF Way
<1>3. CASE SetName(d)
  <2>1. Unreferenced /\ (Way(d, "name", "parent") \/ Way(d, "name", "name_error"))
    BY <1>3 DEF SetName, Create, Remove, Goto, Way, Unreferenced
  <2>2. QED
    BY <1>1, <2>1 DEF Way
<1>4. CASE UeventFile(d)
  <2>1. Unreferenced /\ (Way(d, "uevent", "devt") \/ Way(d, "uevent", "attrError"))
    BY <1>4 DEF UeventFile, Create, Remove, Goto, Way, Unreferenced
  <2>2. QED
    BY <1>1, <2>1 DEF Way
<1>5. CASE DevtFile(d)
  <2>1. Unreferenced /\ (Way(d, "devt", "sysdev") \/ Way(d, "devt", "ueventattrError"))
    BY <1>5 DEF DevtFile, Create, Remove, Goto, Way, Unreferenced
  <2>2. QED
    BY <1>1, <2>1 DEF Way
<1>6. CASE SysDevEntry(d)
  <2>1. Unreferenced /\ (Way(d, "sysdev", "subsystem") \/ Way(d, "sysdev", "devtattrError"))
    BY <1>6 DEF SysDevEntry, Create, Remove, Goto, Way, Unreferenced
  <2>2. QED
    BY <1>1, <2>1 DEF Way
<1>7. CASE SubsystemLink(d)
  <2>1. Unreferenced /\ (Way(d, "subsystem", "device") \/ Way(d, "subsystem", "SymlinkError"))
    BY <1>7 DEF SubsystemLink, Create, Remove, Goto, Way, Unreferenced
  <2>2. QED
    BY <1>1, <2>1 DEF Way
<1>8. CASE DeviceLink(d)
  <2>1. Unreferenced /\ (Way(d, "device", "class") \/ Way(d, "device", "out_subsys"))
    BY <1>8 DEF DeviceLink, Create, Remove, Goto, Way, Unreferenced
  <2>2. QED
    BY <1>1, <2>1 DEF Way
<1>9. CASE ClassLink(d)
  <2>1. Unreferenced /\ (Way(d, "class", "linked") \/ Way(d, "class", "out_device"))
    BY <1>9 DEF ClassLink, Create, Remove, Goto, Way, Unreferenced
  <2>2. QED
    BY <1>1, <2>1 DEF Way
<1>10. CASE OutDevice(d)
  <2>1. Unreferenced /\ (Way(d, "linked", "class_attrs") \/ Way(d, "out_device", "out_subsys"))
    BY <1>10 DEF OutDevice, Create, Remove, Goto, Way, Unreferenced
  <2>2. QED
    BY <1>1, <2>1 DEF Way
<1>11. CASE OutSubsys(d)
  <2>1. Unreferenced /\ (Way(d, "out_subsys", "SymlinkError"))
    BY <1>11 DEF OutSubsys, Create, Remove, Goto, Way, Unreferenced
  <2>2. QED
    BY <1>1, <2>1 DEF Way
<1>12. CASE ClassAttrs(d)
  <2>1. /\ Unreferenced
        /\ Way(d, "class_attrs", "bin_attrs") \/ Way(d, "class_attrs", "AttrsError")
    BY <1>12 DEF ClassAttrs, Create, Remove, Goto, Way, Unreferenced
  <2>2. QED
    BY <1>1, <2>1 DEF Way
<1>13. CASE BinAttrs(d)
  <2>1. /\ Unreferenced
        /\ Way(d, "bin_attrs", "type_groups") \/ Way(d, "bin_attrs", "err_class_attrs")
    BY <1>13 DEF BinAttrs, Create, Remove, Goto, Way, Unreferenced
  <2>2. QED
    BY <1>1, <2>1 DEF Way
<1>14. CASE TypeGroups(d)
  <2>1. /\ Unreferenced
        /\ Way(d, "type_groups", "groups") \/ Way(d, "type_groups", "err_class_bin_attrs")
    BY <1>14 DEF TypeGroups, Create, Remove, Goto, Way, Unreferenced
  <2>2. QED
    BY <1>1, <2>1 DEF Way
<1>15. CASE Groups(d)
  <2>1. Unreferenced /\ (Way(d, "groups", "bus") \/ Way(d, "groups", "err_type_groups"))
    BY <1>15 DEF Groups, Create, Remove, Goto, Way, Unreferenced
  <2>2. QED
    BY <1>1, <2>1 DEF Way
<1>16. CASE ErrTypeGroups(d)
  <2>1. Unreferenced /\ (Way(d, "err_type_groups", "err_class_bin_attrs"))
    BY <1>16 DEF ErrTypeGroups, Create, Remove, Goto, Way, Unreferenced
  <2>2. QED
    BY <1>1, <2>1 DEF Way
<1>17. CASE ErrClassBinAttrs(d)
  <2>1. Unreferenced /\ (Way(d, "err_class_bin_attrs", "err_class_attrs"))
    BY <1>17 DEF ErrClassBinAttrs, Create, Remove, Goto, Way, Unreferenced
  <2>2. QED
    BY <1>1, <2>1 DEF Way
<1>18. CASE ErrClassAttrs(d)
  <2>1. Unreferenced /\ (Way(d, "err_class_attrs", "AttrsError"))
    BY <1>18 DEF ErrClassAttrs, Create, Remove, Goto, Way, Unreferenced
  <2>2. QED
    BY <1>1, <2>1 DEF Way
<1>19. CASE BusAttrs(d)
  <2>1. Unreferenced /\ (Way(d, "bus_attrs", "bus_link") \/ Way(d, "bus_attrs", "out_put"))
    BY <1>19 DEF BusAttrs, Create, Remove, Goto, Way, Unreferenced
  <2>2. QED
    BY <1>1, <2>1 DEF Way
<1>20. CASE BusLink(d)
  <2>1. Unreferenced /\ (Way(d, "bus_link", "bus_klist") \/ Way(d, "bus_link", "out_id"))
    BY <1>20 DEF BusLink, Create, Remove, Goto, Way, Unreferenced
  <2>2. QED
    BY <1>1, <2>1 DEF Way
<1>21. CASE BusKlist(d)
  <2>1. Unreferenced /\ (Way(d, "bus_klist", "children"))
    BY <1>21 DEF BusKlist, Create, Remove, Goto, Way, Unreferenced
  <2>2. QED
    BY <1>1, <2>1 DEF Way
<1>22. CASE OutId(d)
  <2>1. Unreferenced /\ (Way(d, "out_id", "out_put"))
    BY <1>22 DEF OutId, Create, Remove, Goto, Way, Unreferenced
  <2>2. QED
    BY <1>1, <2>1 DEF Way
<1>23. CASE AddToClass(d)
  <2>1. Unreferenced /\ (Way(d, "class_klist", "done"))
    BY <1>23 DEF AddToClass, Create, Remove, Goto, Way, Unreferenced
  <2>2. QED
    BY <1>1, <2>1 DEF Way
<1>24. CASE BusError(d)
  <2>1. Unreferenced /\ (Way(d, "BusError", "AttrsError"))
    BY <1>24 DEF BusError, Create, Remove, Goto, Way, Unreferenced
  <2>2. QED
    BY <1>1, <2>1 DEF Way
<1>25. CASE AttrsError(d)
  <2>1. Unreferenced /\ (Way(d, "AttrsError", "SymlinkError"))
    BY <1>25 DEF AttrsError, Create, Remove, Goto, Way, Unreferenced
  <2>2. QED
    BY <1>1, <2>1 DEF Way
<1>26. CASE SymlinkError(d)
  <2>1. Unreferenced /\ (Way(d, "SymlinkError", "devtattrError"))
    BY <1>26 DEF SymlinkError, Create, Remove, Goto, Way, Unreferenced
  <2>2. QED
    BY <1>1, <2>1 DEF Way
<1>27. CASE DevtAttrError(d)
  <2>1. Unreferenced /\ (Way(d, "devtattrError", "ueventattrError"))
    BY <1>27 DEF DevtAttrError, Create, Remove, Goto, Way, Unreferenced
  <2>2. QED
    BY <1>1, <2>1 DEF Way
<1>28. CASE UeventAttrError(d)
  <2>1. Unreferenced /\ (Way(d, "ueventattrError", "attrError"))
    BY <1>28 DEF UeventAttrError, Create, Remove, Goto, Way, Unreferenced
  <2>2. QED
    BY <1>1, <2>1 DEF Way
<1>29. CASE NameError(d)
  <2>1. Unreferenced /\ (Way(d, "name_error", "failing"))
    BY <1>29 DEF NameError, Create, Remove, Goto, Way, Unreferenced
  <2>2. QED
    BY <1>1, <2>1 DEF Way
<1>30. CASE DelClass(d)
  <2>1. Unreferenced /\ (Way(d, "del_class", "del_attrs"))
    BY <1>30 DEF DelClass, Create, Remove, Goto, Way, Unreferenced
  <2>2. QED
    BY <1>1, <2>1 DEF Way
<1>31. CASE DelAttrs(d)
  <2>1. Unreferenced /\ (Way(d, "del_attrs", "del_bus"))
    BY <1>31 DEF DelAttrs, Create, Remove, Goto, Way, Unreferenced
  <2>2. QED
    BY <1>1, <2>1 DEF Way
<1>32. QED
  BY <1>2, <1>3, <1>4, <1>5, <1>6, <1>7, <1>8, <1>9, <1>10, <1>11, <1>12, <1>13, <1>14, <1>15,
    <1>16, <1>17, <1>18, <1>19, <1>20, <1>21, <1>22, <1>23, <1>24, <1>25, <1>26, <1>27, <1>28,
      <1>29, <1>30, <1>31

-----------------------------------------------------------------------------
(* The steps that change a count                                           *)

(* How many references a device has from its owner and its list. *)
LEMMA OwnIs ==
  ASSUME NEW d \in Devices
  PROVE  /\ Own(d, "new") = 0
         /\ \A s \in {"private", "name", "parent", "glue", "kobj", "uevent", "attrError", "Error",
                      "name_error", "failing", "bus", "bus_attrs", "out_put", "BusError",
                      "children"} : Own(d, s) = 2
         /\ \A s \in {"failed", "del_class", "del_bus", "del_parent", "del_kobj", "put_parent",
                      "deleted"} : Own(d, s) = 1
         /\ Own(d, "class_klist") = 2 + Bit(Parent[d] # None)
         /\ Own(d, "done") = 2 + Bit(Parent[d] # None)
         /\ Own(d, "added") = 1 + Bit(Parent[d] # None)
BY DEF Own, DeletedStates, Bit

(* get_device and put_device, of nobody too. *)
LEMMA Getting ==
  ASSUME TypeOK, NEW x \in Devices \cup {None}, NEW n \in Int, Get(x, n)
  PROVE  /\ refs' \in [Devices -> Int]
         /\ \A e \in Devices \ {x} : refs'[e] = refs[e]
         /\ x # None => refs'[x] = refs[x] + n
<1>1. x # None => x \in Devices
  BY DeviceAddAssumption
<1>2. QED
  BY <1>1, DeviceAddAssumption DEF TypeOK, Get

(* what d adds while its parent is not referenced through kparent *)
LEMMA NoPlace ==
  ASSUME NEW d \in Devices, NEW s, s \notin KobjStates
  PROVE  Places(kparent[d], s, "glue") = 0 /\ Places(kparent[d], s, "parent") = 0
         /\ Places(kparent'[d], s, "glue") = 0 /\ Places(kparent'[d], s, "parent") = 0
BY DEF Places, Bit

(* A device that is not placed, or not yet, names no parent. *)
LEMMA NoParentYet ==
  ASSUME PlaceInv, TypeOK, NEW d \in Devices, pc[d] # "kobj", pc[d] \notin KobjStates
  PROVE  kparent[d] = None /\ None # "glue" /\ None # "parent"
BY DeviceAddAssumption DEF PlaceInv

(* a class directory that a device is in has a reference *)
LEMMA HeldGlue ==
  ASSUME Count, NEW d \in Devices, kparent[d] = "glue"
  PROVE  glue[Parent[d]] > 0
<1> DEFINE p == Parent[d]
<1>1. TypeOK /\ PlaceInv /\ p \in Devices \cup {None} /\ glue[p] \in Nat
  BY ParentIs DEF Count, TypeOK
<1>2. LookedUp(p) \in SUBSET Devices /\ Placed(p, "glue") \in SUBSET Devices
      /\ MayLose(p) \in SUBSET Devices
  BY DEF LookedUp, Placed, MayLose
<1>3. ASSUME NEW S \in SUBSET Devices PROVE Cardinality(S) \in Nat /\ (d \in S => Cardinality(S) > 0)
  <2>1. S \ {d} \in SUBSET Devices
    OBVIOUS
  <2>2. /\ Cardinality(S \ {d}) \in Nat /\ Cardinality(S) \in Nat
        /\ Cardinality(S) = Cardinality(S \ {d}) + Bit(d \in S) - Bit(d \in S \ {d})
    BY <2>1, OneMember
  <2>3. QED
    BY <2>2 DEF Bit
<1>4. d \in LookedUp(p) \/ d \in Placed(p, "glue")
  BY <1>1, DeviceAddAssumption, StatesAre DEF LookedUp, Placed, PlaceInv
<1>5. glue[p] >= Cardinality(LookedUp(p)) + Cardinality(Placed(p, "glue"))
  <2>1. Cardinality(LookedUp(p)) \in Nat /\ Cardinality(Placed(p, "glue")) \in Nat
        /\ Cardinality(MayLose(p)) \in Nat
    BY <1>2, <1>3
  <2>2. QED
    BY <1>1, <2>1 DEF Count, GlueInv
<1>6. Cardinality(LookedUp(p)) + Cardinality(Placed(p, "glue")) > 0
  BY <1>2, <1>3, <1>4
<1>7. Cardinality(LookedUp(p)) \in Nat /\ Cardinality(Placed(p, "glue")) \in Nat
  BY <1>2, <1>3
<1>8. QED
  BY <1>1, <1>5, <1>6, <1>7

(* A device begins with two references. *)
LEMMA RegisterCounts == ASSUME Count, NEW d \in Devices, StepOf(d), Register(d) PROVE Count'
<1>1. /\ TypeOK /\ PlaceInv
      /\ pc[d] = "new" /\ pc'[d] = "private" /\ (Parent[d] # None => pc[Parent[d]] = "added")
      /\ refs' = [refs EXCEPT ![d] = 2] /\ UNCHANGED <<kparent, glue, busrefs>>
  BY DEF Register, Goto, Count, TypeOK
<1>2. kparent[d] = None /\ None # "glue" /\ None # "parent"
  BY <1>1, NoParentYet, StatesAre
<1>3. Parent[d] # d /\ Parent[d] \in Devices \cup {None}
  BY <1>1, NotItsParent, ParentIs DEF DeletedStates
<1>4. Counts(d)
  BY <1>1 DEF Counts, TypeOK
<1>5. Local(d)
  BY <1>1, <1>2 DEF Local, DeletedStates
<1>6. GlueMoves(d)
  BY <1>1, <1>2, <1>3 DEF GlueMoves, TypeOK, Looks, Places, Loses, LostStates, Bit
<1>7. refs[d] = 0
  <2>1. glue[d] = 0 /\ Cardinality(HaveParent(d)) = 0 /\ Cardinality(Placed(d, "parent")) = 0
    <3>1. \A e \in Devices : Parent[e] = d => pc[e] = "new"
      BY <1>1, DeviceAddAssumption DEF PlaceInv, DeletedStates
    <3>2. "new" \notin KobjStates /\ "new" \notin ParentStates /\ "new" \notin LostStates
      BY StatesAre DEF ParentStates, LostStates
    <3>3. /\ HaveParent(d) = {} /\ Placed(d, "parent") = {} /\ Placed(d, "glue") = {}
          /\ MayLose(d) = {} 
      BY <3>1, <3>2 DEF HaveParent, Placed, MayLose
    <3>4. LookedUp(d) = {}
      BY <1>1, <3>1, <3>2, DeviceAddAssumption DEF LookedUp, PlaceInv
    <3>5. Cardinality({}) = 0
      BY FS_EmptySet
    <3>6. glue[d] \in (0 + 0)..(0 + 0 + 0)
      BY <3>3, <3>4, <3>5 DEF Count, GlueInv
    <3>7. QED
      BY <3>3, <3>5, <3>6
  <2>2. refs[d] = Own(d, pc[d]) + (IF glue[d] > 0 THEN 1 ELSE 0)
                    + Cardinality(HaveParent(d)) + Cardinality(Placed(d, "parent"))
    BY DEF Count, RefInv
  <2>3. QED
    BY <1>1, <2>1, <2>2, OwnIs
<1>8. RefsMove(d)
  <2>1. Own(d, pc[d]) = 0 /\ Own(d, pc'[d]) = 2 /\ Has(pc[d]) = 0 /\ Has(pc'[d]) = 0
    BY <1>1, OwnIs, InParentStates
  <2>2. Places(kparent[d], pc[d], "parent") = 0 /\ Places(kparent'[d], pc'[d], "parent") = 0
    BY <1>1, NoPlace, StatesAre
  <2>3. refs'[d] = 2
    BY <1>1 DEF TypeOK
  <2>4. Parent[d] # None =>
          /\ refs'[Parent[d]] = refs[Parent[d]] /\ refs[Parent[d]] \in Int
          /\ Bit(glue'[Parent[d]] > 0) = Bit(glue[Parent[d]] > 0) /\ Bit(glue[Parent[d]] > 0) \in Int
    BY <1>1, <1>3 DEF TypeOK, Bit
  <2>5. QED
    BY <1>7, <2>1, <2>2, <2>3, <2>4 DEF RefsMove
<1>9. BusMoves(d)
  BY <1>1, StatesAre DEF BusMoves, OnTheBus, TypeOK, Bit
<1>10. QED
  BY <1>4, <1>5, <1>6, <1>8, <1>9, Moves

(* demo_get_device_parent. *)
LEMMA GetParentCounts == ASSUME Count, NEW d \in Devices, StepOf(d), GetParent(d) PROVE Count'
<1> DEFINE p == Parent[d]
<1>1. /\ TypeOK /\ PlaceInv /\ pc[d] = "parent" /\ pc'[d] \in {"kobj", "glue"}
      /\ Get(p, 1) /\ UNCHANGED busrefs
  BY DEF GetParent, Goto, Count, TypeOK
<1>2. /\ kparent[d] = None /\ None # "glue" /\ None # "parent"
      /\ p # d /\ p \in Devices \cup {None}
  BY <1>1, NoParentYet, NotItsParent, ParentIs, StatesAre
<1>3. /\ refs' \in [Devices -> Int]
      /\ \A e \in Devices \ {p} : refs'[e] = refs[e]
      /\ p # None => refs'[p] = refs[p] + 1
  BY <1>1, <1>2, Getting
<1>4. /\ glue' \in [Devices \cup {None} -> Nat] /\ kparent' \in [Devices -> {"glue", "parent", None}]
      /\ \A e \in Devices \ {d} : kparent'[e] = kparent[e]
      /\ \A q \in (Devices \cup {None}) \ {p} : glue'[q] = glue[q]
      /\ \/ UsesGlue(d) /\ pc'[d] = "kobj" /\ kparent'[d] = "glue" /\ glue'[p] = glue[p] + 1
            /\ glue[p] > 0
         \/ UsesGlue(d) /\ pc'[d] = "glue" /\ kparent'[d] = None /\ glue'[p] = glue[p]
         \/ /\ pc'[d] = "kobj" /\ glue'[p] = glue[p]
            /\ kparent'[d] = IF p = None THEN None ELSE "parent"
      /\ glue[p] \in Nat
  <2>1. CASE UsesGlue(d) /\ glue[p] > 0
    BY <1>1, <1>2, <2>1 DEF GetParent, Goto, TypeOK
  <2>2. CASE UsesGlue(d) /\ ~(glue[p] > 0)
    BY <1>1, <1>2, <2>2 DEF GetParent, Goto, TypeOK
  <2>3. CASE ~UsesGlue(d)
    BY <1>1, <1>2, <2>3 DEF GetParent, Goto, TypeOK
  <2>4. QED
    BY <2>1, <2>2, <2>3
<1>5. Counts(d)
  BY <1>1, <1>3, <1>4 DEF Counts, TypeOK
<1>6. Local(d)
  BY <1>1, <1>2, <1>4 DEF Local, DeletedStates
<1>7. GlueMoves(d)
  BY <1>1, <1>2, <1>4, StatesAre DEF GlueMoves, Looks, Places, Loses, LostStates, Bit
<1>8. RefsMove(d)
  <2>1. Own(d, pc[d]) = 2 /\ Own(d, pc'[d]) = 2 /\ Has(pc[d]) = 0 /\ Has(pc'[d]) = 1
    BY <1>1, OwnIs, InParentStates
  <2>2. Places(kparent[d], pc[d], "parent") = 0 /\ Places(kparent'[d], pc'[d], "parent") = 0
    BY <1>1, NoPlace, StatesAre
  <2>3. refs'[d] = refs[d] /\ refs[d] \in Int
    BY <1>1, <1>2, <1>3 DEF TypeOK
  <2>4. Bit(glue'[p] > 0) = Bit(glue[p] > 0) /\ Bit(glue[p] > 0) \in Int
    BY <1>4 DEF Bit
  <2>5. p # None => refs'[p] = refs[p] + 1 /\ refs[p] \in Int
    BY <1>1, <1>2, <1>3 DEF TypeOK
  <2>6. QED
    BY <2>1, <2>2, <2>3, <2>4, <2>5 DEF RefsMove
<1>9. BusMoves(d)
  BY <1>1, StatesAre DEF BusMoves, OnTheBus, TypeOK, Bit
<1>10. QED
  BY <1>5, <1>6, <1>7, <1>8, <1>9, Moves

(* demo_class_dir_create_and_add. *)
LEMMA MakeGlueCounts == ASSUME Count, NEW d \in Devices, StepOf(d), MakeGlue(d) PROVE Count'
<1> DEFINE p == Parent[d]
<1>1. /\ TypeOK /\ PlaceInv /\ pc[d] = "glue" /\ pc'[d] = "kobj" /\ UNCHANGED busrefs
  BY DEF MakeGlue, Goto, Count, TypeOK
<1>2. /\ kparent[d] = None /\ None # "glue" /\ None # "parent"
      /\ p # d /\ p \in Devices \cup {None} /\ UsesGlue(d) /\ glue[p] \in Nat
  BY <1>1, NoParentYet, NotItsParent, ParentIs, StatesAre DEF PlaceInv, TypeOK
<1>3. /\ refs' \in [Devices -> Int] /\ glue' \in [Devices \cup {None} -> Nat]
      /\ kparent' \in [Devices -> {"glue", "parent", None}]
      /\ \A e \in Devices \ {p} : refs'[e] = refs[e]
      /\ \A e \in Devices \ {d} : kparent'[e] = kparent[e]
      /\ \A q \in (Devices \cup {None}) \ {p} : glue'[q] = glue[q]
      /\ \/ /\ kparent'[d] = None /\ glue'[p] = glue[p] /\ (p # None => refs'[p] = refs[p])
         \/ /\ kparent'[d] = "glue" /\ glue[p] = 0 /\ glue'[p] = 1
            /\ p # None => refs'[p] = refs[p] + 1
  <2>1. CASE UNCHANGED <<kparent, refs, glue>>
    BY <1>1, <1>2, <2>1 DEF TypeOK
  <2>2. CASE /\ glue[p] = 0 /\ glue' = [glue EXCEPT ![p] = 1]
             /\ kparent' = [kparent EXCEPT ![d] = "glue"] /\ Get(p, 1)
    <3>1. /\ refs' \in [Devices -> Int] /\ (p # None => refs'[p] = refs[p] + 1)
          /\ \A e \in Devices \ {p} : refs'[e] = refs[e]
      BY <1>1, <1>2, <2>2, Getting
    <3>2. QED
      BY <1>1, <1>2, <2>2, <3>1 DEF TypeOK
  <2>3. QED
    BY <2>1, <2>2 DEF MakeGlue
<1>4. Counts(d)
  BY <1>1, <1>3 DEF Counts, TypeOK
<1>5. Local(d)
  BY <1>1, <1>2, <1>3 DEF Local, DeletedStates
<1>6. GlueMoves(d)
  BY <1>1, <1>2, <1>3, StatesAre DEF GlueMoves, Looks, Places, Loses, LostStates, Bit
<1>7. RefsMove(d)
  <2>1. Own(d, pc[d]) = 2 /\ Own(d, pc'[d]) = 2 /\ Has(pc[d]) = 1 /\ Has(pc'[d]) = 1
    BY <1>1, OwnIs, InParentStates
  <2>2. Places(kparent[d], pc[d], "parent") = 0 /\ Places(kparent'[d], pc'[d], "parent") = 0
    BY <1>1, NoPlace, StatesAre
  <2>3. refs'[d] = refs[d] /\ refs[d] \in Int /\ (p # None => refs[p] \in Int)
    BY <1>1, <1>2, <1>3 DEF TypeOK
  <2>4. p # None => refs'[p] - refs[p] = Bit(glue'[p] > 0) - Bit(glue[p] > 0)
    BY <1>2, <1>3, <2>3 DEF Bit
  <2>5. Bit(glue'[p] > 0) \in Int /\ Bit(glue[p] > 0) \in Int
    BY DEF Bit
  <2>6. QED
    BY <2>1, <2>2, <2>3, <2>4, <2>5 DEF RefsMove
<1>8. BusMoves(d)
  BY <1>1, StatesAre DEF BusMoves, OnTheBus, TypeOK, Bit
<1>9. QED
  BY <1>4, <1>5, <1>6, <1>7, <1>8, Moves

(* kobject_add. *)
LEMMA KobjectAddCounts == ASSUME Count, NEW d \in Devices, StepOf(d), KobjectAdd(d) PROVE Count'
<1> DEFINE p == Parent[d]
<1>1. /\ TypeOK /\ PlaceInv /\ pc[d] = "kobj" /\ pc'[d] \in {"uevent", "Error"}
      /\ UNCHANGED busrefs
  BY DEF KobjectAdd, Goto, Count, TypeOK
<1>2. /\ None # "glue" /\ None # "parent" /\ p # d /\ p \in Devices \cup {None}
      /\ glue[p] \in Nat /\ (p # None => refs[p] \in Nat)
      /\ kparent[d] \in {"glue", "parent", None} /\ (kparent[d] = "glue" => UsesGlue(d))
      /\ kparent[d] = "parent" => p # None
  BY <1>1, NotItsParent, ParentIs, DeviceAddAssumption DEF PlaceInv, TypeOK
<1>3. kparent[d] = "glue" => glue[p] > 0
  BY HeldGlue
<1>4. /\ refs' \in [Devices -> Int] /\ glue' \in [Devices \cup {None} -> Nat]
      /\ kparent' \in [Devices -> {"glue", "parent", None}]
      /\ \A e \in Devices \ {p} : refs'[e] = refs[e]
      /\ \A e \in Devices \ {d} : kparent'[e] = kparent[e]
      /\ \A q \in (Devices \cup {None}) \ {p} : glue'[q] = glue[q]
      /\ \/ /\ pc'[d] = "Error" /\ kparent'[d] = None /\ glue'[p] = glue[p]
            /\ p # None => refs'[p] = refs[p]
         \/ /\ pc'[d] = "uevent" /\ kparent'[d] = kparent[d]
            /\ glue'[p] = glue[p] + Bit(kparent[d] = "glue")
            /\ p # None => refs'[p] = refs[p] + Bit(kparent[d] = "parent")
  <2>1. CASE pc'[d] = "Error"
    <3>1. kparent' = [kparent EXCEPT ![d] = None] /\ UNCHANGED <<refs, glue>>
      BY <1>1, <2>1 DEF KobjectAdd, Goto, TypeOK
    <3>2. QED
      BY <1>1, <1>2, <2>1, <3>1 DEF TypeOK
  <2>2. CASE pc'[d] = "uevent"
    <3>1. /\ \/ kparent[d] = "glue" /\ glue' = [glue EXCEPT ![p] = @ + 1] /\ UNCHANGED refs
             \/ kparent[d] = "parent" /\ Get(p, 1) /\ UNCHANGED glue
             \/ kparent[d] = None /\ UNCHANGED <<refs, glue>>
          /\ UNCHANGED kparent
      BY <1>1, <2>2 DEF KobjectAdd, Goto, TypeOK
    <3>2. CASE kparent[d] = "glue" /\ glue' = [glue EXCEPT ![p] = @ + 1] /\ UNCHANGED refs
      BY <1>1, <1>2, <2>2, <3>1, <3>2 DEF TypeOK, Bit
    <3>3. CASE kparent[d] = "parent" /\ Get(p, 1) /\ UNCHANGED glue
      <4>1. /\ refs' \in [Devices -> Int] /\ (p # None => refs'[p] = refs[p] + 1)
            /\ \A e \in Devices \ {p} : refs'[e] = refs[e]
        BY <1>1, <1>2, <3>3, Getting
      <4>2. QED
        BY <1>1, <1>2, <2>2, <3>1, <3>3, <4>1 DEF TypeOK, Bit
    <3>4. CASE kparent[d] = None /\ UNCHANGED <<refs, glue>>
      BY <1>1, <1>2, <2>2, <3>1, <3>4 DEF TypeOK, Bit
    <3>5. QED
      BY <3>1, <3>2, <3>3, <3>4
  <2>3. QED
    BY <1>1, <2>1, <2>2
<1>5. Counts(d)
  BY <1>1, <1>4 DEF Counts, TypeOK
<1>6. Local(d)
  BY <1>1, <1>2, <1>4, StatesAre DEF Local, DeletedStates
<1>7. GlueMoves(d)
  BY <1>1, <1>2, <1>4, StatesAre DEF GlueMoves, Looks, Places, Loses, LostStates, Bit
<1>8. RefsMove(d)
  <2>1. Own(d, pc[d]) = 2 /\ Own(d, pc'[d]) = 2 /\ Has(pc[d]) = 1 /\ Has(pc'[d]) = 1
    BY <1>1, OwnIs, InParentStates, StatesAre
  <2>2. Places(kparent[d], pc[d], "parent") = 0
    BY <1>1, NoPlace, StatesAre
  <2>3. refs'[d] = refs[d] /\ refs[d] \in Int
    BY <1>1, <1>2, <1>4 DEF TypeOK
  <2>4. Bit(glue'[p] > 0) = Bit(glue[p] > 0) /\ Bit(glue[p] > 0) \in Int
    BY <1>2, <1>3, <1>4 DEF Bit
  <2>5. p # None => refs'[p] = refs[p] + Places(kparent'[d], pc'[d], "parent")
    BY <1>2, <1>4, StatesAre DEF Places, Bit
  <2>6. Places(kparent'[d], pc'[d], "parent") \in Int
    BY DEF Places, Bit
  <2>7. QED
    BY <1>2, <2>1, <2>2, <2>3, <2>4, <2>5, <2>6 DEF RefsMove
<1>9. BusMoves(d)
  BY <1>1, StatesAre DEF BusMoves, OnTheBus, TypeOK, Bit
<1>10. QED
  BY <1>5, <1>6, <1>7, <1>8, <1>9, Moves

(* The reference to the bus. *)
LEMMA BusCounts ==
  ASSUME Count, EntryInv, NEW d \in Devices, StepOf(d), BusGet(d) \/ OutPut(d) \/ DelBus(d)
  PROVE  Count'
<1>1. TypeOK /\ UNCHANGED <<kparent, refs, glue>>
  BY DEF Count, BusGet, OutPut, DelBus
<1>2. \/ pc[d] = "bus" /\ pc'[d] = "bus_attrs" /\ d \in OnBus /\ busrefs' = busrefs + 1
      \/ pc[d] = "bus" /\ pc'[d] = "children" /\ d \notin OnBus /\ busrefs' = busrefs
      \/ pc[d] = "out_put" /\ pc'[d] = "BusError" /\ busrefs' = busrefs - 1
      \/ /\ pc[d] = "del_bus" /\ pc'[d] = "del_parent"
         /\ busrefs' = IF d \in OnBus THEN busrefs - 1 ELSE busrefs
  BY <1>1 DEF BusGet, OutPut, DelBus, Goto, TypeOK
<1>3. pc[d] = "out_put" => d \in OnBus
  BY DEF EntryInv, EntriesAt
<1>4. BusMoves(d) /\ busrefs' \in Int
  BY <1>1, <1>2, <1>3, StatesAre DEF BusMoves, OnTheBus, Bit, TypeOK
<1>5. Aside(pc[d], pc'[d])
  BY <1>2, StatesAre DEF Aside, ParentStates, LostStates, DeletedStates
<1>6. Own(d, pc'[d]) = Own(d, pc[d]) /\ Own(d, pc[d]) \in Int
  BY <1>2, OwnIs
<1>7. refs' \in [Devices -> Int] /\ refs'[d] - refs[d] = Own(d, pc'[d]) - Own(d, pc[d])
  BY <1>1, <1>6 DEF TypeOK
<1>8. QED
  BY <1>1, <1>4, <1>5, <1>7, AsideStep

(* The device's own references: its parent's list's and demo_device_add's. *)
LEMMA OwnCounts ==
  ASSUME Count, EntryInv, NEW d \in Devices, StepOf(d),
         AddToParent(d) \/ Done(d) \/ Unregister(d)
  PROVE  Count'
<1> DEFINE above == Bit(Parent[d] # None)
<1>1. TypeOK /\ UNCHANGED <<kparent, glue, busrefs>> /\ above \in Int
  BY DEF Count, AddToParent, Done, Unregister, Bit
<1>2. PICK n \in Int :
        /\ Get(d, n)
        /\ \/ pc[d] = "children" /\ pc'[d] = "class_klist" /\ n = above
           \/ pc[d] = "done" /\ pc'[d] = "added" /\ n = -1
           \/ pc[d] = "failing" /\ pc'[d] = "failed" /\ n = -1
           \/ pc[d] = "added" /\ pc'[d] = "del_class" /\ n = -above
  <2>1. CASE AddToParent(d)
    <3>1. Get(d, above) /\ pc[d] = "children" /\ pc'[d] = "class_klist"
      BY <1>1, <2>1 DEF AddToParent, Goto, TypeOK, Bit
    <3>2. QED
      BY <1>1, <3>1
  <2>2. CASE Done(d)
    <3>1. /\ Get(d, -1)
          /\ \/ pc[d] = "done" /\ pc'[d] = "added"
             \/ pc[d] = "failing" /\ pc'[d] = "failed"
      BY <1>1, <2>2 DEF Done, Goto, TypeOK
    <3>2. QED
      BY <3>1
  <2>3. CASE Unregister(d)
    <3>1. pc[d] = "added" /\ pc'[d] = "del_class"
          /\ Get(d, IF "parent_klist" \in entries[d] THEN -1 ELSE 0)
      BY <1>1, <2>3 DEF Unregister, Goto, TypeOK
    <3>2. "parent_klist" \in entries[d] <=> Parent[d] # None
      BY <3>1 DEF EntryInv, EntriesAt
    <3>3. Get(d, -above)
      <4>1. CASE Parent[d] # None
        BY <3>1, <3>2, <4>1 DEF Bit
      <4>2. CASE Parent[d] = None
        BY <3>1, <3>2, <4>2 DEF Bit
      <4>3. QED
        BY <4>1, <4>2
    <3>4. QED
      BY <1>1, <3>1, <3>3
  <2>4. QED
    BY <2>1, <2>2, <2>3
<1>3. /\ refs' \in [Devices -> Int] /\ \A e \in Devices \ {d} : refs'[e] = refs[e]
      /\ refs'[d] = refs[d] + n /\ refs[d] \in Int
  BY <1>1, <1>2, Getting, DeviceAddAssumption DEF TypeOK
<1>4. n = Own(d, pc'[d]) - Own(d, pc[d])
  BY <1>1, <1>2, OwnIs
<1>5. Own(d, pc'[d]) \in Int /\ Own(d, pc[d]) \in Int
  BY DEF Own
<1>6. refs'[d] - refs[d] = Own(d, pc'[d]) - Own(d, pc[d])
  BY <1>3, <1>4, <1>5
<1>7. Aside(pc[d], pc'[d])
  BY <1>2, StatesAre DEF Aside, ParentStates, LostStates, DeletedStates
<1>8. BusMoves(d) /\ busrefs' \in Int
  BY <1>1, <1>2, StatesAre DEF BusMoves, OnTheBus, Bit, TypeOK
<1>9. QED
  BY <1>1, <1>3, <1>6, <1>7, <1>8, AsideStep

(* PutGlue: the directory lets go of the device above it with its last
   reference *)
LEMMA Putting ==
  ASSUME Count, NEW d \in Devices, kparent[d] = "glue", PutGlue(Parent[d]), Parent[d] # d
  PROVE  LET p == Parent[d]
         IN /\ refs' \in [Devices -> Int] /\ glue' \in [Devices \cup {None} -> Nat]
            /\ \A e \in Devices \ {p} : refs'[e] = refs[e]
            /\ \A q \in (Devices \cup {None}) \ {p} : glue'[q] = glue[q]
            /\ glue'[p] = glue[p] - 1 /\ glue[p] \in Nat
            /\ p # None => refs'[p] = refs[p] + Bit(glue'[p] > 0) - Bit(glue[p] > 0)
<1> DEFINE p == Parent[d]
           n == IF glue[p] = 1 THEN -1 ELSE 0
<1>1. TypeOK /\ p \in Devices \cup {None} /\ glue[p] \in Nat /\ glue[p] > 0
      /\ (p # None => refs[p] \in Int)
  BY HeldGlue, ParentIs DEF Count, TypeOK
<1>2. glue' = [glue EXCEPT ![p] = @ - 1] /\ Get(p, n) /\ n \in Int
  BY DEF PutGlue
<1>3. /\ glue'[p] = glue[p] - 1 /\ glue' \in [Devices \cup {None} -> Nat]
      /\ \A q \in (Devices \cup {None}) \ {p} : glue'[q] = glue[q]
  BY <1>1, <1>2 DEF TypeOK
<1>4. n = Bit(glue'[p] > 0) - Bit(glue[p] > 0)
  BY <1>1, <1>3 DEF Bit
<1> HIDE DEF n
<1>5. /\ refs' \in [Devices -> Int] /\ (p # None => refs'[p] = refs[p] + n)
      /\ \A e \in Devices \ {p} : refs'[e] = refs[e]
  BY <1>1, <1>2, Getting
<1>6. p # None => refs'[p] = refs[p] + Bit(glue'[p] > 0) - Bit(glue[p] > 0)
  <2>1. Bit(glue'[p] > 0) \in Int /\ Bit(glue[p] > 0) \in Int
    BY DEF Bit
  <2>2. QED
    BY <1>1, <1>4, <1>5, <2>1
<1>7. QED
  BY <1>1, <1>3, <1>5, <1>6

(* kobject_del, after an error or in device_del. *)
LEMMA KobjectDelCounts ==
  ASSUME Count, NEW d \in Devices, StepOf(d), AttrError(d) \/ DelKobj(d)
  PROVE  Count'
<1> DEFINE p == Parent[d]
<1>1. /\ TypeOK /\ PlaceInv /\ UNCHANGED busrefs
      /\ \/ pc[d] = "attrError" /\ pc'[d] = "Error"
         \/ pc[d] = "del_kobj" /\ pc'[d] = "put_parent"
      /\ kparent' = [kparent EXCEPT ![d] = None]
      /\ \/ kparent[d] = "glue" /\ PutGlue(p)
         \/ kparent[d] = "parent" /\ Get(p, -1) /\ UNCHANGED glue
         \/ kparent[d] = None /\ UNCHANGED <<refs, glue>>
  BY DEF AttrError, DelKobj, KobjectDel, Goto, Count, TypeOK
<1>2. /\ None # "glue" /\ None # "parent" /\ p # d /\ p \in Devices \cup {None}
      /\ glue[p] \in Nat /\ (p # None => refs[p] \in Int) /\ refs[d] \in Int
      /\ kparent[d] \in {"glue", "parent", None} /\ (kparent[d] = "glue" => UsesGlue(d))
      /\ kparent[d] = "parent" => p # None
      /\ kparent'[d] = None /\ kparent' \in [Devices -> {"glue", "parent", None}]
      /\ \A e \in Devices \ {d} : kparent'[e] = kparent[e]
  BY <1>1, NotItsParent, ParentIs, DeviceAddAssumption DEF PlaceInv, TypeOK
<1>3. /\ refs' \in [Devices -> Int] /\ glue' \in [Devices \cup {None} -> Nat]
      /\ \A e \in Devices \ {p} : refs'[e] = refs[e]
      /\ \A q \in (Devices \cup {None}) \ {p} : glue'[q] = glue[q]
      /\ glue'[p] = glue[p] - Bit(kparent[d] = "glue")
      /\ p # None => refs'[p] = refs[p] + Bit(glue'[p] > 0) - Bit(glue[p] > 0)
                                - Bit(kparent[d] = "parent")
  <2>1. CASE kparent[d] = "glue" /\ PutGlue(p)
    BY <1>2, <2>1, Putting DEF Bit
  <2>2. CASE kparent[d] = "parent" /\ Get(p, -1) /\ UNCHANGED glue
    <3>1. /\ refs' \in [Devices -> Int] /\ (p # None => refs'[p] = refs[p] + (-1))
          /\ \A e \in Devices \ {p} : refs'[e] = refs[e]
      BY <1>1, <1>2, <2>2, Getting
    <3>2. QED
      BY <1>1, <1>2, <2>2, <3>1 DEF TypeOK, Bit
  <2>3. CASE kparent[d] = None /\ UNCHANGED <<refs, glue>>
    BY <1>1, <1>2, <2>3 DEF TypeOK, Bit
  <2>4. QED
    BY <1>1, <2>1, <2>2, <2>3
<1>4. Counts(d)
  BY <1>1, <1>2, <1>3 DEF Counts, TypeOK
<1>5. Local(d)
  BY <1>1, <1>2, StatesAre DEF Local, DeletedStates
<1>6. GlueMoves(d)
  BY <1>1, <1>2, <1>3, StatesAre DEF GlueMoves, Looks, Places, Loses, LostStates, Bit
<1>7. RefsMove(d)
  <2>1. Own(d, pc'[d]) = Own(d, pc[d]) /\ Own(d, pc[d]) \in Int /\ Has(pc[d]) = 1 /\ Has(pc'[d]) = 1
    BY <1>1, OwnIs, InParentStates, StatesAre
  <2>2. /\ Places(kparent[d], pc[d], "parent") = Bit(kparent[d] = "parent")
        /\ Places(kparent'[d], pc'[d], "parent") = 0
    BY <1>1, <1>2, StatesAre DEF Places, Bit
  <2>3. refs'[d] = refs[d]
    BY <1>2, <1>3
  <2>4. Bit(glue'[p] > 0) \in Int /\ Bit(glue[p] > 0) \in Int /\ Bit(kparent[d] = "parent") \in Int
    BY DEF Bit
  <2>5. p # None =>
          refs'[p] - refs[p] = Bit(glue'[p] > 0) - Bit(glue[p] > 0) - Bit(kparent[d] = "parent")
    BY <1>2, <1>3, <2>4
  <2>6. QED
    BY <1>2, <2>1, <2>2, <2>3, <2>4, <2>5 DEF RefsMove
<1>8. BusMoves(d)
  BY <1>1, StatesAre DEF BusMoves, OnTheBus, TypeOK, Bit
<1>9. QED
  BY <1>4, <1>5, <1>6, <1>7, <1>8, Moves

(* demo_cleanup_device_parent in demo_device_del. *)
LEMMA DelParentCounts == ASSUME Count, NEW d \in Devices, StepOf(d), DelParent(d) PROVE Count'
<1> DEFINE p == Parent[d]
<1>1. /\ TypeOK /\ PlaceInv /\ UNCHANGED <<busrefs, kparent>>
      /\ pc[d] = "del_parent" /\ pc'[d] = "del_kobj"
      /\ \/ kparent[d] = "glue" /\ PutGlue(p)
         \/ kparent[d] # "glue" /\ UNCHANGED <<refs, glue>>
  BY DEF DelParent, Goto, Count, TypeOK
<1>2. /\ p # d /\ p \in Devices \cup {None}
      /\ glue[p] \in Nat /\ (p # None => refs[p] \in Int) /\ refs[d] \in Int
  BY <1>1, NotItsParent, ParentIs DEF TypeOK
<1>3. /\ refs' \in [Devices -> Int] /\ glue' \in [Devices \cup {None} -> Nat]
      /\ \A e \in Devices \ {p} : refs'[e] = refs[e]
      /\ \A q \in (Devices \cup {None}) \ {p} : glue'[q] = glue[q]
      /\ glue'[p] = glue[p] - Bit(kparent[d] = "glue")
      /\ p # None => refs'[p] = refs[p] + Bit(glue'[p] > 0) - Bit(glue[p] > 0)
  <2>1. CASE kparent[d] = "glue" /\ PutGlue(p)
    BY <1>2, <2>1, Putting DEF Bit
  <2>2. CASE kparent[d] # "glue" /\ UNCHANGED <<refs, glue>>
    BY <1>1, <1>2, <2>2 DEF TypeOK, Bit
  <2>3. QED
    BY <1>1, <2>1, <2>2
<1>4. Counts(d)
  BY <1>1, <1>3 DEF Counts, TypeOK
<1>5. Local(d)
  BY <1>1, StatesAre DEF Local, DeletedStates, PlaceInv
<1>6. GlueMoves(d)
  BY <1>1, <1>2, <1>3, StatesAre DEF GlueMoves, Looks, Places, Loses, LostStates, Bit
<1>7. RefsMove(d)
  <2>1. Own(d, pc'[d]) = Own(d, pc[d]) /\ Own(d, pc[d]) \in Int /\ Has(pc[d]) = 1 /\ Has(pc'[d]) = 1
    BY <1>1, OwnIs, InParentStates, StatesAre
  <2>2. /\ Places(kparent[d], pc'[d], "parent") = Places(kparent[d], pc[d], "parent")
        /\ Places(kparent[d], pc[d], "parent") \in Int
        /\ Bit(glue'[p] > 0) \in Int /\ Bit(glue[p] > 0) \in Int
    BY <1>1, StatesAre DEF Places, Bit
  <2>3. refs'[d] = refs[d] /\ kparent'[d] = kparent[d]
    BY <1>1, <1>2, <1>3
  <2>4. p # None => refs'[p] - refs[p] = Bit(glue'[p] > 0) - Bit(glue[p] > 0)
    BY <1>2, <1>3, <2>2
  <2>5. QED
    BY <1>2, <2>1, <2>2, <2>3, <2>4 DEF RefsMove
<1>8. BusMoves(d)
  BY <1>1, StatesAre DEF BusMoves, OnTheBus, TypeOK, Bit
<1>9. QED
  BY <1>4, <1>5, <1>6, <1>7, <1>8, Moves

(* The reference that demo_get_device_parent took is put. *)
LEMMA PutCounts ==
  ASSUME Count, NEW d \in Devices, StepOf(d), Error(d) \/ PutParent(d)
  PROVE  Count'
<1> DEFINE p == Parent[d]
<1>1. /\ TypeOK /\ PlaceInv /\ UNCHANGED <<busrefs, kparent>> /\ Get(p, -1)
      /\ \/ pc[d] = "Error" /\ pc'[d] = "name_error"
         \/ pc[d] = "put_parent" /\ pc'[d] = "deleted"
  BY DEF Error, PutParent, Goto, Count, TypeOK
<1>2. /\ kparent[d] = None /\ None # "glue" /\ None # "parent"
      /\ p # d /\ p \in Devices \cup {None}
      /\ glue[p] \in Nat /\ (p # None => refs[p] \in Int) /\ refs[d] \in Int
  BY <1>1, NoParentYet, NotItsParent, ParentIs, StatesAre DEF TypeOK
<1>3. glue' = glue
  <2>1. CASE Error(d)
    <3>1. glue' = [glue EXCEPT ![p] = glue[p]]
      BY <1>2, <2>1 DEF Error
    <3>2. QED
      BY <1>1, <1>2, <3>1 DEF TypeOK
  <2>2. CASE PutParent(d)
    BY <2>2 DEF PutParent
  <2>3. QED
    BY <2>1, <2>2
<1>4. /\ refs' \in [Devices -> Int] /\ (p # None => refs'[p] = refs[p] + (-1))
      /\ \A e \in Devices \ {p} : refs'[e] = refs[e]
  BY <1>1, <1>2, Getting
<1>5. Counts(d)
  BY <1>1, <1>3, <1>4 DEF Counts, TypeOK
<1>6. Local(d)
  BY <1>1, <1>2 DEF Local, DeletedStates
<1>7. GlueMoves(d)
  BY <1>1, <1>2, <1>3, StatesAre DEF GlueMoves, Looks, Places, Loses, LostStates, Bit
<1>8. RefsMove(d)
  <2>1. Own(d, pc'[d]) = Own(d, pc[d]) /\ Own(d, pc[d]) \in Int /\ Has(pc[d]) = 1 /\ Has(pc'[d]) = 0
    BY <1>1, OwnIs, InParentStates
  <2>2. /\ Places(kparent'[d], pc'[d], "parent") = 0 /\ Places(kparent[d], pc[d], "parent") = 0
        /\ Bit(glue[p] > 0) \in Int
    BY <1>1, <1>2 DEF Places, Bit
  <2>3. refs'[d] = refs[d]
    BY <1>2, <1>4
  <2>4. QED
    BY <1>2, <1>3, <1>4, <2>1, <2>2, <2>3 DEF RefsMove
<1>9. BusMoves(d)
  BY <1>1, StatesAre DEF BusMoves, OnTheBus, TypeOK, Bit
<1>10. QED
  BY <1>5, <1>6, <1>7, <1>8, <1>9, Moves

(* No step takes or puts a reference that is not accounted for. *)
LEMMA CountStep ==
  ASSUME Count, EntryInv, NEW d \in Devices, Adding(d) \/ Unwinding(d) \/ Deleting(d)
  PROVE  Count'
<1>1. StepOf(d)
  BY AddingSteps, UnwindingSteps, DeletingSteps
<1>2. pc \in [Devices -> States]
  BY DEF EntryInv
<1>3. CASE \/ PrivateInit(d) \/ SetName(d) \/ UeventFile(d) \/ DevtFile(d) \/ SysDevEntry(d)
           \/ SubsystemLink(d) \/ DeviceLink(d) \/ ClassLink(d) \/ OutDevice(d)
           \/ OutSubsys(d) \/ ClassAttrs(d) \/ BinAttrs(d) \/ TypeGroups(d) \/ Groups(d)
           \/ ErrTypeGroups(d) \/ ErrClassBinAttrs(d) \/ ErrClassAttrs(d) \/ BusAttrs(d)
           \/ BusLink(d) \/ BusKlist(d) \/ OutId(d) \/ AddToClass(d) \/ BusError(d)
           \/ AttrsError(d) \/ SymlinkError(d) \/ DevtAttrError(d) \/ UeventAttrError(d)
           \/ NameError(d) \/ DelClass(d) \/ DelAttrs(d)
  BY <1>1, <1>2, <1>3, QuietSteps, QuietStep
<1>4. CASE \/ Register(d) \/ GetParent(d) \/ MakeGlue(d) \/ KobjectAdd(d) \/ AttrError(d)
           \/ DelKobj(d) \/ DelParent(d) \/ Error(d) \/ PutParent(d)
  BY <1>1, <1>4, RegisterCounts, GetParentCounts, MakeGlueCounts, KobjectAddCounts,
     KobjectDelCounts, DelParentCounts, PutCounts
<1>5. CASE \/ BusGet(d) \/ OutPut(d) \/ DelBus(d) \/ AddToParent(d) \/ Done(d) \/ Unregister(d)
  BY <1>1, <1>5, BusCounts, OwnCounts
<1>6. QED
  BY <1>3, <1>4, <1>5 DEF Adding, Unwinding, Deleting

-----------------------------------------------------------------------------
(* The invariant, and what it gives                                        *)

(* No entries yet. *)
LEMMA EntriesStart == Init => EntryInv
BY DEF Init, EntryInv, EntriesAt, States, Entries, GroupStates, TypeGroupStates, BinAttrStates,
  ClassAttrStates, ClassLinkStates, DeviceLinkStates, SubsystemLinkStates, SysDevStates,
  DevtStates, UeventStates, KobjStates, PrivateStates,
  BusKlistStates, BusLinkStates, BusAttrStates

(* No references yet. *)
LEMMA CountsStart == Init => Count
<1> SUFFICES ASSUME Init PROVE Count
  OBVIOUS
<1>1. TypeOK
  BY DEF Init, TypeOK, States
<1>2. PlaceInv
  BY DeviceAddAssumption DEF Init, PlaceInv
<1>3. ASSUME NEW p \in Devices \cup {None}
      PROVE  /\ LookedUp(p) = {} /\ Placed(p, "glue") = {} /\ Placed(p, "parent") = {}
             /\ MayLose(p) = {} /\ HaveParent(p) = {}
  <2>1. "new" \notin KobjStates /\ "new" \notin LostStates /\ "new" \notin ParentStates
    BY StatesAre DEF LostStates, ParentStates
  <2>2. None # "glue"
    BY DeviceAddAssumption
  <2>3. QED
    BY <2>1, <2>2 DEF Init, LookedUp, Placed, MayLose, HaveParent
<1>4. {d \in OnBus : pc[d] \in BusStates} = {}
  BY StatesAre, DeviceAddAssumption DEF Init
<1>5. Cardinality({}) = 0
  BY FS_EmptySet
<1>6. GlueInv
  <2>1. ASSUME NEW p \in Devices \cup {None}
        PROVE  /\ Cardinality(LookedUp(p)) = 0 /\ Cardinality(Placed(p, "glue")) = 0
               /\ Cardinality(MayLose(p)) = 0 /\ glue[p] = 0
    BY <1>3, <1>5 DEF Init
  <2>2. QED
    BY <2>1 DEF GlueInv
<1>7. RefInv
  <2>1. ASSUME NEW d \in Devices
        PROVE  /\ Cardinality(HaveParent(d)) = 0 /\ Cardinality(Placed(d, "parent")) = 0
               /\ refs[d] = 0 /\ glue[d] = 0 /\ Own(d, pc[d]) = 0
    BY <1>3, <1>5, OwnIs DEF Init
  <2>2. QED
    BY <2>1 DEF RefInv
<1>8. BusInv
  BY <1>4, <1>5 DEF Init, BusInv
<1>9. QED
  BY <1>1, <1>2, <1>6, <1>7, <1>8 DEF Count

(* Both over a whole run. *)
LEMMA Invariant == Spec => [](EntryInv /\ Count)
<1>1. Init => EntryInv /\ Count
  BY EntriesStart, CountsStart
<1>2. EntryInv /\ Count /\ [Next]_vars => (EntryInv /\ Count)'
  <2>1. ASSUME EntryInv, Count, NEW d \in Devices, Adding(d) \/ Unwinding(d) \/ Deleting(d)
        PROVE  EntryInv' /\ Count'
    BY <2>1, AddingSteps, UnwindingSteps, DeletingSteps, StepKeepsInv, CountStep
  <2>2. ASSUME EntryInv, Count, UNCHANGED vars PROVE EntryInv' /\ Count'
    <3>1. UNCHANGED <<pc, entries, kparent, refs, glue, busrefs>>
      BY <2>2 DEF vars
    <3>2. EntryInv'
      BY <2>2, <3>1 DEF EntryInv, EntriesAt
    <3>3. \A p, kind : /\ LookedUp(p)' = LookedUp(p) /\ Placed(p, kind)' = Placed(p, kind)
                       /\ MayLose(p)' = MayLose(p) /\ HaveParent(p)' = HaveParent(p)
      BY <3>1 DEF LookedUp, Placed, MayLose, HaveParent
    <3>4. TypeOK' /\ PlaceInv' /\ BusInv'
      BY <2>2, <3>1 DEF Count, TypeOK, PlaceInv, BusInv
    <3>5. GlueInv' /\ RefInv'
      BY <2>2, <3>1, <3>3 DEF Count, GlueInv, RefInv
    <3>6. QED
      BY <3>2, <3>4, <3>5 DEF Count
  <2>3. QED
    BY <2>1, <2>2 DEF Next
<1>3. QED
  BY <1>1, <1>2, PTL DEF Spec

(* demo_device_add gives a device all it wants or leaves nothing of it,
   whatever fails and however registrations interleave. *)
THEOREM RegistrationIsAllOrNothing == Spec => []AddIsAllOrNothing
<1>1. EntryInv => AddIsAllOrNothing
  <2> SUFFICES ASSUME EntryInv, NEW d \in Devices
               PROVE  /\ pc[d] = "added" => entries[d] = Wanted(d)
                      /\ pc[d] = "failed" => entries[d] = {}
                      /\ pc[d] = "deleted" => entries[d] = {"p"}
    BY DEF AddIsAllOrNothing
  <2> USE DEF EntryInv, EntriesAt, Wanted, Entries, Files, GroupStates,
  TypeGroupStates, BinAttrStates,
  ClassAttrStates, ClassLinkStates, DeviceLinkStates, SubsystemLinkStates, SysDevStates,
  DevtStates, UeventStates, KobjStates, PrivateStates,
  BusKlistStates, BusLinkStates, BusAttrStates
  <2>1. CASE pc[d] = "added"
    BY <2>1
  <2>2. CASE pc[d] = "failed"
    BY <2>2
  <2>3. CASE pc[d] = "deleted"
    BY <2>3
  <2> QED
    BY <2>1, <2>2, <2>3
<1>2. QED
  BY <1>1, Invariant, PTL

(* No reference count of a device, a class directory or the bus goes below
   zero, whatever fails: nothing is put that was not taken. *)
THEOREM NothingIsPutTwice == Spec => []TypeOK
<1>1. EntryInv /\ Count => TypeOK
  BY DEF Count
<1>2. QED
  BY <1>1, Invariant, PTL

(* A class directory lives as long as a device is in it, and is gone when its
   devices have been unregistered, if the registration of none has failed. *)
THEOREM GlueDirIsReleased == Spec => []GlueDirFollowsDevices
<1>1. Count => GlueDirFollowsDevices
  <2> SUFFICES ASSUME Count, NEW p \in Devices \cup {None}
               PROVE  LET users == {d \in Devices : Parent[d] = p /\ UsesGlue(d)} IN
                      /\ (\E d \in users : kparent[d] = "glue") => glue[p] > 0
                      /\ (\A d \in users : pc[d] \in {"new", "deleted"}) => glue[p] = 0
    BY DEF GlueDirFollowsDevices
  <2> DEFINE users == {d \in Devices : Parent[d] = p /\ UsesGlue(d)}
  <2>1. ASSUME NEW d \in users, kparent[d] = "glue" PROVE glue[p] > 0
    BY <2>1, HeldGlue
  <2>2. ASSUME \A d \in users : pc[d] \in {"new", "deleted"} PROVE glue[p] = 0
    <3>1. PlaceInv /\ None # "glue" /\ glue[p] \in Nat
      BY DeviceAddAssumption DEF Count, TypeOK
    <3>2. \A d \in users : pc[d] \notin KobjStates /\ pc[d] # "kobj" /\ pc[d] \notin LostStates
      BY <2>2, StatesAre DEF LostStates
    <3>3. LookedUp(p) = {} /\ Placed(p, "glue") = {}
      BY <3>1, <3>2 DEF LookedUp, Placed, PlaceInv
    <3>4. MayLose(p) = {}
      BY <3>2 DEF MayLose
    <3>5. Cardinality({}) = 0
      BY FS_EmptySet
    <3>6. QED
      BY <3>1, <3>3, <3>4, <3>5 DEF Count, GlueInv
  <2>3. QED
    BY <2>1, <2>2
<1>2. QED
  BY <1>1, Invariant, PTL

(* When no child is being registered or unregistered, every reference to a
   device is its owner's, a list's, its class directory's or a registered
   child's; and those to the bus are those of the devices on it. *)
THEOREM EveryReferenceIsReturned == Spec => []ReferencesReturned
<1>1. Count => ReferencesReturned
  <2> SUFFICES ASSUME Count PROVE ReferencesReturned
    OBVIOUS
  <2>1. /\ \A s \in {"new", "failed", "deleted"} : s \notin ParentStates /\ s \notin KobjStates
                                                   /\ s \notin BusStates
        /\ "added" \in ParentStates /\ "added" \in KobjStates /\ "added" \in BusStates
    BY StatesAre DEF ParentStates
  <2>2. ASSUME NEW d \in Devices, pc[d] = "added", \A c \in Children(d) : Idle(c)
        PROVE  refs[d] = 1 + (IF Parent[d] = None THEN 0 ELSE 1) + (IF glue[d] > 0 THEN 1 ELSE 0)
                   + Cardinality({c \in Children(d) : pc[c] = "added"})
                   + Cardinality({c \in Children(d) : pc[c] = "added" /\ kparent[c] = "parent"})
    <3>1. HaveParent(d) = {c \in Children(d) : pc[c] = "added"}
      BY <2>1, <2>2 DEF HaveParent, Children, Idle
    <3>2. Placed(d, "parent") = {c \in Children(d) : pc[c] = "added" /\ kparent[c] = "parent"}
      BY <2>1, <2>2 DEF Placed, Children, Idle
    <3>3. Own(d, pc[d]) = 1 + (IF Parent[d] = None THEN 0 ELSE 1)
      BY <2>2, OwnIs DEF Bit
    <3>4. QED
      BY <3>1, <3>2, <3>3 DEF Count, RefInv
  <2>3. ASSUME \A d \in Devices : Idle(d)
        PROVE  busrefs = Cardinality({d \in OnBus : pc[d] = "added"})
    <3>1. {d \in OnBus : pc[d] \in BusStates} = {d \in OnBus : pc[d] = "added"}
      BY <2>1, <2>3, DeviceAddAssumption DEF Idle
    <3>2. QED
      BY <3>1 DEF Count, BusInv
  <2>4. QED
    BY <2>2, <2>3 DEF ReferencesReturned
<1>2. QED
  BY <1>1, Invariant, PTL
=============================================================================
