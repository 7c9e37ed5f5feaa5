----------------------------- MODULE DeviceAdd -----------------------------
(***************************************************************************)
(* demo_device_register and demo_device_unregister of the demo driver      *)
(* core, bus/common/device/device_register: what a device creates in sysfs *)
(* and on the lists of its bus, class and parent, the references it takes, *)
(* and how a failing registration is undone.                               *)
(*                                                                         *)
(* Every creation may fail.  One thread registers each device and          *)
(* unregisters it; threads interleave between any two calls into sysfs,    *)
(* kobject or klist code, each of which is one step.  There is one class   *)
(* and one bus.  Probing is in DeferredProbe; uevents, notifiers and       *)
(* subsystem interfaces change none of the state kept here.                *)
(***************************************************************************)
EXTENDS Integers, FiniteSets

CONSTANTS
  Devices, None,
  Parent,                           \* dev->parent, or None
  HasClass, HasType, HasDevt, OnBus \* devices with a class, type, devt, bus

ASSUME DeviceAddAssumption ==
  /\ IsFiniteSet(Devices)
  /\ None \notin Devices \cup {"glue", "parent"}
  /\ Parent \in [Devices -> Devices \cup {None}]
  /\ {HasClass, HasType, HasDevt, OnBus} \subseteq SUBSET Devices

VARIABLES
  pc,        \* control state of the thread of each device
  entries,   \* what exists for a device: memory, sysfs entries, list nodes
  kparent,   \* the kind of dev->kobj.parent: "glue", "parent" or None
  refs,      \* references to dev->kobj
  glue,      \* references to the class directory below a device, or below
             \* the virtual directory (None); 0 when there is none
  busrefs    \* references to the bus taken by demo_bus_add_device

vars == <<pc, entries, kparent, refs, glue, busrefs>>

Init ==
  /\ pc = [d \in Devices |-> "new"]
  /\ entries = [d \in Devices |-> {}]
  /\ kparent = [d \in Devices |-> None]
  /\ refs = [d \in Devices |-> 0]
  /\ glue = [p \in Devices \cup {None} |-> 0]
  /\ busrefs = 0

-----------------------------------------------------------------------------
(* Helpers                                                                 *)

Goto(d, from, to) == pc[d] = from /\ pc' = [pc EXCEPT ![d] = to]

Get(d, n) == refs' = IF d = None THEN refs ELSE [refs EXCEPT ![d] = @ + n]

Unreferenced == UNCHANGED <<kparent, refs, glue, busrefs>>

(* The files in the directory of a device; they go with the directory.     *)
Files == {"uevent", "devt", "subsystem", "device", "class_attrs", "bin_attrs",
          "type_groups", "groups", "bus_attrs"}

(* A creation that can fail, skipped by devices that do not want it. *)
Create(d, here, wanted, entry, next, label) ==
  /\ \/ Goto(d, here, next) /\ entries' = [entries EXCEPT ![d] = IF wanted THEN @ \cup {entry} ELSE @]
     \/ Goto(d, here, label) /\ wanted /\ UNCHANGED entries
  /\ Unreferenced

Remove(d, here, gone, next) ==
  /\ Goto(d, here, next)
  /\ entries' = [entries EXCEPT ![d] = @ \ gone]
  /\ Unreferenced

-----------------------------------------------------------------------------
(* demo_device_add up to kobject_add                                       *)

(* A child is registered while its parent is. *)
Register(d) ==
  /\ Parent[d] # None => pc[Parent[d]] = "added"
  /\ Goto(d, "new", "private")
  /\ refs' = [refs EXCEPT ![d] = 2]
  /\ UNCHANGED <<entries, kparent, glue, busrefs>>

PrivateInit(d) == Create(d, "private", TRUE, "p", "name", "failing")

(* demo_dev_set_name ignores errors, but a device needs a name *)
SetName(d) == (Goto(d, "name", "parent") \/ Goto(d, "name", "name_error")) /\ UNCHANGED entries /\ Unreferenced

(* demo_get_device_parent; only a class directory that is found is referenced *)
UsesGlue(d) == d \in HasClass /\ (Parent[d] = None \/ Parent[d] \notin HasClass)

GetParent(d) ==
  /\ Get(Parent[d], 1)
  /\ \/ /\ UsesGlue(d) /\ glue[Parent[d]] > 0
        /\ Goto(d, "parent", "kobj")
        /\ kparent' = [kparent EXCEPT ![d] = "glue"]
        /\ glue' = [glue EXCEPT ![Parent[d]] = @ + 1]
     \/ /\ UsesGlue(d) /\ glue[Parent[d]] = 0
        /\ Goto(d, "parent", "glue")
        /\ UNCHANGED <<kparent, glue>>
     \/ /\ ~UsesGlue(d)
        /\ Goto(d, "parent", "kobj")
        /\ kparent' = [kparent EXCEPT ![d] = IF Parent[d] = None THEN None ELSE "parent"]
        /\ UNCHANGED glue
  /\ UNCHANGED <<entries, busrefs>>

(* demo_class_dir_create_and_add: fails for want of memory, or because another
   thread has created the directory since it was looked up.  Its error is not
   an error of demo_device_add. *)
MakeGlue(d) ==
  /\ Goto(d, "glue", "kobj")
  /\ \/ UNCHANGED <<kparent, refs, glue>>
     \/ /\ glue[Parent[d]] = 0
        /\ glue' = [glue EXCEPT ![Parent[d]] = 1]
        /\ kparent' = [kparent EXCEPT ![d] = "glue"]
        /\ Get(Parent[d], 1)
  /\ UNCHANGED <<entries, busrefs>>

(* kobject_put of a class directory: the last one frees the directory, which
   lets go of the device above it *)
PutGlue(p) ==
  /\ glue' = [glue EXCEPT ![p] = @ - 1]
  /\ Get(p, IF glue[p] = 1 THEN -1 ELSE 0)

(* kobject_add references the parent; when it fails it forgets it *)
KobjectAdd(d) ==
  /\ \/ /\ Goto(d, "kobj", "uevent")
        /\ entries' = [entries EXCEPT ![d] = @ \cup {"kobj"}]
        /\ \/ /\ kparent[d] = "glue"
              /\ glue' = [glue EXCEPT ![Parent[d]] = @ + 1] /\ UNCHANGED refs
           \/ kparent[d] = "parent" /\ Get(Parent[d], 1) /\ UNCHANGED glue
           \/ kparent[d] = None /\ UNCHANGED <<refs, glue>>
        /\ UNCHANGED kparent
     \/ /\ Goto(d, "kobj", "Error")
        /\ kparent' = [kparent EXCEPT ![d] = None]
        /\ UNCHANGED <<entries, refs, glue>>
  /\ UNCHANGED busrefs

-----------------------------------------------------------------------------
(* the sysfs entries of demo_device_add                                    *)

UeventFile(d) == Create(d, "uevent", TRUE, "uevent", "devt", "attrError")
DevtFile(d) == Create(d, "devt", d \in HasDevt, "devt", "sysdev", "ueventattrError")
SysDevEntry(d) == Create(d, "sysdev", d \in HasDevt, "sysdev", "subsystem", "devtattrError")

(* demo_device_add_class_symlinks: a success runs into the error path too  *)
SubsystemLink(d) == Create(d, "subsystem", d \in HasClass, "subsystem", "device", "SymlinkError")
DeviceLink(d) == Create(d, "device", d \in HasClass /\ Parent[d] # None, "device", "class", "out_subsys")
ClassLink(d) == Create(d, "class", d \in HasClass, "class", "linked", "out_device")
OutDevice(d) ==
  \/ Remove(d, "linked", {"device", "subsystem"}, "class_attrs")
  \/ Remove(d, "out_device", {"device"}, "out_subsys")
OutSubsys(d) == Remove(d, "out_subsys", {"subsystem"}, "SymlinkError")

(* demo_device_add_attrs; an array of attributes that fails has undone what
   it had created *)
ClassAttrs(d) == Create(d, "class_attrs", d \in HasClass, "class_attrs", "bin_attrs", "AttrsError")
BinAttrs(d) == Create(d, "bin_attrs", d \in HasClass, "bin_attrs", "type_groups", "err_class_attrs")
TypeGroups(d) == Create(d, "type_groups", d \in HasType, "type_groups", "groups", "err_class_bin_attrs")
Groups(d) == Create(d, "groups", TRUE, "groups", "bus", "err_type_groups")
ErrTypeGroups(d) == Remove(d, "err_type_groups", {"type_groups"}, "err_class_bin_attrs")
ErrClassBinAttrs(d) == Remove(d, "err_class_bin_attrs", {"bin_attrs"}, "err_class_attrs")
ErrClassAttrs(d) == Remove(d, "err_class_attrs", {"class_attrs"}, "AttrsError")

(* demo_bus_add_device *)
BusGet(d) ==
  /\ \/ Goto(d, "bus", "bus_attrs") /\ d \in OnBus /\ busrefs' = busrefs + 1
     \/ Goto(d, "bus", "children") /\ d \notin OnBus /\ UNCHANGED busrefs
  /\ UNCHANGED <<entries, kparent, refs, glue>>
BusAttrs(d) == Create(d, "bus_attrs", TRUE, "bus_attrs", "bus_link", "out_put")
BusLink(d) == Create(d, "bus_link", TRUE, "bus_link", "bus_klist", "out_id")
BusKlist(d) ==
  /\ Goto(d, "bus_klist", "children")
  /\ entries' = [entries EXCEPT ![d] = @ \cup {"bus_klist"}]
  /\ Unreferenced
OutId(d) == Remove(d, "out_id", {"bus_attrs"}, "out_put")
OutPut(d) ==
  /\ Goto(d, "out_put", "BusError")
  /\ busrefs' = busrefs - 1
  /\ UNCHANGED <<entries, kparent, refs, glue>>

(* The device is added: the lists of its parent, which references it, and of
   its class; then demo_device_add drops its own reference. *)
AddToParent(d) ==
  /\ Goto(d, "children", "class_klist")
  /\ entries' = [entries EXCEPT ![d] = IF Parent[d] = None THEN @ ELSE @ \cup {"parent_klist"}]
  /\ Get(d, IF Parent[d] = None THEN 0 ELSE 1)
  /\ UNCHANGED <<kparent, glue, busrefs>>
AddToClass(d) ==
  /\ Goto(d, "class_klist", "done")
  /\ entries' = [entries EXCEPT ![d] = IF d \in HasClass THEN @ \cup {"class_klist"} ELSE @]
  /\ Unreferenced
Done(d) ==
  /\ Goto(d, "done", "added") \/ Goto(d, "failing", "failed")
  /\ Get(d, -1)
  /\ UNCHANGED <<entries, kparent, glue, busrefs>>

-----------------------------------------------------------------------------
(* the error labels of demo_device_add                                     *)

BusError(d) == Remove(d, "BusError", {"class_attrs", "bin_attrs", "type_groups", "groups"}, "AttrsError")
(* Mutant: only the links inside the directory are removed *)
AttrsErrorLinks(d) == Remove(d, "AttrsError", {"device", "subsystem"}, "SymlinkError")

AttrsError(d) == Remove(d, "AttrsError", {"device", "subsystem", "class"}, "SymlinkError")
SymlinkError(d) == Remove(d, "SymlinkError", {"sysdev"}, "devtattrError")
DevtAttrError(d) == Remove(d, "devtattrError", {"devt"}, "ueventattrError")
UeventAttrError(d) == Remove(d, "ueventattrError", {"uevent"}, "attrError")

(* kobject_del: the directory goes with its files, the parent is forgotten
   and let go of *)
KobjectDel(d, here, next) ==
  /\ Goto(d, here, next)
  /\ entries' = [entries EXCEPT ![d] = @ \ (Files \cup {"kobj"})]
  /\ kparent' = [kparent EXCEPT ![d] = None]
  /\ \/ kparent[d] = "glue" /\ PutGlue(Parent[d])
     \/ kparent[d] = "parent" /\ Get(Parent[d], -1) /\ UNCHANGED glue
     \/ kparent[d] = None /\ UNCHANGED <<refs, glue>>
  /\ UNCHANGED busrefs

AttrError(d) == KobjectDel(d, "attrError", "Error")

(* Mutant: the parent is not put *)
ErrorKeepsParent(d) == Goto(d, "Error", "name_error") /\ UNCHANGED entries /\ Unreferenced

(* demo_cleanup_device_parent finds no parent here, whoever came from
   attrError or from kobject_add: the class directory stays referenced *)
Error(d) ==
  /\ Goto(d, "Error", "name_error")
  /\ glue' = [glue EXCEPT ![Parent[d]] = IF kparent[d] = "glue" THEN @ - 1 ELSE @]
  /\ Get(Parent[d], -1)
  /\ UNCHANGED <<entries, kparent, busrefs>>

NameError(d) == Remove(d, "name_error", {"p"}, "failing")

-----------------------------------------------------------------------------
(* demo_device_unregister: demo_device_del, and the reference of            *)
(* demo_device_initialize is kept.  The children have gone before.          *)

Children(d) == {c \in Devices : Parent[c] = d}

Unregister(d) ==
  /\ \A c \in Children(d) : pc[c] \in {"new", "failed", "deleted"}
  /\ Goto(d, "added", "del_class")
  /\ entries' = [entries EXCEPT ![d] = @ \ {"parent_klist", "sysdev", "devt"}]
  /\ Get(d, IF "parent_klist" \in entries[d] THEN -1 ELSE 0)
  /\ UNCHANGED <<kparent, glue, busrefs>>

DelClass(d) == Remove(d, "del_class", {"device", "subsystem", "class", "class_klist"}, "del_attrs")
DelAttrs(d) ==
  Remove(d, "del_attrs", {"uevent", "class_attrs", "bin_attrs", "type_groups", "groups"}, "del_bus")

(* demo_bus_remove_device *)
DelBus(d) ==
  /\ Goto(d, "del_bus", "del_parent")
  /\ entries' = [entries EXCEPT ![d] = @ \ {"bus_link", "bus_attrs", "bus_klist"}]
  /\ busrefs' = IF d \in OnBus THEN busrefs - 1 ELSE busrefs
  /\ UNCHANGED <<kparent, refs, glue>>

(* Mutant: the class directory is not put, as on the error path *)
DelParentForgotten(d) == Goto(d, "del_parent", "del_kobj") /\ UNCHANGED entries /\ Unreferenced

DelParent(d) ==
  /\ Goto(d, "del_parent", "del_kobj")
  /\ \/ kparent[d] = "glue" /\ PutGlue(Parent[d])
     \/ kparent[d] # "glue" /\ UNCHANGED <<refs, glue>>
  /\ UNCHANGED <<entries, kparent, busrefs>>
DelKobj(d) == KobjectDel(d, "del_kobj", "put_parent")
PutParent(d) ==
  /\ Goto(d, "put_parent", "deleted")
  /\ Get(Parent[d], -1)
  /\ UNCHANGED <<entries, kparent, glue, busrefs>>

-----------------------------------------------------------------------------
Adding(d) ==
  \/ Register(d) \/ PrivateInit(d) \/ SetName(d) \/ GetParent(d) \/ MakeGlue(d) \/ KobjectAdd(d)
  \/ UeventFile(d) \/ DevtFile(d) \/ SysDevEntry(d) \/ SubsystemLink(d) \/ DeviceLink(d)
  \/ ClassLink(d) \/ OutDevice(d) \/ OutSubsys(d) \/ ClassAttrs(d) \/ BinAttrs(d) \/ TypeGroups(d)
  \/ Groups(d) \/ ErrTypeGroups(d) \/ ErrClassBinAttrs(d) \/ ErrClassAttrs(d) \/ BusGet(d)
  \/ BusAttrs(d) \/ BusLink(d) \/ BusKlist(d) \/ OutId(d) \/ OutPut(d) \/ AddToParent(d)
  \/ AddToClass(d) \/ Done(d)

Unwinding(d) ==
  \/ BusError(d) \/ AttrsError(d) \/ SymlinkError(d) \/ DevtAttrError(d) \/ UeventAttrError(d)
  \/ AttrError(d) \/ Error(d) \/ NameError(d)

Deleting(d) ==
  \/ Unregister(d) \/ DelClass(d) \/ DelAttrs(d) \/ DelBus(d) \/ DelParent(d) \/ DelKobj(d)
  \/ PutParent(d)

Next == \E d \in Devices : Adding(d) \/ Unwinding(d) \/ Deleting(d)

Spec == Init /\ [][Next]_vars

-----------------------------------------------------------------------------
(* Properties                                                              *)

Entries == Files \cup {"p", "kobj", "sysdev", "class", "bus_link", "bus_klist", "parent_klist",
                       "class_klist"}

States ==
  {"new", "private", "name", "parent", "glue", "kobj", "uevent", "devt", "sysdev", "subsystem",
   "device", "class", "linked", "out_device", "out_subsys", "class_attrs", "bin_attrs",
   "type_groups", "groups", "err_type_groups", "err_class_bin_attrs", "err_class_attrs", "bus",
   "bus_attrs", "bus_link", "bus_klist", "out_id", "out_put", "children", "class_klist", "done",
   "added", "BusError", "AttrsError", "SymlinkError", "devtattrError", "ueventattrError",
   "attrError", "Error", "name_error", "failing", "failed", "del_class", "del_attrs", "del_bus",
   "del_parent", "del_kobj", "put_parent", "deleted"}

(* The type invariant; no reference count goes below zero, on any path. *)
TypeOK ==
  /\ pc \in [Devices -> States]
  /\ entries \in [Devices -> SUBSET Entries]
  /\ kparent \in [Devices -> {"glue", "parent", None}]
  /\ refs \in [Devices -> Nat]
  /\ glue \in [Devices \cup {None} -> Nat]
  /\ busrefs \in Nat

(* What a device of its kind has when demo_device_add succeeds.  The links
   "demo_subsystem" and "demo_device" are missing: see OutDevice. *)
Wanted(d) ==
  {"p", "kobj", "uevent", "groups"}
  \cup (IF d \in HasDevt THEN {"devt", "sysdev"} ELSE {})
  \cup (IF d \in HasClass THEN {"class", "class_attrs", "bin_attrs", "class_klist"} ELSE {})
  \cup (IF d \in HasType THEN {"type_groups"} ELSE {})
  \cup (IF d \in OnBus THEN {"bus_attrs", "bus_link", "bus_klist"} ELSE {})
  \cup (IF Parent[d] # None THEN {"parent_klist"} ELSE {})

(* Whatever fails, demo_device_add either gives a device everything it wants
   and succeeds, or leaves nothing of it anywhere; demo_device_unregister
   leaves only dev->p, which goes with the last reference. *)
AddIsAllOrNothing ==
  \A d \in Devices :
    /\ pc[d] = "added" => entries[d] = Wanted(d)
    /\ pc[d] = "failed" => entries[d] = {}
    /\ pc[d] = "deleted" => entries[d] = {"p"}

(* A class directory lives as long as a device is in it, and is gone when
   its devices have been unregistered, unless the registration of one of
   them failed: that one's reference is lost, since kobject_del and a failing
   kobject_add forget dev->kobj.parent before demo_cleanup_device_parent
   reads it. *)
GlueDirFollowsDevices ==
  \A p \in Devices \cup {None} :
    LET users == {d \in Devices : Parent[d] = p /\ UsesGlue(d)} IN
    /\ (\E d \in users : kparent[d] = "glue") => glue[p] > 0
    /\ (\A d \in users : pc[d] \in {"new", "deleted"}) => glue[p] = 0

(* When nobody is registering or unregistering a child, the references to a
   registered device are its owner's, its parent's list's, those of the class
   directory below it, and two for each registered child: the child's own and
   that of a directory placed directly below, if it is.  The bus is
   referenced by the devices on it. *)
Idle(d) == pc[d] \in {"new", "added", "failed", "deleted"}
ReferencesReturned ==
  /\ \A d \in Devices :
       pc[d] = "added" /\ (\A c \in Children(d) : Idle(c)) =>
         refs[d] = 1 + (IF Parent[d] = None THEN 0 ELSE 1) + (IF glue[d] > 0 THEN 1 ELSE 0)
                   + Cardinality({c \in Children(d) : pc[c] = "added"})
                   + Cardinality({c \in Children(d) : pc[c] = "added" /\ kparent[c] = "parent"})
  /\ (\A d \in Devices : Idle(d)) => busrefs = Cardinality({d \in OnBus : pc[d] = "added"})
-----------------------------------------------------------------------------
(* AddIsAllOrNothing, strengthened to an inductive invariant: the states in *)
(* which a device that wants an entry has it, on the way up, on the way    *)
(* back from a failure, and on the way down.                               *)

GroupStates ==
  {"bus", "bus_attrs", "bus_link", "bus_klist", "out_id", "out_put", "BusError", "children",
   "class_klist", "done", "added", "del_class", "del_attrs"}
TypeGroupStates == GroupStates \cup {"groups", "err_type_groups"}
BinAttrStates == TypeGroupStates \cup {"type_groups", "err_class_bin_attrs"}
ClassAttrStates == BinAttrStates \cup {"bin_attrs", "err_class_attrs"}
ClassLinkStates == (ClassAttrStates \ {"del_attrs"}) \cup {"linked", "class_attrs", "AttrsError"}
DeviceLinkStates == {"class", "linked", "out_device"}
SubsystemLinkStates == DeviceLinkStates \cup {"device", "out_subsys"}
SysDevStates ==
  (ClassLinkStates \ {"del_class"}) \cup SubsystemLinkStates \cup {"subsystem", "SymlinkError"}
DevtStates == SysDevStates \cup {"sysdev", "devtattrError"}
UeventStates == DevtStates \cup {"devt", "ueventattrError", "del_class", "del_attrs"}
KobjStates == UeventStates \cup {"uevent", "attrError", "del_bus", "del_parent", "del_kobj"}
PrivateStates ==
  KobjStates \cup {"name", "parent", "glue", "kobj", "Error", "name_error", "put_parent", "deleted"}
BusKlistStates == {"children", "class_klist", "done", "added", "del_class", "del_attrs", "del_bus"}
BusLinkStates == BusKlistStates \cup {"bus_klist"}
BusAttrStates == BusLinkStates \cup {"bus_link", "out_id"}

(* E is what d has in state s. *)
EntriesAt(d, E, s) ==
  /\ "p" \in E <=> s \in PrivateStates
  /\ "kobj" \in E <=> s \in KobjStates
  /\ "uevent" \in E <=> s \in UeventStates
  /\ "devt" \in E <=> s \in DevtStates /\ d \in HasDevt
  /\ "sysdev" \in E <=> s \in SysDevStates /\ d \in HasDevt
  /\ "subsystem" \in E <=> s \in SubsystemLinkStates /\ d \in HasClass
  /\ "device" \in E <=> s \in DeviceLinkStates /\ d \in HasClass /\ Parent[d] # None
  /\ "class" \in E <=> s \in ClassLinkStates /\ d \in HasClass
  /\ "class_attrs" \in E <=> s \in ClassAttrStates /\ d \in HasClass
  /\ "bin_attrs" \in E <=> s \in BinAttrStates /\ d \in HasClass
  /\ "type_groups" \in E <=> s \in TypeGroupStates /\ d \in HasType
  /\ "groups" \in E <=> s \in GroupStates
  /\ "bus_attrs" \in E <=> s \in BusAttrStates /\ d \in OnBus
  /\ "bus_link" \in E <=> s \in BusLinkStates /\ d \in OnBus
  /\ "bus_klist" \in E <=> s \in BusKlistStates /\ d \in OnBus
  /\ "parent_klist" \in E <=> s \in {"class_klist", "done", "added"} /\ Parent[d] # None
  /\ "class_klist" \in E <=> s \in {"done", "added", "del_class"} /\ d \in HasClass
  /\ s \in {"bus_attrs", "bus_link", "bus_klist", "out_id", "out_put", "BusError"} => d \in OnBus

EntryInv ==
  /\ pc \in [Devices -> States]
  /\ entries \in [Devices -> SUBSET Entries]
  /\ \A d \in Devices : EntriesAt(d, entries[d], pc[d])
-----------------------------------------------------------------------------
(* The two properties of the counts, strengthened to an inductive          *)
(* invariant: whose references each count is made of.                      *)

BusStates == BusAttrStates \cup {"bus_attrs", "out_put"}
ParentStates == KobjStates \cup {"glue", "kobj", "Error", "put_parent"}
LostStates == {"Error", "name_error", "failing", "failed"}
DeletedStates ==
  {"added", "del_class", "del_attrs", "del_bus", "del_parent", "del_kobj", "put_parent", "deleted"}

(* The references to a class directory: those of demo_get_device_parent,    *)
(* those of kobject_add, and at most one of each failed registration.       *)
LookedUp(p) == {d \in Devices : Parent[d] = p /\ kparent[d] = "glue" /\ pc[d] # "del_kobj"}
Placed(p, kind) == {d \in Devices : Parent[d] = p /\ kparent[d] = kind /\ pc[d] \in KobjStates}
MayLose(p) == {d \in Devices : Parent[d] = p /\ UsesGlue(d) /\ pc[d] \in LostStates}
GlueInv ==
  \A p \in Devices \cup {None} :
    LET n == Cardinality(LookedUp(p)) + Cardinality(Placed(p, "glue"))
    IN glue[p] \in n..(n + Cardinality(MayLose(p)))

(* The references to a device: its own, those its children have taken, and  *)
(* that of the class directory below it.                                    *)
Own(d, s) ==
  IF s = "new" THEN 0
  ELSE (IF s \in DeletedStates \cup {"failed"} THEN 1 ELSE 2)
       + (IF s \in {"class_klist", "done", "added"} /\ Parent[d] # None THEN 1 ELSE 0)
HaveParent(p) == {d \in Devices : Parent[d] = p /\ pc[d] \in ParentStates}
RefInv ==
  \A d \in Devices :
    refs[d] = Own(d, pc[d]) + (IF glue[d] > 0 THEN 1 ELSE 0)
              + Cardinality(HaveParent(d)) + Cardinality(Placed(d, "parent"))

BusInv == busrefs = Cardinality({d \in OnBus : pc[d] \in BusStates})

PlaceInv ==
  \A d \in Devices :
    /\ kparent[d] = "glue" => UsesGlue(d)
    /\ kparent[d] = "parent" => Parent[d] # None
    /\ kparent[d] # None => pc[d] = "kobj" \/ pc[d] \in KobjStates
    /\ pc[d] # "new" /\ Parent[d] # None
         => Parent[d] # d /\ pc[Parent[d]] \in DeletedStates
    /\ pc[d] = "glue" => UsesGlue(d)
=============================================================================
