--------------------------- MODULE DeferredProbe ---------------------------
(***************************************************************************)
(* Binding of devices to drivers in the demo driver core,                  *)
(* bus/common/device/device_register: demo_device_add and demo_device_del, *)
(* demo_really_probe, and the deferred probing that retries a device whose *)
(* driver asked for it.                                                    *)
(*                                                                         *)
(* One thread per device adds and deletes it, the demo_deferwq worker      *)
(* retries, and a late initcall enables the retries.  The mutexes of the   *)
(* Linux original are gone, so the threads interleave between any two      *)
(* steps.  A list operation is one step.  A probe asks for the devices its *)
(* driver needs: it succeeds when all of them have been probed, and asks   *)
(* to be deferred otherwise.                                               *)
(***************************************************************************)
EXTENDS Naturals, Sequences, SequencesExt

CONSTANTS
  Devices, Drivers,
  DriversOf,      \* the drivers that match a device, in the order of the bus
  Needs,          \* the devices a driver needs before it can probe one
  Rejects,        \* drivers whose probe fails for good
  Deletes,        \* devices that are deleted again
  Worker, InitCall, None

ASSUME DeferredProbeAssumption ==
  /\ DriversOf \in [Devices -> Seq(Drivers)]
  /\ Needs \in [Drivers -> SUBSET Devices]
  /\ Rejects \subseteq Drivers /\ Deletes \subseteq Devices
  /\ None \notin Devices \cup Drivers
  /\ Worker # InitCall /\ {Worker, InitCall} \cap Devices = {}

Threads == Devices \cup {Worker, InitCall}

VARIABLES
  pc,               \* control state of each thread
  cur,              \* the device the worker has taken from the active list
  nxt,              \* position of each thread in the drivers of its device
  stale,            \* threads whose local_trigger_count is out of date
  registered,       \* devices in sysfs
  driver,           \* dev->driver
  attached,         \* the driver whose klist_devices has the device
  provided,         \* devices whose last probe succeeded
  pending, active,  \* the two deferred lists
  enabled,
  queued,           \* demo_deferred_probe_work is queued
  oops              \* dev->driver was NULL when it was used

vars == <<pc, cur, nxt, stale, registered, driver, attached, provided, pending, active,
          enabled, queued, oops>>
lists == <<pending, active>>
bindvars == <<driver, attached, provided>>

Init ==
  /\ pc = [t \in Threads |-> IF t \in Devices THEN "new" ELSE "idle"]
  /\ cur = None
  /\ nxt = [t \in Threads |-> 0] /\ stale = {}
  /\ registered = {} /\ provided = {}
  /\ driver = [d \in Devices |-> None] /\ attached = [d \in Devices |-> None]
  /\ pending = <<>> /\ active = <<>>
  /\ enabled = FALSE /\ queued = FALSE /\ oops = FALSE

-----------------------------------------------------------------------------
(* Helpers                                                                 *)

Dev(t) == IF t = Worker THEN cur ELSE t

OnList(d) == Contains(pending, d) \/ Contains(active, d)

Goto(t, from, to) == pc[t] = from /\ pc' = [pc EXCEPT ![t] = to]

(* where a thread goes when demo_bus_probe_device returns *)
Return(t) == IF t = Worker THEN "work" ELSE "added"

(* the driver demo_really_probe was called with *)
Driver(t) == DriversOf[Dev(t)][nxt[t]]

ProbeSame == UNCHANGED <<cur, registered, enabled>>

-----------------------------------------------------------------------------
(* demo_device_add up to the probe, and the worker's loop                  *)

DeviceAdd(d) ==
  /\ Goto(d, "new", "attach")
  /\ registered' = registered \cup {d}
  /\ UNCHANGED <<cur, nxt, stale, bindvars, lists, enabled, queued, oops>>

WorkStart ==
  /\ queued /\ Goto(Worker, "idle", "work")
  /\ queued' = FALSE
  /\ UNCHANGED <<cur, nxt, stale, registered, bindvars, lists, enabled, oops>>

WorkNext ==
  /\ active # <<>> /\ Goto(Worker, "work", "attach")
  /\ cur' = Head(active) /\ active' = Tail(active)
  /\ UNCHANGED <<nxt, stale, registered, bindvars, pending, enabled, queued,
                 oops>>

WorkEnd ==
  /\ active = <<>> /\ Goto(Worker, "work", "idle")
  /\ cur' = None
  /\ UNCHANGED <<nxt, stale, registered, bindvars, lists, enabled, queued, oops>>

(* demo_deferred_probe_initcall; it returns when the workqueue is flushed *)
EnableProbing ==
  /\ Goto(InitCall, "idle", "trigger")
  /\ enabled' = TRUE
  /\ UNCHANGED <<cur, nxt, stale, registered, bindvars, lists, queued, oops>>

Flushed ==
  /\ Goto(InitCall, "flush", "done")
  /\ ~queued /\ pc[Worker] = "idle"
  /\ UNCHANGED <<cur, nxt, stale, registered, bindvars, lists, enabled, queued,
                 oops>>

-----------------------------------------------------------------------------
(* demo_device_attach: a device that has a driver is bound again           *)
Attach(t) ==
  /\ \/ Goto(t, "attach", "bound") /\ driver[Dev(t)] # None
     \/ Goto(t, "attach", "next") /\ driver[Dev(t)] = None
  /\ UNCHANGED <<nxt, stale, bindvars, lists, queued, oops>>
  /\ ProbeSame

(* demo_bus_for_each_drv goes to the next driver unless the device has left
   sysfs; demo_really_probe starts *)
NextDriver(t) ==
  /\ Goto(t, "next", "probe")
  /\ Dev(t) \in registered /\ nxt[t] < Len(DriversOf[Dev(t)])
  /\ nxt' = [nxt EXCEPT ![t] = @ + 1]
  /\ stale' = stale \ {t}
  /\ driver' = [driver EXCEPT ![Dev(t)] = DriversOf[Dev(t)][nxt[t] + 1]]
  /\ UNCHANGED <<attached, provided, lists, queued, oops>>
  /\ ProbeSame

NoDriver(t) ==
  /\ Goto(t, "next", Return(t))
  /\ Dev(t) \notin registered \/ nxt[t] = Len(DriversOf[Dev(t)])
  /\ nxt' = [nxt EXCEPT ![t] = 0]
  /\ UNCHANGED <<stale, bindvars, lists, queued, oops>>
  /\ ProbeSame

(* Mutant: the device is listed before the failed probe has cleaned up *)
ProbeAddsFirst(t) ==
  /\ \/ /\ Goto(t, "probe", "bound")
        /\ Driver(t) \notin Rejects /\ Needs[Driver(t)] \subseteq provided
        /\ provided' = provided \cup {Dev(t)}
        /\ nxt' = [nxt EXCEPT ![t] = 0] /\ stale' = stale \ {t} /\ pending' = pending
     \/ /\ Goto(t, "probe", "deferred")
        /\ Driver(t) \notin Rejects /\ ~(Needs[Driver(t)] \subseteq provided)
        /\ pending' = Append(pending, Dev(t))
        /\ UNCHANGED <<provided, nxt, stale>>
     \/ /\ Goto(t, "probe", "failed")
        /\ Driver(t) \in Rejects /\ pending' = pending
        /\ UNCHANGED <<provided, nxt, stale>>
  /\ UNCHANGED <<driver, attached, active, queued, oops>>
  /\ ProbeSame

Probe(t) ==
  /\ \/ /\ Goto(t, "probe", "bound")
        /\ Driver(t) \notin Rejects /\ Needs[Driver(t)] \subseteq provided
        /\ provided' = provided \cup {Dev(t)}
        /\ nxt' = [nxt EXCEPT ![t] = 0] /\ stale' = stale \ {t}
     \/ /\ Goto(t, "probe", "deferred")
        /\ Driver(t) \notin Rejects /\ ~(Needs[Driver(t)] \subseteq provided)
        /\ UNCHANGED <<provided, nxt, stale>>
     \/ /\ Goto(t, "probe", "failed")
        /\ Driver(t) \in Rejects
        /\ UNCHANGED <<provided, nxt, stale>>
  /\ UNCHANGED <<driver, attached, lists, queued, oops>>
  /\ ProbeSame

(* Mutant: dev->driver is not reset *)
ProbeFailedKeepsDriver(t) ==
  /\ Goto(t, "deferred", "add") \/ Goto(t, "failed", "next")
  /\ driver' = driver
  /\ UNCHANGED <<nxt, stale, attached, provided, lists, queued, oops>>
  /\ ProbeSame

(* probe_failed: the device has no driver, whatever another thread did *)
ProbeFailed(t) ==
  /\ Goto(t, "deferred", "add") \/ Goto(t, "failed", "next")
  /\ driver' = [driver EXCEPT ![Dev(t)] = None]
  /\ UNCHANGED <<nxt, stale, attached, provided, lists, queued, oops>>
  /\ ProbeSame

(* demo_driver_deferred_probe_add *)
DeferredAdd(t) ==
  /\ Goto(t, "add", "compare")
  /\ pending' = IF OnList(Dev(t)) THEN pending ELSE Append(pending, Dev(t))
  /\ UNCHANGED <<nxt, stale, bindvars, active, queued, oops>>
  /\ ProbeSame

(* Mutant: a trigger that occurred while probing is ignored *)
CompareNever(t) ==
  /\ \/ Goto(t, "compare", "next") /\ t \in stale
     \/ Goto(t, "compare", "next") /\ t \notin stale
  /\ stale' = stale \ {t}
  /\ UNCHANGED <<nxt, bindvars, lists, queued, oops>>
  /\ ProbeSame

(* did a trigger occur while probing? *)
Compare(t) ==
  /\ \/ Goto(t, "compare", "retrigger") /\ t \in stale
     \/ Goto(t, "compare", "next") /\ t \notin stale
  /\ stale' = stale \ {t}
  /\ UNCHANGED <<nxt, bindvars, lists, queued, oops>>
  /\ ProbeSame

(* demo_driver_bound; dev->driver is read again *)
Bound(t) ==
  /\ \/ /\ Goto(t, "bound", Return(t))
        /\ attached[Dev(t)] # None
        /\ UNCHANGED <<attached, oops>>
     \/ /\ Goto(t, "bound", "del")
        /\ attached[Dev(t)] = None /\ driver[Dev(t)] # None
        /\ attached' = [attached EXCEPT ![Dev(t)] = driver[Dev(t)]]
        /\ UNCHANGED oops
     \/ /\ Goto(t, "bound", "bound")
        /\ attached[Dev(t)] = None /\ driver[Dev(t)] = None
        /\ oops' = TRUE
        /\ UNCHANGED attached
  /\ UNCHANGED <<nxt, stale, driver, provided, lists, queued>>
  /\ ProbeSame

(* demo_driver_deferred_probe_del takes the one node of a device off the list
   it is on *)
Without(list, d) ==
  IF Contains(list, d) THEN RemoveAt(list, CHOOSE i \in DOMAIN list : list[i] = d) ELSE list

Unlist(d) == pending' = Without(pending, d) /\ active' = Without(active, d)

(* Mutant: binding does not trigger the retries *)
DeferredDelOnly(t) ==
  /\ Goto(t, "del", Return(t))
  /\ Unlist(Dev(t))
  /\ UNCHANGED <<nxt, stale, bindvars, queued, oops>>
  /\ ProbeSame

DeferredDel(t) ==
  /\ Goto(t, "del", "trigger")
  /\ Unlist(Dev(t))
  /\ UNCHANGED <<nxt, stale, bindvars, queued, oops>>
  /\ ProbeSame

(* demo_driver_deferred_probe_trigger counts, splices and queues.  The count
   is only ever compared with an earlier value of it: what is kept is who
   has an earlier value. *)
AfterTrigger(t) ==
  IF t = InitCall THEN "flush"
  ELSE IF pc[t] \in {"retrigger", "requeue"} THEN "next" ELSE Return(t)

Trigger(t) ==
  /\ pc[t] \in {"trigger", "retrigger"}
  /\ \/ /\ ~enabled
        /\ pc' = [pc EXCEPT ![t] = AfterTrigger(t)]
        /\ UNCHANGED stale
     \/ /\ enabled
        /\ pc' = [pc EXCEPT ![t] = IF @ = "trigger" THEN "splice" ELSE "resplice"]
        /\ stale' = stale \cup {u \in Threads : pc[u] \in {"probe", "deferred", "add", "compare"}}
  /\ UNCHANGED <<nxt, bindvars, lists, queued, oops>>
  /\ ProbeSame

(* Mutant: list_splice_tail instead of list_splice_tail_init *)
SpliceNoInit(t) ==
  /\ Goto(t, "splice", "queue") \/ Goto(t, "resplice", "requeue")
  /\ active' = active \o pending /\ pending' = pending
  /\ UNCHANGED <<nxt, stale, bindvars, queued, oops>>
  /\ ProbeSame

Splice(t) ==
  /\ Goto(t, "splice", "queue") \/ Goto(t, "resplice", "requeue")
  /\ active' = active \o pending /\ pending' = <<>>
  /\ UNCHANGED <<nxt, stale, bindvars, queued, oops>>
  /\ ProbeSame

QueueWork(t) ==
  /\ pc[t] \in {"queue", "requeue"}
  /\ pc' = [pc EXCEPT ![t] = AfterTrigger(t)]
  /\ queued' = TRUE
  /\ UNCHANGED <<nxt, stale, bindvars, lists, oops>>
  /\ ProbeSame

-----------------------------------------------------------------------------
(* demo_device_del: the driver is released, then the device leaves the     *)
(* deferred lists, then sysfs                                              *)

DeviceDel(d) ==
  /\ d \in Deletes
  /\ Goto(d, "added", "unlist")
  /\ driver' = [driver EXCEPT ![d] = None]
  /\ attached' = [attached EXCEPT ![d] = IF driver[d] = None THEN @ ELSE None]
  /\ provided' = IF driver[d] = None THEN provided ELSE provided \ {d}
  /\ UNCHANGED <<cur, nxt, stale, registered, lists, enabled, queued, oops>>

DeviceUnlist(d) ==
  /\ Goto(d, "unlist", "unlink")
  /\ Unlist(d)
  /\ UNCHANGED <<cur, nxt, stale, registered, bindvars, enabled, queued, oops>>

DeviceUnlink(d) ==
  /\ Goto(d, "unlink", "deleted")
  /\ registered' = registered \ {d}
  /\ UNCHANGED <<cur, nxt, stale, bindvars, lists, enabled, queued, oops>>

-----------------------------------------------------------------------------
Prober(t) ==
  \/ Attach(t) \/ NextDriver(t) \/ NoDriver(t) \/ Probe(t) \/ ProbeFailed(t)
  \/ DeferredAdd(t) \/ Compare(t) \/ Bound(t) \/ DeferredDel(t)
  \/ Trigger(t) \/ Splice(t) \/ QueueWork(t)

WorkerStep == WorkStart \/ WorkNext \/ WorkEnd \/ Prober(Worker)
InitStep == EnableProbing \/ Flushed \/ Trigger(InitCall) \/ Splice(InitCall) \/ QueueWork(InitCall)
DeviceStep(d) == DeviceAdd(d) \/ Prober(d)
Delete(d) == DeviceDel(d) \/ DeviceUnlist(d) \/ DeviceUnlink(d)

Running == ~oops

Next ==
  /\ Running
  /\ \/ WorkerStep \/ InitStep
     \/ \E d \in Devices : DeviceStep(d) \/ Delete(d)

Spec == Init /\ [][Next]_vars

(* Every thread runs; nobody has to delete a device, but a deletion goes on. *)
Fairness ==
  /\ WF_vars(Running /\ WorkerStep) /\ WF_vars(Running /\ InitStep)
  /\ \A d \in Devices :
       WF_vars(Running /\ (DeviceStep(d) \/ DeviceUnlist(d) \/ DeviceUnlink(d)))

FairSpec == Spec /\ Fairness

-----------------------------------------------------------------------------
(* Properties                                                              *)

ProbeStates == {"attach", "next", "probe", "deferred", "failed", "add", "compare",
                "bound", "del", "trigger", "splice", "queue", "retrigger", "resplice", "requeue"}

States(t) ==
  IF t = Worker THEN {"idle", "work"} \cup ProbeStates
  ELSE IF t = InitCall THEN {"idle", "trigger", "splice", "queue", "flush", "done"}
  ELSE {"new", "added", "unlist", "unlink", "deleted"} \cup ProbeStates

AllStates ==
  {"idle", "work", "flush", "done", "new", "added", "unlist", "unlink", "deleted"} \cup ProbeStates

(* The type invariant: a worker inside a probe has a device. *)
TypeOK ==
  /\ pc \in [Threads -> AllStates] /\ \A t \in Threads : pc[t] \in States(t)
  /\ cur \in Devices \cup {None} /\ (pc[Worker] \in ProbeStates => cur # None)
  /\ nxt \in [Threads -> Nat] /\ stale \subseteq Threads
  /\ registered \subseteq Devices /\ provided \subseteq Devices
  /\ driver \in [Devices -> Drivers \cup {None}]
  /\ attached \in [Devices -> Drivers \cup {None}]
  /\ pending \in Seq(Devices) /\ active \in Seq(Devices)
  /\ {enabled, queued, oops} \subseteq BOOLEAN

(* A device is on one deferred list at most, and there only once. *)
ListedOnce == IsInjective(active \o pending)

(* Nobody is busy with a device, and the worker has nothing left to do. *)
Quiet ==
  /\ pc[Worker] = "idle" /\ ~queued /\ pc[InitCall] = "done"
  /\ \A d \in Devices : pc[d] \in {"new", "added", "deleted"}

(* No retry is lost: when all is quiet, nothing waits on the active list, and
   a device on the pending list still misses what its drivers need, even if
   what it missed was probed while its own probe was failing. *)
NoRetryLost ==
  Quiet => /\ active = <<>>
           /\ \A d \in ToSet(pending) : \A i \in DOMAIN DriversOf[d] :
                DriversOf[d][i] \in Rejects \/ ~(Needs[DriversOf[d][i]] \subseteq provided)

(* driver.c:121: "Make sure the demo device is no longer in one of the
   deferred lists" once it is bound. *)
Settled(d) == \A t \in Devices \cup {Worker} : Dev(t) = d => pc[t] \notin ProbeStates
BoundNotDeferred == \A d \in Devices : attached[d] # None /\ Settled(d) => ~OnList(d)

(* A device that nobody is probing has a driver exactly when it is in that
   driver's klist_devices, and then its probe has succeeded. *)
BoundMatchesDriver ==
  \A d \in Devices : Settled(d) => /\ attached[d] = driver[d]
                                   /\ driver[d] # None <=> d \in provided

(* dev->driver is not probed by two threads at once: nothing but the order of
   events keeps them apart, the mutexes being gone. *)
Probing(t) == pc[t] \in {"probe", "deferred", "failed", "bound"}
OneProbe ==
  \A t1, t2 \in Devices \cup {Worker} :
    Probing(t1) /\ Probing(t2) /\ Dev(t1) = Dev(t2) => t1 = t2

(* Where no need is circular and some driver does not reject, every device is
   bound for good in the end, in whatever order they were added, unless one
   of them is deleted. *)
Leaving(d) == pc[d] \in {"unlist", "unlink", "deleted"}
EveryDeviceBinds ==
  [](\A d \in Devices : ~Leaving(d)) => <>[](\A d \in Devices : attached[d] # None)
-----------------------------------------------------------------------------
(* The properties, strengthened to an inductive invariant.  They need that  *)
(* only the last driver that matches a device can ask to be deferred: with  *)
(* two, its thread goes on to the next one while the worker retries.        *)
LastMayDefer ==
  \A d \in Devices : \A i \in 1..(Len(DriversOf[d]) - 1) : DriversOf[d][i] \in Rejects

Probers == Devices \cup {Worker}

(* how far a thread is in the drivers of its device *)
DeferredStates == {"deferred", "add", "compare", "retrigger", "resplice", "requeue"}
NextAt(t) ==
  /\ pc[t] \in DeferredStates => nxt[t] = Len(DriversOf[Dev(t)]) /\ nxt[t] > 0
  /\ pc[t] \in {"probe", "failed"} => nxt[t] \in 1..Len(DriversOf[Dev(t)])
  /\ pc[t] = "next" => nxt[t] \in 0..Len(DriversOf[Dev(t)])
  /\ pc[t] \notin DeferredStates \cup {"probe", "failed", "next"} => nxt[t] = 0
NextInv == \A t \in Probers : NextAt(t)

(* A device is on a list, or one thread holds it: is going to bind it to a   *)
(* driver, to defer it or to give it up; or neither, and then no thread will *)
(* hold it again.                                                            *)
HoldStates == {"attach", "probe", "deferred", "failed", "add", "bound", "del"}
Holds(t) ==
  pc[t] \in HoldStates \/ (pc[t] = "next" /\ nxt[t] < Len(DriversOf[Dev(t)]))
HolderInv ==
  \A d \in Devices :
    /\ \A t, u \in Probers : Dev(t) = d /\ Dev(u) = d /\ Holds(t) /\ Holds(u) => t = u
    /\ OnList(d) \/ pc[d] = "new" => \A t \in Probers : Dev(t) = d => ~Holds(t)
    /\ OnList(d) => pc[d] # "new"

(* what the three records of a binding say, by what the holder is doing *)
Agree(d) == attached[d] = driver[d] /\ (driver[d] # None <=> d \in provided)
BindAt(t) ==
  LET d == Dev(t) IN
  /\ pc[t] \notin {"probe", "deferred", "failed", "bound"} => Agree(d)
  /\ pc[t] \in {"probe", "deferred", "failed"} => attached[d] = None /\ d \notin provided
  /\ pc[t] = "bound" => attached[d] = None /\ (driver[d] # None => d \in provided)
  /\ pc[t] \in {"attach", "next", "add"} => driver[d] = None
BindInv ==
  /\ \A t \in Probers : Holds(t) => BindAt(t)
  /\ \A d \in Devices :
       /\ (\A t \in Probers : Dev(t) = d => ~Holds(t)) => Agree(d)
       /\ OnList(d) \/ pc[d] = "new" => driver[d] = None

(* A device whose needs are met is going to be retried: there is a trigger    *)
(* to come, or one has come while it was being deferred.                      *)
Ready(d) ==
  \E i \in DOMAIN DriversOf[d] :
    DriversOf[d][i] \notin Rejects /\ Needs[DriversOf[d][i]] \subseteq provided
ToTrigger ==
  pc[InitCall] = "idle" \/ \E t \in Threads : pc[t] \in {"bound", "del", "trigger", "retrigger"}
ToSplice == ToTrigger \/ \E t \in Threads : pc[t] \in {"splice", "resplice"}
EnabledInv == enabled <=> pc[InitCall] # "idle"
DeferredInv ==
  \A t \in Probers :
    pc[t] \in {"deferred", "add"} /\ Ready(Dev(t)) => t \in stale \/ ToTrigger
PendingInv ==
  \A d \in ToSet(pending) :
    Ready(d) => \/ ToSplice
                \/ \E t \in Probers : Dev(t) = d /\ pc[t] = "compare" /\ t \in stale
ActiveInv ==
  active # <<>> =>
    queued \/ pc[Worker] # "idle" \/ \E t \in Threads : pc[t] \in {"queue", "requeue"}
RetryInv == EnabledInv /\ DeferredInv /\ PendingInv /\ ActiveInv
=============================================================================
