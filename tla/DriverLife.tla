----------------------------- MODULE DriverLife -----------------------------
(***************************************************************************)
(* The life of a driver that takes its resources one after the other.      *)
(*                                                                         *)
(* Almost every demo of the repository has the same skeleton: a probe (or  *)
(* init) function that asks for memory, regions, mappings and              *)
(* registrations in order and jumps to a label when one is refused; the    *)
(* labels give back what was taken so far; a remove (or exit) function     *)
(* gives back everything.  What differs is the table: Probe, Remove and    *)
(* Touch below, written out for each driver in DemoDrivers.                *)
(*                                                                         *)
(* A step of Probe[d] is a record                                          *)
(*   get   the resources the call takes,                                   *)
(*   undo  what the code releases, in order, when the call fails,          *)
(*   end   how the code can go on after a failure: "out" (the probe        *)
(*         reports it), "bound" (it reports success all the same), "on"    *)
(*         (nobody looks at the result); {} for a call that cannot fail.   *)
(* A release is a set, since one call may take down a whole directory.     *)
(***************************************************************************)
EXTENDS Naturals, Sequences

CONSTANTS
  Drivers,    \* their names
  Resources,  \* what they ask for
  Probe,      \* [Drivers -> sequence of steps]
  Remove,     \* [Drivers -> sequence of releases]
  Touch,      \* [Drivers -> [resource -> resources it is worked through]]
  Removable,  \* the drivers whose remove or exit function can be reached
  Exclusive,  \* resources of which the system has one: regions and names
  Absent,     \* a resource that no call ever finds
  Once,       \* resources a driver asks for only if it never had them
  Loads,      \* the sets of drivers that run together
  Tidy,       \* the drivers claimed to give everything back
  Sound       \* the drivers claimed never to use what they gave back

Releases == SUBSET Resources
Step == [get : SUBSET Resources, undo : Seq(Releases),
         end : SUBSET {"out", "bound", "on"}]

ASSUME Tables ==
  /\ Probe \in [Drivers -> Seq(Step)]
  /\ Remove \in [Drivers -> Seq(Releases)]
ASSUME Subsets ==
  /\ Tidy \subseteq Drivers /\ Sound \subseteq Drivers
  /\ Loads \subseteq SUBSET Drivers

VARIABLES
  loaded,  \* the drivers of this system
  mode,    \* "new", "probe", "bound", "release" or "out"
  at,      \* the step of the probe that comes next
  todo,    \* the releases still to be made
  goal,    \* what the driver is after the last of them
  held,    \* the resources a probe took and that are not given back
  lost,    \* what a driver still had when the core forgot it
  asked    \* the resources of Once that the driver has had

vars == <<loaded, mode, at, todo, goal, held, lost, asked>>

-----------------------------------------------------------------------------

Steps(d) == 1 .. Len(Probe[d])
Through(d, r) == IF r \in DOMAIN Touch[d] THEN Touch[d][r] ELSE {}

\* What a call can still get: an exclusive resource has one owner, and one that
\* was lost stays taken for ever.
Free(r) ==
  /\ r # Absent
  /\ r \in Exclusive => \A d \in loaded : r \notin held[d] \cup lost[d]

Init ==
  /\ loaded \in Loads
  /\ mode = [d \in Drivers |-> "new"]
  /\ at = [d \in Drivers |-> 1]
  /\ todo = [d \in Drivers |-> <<>>]
  /\ goal = [d \in Drivers |-> "out"]
  /\ held = [d \in Drivers |-> {}]
  /\ lost = [d \in Drivers |-> {}]
  /\ asked = [d \in Drivers |-> {}]

\* The core calls the probe: at boot, or again after an unbind or a failure
\* when user space writes to the driver's bind file.
Bind(d) ==
  /\ mode[d] = "new" \/ (mode[d] = "out" /\ d \in Removable)
  /\ mode' = [mode EXCEPT ![d] = "probe"]
  /\ at' = [at EXCEPT ![d] = 1]
  /\ UNCHANGED <<loaded, todo, goal, held, lost, asked>>

Asking(d) == mode[d] = "probe" /\ at[d] \in Steps(d)
Now(d) == Probe[d][at[d]]
Had(d) == Now(d).get \cap Once \cap asked[d] # {}

Succeed(d) ==
  /\ Asking(d) /\ ~Had(d)
  /\ \A r \in Now(d).get : Free(r)
  /\ held' = [held EXCEPT ![d] = @ \cup Now(d).get]
  /\ asked' = [asked EXCEPT ![d] = @ \cup (Now(d).get \cap Once)]
  /\ at' = [at EXCEPT ![d] = @ + 1]
  /\ UNCHANGED <<loaded, mode, todo, goal, lost>>

Skip(d) ==
  /\ Asking(d) /\ Had(d)
  /\ at' = [at EXCEPT ![d] = @ + 1]
  /\ UNCHANGED <<loaded, mode, todo, goal, held, lost, asked>>

\* A refused call.  One that asks for several things may have got some of them.
Fail(d) ==
  /\ Asking(d) /\ ~Had(d)
  /\ \E part \in SUBSET Now(d).get, e \in Now(d).end :
       /\ part # Now(d).get \/ part = {}
       /\ \A r \in part : Free(r)
       /\ held' = [held EXCEPT ![d] = @ \cup part]
       /\ \/ /\ e = "on"
             /\ at' = [at EXCEPT ![d] = @ + 1]
             /\ UNCHANGED <<mode, todo, goal>>
          \/ /\ e # "on"
             /\ mode' = [mode EXCEPT ![d] = "release"]
             /\ todo' = [todo EXCEPT ![d] = Now(d).undo]
             /\ goal' = [goal EXCEPT ![d] = e]
             /\ UNCHANGED at
  /\ UNCHANGED <<loaded, lost, asked>>

Probed(d) ==
  /\ mode[d] = "probe" /\ at[d] \notin Steps(d)
  /\ mode' = [mode EXCEPT ![d] = "bound"]
  /\ UNCHANGED <<loaded, at, todo, goal, held, lost, asked>>

Unbind(d) ==
  /\ mode[d] = "bound" /\ d \in Removable
  /\ mode' = [mode EXCEPT ![d] = "release"]
  /\ todo' = [todo EXCEPT ![d] = Remove[d]]
  /\ goal' = [goal EXCEPT ![d] = "out"]
  /\ UNCHANGED <<loaded, at, held, lost, asked>>

Release(d) ==
  /\ mode[d] = "release" /\ todo[d] # <<>>
  /\ held' = [held EXCEPT ![d] = @ \ Head(todo[d])]
  /\ todo' = [todo EXCEPT ![d] = Tail(@)]
  /\ UNCHANGED <<loaded, mode, at, goal, lost, asked>>

\* Back in the core.  After "out" nobody has a pointer to what is left.
Released(d) ==
  /\ mode[d] = "release" /\ todo[d] = <<>>
  /\ mode' = [mode EXCEPT ![d] = goal[d]]
  /\ \/ /\ goal[d] = "out"
        /\ lost' = [lost EXCEPT ![d] = @ \cup held[d]]
        /\ held' = [held EXCEPT ![d] = {}]
     \/ goal[d] # "out" /\ UNCHANGED <<held, lost>>
  /\ UNCHANGED <<loaded, at, todo, goal, asked>>

Next ==
  \E d \in loaded :
    \/ Bind(d) \/ Succeed(d) \/ Skip(d) \/ Fail(d) \/ Probed(d)
    \/ Unbind(d) \/ Release(d) \/ Released(d)

Spec == Init /\ [][Next]_vars

-----------------------------------------------------------------------------

\* Nothing is lost: whatever call of a probe is refused, and however often the
\* driver is bound and unbound again, a tidy driver that is not bound holds no
\* memory, region, mapping or registration.  A region that is lost is refused
\* to every driver that asks for it, this one included, until the next boot.
NothingLost ==
  \A d \in Tidy : lost[d] = {} /\ (mode[d] \in {"new", "out"} => held[d] = {})

\* No pointer outlives what it points to: while a sound driver holds a
\* resource, everything the resource is worked through is held too, so that a
\* call from outside that comes in the middle of a probe or a remove, and the
\* release itself, find it; and nothing is released that is not held.
HandlesLive ==
  \A d \in Sound :
    /\ \A r \in held[d] : Through(d, r) \subseteq held[d]
    /\ mode[d] = "release" /\ todo[d] # <<>> => Head(todo[d]) \subseteq held[d]
=============================================================================
