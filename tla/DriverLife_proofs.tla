------------------------- MODULE DriverLife_proofs -------------------------
(***************************************************************************)
(* What the run of DriverLife finds for the tables of the repository's     *)
(* drivers, proved for every table: two conditions on a table alone, which *)
(* can be read off the source of one probe and one remove function, are    *)
(* enough for NothingLost and for HandlesLive, whatever the other drivers  *)
(* of the system do.                                                       *)
(***************************************************************************)
EXTENDS DriverLife, DemoDrivers, TLAPS

\* What a sequence of releases gives back.
All(s) == UNION {s[i] : i \in 1..Len(s)}
\* What the steps before step i take.
Got(d, i) == UNION {Probe[d][j].get : j \in 1..(i - 1)}
End(d) == Len(Probe[d]) + 1

\* Each label gives back at least what its driver can have when it gets there,
\* and so does remove.
Balanced(d) ==
  /\ \A i \in Steps(d) :
       \A part \in SUBSET Probe[d][i].get :
         part = {} \/ part # Probe[d][i].get =>
           \/ Probe[d][i].end \subseteq {"on"}
           \/ Got(d, i) \cup part \subseteq All(Probe[d][i].undo)
  /\ d \in Removable => Got(d, End(d)) \subseteq All(Remove[d])

\* What is left of h when the first k - 1 releases of s are done.
Left(h, s, k) == h \ UNION {s[j] : j \in 1..(k - 1)}
Closed(d, h) == \A r \in h : Through(d, r) \subseteq h

\* Every release of s finds what it releases, and leaves no resource without
\* those it is worked through.
Unwinds(d, h, s) ==
  /\ \A k \in 1..Len(s) : s[k] \subseteq Left(h, s, k)
  /\ \A k \in 1..(Len(s) + 1) : Closed(d, Left(h, s, k))

\* Calls take one resource each, in an order in which every one finds what it is
\* worked through; labels and remove give them back in an order that unwinds.
Ordered(d) ==
  /\ \A i \in Steps(d) :
       /\ \A part \in SUBSET Probe[d][i].get :
            part = {} \/ part = Probe[d][i].get
       /\ Probe[d][i].get \cap Once = {}
       /\ "on" \notin Probe[d][i].end
       /\ "bound" \in Probe[d][i].end => d \notin Removable
       /\ Unwinds(d, Got(d, i), Probe[d][i].undo)
  /\ \A i \in 1..End(d) : Closed(d, Got(d, i))
  /\ d \in Removable => Unwinds(d, Got(d, End(d)), Remove[d])

TypeOK ==
  /\ loaded \in SUBSET Drivers
  /\ mode \in [Drivers -> {"new", "probe", "bound", "release", "out"}]
  /\ at \in [Drivers -> Nat]
  /\ todo \in [Drivers -> Seq(Releases)]
  /\ goal \in [Drivers -> {"out", "bound"}]
  /\ held \in [Drivers -> SUBSET Resources]
  /\ lost \in [Drivers -> SUBSET Resources]
  /\ asked \in [Drivers -> SUBSET Resources]

-----------------------------------------------------------------------------

(* The fields of a step of a table. *)
LEMMA StepTypes ==
  ASSUME NEW d \in Drivers, NEW i \in Steps(d)
  PROVE  /\ Probe[d][i].get \in SUBSET Resources
         /\ Probe[d][i].undo \in Seq(Releases)
         /\ Probe[d][i].end \in SUBSET {"out", "bound", "on"}
<1>1. Probe[d] \in Seq(Step)  BY Tables
<1>2. Probe[d][i] \in Step  BY <1>1 DEF Steps
<1> QED  BY <1>2 DEF Step

(* Types at the start. *)
LEMMA TypeInit == Init => TypeOK
BY Subsets DEF Init, TypeOK

(* Types after a step. *)
LEMMA TypeNext == TypeOK /\ [Next]_vars => TypeOK'
<1> SUFFICES ASSUME TypeOK, [Next]_vars PROVE TypeOK'
  OBVIOUS
<1> USE DEF TypeOK
<1>1. CASE UNCHANGED vars  BY <1>1 DEF vars
<1>2. ASSUME NEW d \in loaded, Bind(d) PROVE TypeOK'
  BY <1>2 DEF Bind
<1>3. ASSUME NEW d \in loaded, Succeed(d) PROVE TypeOK'
  <2>1. d \in Drivers /\ at[d] \in Steps(d)  BY <1>3 DEF Succeed, Asking
  <2>2. Now(d).get \in SUBSET Resources  BY <2>1, StepTypes DEF Now
  <2> QED  BY <1>3, <2>1, <2>2 DEF Succeed
<1>4. ASSUME NEW d \in loaded, Skip(d) PROVE TypeOK'
  BY <1>4 DEF Skip
<1>5. ASSUME NEW d \in loaded, Fail(d) PROVE TypeOK'
  <2>1. d \in Drivers /\ at[d] \in Steps(d)  BY <1>5 DEF Fail, Asking
  <2>2. /\ Now(d).get \in SUBSET Resources
        /\ Now(d).undo \in Seq(Releases)
        /\ Now(d).end \in SUBSET {"out", "bound", "on"}
    BY <2>1, StepTypes DEF Now
  <2>3. PICK part \in SUBSET Now(d).get, e \in Now(d).end :
          /\ held' = [held EXCEPT ![d] = @ \cup part]
          /\ \/ /\ e = "on"
                /\ at' = [at EXCEPT ![d] = @ + 1]
                /\ UNCHANGED <<mode, todo, goal>>
             \/ /\ e # "on"
                /\ mode' = [mode EXCEPT ![d] = "release"]
                /\ todo' = [todo EXCEPT ![d] = Now(d).undo]
                /\ goal' = [goal EXCEPT ![d] = e]
                /\ UNCHANGED at
    BY <1>5 DEF Fail
  <2>4. UNCHANGED <<loaded, lost, asked>>  BY <1>5 DEF Fail
  <2>5. held' \in [Drivers -> SUBSET Resources]  BY <2>2, <2>3
  <2>6. CASE e = "on"
    <3>1. /\ at' = [at EXCEPT ![d] = @ + 1]
          /\ UNCHANGED <<mode, todo, goal>>
      BY <2>3, <2>6
    <3>2. at' \in [Drivers -> Nat]  BY <2>1, <3>1
    <3> QED  BY <2>4, <2>5, <3>1, <3>2
  <2>7. CASE e # "on"
    <3>1. e \in {"out", "bound"}  BY <2>2, <2>3, <2>7
    <3> QED  BY <2>1, <2>2, <2>3, <2>4, <2>5, <2>7, <3>1
  <2> QED  BY <2>6, <2>7
<1>6. ASSUME NEW d \in loaded, Probed(d) PROVE TypeOK'
  BY <1>6 DEF Probed
<1>7. ASSUME NEW d \in loaded, Unbind(d) PROVE TypeOK'
  BY <1>7, Tables DEF Unbind
<1>8. ASSUME NEW d \in loaded, Release(d) PROVE TypeOK'
  <2>1. todo[d] \in Seq(Releases) /\ todo[d] # <<>>
    BY <1>8 DEF Release
  <2>2. Tail(todo[d]) \in Seq(Releases)  BY <2>1
  <2> QED  BY <1>8, <2>2 DEF Release
<1>9. ASSUME NEW d \in loaded, Released(d) PROVE TypeOK'
  <2>1. mode' \in [Drivers -> {"new", "probe", "bound", "release", "out"}]
    BY <1>9 DEF Released
  <2>2. UNCHANGED <<loaded, at, todo, goal, asked>>  BY <1>9 DEF Released
  <2>3. CASE goal[d] = "out"
    <3>1. /\ lost' = [lost EXCEPT ![d] = @ \cup held[d]]
          /\ held' = [held EXCEPT ![d] = {}]
      BY <1>9, <2>3 DEF Released
    <3>2. lost' \in [Drivers -> SUBSET Resources]  BY <3>1
    <3>3. held' \in [Drivers -> SUBSET Resources]  BY <3>1
    <3> QED  BY <2>1, <2>2, <3>2, <3>3
  <2>4. CASE goal[d] # "out"
    BY <1>9, <2>1, <2>4 DEF Released
  <2> QED  BY <2>3, <2>4
<1> QED
  BY <1>1, <1>2, <1>3, <1>4, <1>5, <1>6, <1>7, <1>8, <1>9 DEF Next

-----------------------------------------------------------------------------
(* Nothing is lost. *)

Tidying(d) ==
  /\ lost[d] = {}
  /\ mode[d] \in {"new", "out"} => held[d] = {}
  /\ mode[d] = "probe" => at[d] \in 1..End(d) /\ held[d] \subseteq Got(d, at[d])
  /\ mode[d] = "bound" => held[d] \subseteq Got(d, End(d))
  /\ mode[d] = "release" => held[d] \subseteq All(todo[d])

TidyInv == \A d \in Tidy : Tidying(d)

(* What a step adds to what is taken. *)
LEMMA GotNext ==
  ASSUME NEW d, NEW i \in Steps(d)
  PROVE  Got(d, i + 1) = Got(d, i) \cup Probe[d][i].get
BY DEF Got, Steps

(* Nothing is taken before the first. *)
LEMMA GotNone == \A d : Got(d, 1) = {}
BY DEF Got

(* A table has a length. *)
LEMMA LenNat == \A d \in Drivers : Len(Probe[d]) \in Nat
BY Tables

(* What is held is accounted for. *)
LEMMA TidyKept ==
  ASSUME TypeOK, TidyInv, [Next]_vars, \A d \in Tidy : Balanced(d)
  PROVE  TidyInv'
<1> USE DEF TidyInv
<1> SUFFICES ASSUME NEW c \in Tidy PROVE Tidying(c)'
  OBVIOUS
<1>c. c \in Drivers /\ Tidying(c) /\ Balanced(c)  BY Subsets
<1>l. Len(Probe[c]) \in Nat  BY <1>c, LenNat
<1>1. CASE UNCHANGED vars  BY <1>1, <1>c DEF vars, Tidying
\* Another driver's step touches nothing of c.
<1>2. ASSUME NEW d \in loaded, d # c,
             \/ Bind(d) \/ Succeed(d) \/ Skip(d) \/ Fail(d) \/ Probed(d)
             \/ Unbind(d) \/ Release(d) \/ Released(d)
      PROVE  Tidying(c)'
  <2>1. /\ mode'[c] = mode[c] /\ at'[c] = at[c] /\ todo'[c] = todo[c]
        /\ held'[c] = held[c] /\ lost'[c] = lost[c]
    BY <1>2, <1>c DEF TypeOK, Bind, Succeed, Skip, Fail, Probed, Unbind,
                      Release, Released
  <2> QED  BY <2>1, <1>c DEF Tidying
<1>3. CASE Bind(c)
  <2>1. mode'[c] = "probe" /\ at'[c] = 1 /\ held'[c] = {} /\ lost'[c] = {}
    BY <1>3, <1>c DEF Bind, TypeOK, Tidying
  <2> QED  BY <2>1, <1>l, GotNone DEF Tidying, End
<1>4. CASE Succeed(c)
  <2>1. /\ mode[c] = "probe" /\ mode'[c] = "probe" /\ at'[c] = at[c] + 1
        /\ held'[c] = held[c] \cup Probe[c][at[c]].get /\ lost'[c] = lost[c]
        /\ at[c] \in Steps(c)
    BY <1>4, <1>c DEF Succeed, Asking, Now, TypeOK
  <2>2. held'[c] \subseteq Got(c, at'[c])
    BY <2>1, <1>c, GotNext DEF Tidying
  <2>3. at'[c] \in 1..End(c)  BY <2>1, <1>l DEF Steps, End
  <2> QED  BY <2>1, <2>2, <2>3, <1>c DEF Tidying
<1>5. CASE Skip(c)
  <2>1. /\ mode[c] = "probe" /\ mode'[c] = "probe" /\ at'[c] = at[c] + 1
        /\ held'[c] = held[c] /\ lost'[c] = lost[c] /\ at[c] \in Steps(c)
    BY <1>5, <1>c DEF Skip, Asking, TypeOK
  <2>2. held'[c] \subseteq Got(c, at'[c])
    BY <2>1, <1>c, GotNext DEF Tidying
  <2>3. at'[c] \in 1..End(c)  BY <2>1, <1>l DEF Steps, End
  <2> QED  BY <2>1, <2>2, <2>3, <1>c DEF Tidying
<1>6. CASE Fail(c)
  <2>1. mode[c] = "probe" /\ at[c] \in Steps(c) /\ lost'[c] = lost[c]
    BY <1>6, <1>c DEF Fail, Asking, TypeOK
  <2>2. PICK part \in SUBSET Now(c).get, e \in Now(c).end :
          /\ part # Now(c).get \/ part = {}
          /\ held' = [held EXCEPT ![c] = @ \cup part]
          /\ \/ /\ e = "on"
                /\ at' = [at EXCEPT ![c] = @ + 1]
                /\ UNCHANGED <<mode, todo, goal>>
             \/ /\ e # "on"
                /\ mode' = [mode EXCEPT ![c] = "release"]
                /\ todo' = [todo EXCEPT ![c] = Now(c).undo]
                /\ goal' = [goal EXCEPT ![c] = e]
                /\ UNCHANGED at
    BY <1>6 DEF Fail
  <2>3. held'[c] = held[c] \cup part  BY <2>2, <1>c DEF TypeOK
  <2>4. held[c] \subseteq Got(c, at[c])  BY <2>1, <1>c DEF Tidying
  <2>5. CASE e = "on"
    <3>1. mode'[c] = "probe" /\ at'[c] = at[c] + 1
      BY <2>1, <2>2, <2>5, <1>c DEF TypeOK
    <3>2. held'[c] \subseteq Got(c, at'[c])
      BY <2>1, <2>2, <2>3, <2>4, <3>1, GotNext DEF Now
    <3>3. at'[c] \in 1..End(c)  BY <2>1, <3>1, <1>l DEF Steps, End
    <3> QED  BY <2>1, <3>1, <3>2, <3>3, <1>c DEF Tidying
  <2>6. CASE e # "on"
    <3>1. mode'[c] = "release" /\ todo'[c] = Now(c).undo
      BY <2>2, <2>6, <1>c DEF TypeOK
    <3>2. ~(Probe[c][at[c]].end \subseteq {"on"})  BY <2>2, <2>6 DEF Now
    <3>3. Got(c, at[c]) \cup part \subseteq All(Probe[c][at[c]].undo)
      BY <1>c, <2>1, <2>2, <3>2 DEF Balanced, Now
    <3>4. held'[c] \subseteq All(todo'[c])
      BY <2>3, <2>4, <3>1, <3>3 DEF Now
    <3> QED  BY <2>1, <3>1, <3>4, <1>c DEF Tidying
  <2> QED  BY <2>5, <2>6
<1>7. CASE Probed(c)
  <2>1. /\ mode[c] = "probe" /\ mode'[c] = "bound" /\ at[c] \notin Steps(c)
        /\ held'[c] = held[c] /\ lost'[c] = lost[c]
    BY <1>7, <1>c DEF Probed, TypeOK
  <2>2. at[c] = End(c)  BY <2>1, <1>c, <1>l DEF Tidying, Steps, End
  <2> QED  BY <2>1, <2>2, <1>c DEF Tidying
<1>8. CASE Unbind(c)
  <2>1. /\ mode[c] = "bound" /\ mode'[c] = "release" /\ todo'[c] = Remove[c]
        /\ held'[c] = held[c] /\ lost'[c] = lost[c] /\ c \in Removable
    BY <1>8, <1>c DEF Unbind, TypeOK
  <2> QED  BY <2>1, <1>c DEF Tidying, Balanced
<1>9. CASE Release(c)
  <2>1. /\ mode[c] = "release" /\ mode'[c] = "release" /\ todo[c] # <<>>
        /\ todo'[c] = Tail(todo[c]) /\ held'[c] = held[c] \ Head(todo[c])
        /\ lost'[c] = lost[c]
    BY <1>9, <1>c DEF Release, TypeOK
  <2>2. todo[c] \in Seq(Releases) /\ held[c] \subseteq All(todo[c])
    BY <1>c, <2>1 DEF TypeOK, Tidying
  <2>3. held'[c] \subseteq All(todo'[c])
    <3> SUFFICES ASSUME NEW r \in held'[c] PROVE r \in All(todo'[c])
      OBVIOUS
    <3>1. r \in All(todo[c]) /\ r \notin todo[c][1]  BY <2>1, <2>2
    <3>2. PICK i \in 1..Len(todo[c]) : r \in todo[c][i]  BY <3>1 DEF All
    <3>3. i # 1  BY <3>1, <3>2
    <3>4. i - 1 \in 1..Len(Tail(todo[c])) /\ Tail(todo[c])[i - 1] = todo[c][i]
      BY <2>1, <2>2, <3>2, <3>3
    <3> QED  BY <2>1, <3>2, <3>4 DEF All
  <2> QED  BY <2>1, <2>3, <1>c DEF Tidying
<1>10. CASE Released(c)
  <2>1. mode[c] = "release" /\ todo[c] = <<>> /\ mode'[c] = goal[c]
    BY <1>10, <1>c DEF Released, TypeOK
  <2>2. held[c] = {}  BY <2>1, <1>c DEF Tidying, All
  <2>3. held'[c] = {} /\ lost'[c] = {}
    BY <1>10, <1>c, <2>2 DEF Released, TypeOK, Tidying
  <2>4. mode'[c] \in {"out", "bound"}  BY <2>1, <1>c DEF TypeOK
  <2> QED  BY <2>3, <2>4 DEF Tidying
<1>11. CASE Next
  <2>1. PICK d \in loaded :
          \/ Bind(d) \/ Succeed(d) \/ Skip(d) \/ Fail(d) \/ Probed(d)
          \/ Unbind(d) \/ Release(d) \/ Released(d)
    BY <1>11 DEF Next
  <2> QED
    BY <2>1, <1>2, <1>3, <1>4, <1>5, <1>6, <1>7, <1>8, <1>9, <1>10
<1> QED  BY <1>1, <1>11

\* A driver whose labels and remove function are balanced gives everything
\* back, however its calls fail, however often it is bound again, and whatever
\* the other drivers hold or have lost.
THEOREM BalancedLosesNothing ==
  ASSUME \A d \in Tidy : Balanced(d)
  PROVE  Spec => []NothingLost
<1>1. Init => TypeOK /\ TidyInv
  BY TypeInit, Subsets DEF Init, TidyInv, Tidying
<1>2. TypeOK /\ TidyInv /\ [Next]_vars => (TypeOK /\ TidyInv)'
  BY TypeNext, TidyKept
<1>3. TidyInv => NothingLost
  BY DEF TidyInv, Tidying, NothingLost
<1> QED  BY <1>1, <1>2, <1>3, PTL DEF Spec

-----------------------------------------------------------------------------
(* No pointer outlives what it points to. *)

Sounding(d) ==
  /\ mode[d] \in {"new", "out"} => held[d] = {}
  /\ mode[d] = "probe" => at[d] \in 1..End(d) /\ held[d] = Got(d, at[d])
  /\ mode[d] = "bound" =>
       /\ Closed(d, held[d])
       /\ d \in Removable => held[d] = Got(d, End(d))
  /\ mode[d] = "release" =>
       /\ Unwinds(d, held[d], todo[d])
       /\ goal[d] = "bound" => d \notin Removable

SoundInv == \A d \in Sound : Sounding(d)

(* No label has been worked through yet. *)
LEMMA LeftAll == \A h, s : Left(h, s, 1) = h
BY DEF Left

\* Releasing the head of a sequence that unwinds leaves one that unwinds.
LEMMA UnwindTail ==
  ASSUME NEW d, NEW h, NEW s \in Seq(Releases), s # <<>>, Unwinds(d, h, s)
  PROVE  Unwinds(d, h \ Head(s), Tail(s))
<1> DEFINE t == Tail(s)
<1>1. /\ Len(s) \in Nat \ {0} /\ Len(t) = Len(s) - 1
      /\ \A j \in 1..Len(t) : t[j] = s[j + 1]
      /\ Head(s) = s[1]
  OBVIOUS
<1> HIDE DEF t
<1>2. ASSUME NEW k \in 1..(Len(t) + 1)
      PROVE  Left(h \ Head(s), t, k) = Left(h, s, k + 1)
  <2>1. ASSUME NEW r \in UNION {t[j] : j \in 1..(k - 1)}
        PROVE  r \in UNION {s[j] : j \in 1..(k + 1 - 1)}
    <3>1. PICK j \in 1..(k - 1) : r \in t[j]  BY <2>1
    <3>2. j + 1 \in 1..(k + 1 - 1) /\ r \in s[j + 1]  BY <1>1, <3>1
    <3> QED  BY <3>2
  <2>2. ASSUME NEW r \in UNION {s[j] : j \in 1..(k + 1 - 1)}, r \notin s[1]
        PROVE  r \in UNION {t[j] : j \in 1..(k - 1)}
    <3>1. PICK j \in 1..(k + 1 - 1) : r \in s[j]  BY <2>2
    <3>2. j # 1  BY <2>2, <3>1
    <3>3. j - 1 \in 1..(k - 1) /\ r \in t[j - 1]  BY <1>1, <3>1, <3>2
    <3> QED  BY <3>3
  <2>3. s[1] \subseteq UNION {s[j] : j \in 1..(k + 1 - 1)}  BY <1>1
  <2> QED  BY <1>1, <2>1, <2>2, <2>3 DEF Left
<1>3. ASSUME NEW k \in 1..Len(t)
      PROVE  t[k] \subseteq Left(h \ Head(s), t, k)
  <2>1. k + 1 \in 1..Len(s)  BY <1>1
  <2>2. s[k + 1] \subseteq Left(h, s, k + 1)  BY <2>1 DEF Unwinds
  <2>3. k \in 1..(Len(t) + 1) /\ t[k] = s[k + 1]  BY <1>1
  <2>4. Left(h \ Head(s), t, k) = Left(h, s, k + 1)  BY <1>2, <2>3
  <2> QED  BY <2>2, <2>3, <2>4
<1>4. ASSUME NEW k \in 1..(Len(t) + 1)
      PROVE  Closed(d, Left(h \ Head(s), t, k))
  <2>1. k + 1 \in 1..(Len(s) + 1)  BY <1>1
  <2> QED  BY <1>2, <2>1 DEF Unwinds
<1> QED  BY <1>3, <1>4 DEF Unwinds, t

(* What is held is closed under what it is worked through. *)
LEMMA SoundKept ==
  ASSUME TypeOK, SoundInv, [Next]_vars, \A d \in Sound : Ordered(d)
  PROVE  SoundInv'
<1> USE DEF SoundInv
<1> SUFFICES ASSUME NEW c \in Sound PROVE Sounding(c)'
  OBVIOUS
<1>c. c \in Drivers /\ Sounding(c) /\ Ordered(c)  BY Subsets
<1>l. Len(Probe[c]) \in Nat  BY <1>c, LenNat
<1>1. CASE UNCHANGED vars  BY <1>1, <1>c DEF vars, Sounding
<1>2. ASSUME NEW d \in loaded, d # c,
             \/ Bind(d) \/ Succeed(d) \/ Skip(d) \/ Fail(d) \/ Probed(d)
             \/ Unbind(d) \/ Release(d) \/ Released(d)
      PROVE  Sounding(c)'
  <2>1. /\ mode'[c] = mode[c] /\ at'[c] = at[c] /\ todo'[c] = todo[c]
        /\ held'[c] = held[c] /\ goal'[c] = goal[c]
    BY <1>2, <1>c DEF TypeOK, Bind, Succeed, Skip, Fail, Probed, Unbind,
                      Release, Released
  <2> QED  BY <2>1, <1>c DEF Sounding
<1>3. CASE Bind(c)
  <2>1. mode'[c] = "probe" /\ at'[c] = 1 /\ held'[c] = {}
    BY <1>3, <1>c DEF Bind, TypeOK, Sounding
  <2> QED  BY <2>1, <1>l, GotNone DEF Sounding, End
<1>4. CASE Succeed(c)
  <2>1. /\ mode[c] = "probe" /\ mode'[c] = "probe" /\ at'[c] = at[c] + 1
        /\ held'[c] = held[c] \cup Probe[c][at[c]].get
        /\ at[c] \in Steps(c)
    BY <1>4, <1>c DEF Succeed, Asking, Now, TypeOK
  <2>2. held'[c] = Got(c, at'[c])
    BY <2>1, <1>c, GotNext DEF Sounding
  <2>3. at'[c] \in 1..End(c)  BY <2>1, <1>l DEF Steps, End
  <2> QED  BY <2>1, <2>2, <2>3, <1>c DEF Sounding
\* An ordered driver asks for nothing of Once.
<1>5. CASE Skip(c)
  <2>1. at[c] \in Steps(c) /\ Probe[c][at[c]].get \cap Once # {}
    BY <1>5 DEF Skip, Asking, Had, Now
  <2> QED  BY <2>1, <1>c DEF Ordered
<1>6. CASE Fail(c)
  <2>1. mode[c] = "probe" /\ at[c] \in Steps(c)
    BY <1>6, <1>c DEF Fail, Asking, TypeOK
  <2>2. PICK part \in SUBSET Now(c).get, e \in Now(c).end :
          /\ part # Now(c).get \/ part = {}
          /\ held' = [held EXCEPT ![c] = @ \cup part]
          /\ \/ e = "on"
             \/ /\ mode' = [mode EXCEPT ![c] = "release"]
                /\ todo' = [todo EXCEPT ![c] = Now(c).undo]
                /\ goal' = [goal EXCEPT ![c] = e]
    BY <1>6 DEF Fail
  <2>3. part = {}  BY <2>1, <2>2, <1>c DEF Ordered, Now
  <2>4. e # "on" /\ (e = "bound" => c \notin Removable)
    BY <2>1, <2>2, <1>c DEF Ordered, Now
  <2>5. /\ mode'[c] = "release" /\ todo'[c] = Probe[c][at[c]].undo
        /\ goal'[c] = e /\ held'[c] = held[c]
    BY <2>2, <2>3, <2>4, <1>c DEF TypeOK, Now
  <2>6. Unwinds(c, held'[c], todo'[c])
    BY <2>1, <2>5, <1>c DEF Ordered, Sounding
  <2> QED  BY <2>4, <2>5, <2>6 DEF Sounding
<1>7. CASE Probed(c)
  <2>1. /\ mode[c] = "probe" /\ mode'[c] = "bound" /\ at[c] \notin Steps(c)
        /\ held'[c] = held[c]
    BY <1>7, <1>c DEF Probed, TypeOK
  <2>2. at[c] = End(c) /\ held'[c] = Got(c, End(c))
    BY <2>1, <1>c, <1>l DEF Sounding, Steps, End
  <2>3. End(c) \in 1..End(c)  BY <1>l DEF End
  <2>4. Closed(c, Got(c, End(c)))  BY <2>3, <1>c DEF Ordered
  <2> QED  BY <2>1, <2>2, <2>4 DEF Sounding
<1>8. CASE Unbind(c)
  <2>1. /\ mode[c] = "bound" /\ mode'[c] = "release" /\ todo'[c] = Remove[c]
        /\ goal'[c] = "out" /\ held'[c] = held[c] /\ c \in Removable
    BY <1>8, <1>c DEF Unbind, TypeOK
  <2> QED  BY <2>1, <1>c DEF Sounding, Ordered
<1>9. CASE Release(c)
  <2>1. /\ mode[c] = "release" /\ mode'[c] = "release" /\ todo[c] # <<>>
        /\ todo'[c] = Tail(todo[c]) /\ held'[c] = held[c] \ Head(todo[c])
        /\ goal'[c] = goal[c]
    BY <1>9, <1>c DEF Release, TypeOK
  <2>2. todo[c] \in Seq(Releases) /\ Unwinds(c, held[c], todo[c])
    BY <1>c, <2>1 DEF TypeOK, Sounding
  <2>3. Unwinds(c, held'[c], todo'[c])  BY <2>1, <2>2, UnwindTail
  <2> QED  BY <2>1, <2>3, <1>c DEF Sounding
<1>10. CASE Released(c)
  <2>1. mode[c] = "release" /\ todo[c] = <<>> /\ mode'[c] = goal[c]
    BY <1>10, <1>c DEF Released, TypeOK
  <2>2. goal[c] \in {"out", "bound"}  BY <1>c DEF TypeOK
  <2>3. CASE goal[c] = "out"
    <3>1. held'[c] = {}  BY <1>10, <2>3, <1>c DEF Released, TypeOK
    <3> QED  BY <2>1, <2>3, <3>1 DEF Sounding
  <2>4. CASE goal[c] = "bound"
    <3>1. held'[c] = held[c]  BY <1>10, <2>4 DEF Released
    <3>2. 1 \in 1..(Len(todo[c]) + 1)  BY <2>1
    <3>3. Closed(c, Left(held[c], todo[c], 1))
      BY <2>1, <3>2, <1>c DEF Sounding, Unwinds
    <3>4. Closed(c, held[c]) /\ c \notin Removable
      BY <2>1, <2>4, <3>3, <1>c, LeftAll DEF Sounding
    <3> QED  BY <2>1, <2>4, <3>1, <3>4 DEF Sounding
  <2> QED  BY <2>2, <2>3, <2>4
<1>11. CASE Next
  <2>1. PICK d \in loaded :
          \/ Bind(d) \/ Succeed(d) \/ Skip(d) \/ Fail(d) \/ Probed(d)
          \/ Unbind(d) \/ Release(d) \/ Released(d)
    BY <1>11 DEF Next
  <2> QED
    BY <2>1, <1>2, <1>3, <1>4, <1>5, <1>6, <1>7, <1>8, <1>9, <1>10
<1> QED  BY <1>1, <1>11

(* And nothing can be lost under it. *)
LEMMA SoundHolds ==
  ASSUME TypeOK, SoundInv, \A d \in Sound : Ordered(d)
  PROVE  HandlesLive
<1> SUFFICES ASSUME NEW d \in Sound
             PROVE  /\ Closed(d, held[d])
                    /\ mode[d] = "release" /\ todo[d] # <<>>
                         => Head(todo[d]) \subseteq held[d]
  BY DEF HandlesLive, Closed
<1>d. d \in Drivers /\ Sounding(d) /\ Ordered(d)  BY Subsets DEF SoundInv
<1>1. mode[d] \in {"new", "probe", "bound", "release", "out"}
  BY <1>d DEF TypeOK
<1>2. CASE mode[d] \in {"new", "out"}
  BY <1>2, <1>d DEF Sounding, Closed
<1>3. CASE mode[d] = "probe"
  <2>1. held[d] = Got(d, at[d]) /\ at[d] \in 1..End(d)
    BY <1>3, <1>d DEF Sounding
  <2>2. Closed(d, Got(d, at[d]))  BY <1>d, <2>1 DEF Ordered
  <2> QED  BY <1>3, <2>1, <2>2
<1>4. CASE mode[d] = "bound"
  BY <1>4, <1>d DEF Sounding
<1>5. CASE mode[d] = "release"
  <2>1. Unwinds(d, held[d], todo[d]) /\ todo[d] \in Seq(Releases)
    BY <1>5, <1>d DEF Sounding, TypeOK
  <2>2. Len(todo[d]) \in Nat  BY <2>1
  <2>3. Closed(d, Left(held[d], todo[d], 1))
    BY <2>1, <2>2 DEF Unwinds
  <2>4. ASSUME todo[d] # <<>> PROVE todo[d][1] \subseteq Left(held[d], todo[d], 1)
    <3>1. 1 \in 1..Len(todo[d])  BY <2>1, <2>4
    <3> QED  BY <2>1, <3>1 DEF Unwinds
  <2>5. todo[d] # <<>> => Head(todo[d]) = todo[d][1]  BY <2>1
  <2> QED  BY <2>3, <2>4, <2>5, LeftAll
<1> QED  BY <1>1, <1>2, <1>3, <1>4, <1>5

\* A driver that takes its resources in an order in which each finds what it is
\* worked through, and gives them back in an order that unwinds, never holds one
\* whose support is gone, at any point of any history.
THEOREM OrderedStaysLive ==
  ASSUME \A d \in Sound : Ordered(d)
  PROVE  Spec => []HandlesLive
<1>1. Init => TypeOK /\ SoundInv
  BY TypeInit, Subsets DEF Init, SoundInv, Sounding
<1>2. TypeOK /\ SoundInv /\ [Next]_vars => (TypeOK /\ SoundInv)'
  BY TypeNext, SoundKept
<1>3. TypeOK /\ SoundInv => HandlesLive
  BY SoundHolds
<1> QED  BY <1>1, <1>2, <1>3, PTL DEF Spec

-----------------------------------------------------------------------------
(* The SPI driver meets both conditions. *)

(* The table of the SPI driver. *)
LEMMA SpiSteps ==
  /\ SpiProbe[1] = [get |-> {"priv"}, undo |-> <<>>, end |-> {"out"}]
  /\ SpiProbe[2] = [get |-> {"tx"}, undo |-> <<{"priv"}>>, end |-> {"out"}]
  /\ SpiProbe[3] =
       [get |-> {"rx"}, undo |-> <<{"tx"}, {"priv"}>>, end |-> {"out"}]
  /\ Len(SpiProbe) = 3
  /\ 1..Len(SpiProbe) = {1, 2, 3}
BY DEF SpiProbe, Must

(* What its steps have taken. *)
LEMMA SpiGot ==
  ASSUME Probe["spi"] = SpiProbe
  PROVE  /\ Got("spi", 1) = {}
         /\ Got("spi", 2) = {"priv"}
         /\ Got("spi", 3) = {"priv", "tx"}
         /\ Got("spi", 4) = {"priv", "tx", "rx"}
<1>1. Got("spi", 1) = {}  BY GotNone
<1>2. Got("spi", 2) = {"priv"}
  BY <1>1, GotNext, SpiSteps, 1 + 1 = 2 DEF Steps
<1>3. Got("spi", 3) = {"priv", "tx"}
  <2>1. 2 \in Steps("spi")  BY SpiSteps DEF Steps
  <2>2. Got("spi", 3) = Got("spi", 2) \cup Probe["spi"][2].get
    BY <2>1, GotNext, 2 + 1 = 3
  <2>3. Probe["spi"][2].get = {"tx"}  BY SpiSteps
  <2> QED  BY <1>2, <2>2, <2>3
<1>4. Got("spi", 4) = {"priv", "tx", "rx"}
  <2>1. 3 \in Steps("spi")  BY SpiSteps DEF Steps
  <2>2. Got("spi", 4) = Got("spi", 3) \cup Probe["spi"][3].get
    BY <2>1, GotNext, 3 + 1 = 4
  <2>3. Probe["spi"][3].get = {"rx"}  BY SpiSteps
  <2> QED  BY <1>3, <2>2, <2>3
<1> QED  BY <1>1, <1>2, <1>3, <1>4

(* The union of one label. *)
LEMMA AllOfOne == \A x : All(<<x>>) = x
<1> TAKE x
<1>1. 1..Len(<<x>>) = {1} /\ <<x>>[1] = x  OBVIOUS
<1> QED  BY <1>1 DEF All

(* Of two. *)
LEMMA AllOfTwo == \A x, y : All(<<x, y>>) = x \cup y
<1> TAKE x, y
<1>1. /\ 1..Len(<<x, y>>) = {1, 2}
      /\ <<x, y>>[1] = x /\ <<x, y>>[2] = y
  OBVIOUS
<1> QED  BY <1>1, Zenon DEF All

(* Of three. *)
LEMMA AllOfThree == \A x, y, z : All(<<x, y, z>>) = x \cup y \cup z
<1> TAKE x, y, z
<1>1. /\ 1..Len(<<x, y, z>>) = {1, 2, 3}
      /\ <<x, y, z>>[1] = x /\ <<x, y, z>>[2] = y /\ <<x, y, z>>[3] = z
  OBVIOUS
<1> QED  BY <1>1, Zenon DEF All

(* The SPI driver is Balanced. *)
LEMMA SpiBalanced ==
  ASSUME Probe["spi"] = SpiProbe, Remove["spi"] = SpiRemove
  PROVE  Balanced("spi")
<1>1. Got("spi", End("spi")) \subseteq All(Remove["spi"])
  <2>1. All(SpiRemove) = {"rx"} \cup {"tx"} \cup {"priv"}
    BY AllOfThree DEF SpiRemove
  <2> QED  BY <2>1, SpiGot, SpiSteps, 3 + 1 = 4 DEF End
<1>2. ASSUME NEW i \in Steps("spi"),
             NEW part \in SUBSET Probe["spi"][i].get,
             part = {} \/ part # Probe["spi"][i].get
      PROVE  Got("spi", i) \cup part \subseteq All(Probe["spi"][i].undo)
  <2>1. i \in {1, 2, 3}  BY SpiSteps DEF Steps
  <2>2. part = {}
    <3>1. CASE i = 1  BY <1>2, <3>1, SpiSteps
    <3>2. CASE i = 2  BY <1>2, <3>2, SpiSteps
    <3>3. CASE i = 3  BY <1>2, <3>3, SpiSteps
    <3> QED  BY <2>1, <3>1, <3>2, <3>3
  <2>3. CASE i = 1  BY <2>2, <2>3, SpiGot
  <2>4. CASE i = 2  BY <2>2, <2>4, SpiGot, SpiSteps, AllOfOne
  <2>5. CASE i = 3  BY <2>2, <2>5, SpiGot, SpiSteps, AllOfTwo
  <2> QED  BY <2>1, <2>3, <2>4, <2>5
<1> QED  BY <1>1, <1>2 DEF Balanced

\* demo_spi_probe and demo_spi_remove lose nothing, in any system: a theorem
\* about the very table that the run checks.
THEOREM SpiLosesNothing ==
  ASSUME Tidy = {"spi"}, Probe["spi"] = SpiProbe, Remove["spi"] = SpiRemove
  PROVE  Spec => []NothingLost
BY SpiBalanced, BalancedLosesNothing

(* What is left after one more release. *)
LEMMA LeftNext ==
  ASSUME NEW h, NEW s, NEW k \in Nat \ {0}
  PROVE  Left(h, s, 1) = h /\ Left(h, s, k + 1) = Left(h, s, k) \ s[k]
<1>1. 1..(1 - 1) = {} /\ 1..((k + 1) - 1) = 1..(k - 1) \cup {k}
  OBVIOUS
<1> QED  BY <1>1 DEF Left

(* The buffers need the private data, which needs nothing. *)
LEMMA SpiClosed ==
  ASSUME Touch["spi"] = SpiTouch,
         NEW h \in {{}, {"priv"}, {"priv", "tx"}, {"priv", "tx", "rx"}}
  PROVE  Closed("spi", h)
<1>1. /\ Through("spi", "priv") = {}
      /\ Through("spi", "tx") = {"priv"} /\ Through("spi", "rx") = {"priv"}
  BY DEF Through, SpiTouch
<1> QED  BY <1>1 DEF Closed

(* The labels and the remove function of the SPI driver unwind. *)
LEMMA SpiUnwinds ==
  ASSUME Touch["spi"] = SpiTouch
  PROVE  /\ Unwinds("spi", {}, <<>>)
         /\ Unwinds("spi", {"priv"}, <<{"priv"}>>)
         /\ Unwinds("spi", {"priv", "tx"}, <<{"tx"}, {"priv"}>>)
         /\ Unwinds("spi", {"priv", "tx", "rx"}, <<{"rx"}, {"tx"}, {"priv"}>>)
<1>1. Unwinds("spi", {}, <<>>)
  <2>1. 1..Len(<<>>) = {} /\ 1..(Len(<<>>) + 1) = {1}
    OBVIOUS
  <2>2. Left({}, <<>>, 1) = {}  BY LeftNext
  <2> QED  BY <2>1, <2>2, SpiClosed DEF Unwinds
<1>2. Unwinds("spi", {"priv"}, <<{"priv"}>>)
  <2> DEFINE s == <<{"priv"}>>
             h == {"priv"}
  <2>1. /\ 1..Len(s) = {1} /\ 1..(Len(s) + 1) = {1, 2}
        /\ s[1] = {"priv"}
    OBVIOUS
  <2>2. Left(h, s, 1) = {"priv"} /\ Left(h, s, 2) = {}
    <3> HIDE DEF s
    <3> QED  BY <2>1, LeftNext, 1 + 1 = 2
  <2> HIDE DEF s, h
  <2>3. Unwinds("spi", h, s)
    BY <2>1, <2>2, SpiClosed DEF Unwinds
  <2> QED  BY <2>3 DEF s, h
<1>3. Unwinds("spi", {"priv", "tx"}, <<{"tx"}, {"priv"}>>)
  <2> DEFINE s == <<{"tx"}, {"priv"}>>
             h == {"priv", "tx"}
  <2>1. /\ 1..Len(s) = {1, 2} /\ 1..(Len(s) + 1) = {1, 2, 3}
        /\ s[1] = {"tx"} /\ s[2] = {"priv"}
    OBVIOUS
  <2>2. /\ Left(h, s, 1) = {"priv", "tx"} /\ Left(h, s, 2) = {"priv"}
        /\ Left(h, s, 3) = {}
    <3> HIDE DEF s
    <3>1. Left(h, s, 1) = h /\ Left(h, s, 2) = h \ s[1]
      BY LeftNext, 1 + 1 = 2
    <3>2. Left(h, s, 3) = Left(h, s, 2) \ s[2]
      BY LeftNext, 2 + 1 = 3
    <3> QED  BY <2>1, <3>1, <3>2
  <2> HIDE DEF s, h
  <2>3. Unwinds("spi", h, s)
    BY <2>1, <2>2, SpiClosed DEF Unwinds
  <2> QED  BY <2>3 DEF s, h
<1>4. Unwinds("spi", {"priv", "tx", "rx"}, <<{"rx"}, {"tx"}, {"priv"}>>)
  <2> DEFINE s == <<{"rx"}, {"tx"}, {"priv"}>>
             h == {"priv", "tx", "rx"}
  <2>1. /\ 1..Len(s) = {1, 2, 3} /\ 1..(Len(s) + 1) = {1, 2, 3, 4}
        /\ s[1] = {"rx"} /\ s[2] = {"tx"} /\ s[3] = {"priv"}
    OBVIOUS
  <2>2. /\ Left(h, s, 1) = {"priv", "tx", "rx"} /\ Left(h, s, 2) = {"priv", "tx"}
        /\ Left(h, s, 3) = {"priv"} /\ Left(h, s, 4) = {}
    <3> HIDE DEF s
    <3>1. Left(h, s, 1) = h /\ Left(h, s, 2) = h \ s[1]
      BY LeftNext, 1 + 1 = 2
    <3>2. Left(h, s, 3) = Left(h, s, 2) \ s[2]
      BY LeftNext, 2 + 1 = 3
    <3>3. Left(h, s, 4) = Left(h, s, 3) \ s[3]
      BY LeftNext, 3 + 1 = 4
    <3> QED  BY <2>1, <3>1, <3>2, <3>3
  <2> HIDE DEF s, h
  <2>3. Unwinds("spi", h, s)
    BY <2>1, <2>2, SpiClosed DEF Unwinds
  <2> QED  BY <2>3 DEF s, h
<1> QED  BY <1>1, <1>2, <1>3, <1>4

(* The SPI driver is Ordered. *)
LEMMA SpiOrdered ==
  ASSUME Probe["spi"] = SpiProbe, Remove["spi"] = SpiRemove,
         Touch["spi"] = SpiTouch, Once \cap {"priv", "tx", "rx"} = {}
  PROVE  Ordered("spi")
<1>1. ASSUME NEW i \in Steps("spi")
      PROVE  /\ \A part \in SUBSET Probe["spi"][i].get :
                  part = {} \/ part = Probe["spi"][i].get
             /\ Probe["spi"][i].get \cap Once = {}
             /\ Probe["spi"][i].end = {"out"}
             /\ Unwinds("spi", Got("spi", i), Probe["spi"][i].undo)
  <2>1. i \in {1, 2, 3}  BY SpiSteps DEF Steps
  <2>2. /\ Probe["spi"][i].get \in {{"priv"}, {"tx"}, {"rx"}}
        /\ Probe["spi"][i].end = {"out"}
    <3>1. CASE i = 1  BY <3>1, SpiSteps
    <3>2. CASE i = 2  BY <3>2, SpiSteps
    <3>3. CASE i = 3  BY <3>3, SpiSteps
    <3> QED  BY <2>1, <3>1, <3>2, <3>3
  <2>3. ASSUME NEW part \in SUBSET Probe["spi"][i].get
        PROVE  part = {} \/ part = Probe["spi"][i].get
    BY <2>2
  <2>4. Probe["spi"][i].get \cap Once = {}
    BY <2>2
  <2>5. Unwinds("spi", Got("spi", i), Probe["spi"][i].undo)
    <3>1. CASE i = 1
      <4>1. Got("spi", i) = {} /\ Probe["spi"][i].undo = <<>>
        BY <3>1, SpiSteps, SpiGot
      <4> QED  BY <4>1, SpiUnwinds
    <3>2. CASE i = 2
      <4>1. Got("spi", i) = {"priv"} /\ Probe["spi"][i].undo = <<{"priv"}>>
        BY <3>2, SpiSteps, SpiGot
      <4> QED  BY <4>1, SpiUnwinds
    <3>3. CASE i = 3
      <4>1. /\ Got("spi", i) = {"priv", "tx"}
            /\ Probe["spi"][i].undo = <<{"tx"}, {"priv"}>>
        BY <3>3, SpiSteps, SpiGot
      <4> QED  BY <4>1, SpiUnwinds
    <3> QED  BY <2>1, <3>1, <3>2, <3>3
  <2> QED  BY <2>2, <2>3, <2>4, <2>5
<1>2. End("spi") = 4 /\ 1..4 = {1, 2, 3, 4}
  BY SpiSteps, 3 + 1 = 4 DEF End
<1>3. \A i \in 1..End("spi") : Closed("spi", Got("spi", i))
  BY <1>2, SpiGot, SpiClosed
<1>4. Unwinds("spi", Got("spi", End("spi")), Remove["spi"])
  BY <1>2, SpiGot, SpiUnwinds DEF SpiRemove
<1> QED  BY <1>1, <1>3, <1>4 DEF Ordered

\* demo_spi_probe and demo_spi_remove never free what a buffer is still reached
\* through, nor anything twice, in any system.
THEOREM SpiStaysLive ==
  ASSUME Sound = {"spi"}, Probe["spi"] = SpiProbe, Remove["spi"] = SpiRemove,
         Touch["spi"] = SpiTouch, Once \cap {"priv", "tx", "rx"} = {}
  PROVE  Spec => []HandlesLive
BY SpiOrdered, OrderedStaysLive
=============================================================================
