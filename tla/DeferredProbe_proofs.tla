------------------------ MODULE DeferredProbe_proofs ------------------------
(***************************************************************************)
(* The deferred probing of bus/common/device/device_register/driver.c: the *)
(* lists hold a device once, a device has one holder, the records of a     *)
(* binding agree, and no retry is lost.  The inductive invariant is stated *)
(* part by part in DeferredProbe:                                          *)
(*   NextInv    which driver a thread is at;                               *)
(*   HolderInv  a device is on a list, or one thread holds it: what a      *)
(*              lock would give comes from the order of the steps;         *)
(*   BindInv    what the holder has already written of the binding;        *)
(*   RetryInv   a device whose needs are met has a trigger to come.        *)
(* The last three need LastMayDefer.                                       *)
(***************************************************************************)
EXTENDS DeferredProbe, SequenceTheorems, TLAPS

-----------------------------------------------------------------------------
(* The lists                                                               *)

(* list_del of one place: what is left, in order. *)
LEMMA RemoveAtIs ==
  ASSUME NEW s \in Seq(Devices), NEW i \in 1..Len(s)
  PROVE  /\ RemoveAt(s, i) \in Seq(Devices) /\ Len(RemoveAt(s, i)) = Len(s) - 1
         /\ \A j \in 1..(Len(s) - 1) : RemoveAt(s, i)[j] = IF j < i THEN s[j] ELSE s[j + 1]
<1> DEFINE before == SubSeq(s, 1, i - 1)
           after == SubSeq(s, i + 1, Len(s))
<1>1. Len(s) \in Nat /\ i \in Nat /\ i >= 1 /\ i <= Len(s)
  OBVIOUS
<1>2. /\ before \in Seq(Devices) /\ Len(before) = i - 1
      /\ \A j \in 1..(i - 1) : before[j] = s[j]
  <2>1. \A j \in 1..(i - 1) : s[j] \in Devices
    BY <1>1
  <2>2. QED
    BY <1>1, <2>1, SubSeqProperties
<1>3. /\ after \in Seq(Devices) /\ Len(after) = Len(s) - i
      /\ \A j \in 1..(Len(s) - i) : after[j] = s[i + j]
  <2>1. \A j \in (i + 1)..Len(s) : s[j] \in Devices
    BY <1>1
  <2>2. QED
    BY <1>1, <2>1, SubSeqProperties
<1> HIDE DEF before, after
<1>4. RemoveAt(s, i) = before \o after
  BY DEF RemoveAt, before, after
<1>5. /\ before \o after \in Seq(Devices) /\ Len(before \o after) = Len(before) + Len(after)
      /\ \A j \in 1..(Len(before) + Len(after)) :
           (before \o after)[j] = IF j <= Len(before) THEN before[j] ELSE after[j - Len(before)]
  BY <1>2, <1>3, ConcatProperties
<1>6. QED
  BY <1>1, <1>2, <1>3, <1>4, <1>5

(* Membership by places. *)
LEMMA Containing ==
  ASSUME NEW s \in Seq(Devices), NEW x
  PROVE  /\ Contains(s, x) <=> \E i \in 1..Len(s) : s[i] = x
         /\ Contains(s, x) => x \in Devices
         /\ x \in ToSet(s) <=> Contains(s, x)
BY DEF Contains, ToSet

(* a list without a device that is on it at most once *)
LEMMA WithoutIs ==
  ASSUME NEW s \in Seq(Devices), IsInjective(s), NEW d \in Devices
  PROVE  /\ Without(s, d) \in Seq(Devices) /\ IsInjective(Without(s, d))
         /\ \A x : Contains(Without(s, d), x) <=> Contains(s, x) /\ x # d
         /\ s = <<>> => Without(s, d) = <<>>
<1>1. CASE ~Contains(s, d)
  BY <1>1 DEF Without
<1>2. CASE Contains(s, d)
  <2> DEFINE i == CHOOSE k \in DOMAIN s : s[k] = d
             w == RemoveAt(s, i)
  <2>1. i \in 1..Len(s) /\ s[i] = d
    BY <1>2, Containing
  <2>2. Without(s, d) = w
    BY <1>2 DEF Without
  <2> HIDE DEF i
  <2>3. /\ w \in Seq(Devices) /\ Len(w) = Len(s) - 1
        /\ \A j \in 1..(Len(s) - 1) : w[j] = IF j < i THEN s[j] ELSE s[j + 1]
    BY <2>1, RemoveAtIs
  <2> HIDE DEF w
  <2>4. Len(s) \in Nat /\ i \in Nat /\ i >= 1 /\ i <= Len(s)
    BY <2>1
  <2>5. \A j, k \in 1..Len(s) : s[j] = s[k] => j = k
    BY DEF IsInjective
  <2>6. IsInjective(w)
    <3>1. ASSUME NEW j \in 1..(Len(s) - 1), NEW k \in 1..(Len(s) - 1), w[j] = w[k] PROVE j = k
      BY <2>3, <2>4, <2>5, <3>1
    <3>2. QED
      BY <2>3, <3>1 DEF IsInjective
  <2>7. ASSUME NEW x, Contains(w, x) PROVE Contains(s, x) /\ x # d
    <3>1. PICK j \in 1..(Len(s) - 1) : w[j] = x
      BY <2>3, <2>7, Containing
    <3>2. PICK k \in 1..Len(s) : k # i /\ s[k] = x
      <4>1. CASE j < i
        BY <2>3, <2>4, <3>1, <4>1
      <4>2. CASE j >= i
        <5>1. j + 1 \in 1..Len(s) /\ j + 1 # i /\ s[j + 1] = x
          BY <2>3, <2>4, <3>1, <4>2
        <5>2. QED
          BY <5>1
      <4>3. QED
        BY <2>4, <4>1, <4>2
    <3>3. s[k] # s[i]
      BY <2>1, <2>5, <3>2
    <3>4. QED
      BY <2>1, <3>2, <3>3, Containing
  <2>8. ASSUME NEW x, Contains(s, x), x # d PROVE Contains(w, x)
    <3>1. PICK j \in 1..Len(s) : s[j] = x
      BY <2>8, Containing
    <3>2. CASE j < i
      <4>1. j \in 1..(Len(s) - 1) /\ w[j] = s[j]
        BY <2>3, <2>4, <3>2
      <4>2. QED
        BY <2>3, <3>1, <4>1, Containing
    <3>3. CASE j > i
      <4>1. j - 1 \in 1..(Len(s) - 1) /\ w[j - 1] = s[j]
        BY <2>3, <2>4, <3>3
      <4>2. QED
        BY <2>3, <3>1, <4>1, Containing
    <3>4. j # i
      BY <2>1, <2>8, <3>1
    <3>5. QED
      BY <2>4, <3>2, <3>3, <3>4
  <2>9. s # <<>>
    BY <2>4
  <2>10. QED
    BY <2>2, <2>3, <2>6, <2>7, <2>8, <2>9
<1>3. QED
  BY <1>1, <1>2

(* list_add_tail. *)
LEMMA AppendIs ==
  ASSUME NEW s \in Seq(Devices), IsInjective(s), NEW d \in Devices, ~Contains(s, d)
  PROVE  /\ Append(s, d) \in Seq(Devices) /\ IsInjective(Append(s, d))
         /\ \A x : Contains(Append(s, d), x) <=> Contains(s, x) \/ x = d
<1> DEFINE w == Append(s, d)
<1>1. /\ w \in Seq(Devices) /\ Len(w) = Len(s) + 1 /\ Len(s) \in Nat
      /\ \A j \in 1..Len(s) : w[j] = s[j]
      /\ w[Len(s) + 1] = d
  OBVIOUS
<1> HIDE DEF w
<1>2. /\ \A j, k \in 1..Len(s) : s[j] = s[k] => j = k
      /\ \A j \in 1..Len(s) : s[j] # d
  BY Containing DEF IsInjective
<1>3. \A j \in 1..Len(w) : j \in 1..Len(s) \/ j = Len(s) + 1
  BY <1>1
<1>4. IsInjective(w)
  <2>1. ASSUME NEW j \in 1..Len(w), NEW k \in 1..Len(w), w[j] = w[k] PROVE j = k
    BY <1>1, <1>2, <1>3, <2>1
  <2>2. QED
    BY <1>1, <2>1 DEF IsInjective
<1>5. ASSUME NEW x PROVE Contains(w, x) <=> Contains(s, x) \/ x = d
  <2>1. /\ Contains(s, x) <=> \E j \in 1..Len(s) : s[j] = x
        /\ Contains(w, x) <=> \E j \in 1..Len(w) : w[j] = x
    BY <1>1, Containing
  <2>2. 1..Len(s) \subseteq 1..Len(w) /\ Len(s) + 1 \in 1..Len(w)
    BY <1>1
  <2>3. QED
    BY <1>1, <1>3, <2>1, <2>2
<1>6. QED
  BY <1>1, <1>4, <1>5 DEF w

(* Taking the first device off. *)
LEMMA TailIs ==
  ASSUME NEW s \in Seq(Devices), IsInjective(s), s # <<>>
  PROVE  /\ Head(s) \in Devices /\ Contains(s, Head(s))
         /\ Tail(s) \in Seq(Devices) /\ IsInjective(Tail(s))
         /\ \A x : Contains(Tail(s), x) <=> Contains(s, x) /\ x # Head(s)
<1> DEFINE w == Tail(s)
<1>1. /\ w \in Seq(Devices) /\ Len(w) = Len(s) - 1 /\ Len(s) \in Nat /\ Len(s) >= 1
      /\ \A j \in 1..Len(w) : w[j] = s[j + 1]
      /\ Head(s) = s[1]
  OBVIOUS
<1> HIDE DEF w
<1>2. \A j, k \in 1..Len(s) : s[j] = s[k] => j = k
  BY DEF IsInjective
<1>3. IsInjective(w)
  <2>1. ASSUME NEW j \in 1..Len(w), NEW k \in 1..Len(w), w[j] = w[k] PROVE j = k
    BY <1>1, <1>2, <2>1
  <2>2. QED
    BY <1>1, <2>1 DEF IsInjective
<1>4. ASSUME NEW x, Contains(w, x) PROVE Contains(s, x) /\ x # s[1]
  <2>1. PICK j \in 1..Len(w) : w[j] = x
    BY <1>1, <1>4, Containing
  <2>2. j + 1 \in 1..Len(s) /\ s[j + 1] = x /\ j + 1 # 1 /\ 1 \in 1..Len(s)
    BY <1>1, <2>1
  <2>3. QED
    BY <1>2, <2>2, Containing
<1>5. ASSUME NEW x, Contains(s, x), x # s[1] PROVE Contains(w, x)
  <2>1. PICK j \in 1..Len(s) : s[j] = x
    BY <1>5, Containing
  <2>2. j - 1 \in 1..Len(w) /\ w[j - 1] = x
    BY <1>1, <1>5, <2>1
  <2>3. QED
    BY <1>1, <2>2, Containing
<1>6. Head(s) \in Devices /\ Contains(s, Head(s))
  BY <1>1, Containing
<1>7. QED
  BY <1>1, <1>3, <1>4, <1>5, <1>6 DEF w

(* list_splice_tail_init. *)
LEMMA SplicedIs ==
  ASSUME NEW a \in Seq(Devices), NEW p \in Seq(Devices)
  PROVE  /\ a \o p \in Seq(Devices)
         /\ \A x : Contains(a \o p, x) <=> Contains(a, x) \/ Contains(p, x)
         /\ IsInjective(a \o p) <=> /\ IsInjective(a) /\ IsInjective(p)
                                    /\ \A x : ~(Contains(a, x) /\ Contains(p, x))
<1> DEFINE w == a \o p
<1>1. /\ w \in Seq(Devices) /\ Len(w) = Len(a) + Len(p) /\ Len(a) \in Nat /\ Len(p) \in Nat
      /\ \A j \in 1..Len(w) : w[j] = IF j <= Len(a) THEN a[j] ELSE p[j - Len(a)]
  BY ConcatProperties
<1> HIDE DEF w
<1>2. \A j \in 1..Len(a) : j \in 1..Len(w) /\ w[j] = a[j]
  BY <1>1
<1>3. ASSUME NEW j \in 1..Len(p) PROVE Len(a) + j \in 1..Len(w) /\ w[Len(a) + j] = p[j]
  <2>1. j \in Nat /\ j >= 1 /\ j <= Len(p)
    BY <1>1
  <2>2. /\ Len(a) + j \in 1..Len(w) /\ ~(Len(a) + j <= Len(a))
        /\ (Len(a) + j) - Len(a) = j
    BY <1>1, <2>1
  <2>3. QED
    BY <1>1, <2>2
<1>4. ASSUME NEW j \in 1..Len(w)
      PROVE  \/ j \in 1..Len(a) /\ w[j] = a[j]
             \/ j - Len(a) \in 1..Len(p) /\ w[j] = p[j - Len(a)] /\ j > Len(a)
  BY <1>1
<1>5. ASSUME NEW x PROVE Contains(w, x) <=> Contains(a, x) \/ Contains(p, x)
  <2>1. /\ Contains(a, x) <=> \E j \in 1..Len(a) : a[j] = x
        /\ Contains(p, x) <=> \E j \in 1..Len(p) : p[j] = x
        /\ Contains(w, x) <=> \E j \in 1..Len(w) : w[j] = x
    BY <1>1, Containing
  <2>2. Contains(w, x) => Contains(a, x) \/ Contains(p, x)
    BY <1>4, <2>1
  <2>3. Contains(a, x) => Contains(w, x)
    BY <1>2, <2>1
  <2>4. Contains(p, x) => Contains(w, x)
    BY <1>3, <2>1
  <2>5. QED
    BY <2>2, <2>3, <2>4
<1>6. ASSUME IsInjective(w)
      PROVE  /\ IsInjective(a) /\ IsInjective(p)
             /\ \A x : ~(Contains(a, x) /\ Contains(p, x))
  <2>0. DOMAIN w = 1..Len(w)
    BY <1>1
  <2>1. \A j, k \in 1..Len(w) : w[j] = w[k] => j = k
    BY <1>6, <2>0 DEF IsInjective
  <2>2. IsInjective(a)
    <3>1. \A j, k \in 1..Len(a) : a[j] = a[k] => j = k
      BY <1>2, <2>1
    <3>2. QED
      BY <3>1 DEF IsInjective
  <2>3. IsInjective(p)
    <3>1. ASSUME NEW j \in 1..Len(p), NEW k \in 1..Len(p), p[j] = p[k] PROVE j = k
      <4>1. Len(a) + j = Len(a) + k
        BY <1>3, <2>1, <3>1
      <4>2. QED
        BY <1>1, <4>1
    <3>2. QED
      BY <3>1 DEF IsInjective
  <2>4. ASSUME NEW x, Contains(a, x), Contains(p, x) PROVE FALSE
    <3>1. PICK j \in 1..Len(a) : a[j] = x
      BY <2>4, Containing
    <3>2. PICK k \in 1..Len(p) : p[k] = x
      BY <2>4, Containing
    <3>3. j = Len(a) + k
      BY <1>2, <1>3, <2>1, <3>1, <3>2
    <3>4. QED
      BY <1>1, <3>3
  <2>5. QED
    BY <2>2, <2>3, <2>4
<1>7. ASSUME IsInjective(a), IsInjective(p), \A x : ~(Contains(a, x) /\ Contains(p, x))
      PROVE  IsInjective(w)
  <2>1. /\ \A j, k \in 1..Len(a) : a[j] = a[k] => j = k
        /\ \A j, k \in 1..Len(p) : p[j] = p[k] => j = k
    BY <1>7 DEF IsInjective
  <2>2. \A j \in 1..Len(a) : \A k \in 1..Len(p) : a[j] # p[k]
    BY <1>7, Containing
  <2>3. ASSUME NEW j \in 1..Len(w), NEW k \in 1..Len(w), w[j] = w[k] PROVE j = k
    <3>1. CASE j \in 1..Len(a) /\ w[j] = a[j] /\ k \in 1..Len(a) /\ w[k] = a[k]
      BY <2>1, <2>3, <3>1
    <3>2. CASE /\ j - Len(a) \in 1..Len(p) /\ w[j] = p[j - Len(a)]
               /\ k - Len(a) \in 1..Len(p) /\ w[k] = p[k - Len(a)]
      <4>1. j - Len(a) = k - Len(a)
        BY <2>1, <2>3, <3>2
      <4>2. QED
        BY <1>1, <4>1
    <3>3. QED
      BY <1>4, <2>2, <2>3, <3>1, <3>2
  <2>4. QED
    BY <1>1, <2>3 DEF IsInjective
<1>8. QED
  BY <1>1, <1>5, <1>6, <1>7 DEF w

-----------------------------------------------------------------------------
(* The types, and each device once on the lists                            *)

(* The worker, the initcall and the adding threads are different. *)
LEMMA ThreadsAre ==
  /\ Worker \in Threads /\ InitCall \in Threads /\ Devices \subseteq Threads
  /\ Probers \subseteq Threads /\ InitCall \notin Probers /\ Worker \notin Devices
  /\ InitCall \notin Devices /\ InitCall # Worker
  /\ None \notin Devices /\ None \notin Drivers /\ Worker \in Probers
  /\ \A t \in Threads : t = InitCall \/ t \in Probers
  /\ \A t \in Probers : t = Worker \/ t \in Devices
BY DeferredProbeAssumption DEF Threads, Probers

(* Who probes has a device, and that device has drivers. *)
LEMMA ItsDevice ==
  ASSUME TypeOK, NEW t \in Probers, pc[t] \in ProbeStates
  PROVE  Dev(t) \in Devices /\ DriversOf[Dev(t)] \in Seq(Drivers) /\ (t \in Devices => Dev(t) = t)
         /\ (t = Worker => Dev(t) = cur)
<1>1. t = Worker \/ t \in Devices
  BY ThreadsAre
<1>2. Dev(t) \in Devices
  BY <1>1, ThreadsAre DEF TypeOK, Dev
<1>3. QED
  BY <1>2, ThreadsAre, DeferredProbeAssumption DEF Dev

(* The lists are lists of devices, each at one place. *)
LEMMA Listed ==
  ASSUME TypeOK, ListedOnce
  PROVE  /\ pending \in Seq(Devices) /\ active \in Seq(Devices)
         /\ IsInjective(pending) /\ IsInjective(active)
         /\ \A x : ~(Contains(active, x) /\ Contains(pending, x))
         /\ \A x : OnList(x) => x \in Devices
<1>1. pending \in Seq(Devices) /\ active \in Seq(Devices)
  BY DEF TypeOK
<1>2. QED
  BY <1>1, SplicedIs, Containing DEF ListedOnce, OnList

(* How the lists move: one lemma for each operation *)
Lists == /\ pending' \in Seq(Devices) /\ active' \in Seq(Devices) /\ ListedOnce'

(* A step that does not touch the lists. *)
LEMMA SameLists ==
  ASSUME TypeOK, ListedOnce, UNCHANGED lists
  PROVE  Lists /\ \A x : OnList(x)' <=> OnList(x)
BY DEF TypeOK, ListedOnce, Lists, lists, OnList

(* list_del_init of one device. *)
LEMMA Unlisting ==
  ASSUME TypeOK, ListedOnce, NEW d \in Devices, Unlist(d)
  PROVE  /\ Lists
         /\ \A x : /\ Contains(pending', x) <=> Contains(pending, x) /\ x # d
                   /\ Contains(active', x) <=> Contains(active, x) /\ x # d
                   /\ OnList(x)' <=> OnList(x) /\ x # d
         /\ active = <<>> => active' = <<>>
<1>1. /\ pending \in Seq(Devices) /\ active \in Seq(Devices)
      /\ IsInjective(pending) /\ IsInjective(active)
      /\ \A x : ~(Contains(active, x) /\ Contains(pending, x))
  BY Listed
<1>2. /\ pending' \in Seq(Devices) /\ IsInjective(pending')
      /\ \A x : Contains(pending', x) <=> Contains(pending, x) /\ x # d
  BY <1>1, WithoutIs DEF Unlist
<1>3. /\ active' \in Seq(Devices) /\ IsInjective(active')
      /\ \A x : Contains(active', x) <=> Contains(active, x) /\ x # d
      /\ active = <<>> => active' = <<>>
  BY <1>1, WithoutIs DEF Unlist
<1>4. ListedOnce'
  <2>1. \A x : ~(Contains(active', x) /\ Contains(pending', x))
    BY <1>1, <1>2, <1>3
  <2>2. IsInjective(active' \o pending')
    BY <1>2, <1>3, <2>1, SplicedIs
  <2>3. QED
    BY <2>2 DEF ListedOnce
<1>5. QED
  BY <1>2, <1>3, <1>4 DEF Lists, OnList

(* demo_driver_deferred_probe_add. *)
LEMMA Listing ==
  ASSUME TypeOK, ListedOnce, NEW t \in Probers, DeferredAdd(t)
  PROVE  /\ Lists /\ active' = active
         /\ \A x : /\ Contains(pending', x) => Contains(pending, x) \/ x = Dev(t)
                   /\ OnList(x)' <=> OnList(x) \/ x = Dev(t)
<1>1. /\ pending \in Seq(Devices) /\ active \in Seq(Devices)
      /\ IsInjective(pending) /\ IsInjective(active)
      /\ \A x : ~(Contains(active, x) /\ Contains(pending, x))
  BY Listed
<1>2. Dev(t) \in Devices /\ active' = active
  BY ItsDevice DEF DeferredAdd, Goto, ProbeStates
<1>3. CASE OnList(Dev(t))
  <2>1. UNCHANGED lists
    BY <1>3 DEF DeferredAdd, lists
  <2>2. pending' = pending
    BY <2>1 DEF lists
  <2>3. QED
    BY <1>2, <1>3, <2>1, <2>2, SameLists
<1>4. CASE ~OnList(Dev(t))
  <2>1. pending' = Append(pending, Dev(t)) /\ ~Contains(pending, Dev(t))
        /\ ~Contains(active, Dev(t))
    BY <1>4 DEF DeferredAdd, OnList
  <2>2. /\ pending' \in Seq(Devices) /\ IsInjective(pending')
        /\ \A x : Contains(pending', x) <=> Contains(pending, x) \/ x = Dev(t)
    BY <1>1, <1>2, <2>1, AppendIs
  <2>3. \A x : ~(Contains(active, x) /\ Contains(pending', x))
    BY <1>1, <2>1, <2>2
  <2>4. IsInjective(active' \o pending')
    BY <1>1, <1>2, <2>2, <2>3, SplicedIs
  <2>5. QED
    BY <1>1, <1>2, <2>2, <2>4 DEF Lists, ListedOnce, OnList
<1>5. QED
  BY <1>3, <1>4

(* pending goes to the end of active. *)
LEMMA Splicing ==
  ASSUME TypeOK, ListedOnce, NEW t, Splice(t)
  PROVE  /\ Lists /\ pending' = <<>>
         /\ \A x : ~Contains(pending', x) /\ (OnList(x)' <=> OnList(x))
<1>1. /\ pending \in Seq(Devices) /\ active \in Seq(Devices)
      /\ IsInjective(pending) /\ IsInjective(active)
      /\ \A x : ~(Contains(active, x) /\ Contains(pending, x))
  BY Listed
<1>2. active' = active \o pending /\ pending' = <<>>
  BY DEF Splice
<1>3. /\ active' \in Seq(Devices) /\ IsInjective(active')
      /\ \A x : Contains(active', x) <=> Contains(active, x) \/ Contains(pending, x)
  BY <1>1, <1>2, SplicedIs
<1>4. pending' \in Seq(Devices) /\ IsInjective(pending') /\ \A x : ~Contains(pending', x)
  BY <1>2 DEF IsInjective, Contains
<1>5. IsInjective(active' \o pending')
  BY <1>3, <1>4, SplicedIs
<1>6. QED
  BY <1>2, <1>3, <1>4, <1>5 DEF Lists, ListedOnce, OnList

(* The worker takes the first of active. *)
LEMMA Taking ==
  ASSUME TypeOK, ListedOnce, WorkNext
  PROVE  /\ Lists /\ pending' = pending /\ cur' \in Devices /\ OnList(cur')
         /\ \A x : OnList(x)' <=> OnList(x) /\ x # cur'
<1>1. /\ pending \in Seq(Devices) /\ active \in Seq(Devices)
      /\ IsInjective(pending) /\ IsInjective(active)
      /\ \A x : ~(Contains(active, x) /\ Contains(pending, x))
  BY Listed
<1>2. active # <<>> /\ cur' = Head(active) /\ active' = Tail(active) /\ pending' = pending
  BY DEF WorkNext
<1>3. /\ cur' \in Devices /\ Contains(active, cur')
      /\ active' \in Seq(Devices) /\ IsInjective(active')
      /\ \A x : Contains(active', x) <=> Contains(active, x) /\ x # cur'
  BY <1>1, <1>2, TailIs
<1>4. IsInjective(active' \o pending')
  BY <1>1, <1>2, <1>3, SplicedIs
<1>5. QED
  BY <1>1, <1>2, <1>3, <1>4 DEF Lists, ListedOnce, OnList

(* one thread moves, from one of its states to another *)
Move(t) ==
  /\ pc' \in [Threads -> AllStates] /\ pc'[t] \in States(t)
  /\ \A u \in Threads \ {t} : pc'[u] = pc[u]

(* A step of a probe moves its own thread only. *)
LEMMA ProberMoves ==
  ASSUME TypeOK, NEW t \in Probers, Prober(t)
  PROVE  Move(t) /\ pc[t] \in ProbeStates /\ Dev(t)' = Dev(t) /\ ProbeSame
<1>0. t \in Threads /\ States(t) \in {States(Worker), {"new", "added", "unlist", "unlink", "deleted"} \cup ProbeStates}
      /\ Return(t) \in States(t) /\ t # InitCall /\ ProbeStates \subseteq States(t)
  BY ThreadsAre DEF States, Return
<1>1. pc \in [Threads -> AllStates] /\ Return(t) \in AllStates /\ ProbeStates \subseteq AllStates
      /\ {"flush"} \subseteq AllStates
  BY DEF TypeOK, Return, AllStates
<1>2. ASSUME ProbeSame PROVE Dev(t)' = Dev(t)
  BY <1>2 DEF ProbeSame, Dev
<1> USE <1>0, <1>1
<1>3. CASE Attach(t)
  BY <1>2, <1>3 DEF Attach, Goto, Move, ProbeStates
<1>4. CASE NextDriver(t)
  BY <1>2, <1>4 DEF NextDriver, Goto, Move, ProbeStates
<1>5. CASE NoDriver(t)
  BY <1>2, <1>5 DEF NoDriver, Goto, Move, ProbeStates
<1>6. CASE Probe(t)
  BY <1>2, <1>6 DEF Probe, Goto, Move, ProbeStates
<1>7. CASE ProbeFailed(t)
  BY <1>2, <1>7 DEF ProbeFailed, Goto, Move, ProbeStates
<1>8. CASE DeferredAdd(t)
  BY <1>2, <1>8 DEF DeferredAdd, Goto, Move, ProbeStates
<1>9. CASE Compare(t)
  BY <1>2, <1>9 DEF Compare, Goto, Move, ProbeStates
<1>10. CASE Bound(t)
  BY <1>2, <1>10 DEF Bound, Goto, Move, ProbeStates
<1>11. CASE DeferredDel(t)
  BY <1>2, <1>11 DEF DeferredDel, Goto, Move, ProbeStates
<1>12. CASE Trigger(t)
  BY <1>2, <1>12 DEF Trigger, Goto, Move, ProbeStates, AfterTrigger
<1>13. CASE Splice(t)
  BY <1>2, <1>13 DEF Splice, Goto, Move, ProbeStates
<1>14. CASE QueueWork(t)
  BY <1>2, <1>14 DEF QueueWork, Goto, Move, ProbeStates, AfterTrigger
<1>15. QED
  BY <1>3, <1>4, <1>5, <1>6, <1>7, <1>8, <1>9, <1>10, <1>11, <1>12, <1>13, <1>14 DEF Prober

(* So does one of the initcall. *)
LEMMA InitMoves ==
  ASSUME TypeOK, InitStep
  PROVE  Move(InitCall) /\ cur' = cur /\ pc[InitCall] \in {"idle", "trigger", "splice", "queue", "flush"}
<1>0. InitCall \in Threads /\ InitCall # Worker
      /\ States(InitCall) = {"idle", "trigger", "splice", "queue", "flush", "done"}
  BY ThreadsAre, DeferredProbeAssumption DEF States
<1>1. pc \in [Threads -> AllStates] /\ pc[InitCall] \in States(InitCall)
      /\ States(InitCall) \subseteq AllStates
  BY <1>0 DEF TypeOK, AllStates, ProbeStates
<1>2. CASE EnableProbing
  BY <1>0, <1>1, <1>2 DEF EnableProbing, Goto, Move
<1>3. CASE Flushed
  BY <1>0, <1>1, <1>3 DEF Flushed, Goto, Move
<1>4. CASE Trigger(InitCall)
  BY <1>0, <1>1, <1>4 DEF Trigger, AfterTrigger, Move, ProbeSame
<1>5. CASE Splice(InitCall)
  BY <1>0, <1>1, <1>5 DEF Splice, Goto, Move, ProbeSame
<1>6. CASE QueueWork(InitCall)
  BY <1>0, <1>1, <1>6 DEF QueueWork, AfterTrigger, Move, ProbeSame
<1>7. QED
  BY <1>2, <1>3, <1>4, <1>5, <1>6 DEF InitStep

(* One of the worker between two probes. *)
LEMMA WorkerMoves ==
  ASSUME TypeOK, WorkStart \/ WorkNext \/ WorkEnd
  PROVE  Move(Worker) /\ pc[Worker] \in {"idle", "work"}
<1>1. Worker \in Threads /\ pc \in [Threads -> AllStates]
      /\ {"idle", "work", "attach"} \subseteq States(Worker)
      /\ {"idle", "work", "attach"} \subseteq AllStates
  BY ThreadsAre DEF TypeOK, States, ProbeStates, AllStates
<1>2. QED
  BY <1>1 DEF WorkStart, WorkNext, WorkEnd, Goto, Move

(* And one that adds or deletes a device. *)
LEMMA DeviceMoves ==
  ASSUME TypeOK, NEW d \in Devices, DeviceAdd(d) \/ Delete(d)
  PROVE  Move(d) /\ pc[d] \in {"new", "added", "unlist", "unlink"} /\ cur' = cur
<1>1. d \in Threads /\ pc \in [Threads -> AllStates] /\ d # Worker /\ d # InitCall
  BY ThreadsAre DEF TypeOK
<1>2. /\ {"attach", "unlist", "unlink", "deleted"} \subseteq States(d)
      /\ {"attach", "unlist", "unlink", "deleted"} \subseteq AllStates
  BY <1>1 DEF States, ProbeStates, AllStates
<1>3. /\ cur' = cur
      /\ \/ Goto(d, "new", "attach") \/ Goto(d, "added", "unlist")
         \/ Goto(d, "unlist", "unlink") \/ Goto(d, "unlink", "deleted")
  BY DEF DeviceAdd, Delete, DeviceDel, DeviceUnlist, DeviceUnlink
<1>4. QED
  BY <1>1, <1>2, <1>3 DEF Goto, Move

(* The variables but for the lists and the control states *)
Values ==
  /\ nxt' \in [Threads -> Nat] /\ stale' \subseteq Threads
  /\ registered' \subseteq Devices /\ provided' \subseteq Devices
  /\ driver' \in [Devices -> Drivers \cup {None}]
  /\ attached' \in [Devices -> Drivers \cup {None}]
  /\ {enabled', queued', oops'} \subseteq BOOLEAN

(* The types after a step that moves one thread. *)
LEMMA Typed ==
  ASSUME TypeOK, NEW t \in Threads, Move(t), Lists, Values,
         cur' \in Devices \cup {None}, pc'[Worker] \in ProbeStates => cur' # None
  PROVE  TypeOK' /\ ListedOnce'
<1>1. \A u \in Threads : pc'[u] \in States(u)
  BY DEF TypeOK, Move
<1>2. States(Worker)' = States(Worker) /\ \A u : States(u)' = States(u)
  BY DEF States
<1>3. QED
  BY <1>1, <1>2 DEF TypeOK, Move, Lists, Values

(* A step of a probe keeps types and lists. *)
LEMMA ProberTyped ==
  ASSUME TypeOK, ListedOnce, NEW t \in Probers, Prober(t)
  PROVE  TypeOK' /\ ListedOnce'
<1>1. /\ t \in Threads /\ Move(t) /\ cur' = cur /\ cur \in Devices \cup {None}
      /\ registered' = registered /\ enabled' = enabled
      /\ pc'[Worker] \in ProbeStates => cur # None
      /\ Dev(t) \in Devices /\ DriversOf[Dev(t)] \in Seq(Drivers) /\ Worker \in Threads
  <2>1. Move(t) /\ pc[t] \in ProbeStates /\ ProbeSame
    BY ProberMoves
  <2>2. Worker \in Threads /\ t \in Threads
    BY ThreadsAre
  <2>3. pc'[Worker] \in ProbeStates => pc[Worker] \in ProbeStates
    BY <2>1, <2>2 DEF Move
  <2>4. QED
    BY <2>1, <2>2, <2>3, ItsDevice DEF TypeOK, ProbeSame
<1>2. Lists
  <2>1. CASE DeferredAdd(t)
    BY <2>1, Listing
  <2>2. CASE DeferredDel(t)
    BY <1>1, <2>2, Unlisting DEF DeferredDel
  <2>3. CASE Splice(t)
    BY <2>3, Splicing
  <2>4. CASE UNCHANGED lists
    BY <2>4, SameLists
  <2>5. QED
    BY <2>1, <2>2, <2>3, <2>4 DEF Prober, Attach, NextDriver, NoDriver, Probe, ProbeFailed,
       Compare, Bound, Trigger, QueueWork, lists
<1>3. Values
  <2> USE <1>1 DEF TypeOK, Values, bindvars
  <2>1. CASE NextDriver(t)
    <3>1. nxt[t] \in Nat /\ DriversOf[Dev(t)][nxt[t] + 1] \in Drivers
      BY <2>1 DEF NextDriver
    <3>2. QED
      BY <2>1, <3>1 DEF NextDriver
  <2>2. CASE Attach(t) \/ NoDriver(t) \/ DeferredAdd(t) \/ DeferredDel(t) \/ Splice(t)
    BY <2>2 DEF Attach, NoDriver, DeferredAdd, DeferredDel, Splice
  <2>3. CASE Probe(t)
    <3>1. UNCHANGED <<driver, attached, queued, oops>>
      BY <2>3 DEF Probe
    <3>2. /\ provided' = provided \/ provided' = provided \cup {Dev(t)}
          /\ nxt' = nxt \/ nxt' = [nxt EXCEPT ![t] = 0]
          /\ stale' = stale \/ stale' = stale \ {t}
      BY <2>3 DEF Probe
    <3>3. nxt' \in [Threads -> Nat]
      <4>1. t \in Threads /\ nxt \in [Threads -> Nat]
        OBVIOUS
      <4>2. [nxt EXCEPT ![t] = 0] \in [Threads -> Nat]
        BY <4>1
      <4>3. QED
        BY <3>2, <4>1, <4>2
    <3>4. stale' \subseteq Threads
      BY <3>2
    <3>5. provided' \subseteq Devices
      BY <3>2
    <3>6. QED
      BY <3>1, <3>3, <3>4, <3>5
  <2>4. CASE ProbeFailed(t) \/ Compare(t) \/ QueueWork(t)
    BY <2>4 DEF ProbeFailed, Compare, QueueWork
  <2>5. CASE Bound(t)
    BY <2>5 DEF Bound
  <2>6. CASE Trigger(t)
    BY <2>6 DEF Trigger
  <2>7. QED
    BY <2>1, <2>2, <2>3, <2>4, <2>5, <2>6 DEF Prober
<1>4. QED
  BY <1>1, <1>2, <1>3, Typed

(* And so does every other. *)
LEMMA OtherTyped ==
  ASSUME TypeOK, ListedOnce,
         \/ WorkStart \/ WorkNext \/ WorkEnd \/ InitStep
         \/ \E d \in Devices : DeviceAdd(d) \/ Delete(d)
  PROVE  TypeOK' /\ ListedOnce'
<1>1. CASE WorkStart \/ WorkEnd
  <2>1. Move(Worker) /\ UNCHANGED lists
    BY <1>1, WorkerMoves DEF WorkStart, WorkEnd
  <2>2. Worker \in Threads /\ pc'[Worker] \notin ProbeStates /\ cur' \in Devices \cup {None}
    BY <1>1, ThreadsAre DEF WorkStart, WorkEnd, Goto, TypeOK, ProbeStates
  <2>3. Values
    BY <1>1 DEF WorkStart, WorkEnd, Values, TypeOK, bindvars
  <2>4. QED
    BY <2>1, <2>2, <2>3, SameLists, Typed
<1>2. CASE WorkNext
  <2>1. Move(Worker) /\ Lists /\ cur' \in Devices
    BY <1>2, WorkerMoves, Taking
  <2>2. Values
    BY <1>2 DEF WorkNext, Values, TypeOK, bindvars
  <2>3. QED
    BY <2>1, <2>2, ThreadsAre, Typed
<1>3. CASE InitStep
  <2>1. Move(InitCall) /\ cur' = cur /\ InitCall \in Threads /\ Worker \in Threads
        /\ InitCall # Worker
    BY <1>3, InitMoves, ThreadsAre, DeferredProbeAssumption
  <2>2. Values
    BY <1>3, <2>1 DEF InitStep, EnableProbing, Flushed, Trigger, Splice, QueueWork, ProbeSame,
       Values, TypeOK, bindvars
  <2>3. Lists
    <3>1. CASE Splice(InitCall)
      BY <3>1, Splicing
    <3>2. CASE UNCHANGED lists
      BY <3>2, SameLists
    <3>3. QED
      BY <1>3, <3>1, <3>2 DEF InitStep, EnableProbing, Flushed, Trigger, QueueWork, lists
  <2>4. pc'[Worker] \in ProbeStates => cur' # None
    BY <2>1 DEF Move, TypeOK
  <2>5. cur' \in Devices \cup {None}
    BY <2>1 DEF TypeOK
  <2>6. QED
    BY <2>1, <2>2, <2>3, <2>4, <2>5, Typed
<1>4. ASSUME NEW d \in Devices, DeviceAdd(d) \/ Delete(d)
      PROVE  TypeOK' /\ ListedOnce'
  <2>1. Move(d) /\ cur' = cur /\ d \in Threads /\ Worker \in Threads /\ d # Worker
    BY <1>4, DeviceMoves, ThreadsAre
  <2>2. Values
    BY <1>4 DEF DeviceAdd, Delete, DeviceDel, DeviceUnlist, DeviceUnlink, Values, TypeOK, bindvars
  <2>3. Lists
    <3>1. CASE DeviceUnlist(d)
      BY <3>1, Unlisting DEF DeviceUnlist
    <3>2. CASE UNCHANGED lists
      BY <3>2, SameLists
    <3>3. QED
      BY <1>4, <3>1, <3>2 DEF DeviceAdd, Delete, DeviceDel, DeviceUnlink, lists
  <2>4. pc'[Worker] \in ProbeStates => cur' # None
    BY <2>1 DEF Move, TypeOK
  <2>5. cur' \in Devices \cup {None}
    BY <2>1 DEF TypeOK
  <2>6. QED
    BY <2>1, <2>2, <2>3, <2>4, <2>5, Typed
<1>5. QED
  BY <1>1, <1>2, <1>3, <1>4

(* Next by kind of thread. *)
LEMMA Steps ==
  Next <=> /\ Running
           /\ \/ WorkStart \/ WorkNext \/ WorkEnd \/ InitStep
              \/ \E t \in Probers : Prober(t)
              \/ \E d \in Devices : DeviceAdd(d) \/ Delete(d)
BY DEF Next, WorkerStep, DeviceStep, Probers

(* Types and lists over a whole run. *)
LEMMA TypesAlways == Spec => [](TypeOK /\ ListedOnce)
<1>1. Init => TypeOK /\ ListedOnce
  <2> SUFFICES ASSUME Init PROVE TypeOK /\ ListedOnce
    OBVIOUS
  <2>1. pc \in [Threads -> AllStates] /\ \A t \in Threads : pc[t] \in States(t)
    <3>1. ASSUME NEW t \in Threads PROVE pc[t] \in {"new", "idle"} /\ pc[t] \in States(t)
      <4>1. CASE t \in Devices
        BY <4>1, ThreadsAre DEF Init, States
      <4>2. CASE t \in {Worker, InitCall}
        BY <4>2, ThreadsAre DEF Init, States
      <4>3. QED
        BY <4>1, <4>2 DEF Threads
    <3>2. {"new", "idle"} \subseteq AllStates
      BY DEF AllStates
    <3>3. QED
      BY <3>1, <3>2 DEF Init
  <2>2. pc[Worker] \notin ProbeStates /\ cur = None
    BY ThreadsAre DEF Init, ProbeStates
  <2>3. TypeOK
    <3>1. pending \in Seq(Devices) /\ active \in Seq(Devices)
      BY DEF Init
    <3>2. {enabled, queued, oops} \subseteq BOOLEAN
      BY DEF Init
    <3>3. /\ nxt \in [Threads -> Nat] /\ stale \subseteq Threads
          /\ registered \subseteq Devices /\ provided \subseteq Devices
          /\ driver \in [Devices -> Drivers \cup {None}]
          /\ attached \in [Devices -> Drivers \cup {None}]
      BY DEF Init
    <3>4. QED
      BY <2>1, <2>2, <3>1, <3>2, <3>3 DEF TypeOK
  <2>4. active \o pending = <<>>
    BY DEF Init
  <2>5. ListedOnce
    BY <2>4 DEF ListedOnce, IsInjective
  <2>6. QED
    BY <2>3, <2>5
<1>2. TypeOK /\ ListedOnce /\ [Next]_vars => (TypeOK /\ ListedOnce)'
  <2>1. ASSUME TypeOK, ListedOnce, Next PROVE TypeOK' /\ ListedOnce'
    BY <2>1, Steps, ProberTyped, OtherTyped
  <2>2. ASSUME TypeOK, ListedOnce, UNCHANGED vars PROVE TypeOK' /\ ListedOnce'
    BY <2>2 DEF TypeOK, ListedOnce, vars, States, lists, bindvars
  <2>3. QED
    BY <2>1, <2>2
<1>3. QED
  BY <1>1, <1>2, PTL DEF Spec

-----------------------------------------------------------------------------
(* Which driver a thread is at, and who holds a device                     *)

(* a thread that does not move keeps its place and what it holds *)
LEMMA StaysPut ==
  ASSUME TypeOK, NEW t \in Threads, Move(t), NEW u \in Probers \ {t},
         cur' = cur \/ u # Worker, nxt'[u] = nxt[u]
  PROVE  /\ Dev(u)' = Dev(u) /\ pc'[u] = pc[u]
         /\ Holds(u)' <=> Holds(u)
         /\ NextAt(u)' <=> NextAt(u)
<1>1. Dev(u)' = Dev(u) /\ pc'[u] = pc[u]
  BY ThreadsAre DEF Dev, Move
<1>2. QED
  BY <1>1 DEF Holds, NextAt, HoldStates, DeferredStates

(* only the last driver asks to be deferred *)
LEMMA DeferredIsLast ==
  ASSUME TypeOK, NextInv, LastMayDefer, NEW t \in Probers,
         pc[t] = "probe", Driver(t) \notin Rejects
  PROVE  nxt[t] = Len(DriversOf[Dev(t)])
<1>1. Dev(t) \in Devices /\ DriversOf[Dev(t)] \in Seq(Drivers)
  BY ItsDevice DEF ProbeStates
<1>2. nxt[t] \in 1..Len(DriversOf[Dev(t)])
  BY DEF NextInv, NextAt
<1>3. nxt[t] \notin 1..(Len(DriversOf[Dev(t)]) - 1)
  BY <1>1 DEF LastMayDefer, Driver
<1>4. QED
  BY <1>1, <1>2, <1>3

(* A probe stays within its device's drivers. *)
LEMMA ProberNext ==
  ASSUME TypeOK, NextInv, LastMayDefer, NEW t \in Probers, Prober(t)
  PROVE  /\ \A u \in Threads \ {t} : nxt'[u] = nxt[u]
         /\ NextAt(t)' /\ (Holds(t)' => Holds(t))
         /\ pc'[t] # "new" /\ pc'[t] # "idle"
<1> DEFINE n == Len(DriversOf[Dev(t)])
<1>1. /\ Dev(t)' = Dev(t) /\ Dev(t) \in Devices /\ n \in Nat
      /\ t \in Threads /\ nxt \in [Threads -> Nat] /\ nxt[t] \in Nat
      /\ pc \in [Threads -> AllStates] /\ Return(t) \in {"work", "added"}
  BY ProberMoves, ItsDevice, ThreadsAre DEF TypeOK, Return
<1>2. NextAt(t)
  BY DEF NextInv
<1> HIDE DEF n
<1>3. NextAt(t) <=>
        /\ pc[t] \in DeferredStates => nxt[t] = n /\ nxt[t] > 0
        /\ pc[t] \in {"probe", "failed"} => nxt[t] \in 1..n
        /\ pc[t] = "next" => nxt[t] \in 0..n
        /\ pc[t] \notin DeferredStates \cup {"probe", "failed", "next"} => nxt[t] = 0
  BY DEF NextAt, n
<1>4. NextAt(t)' <=>
        /\ pc'[t] \in DeferredStates => nxt'[t] = n /\ nxt'[t] > 0
        /\ pc'[t] \in {"probe", "failed"} => nxt'[t] \in 1..n
        /\ pc'[t] = "next" => nxt'[t] \in 0..n
        /\ pc'[t] \notin DeferredStates \cup {"probe", "failed", "next"} => nxt'[t] = 0
  BY <1>1 DEF NextAt, n, DeferredStates
<1>5. /\ Holds(t) <=> pc[t] \in HoldStates \/ (pc[t] = "next" /\ nxt[t] < n)
      /\ Holds(t)' <=> pc'[t] \in HoldStates \/ (pc'[t] = "next" /\ nxt'[t] < n)
  BY <1>1 DEF Holds, n, HoldStates
<1> USE <1>1, <1>2, <1>3, <1>4, <1>5 DEF HoldStates, DeferredStates
<1>6. CASE Attach(t)
  BY <1>6 DEF Attach, Goto
<1>7. CASE NextDriver(t)
  BY <1>7 DEF NextDriver, Goto, n
<1>8. CASE NoDriver(t)
  BY <1>8 DEF NoDriver, Goto, n
<1>9. CASE Probe(t)
  <2>1. ASSUME pc[t] = "probe", Driver(t) \notin Rejects PROVE nxt[t] = n
    BY <2>1, DeferredIsLast DEF n
  <2>2. \/ Goto(t, "probe", "bound") /\ nxt' = [nxt EXCEPT ![t] = 0]
        \/ Goto(t, "probe", "deferred") /\ nxt' = nxt /\ nxt[t] = n
        \/ Goto(t, "probe", "failed") /\ nxt' = nxt
    BY <1>9, <2>1 DEF Probe, Goto
  <2>3. CASE Goto(t, "probe", "bound") /\ nxt' = [nxt EXCEPT ![t] = 0]
    BY <2>3 DEF Goto
  <2>4. CASE Goto(t, "probe", "deferred") /\ nxt' = nxt /\ nxt[t] = n
    BY <2>4 DEF Goto
  <2>5. CASE Goto(t, "probe", "failed") /\ nxt' = nxt
    BY <2>5 DEF Goto
  <2>6. QED
    BY <2>2, <2>3, <2>4, <2>5
<1>10. CASE ProbeFailed(t)
  BY <1>10 DEF ProbeFailed, Goto
<1>11. CASE DeferredAdd(t)
  BY <1>11 DEF DeferredAdd, Goto
<1>12. CASE Compare(t)
  BY <1>12 DEF Compare, Goto
<1>13. CASE Bound(t)
  BY <1>13 DEF Bound, Goto
<1>14. CASE DeferredDel(t)
  BY <1>14 DEF DeferredDel, Goto
<1>15. CASE Trigger(t)
  <2>1. AfterTrigger(t) \in {IF pc[t] = "trigger" THEN Return(t) ELSE "next"}
    BY <1>15, ThreadsAre DEF Trigger, AfterTrigger
  <2>2. QED
    BY <1>15, <2>1 DEF Trigger
<1>16. CASE Splice(t)
  BY <1>16 DEF Splice, Goto
<1>17. CASE QueueWork(t)
  <2>1. AfterTrigger(t) \in {IF pc[t] = "queue" THEN Return(t) ELSE "next"}
    BY <1>17, ThreadsAre DEF QueueWork, AfterTrigger
  <2>2. QED
    BY <1>17, <2>1 DEF QueueWork
<1>18. QED
  BY <1>6, <1>7, <1>8, <1>9, <1>10, <1>11, <1>12, <1>13, <1>14, <1>15, <1>16, <1>17 DEF Prober

(* what a step of another kind does: one thread moves and ends where it holds
   nothing, or takes a device of the list or a new one *)
LEMMA OtherNext ==
  ASSUME TypeOK, NextInv, WorkStart \/ WorkNext \/ WorkEnd
  PROVE  /\ nxt' = nxt /\ NextAt(Worker)' /\ ~Holds(Worker)
         /\ WorkNext \/ ~Holds(Worker)'
<1>1. Worker \in Threads /\ pc \in [Threads -> AllStates] /\ nxt' = nxt
  BY ThreadsAre DEF TypeOK, WorkStart, WorkNext, WorkEnd
<1>2. pc[Worker] \in {"idle", "work"} /\ pc'[Worker] \in {"idle", "work", "attach"}
      /\ (WorkNext \/ pc'[Worker] \in {"idle", "work"})
  BY <1>1 DEF WorkStart, WorkNext, WorkEnd, Goto
<1>3. nxt[Worker] = 0
  BY <1>2, ThreadsAre DEF NextInv, NextAt, DeferredStates
<1>4. QED
  BY <1>1, <1>2, <1>3 DEF NextAt, Holds, DeferredStates, HoldStates

(* Adding begins with the first driver. *)
LEMMA DeviceNext ==
  ASSUME TypeOK, NextInv, NEW d \in Devices, DeviceAdd(d) \/ Delete(d)
  PROVE  /\ nxt' = nxt /\ NextAt(d)' /\ ~Holds(d) /\ pc'[d] # "new"
         /\ DeviceAdd(d) \/ ~Holds(d)'
<1>1. d \in Threads /\ pc \in [Threads -> AllStates] /\ nxt' = nxt /\ d \in Probers
  BY ThreadsAre DEF TypeOK, Probers, DeviceAdd, Delete, DeviceDel, DeviceUnlist, DeviceUnlink
<1>2. /\ pc[d] \in {"new", "added", "unlist", "unlink"}
      /\ \/ DeviceAdd(d) /\ pc'[d] = "attach"
         \/ pc'[d] \in {"unlist", "unlink", "deleted"}
  BY <1>1 DEF DeviceAdd, Delete, DeviceDel, DeviceUnlist, DeviceUnlink, Goto
<1>3. nxt[d] = 0
  BY <1>1, <1>2 DEF NextInv, NextAt, DeferredStates
<1>4. QED
  BY <1>1, <1>2, <1>3 DEF NextAt, Holds, DeferredStates, HoldStates

(* A thread is always at a driver of its device. *)
LEMMA NextStep ==
  ASSUME TypeOK, NextInv, LastMayDefer, Next
  PROVE  NextInv'
<1>1. ASSUME NEW t \in Probers, Prober(t) PROVE NextInv'
  BY <1>1, ProberMoves, ProberNext, StaysPut, ThreadsAre DEF NextInv, ProbeSame
<1>2. CASE WorkStart \/ WorkNext \/ WorkEnd
  BY <1>2, WorkerMoves, OtherNext, StaysPut, ThreadsAre DEF NextInv
<1>3. CASE InitStep
  <2>1. nxt' = nxt
    BY <1>3 DEF InitStep, EnableProbing, Flushed, Trigger, Splice, QueueWork
  <2>2. QED
    BY <1>3, <2>1, InitMoves, StaysPut, ThreadsAre DEF NextInv
<1>4. ASSUME NEW d \in Devices, DeviceAdd(d) \/ Delete(d) PROVE NextInv'
  BY <1>4, DeviceMoves, DeviceNext, StaysPut, ThreadsAre DEF NextInv
<1>5. QED
  BY <1>1, <1>2, <1>3, <1>4, Steps

-----------------------------------------------------------------------------
(* One holder                                                              *)

(* A probe puts only its own device on a list. *)
LEMMA ProberLists ==
  ASSUME TypeOK, ListedOnce, NEW t \in Probers, Prober(t)
  PROVE  \A x : OnList(x)' => OnList(x) \/ (x = Dev(t) /\ pc[t] = "add" /\ pc'[t] = "compare")
<1>1. CASE DeferredAdd(t)
  BY <1>1, Listing, ThreadsAre DEF DeferredAdd, Goto, TypeOK
<1>2. CASE DeferredDel(t)
  BY <1>2, Unlisting, ItsDevice DEF DeferredDel, Goto, ProbeStates
<1>3. CASE Splice(t)
  BY <1>3, Splicing
<1>4. CASE UNCHANGED lists
  BY <1>4, SameLists
<1>5. QED
  BY <1>1, <1>2, <1>3, <1>4 DEF Prober, Attach, NextDriver, NoDriver, Probe, ProbeFailed,
     Compare, Bound, Trigger, QueueWork, lists

(* The initcall puts none on. *)
LEMMA InitLists ==
  ASSUME TypeOK, ListedOnce, InitStep
  PROVE  nxt' = nxt /\ \A x : OnList(x)' <=> OnList(x)
<1>1. nxt' = nxt
  BY DEF InitStep, EnableProbing, Flushed, Trigger, Splice, QueueWork
<1>2. CASE Splice(InitCall)
  BY <1>1, <1>2, Splicing
<1>3. CASE UNCHANGED lists
  BY <1>1, <1>3, SameLists
<1>4. QED
  BY <1>2, <1>3 DEF InitStep, EnableProbing, Flushed, Trigger, QueueWork, lists

(* Nor does adding or deleting one. *)
LEMMA DeviceLists ==
  ASSUME TypeOK, ListedOnce, NEW d \in Devices, DeviceAdd(d) \/ Delete(d)
  PROVE  \A x : OnList(x)' => OnList(x)
<1>1. CASE DeviceUnlist(d)
  BY <1>1, Unlisting DEF DeviceUnlist
<1>2. CASE UNCHANGED lists
  BY <1>2, SameLists
<1>3. QED
  BY <1>1, <1>2 DEF DeviceAdd, Delete, DeviceDel, DeviceUnlink, lists

(* what a device is held by, for the proofs *)
OneHolder(d) == \A t, u \in Probers : Dev(t) = d /\ Dev(u) = d /\ Holds(t) /\ Holds(u) => t = u
Free(d) == \A t \in Probers : Dev(t) = d => ~Holds(t)

(* HolderInv, device by device. *)
LEMMA Holders ==
  HolderInv <=> \A d \in Devices : /\ OneHolder(d)
                                   /\ OnList(d) \/ pc[d] = "new" => Free(d)
                                   /\ OnList(d) => pc[d] # "new"
BY DEF HolderInv, OneHolder, Free

(* A device is on a list or in the hands of one thread. *)
LEMMA HolderStep ==
  ASSUME TypeOK, ListedOnce, NextInv, HolderInv, LastMayDefer, Next
  PROVE  HolderInv'
<1>0. SUFFICES ASSUME NEW d \in Devices
               PROVE  /\ OneHolder(d)' /\ (OnList(d)' => pc'[d] # "new")
                      /\ OnList(d)' \/ pc'[d] = "new" => Free(d)'
  <2>1. HolderInv' <=> \A d \in Devices : /\ OneHolder(d)'
                                          /\ OnList(d)' \/ pc'[d] = "new" => Free(d)'
                                          /\ OnList(d)' => pc'[d] # "new"
    BY DEF HolderInv, OneHolder, Free
  <2>2. QED
    BY <1>0, <2>1
<1> USE ThreadsAre
<1>1. /\ OneHolder(d) /\ (OnList(d) \/ pc[d] = "new" => Free(d)) /\ (OnList(d) => pc[d] # "new")
      /\ d \in Threads
  BY Holders
<1>2. ASSUME NEW t \in Probers, Prober(t)
      PROVE  /\ OneHolder(d)' /\ (OnList(d)' => pc'[d] # "new")
             /\ OnList(d)' \/ pc'[d] = "new" => Free(d)'
  <2>1. Move(t) /\ Dev(t)' = Dev(t) /\ (Holds(t)' => Holds(t)) /\ pc'[t] # "new"
    BY <1>2, ProberMoves, ProberNext
  <2>2. \A u \in Probers \ {t} : Dev(u)' = Dev(u) /\ (Holds(u)' <=> Holds(u))
    BY <1>2, ProberMoves, ProberNext, StaysPut DEF ProbeSame
  <2>3. OneHolder(d)' /\ (Free(d) => Free(d)')
    BY <1>1, <2>1, <2>2 DEF OneHolder, Free
  <2>4. pc'[d] = "new" => pc[d] = "new"
    BY <1>1, <2>1 DEF Move
  <2>5. CASE OnList(d)' => OnList(d)
    BY <1>1, <2>3, <2>4, <2>5
  <2>6. CASE d = Dev(t) /\ pc[t] = "add" /\ pc'[t] = "compare"
    <3>1. Holds(t) /\ ~Holds(t)'
      BY <2>6 DEF Holds, HoldStates
    <3>2. Free(d)' /\ ~Free(d)
      BY <1>1, <2>1, <2>2, <2>6, <3>1 DEF OneHolder, Free
    <3>3. QED
      BY <1>1, <2>3, <2>4, <3>2
  <2>7. QED
    BY <1>2, <2>5, <2>6, ProberLists
<1>3. CASE WorkStart \/ WorkEnd
  <2>1. Move(Worker) /\ ~Holds(Worker)' /\ nxt' = nxt /\ UNCHANGED lists
    BY <1>3, WorkerMoves, OtherNext DEF WorkStart, WorkEnd, WorkNext, Goto, Holds, HoldStates, TypeOK
  <2>2. \A u \in Probers \ {Worker} : Dev(u)' = Dev(u) /\ (Holds(u)' <=> Holds(u))
    BY <2>1, StaysPut
  <2>3. OneHolder(d)' /\ (Free(d) => Free(d)')
    BY <1>1, <2>1, <2>2 DEF OneHolder, Free
  <2>4. pc'[d] = pc[d] /\ (OnList(d)' <=> OnList(d))
    BY <1>1, <2>1, SameLists DEF Move
  <2>5. QED
    BY <1>1, <2>3, <2>4
<1>4. CASE WorkNext
  <2>1. Move(Worker) /\ nxt' = nxt /\ ~Holds(Worker)
    BY <1>4, WorkerMoves, OtherNext
  <2>2. /\ cur' \in Devices /\ OnList(cur') /\ (OnList(d)' <=> OnList(d) /\ d # cur')
        /\ Dev(Worker)' = cur'
    BY <1>4, Taking DEF Dev
  <2>3. \A u \in Probers \ {Worker} : Dev(u)' = Dev(u) /\ (Holds(u)' <=> Holds(u))
    BY <2>1, StaysPut
  <2>4. Free(cur') /\ pc[cur'] # "new"
    BY <2>2, Holders
  <2>5. OneHolder(d)'
    BY <1>1, <2>2, <2>3, <2>4 DEF OneHolder, Free
  <2>6. d # cur' /\ Free(d) => Free(d)'
    BY <2>2, <2>3 DEF Free
  <2>7. pc'[d] = pc[d]
    BY <1>1, <2>1 DEF Move
  <2>8. QED
    BY <1>1, <2>2, <2>4, <2>5, <2>6, <2>7
<1>5. CASE InitStep
  <2>1. Move(InitCall) /\ cur' = cur /\ nxt' = nxt /\ (OnList(d)' <=> OnList(d))
    BY <1>5, InitMoves, InitLists
  <2>2. \A u \in Probers : Dev(u)' = Dev(u) /\ (Holds(u)' <=> Holds(u))
    BY <2>1, StaysPut
  <2>3. (OneHolder(d)' <=> OneHolder(d)) /\ (Free(d)' <=> Free(d)) /\ pc'[d] = pc[d]
    BY <1>1, <2>1, <2>2 DEF OneHolder, Free, Move
  <2>4. QED
    BY <1>1, <2>1, <2>3
<1>6. ASSUME NEW x \in Devices, DeviceAdd(x) \/ Delete(x)
      PROVE  /\ OneHolder(d)' /\ (OnList(d)' => pc'[d] # "new")
             /\ OnList(d)' \/ pc'[d] = "new" => Free(d)'
  <2>1. /\ Move(x) /\ cur' = cur /\ nxt' = nxt /\ ~Holds(x) /\ pc'[x] # "new" /\ x \in Probers
        /\ x \in Threads /\ Dev(x) = x /\ Dev(x)' = x
    BY <1>6, DeviceMoves, DeviceNext DEF Probers, Dev
  <2>2. \A u \in Probers \ {x} : Dev(u)' = Dev(u) /\ (Holds(u)' <=> Holds(u))
    BY <2>1, StaysPut
  <2>3. (OnList(d)' => OnList(d)) /\ (d # x => pc'[d] = pc[d])
    BY <1>1, <1>6, <2>1, DeviceLists DEF Move
  <2>4. CASE ~Holds(x)' \/ d # x
    <3>1. OneHolder(d)' /\ (Free(d) => Free(d)')
      BY <1>1, <2>1, <2>2, <2>4 DEF OneHolder, Free
    <3>2. QED
      BY <1>1, <2>1, <2>3, <3>1
  <2>5. CASE d = x /\ DeviceAdd(x)
    <3>1. pc[d] = "new"
      BY <2>5 DEF DeviceAdd, Goto
    <3>2. Free(d) /\ ~OnList(d)'
      BY <1>1, <2>3, <3>1
    <3>3. OneHolder(d)'
      BY <2>1, <2>2, <2>5, <3>2 DEF OneHolder, Free
    <3>4. QED
      BY <2>1, <2>5, <3>2, <3>3
  <2>6. QED
    BY <1>6, <2>4, <2>5, DeviceNext
<1>7. QED
  BY <1>2, <1>3, <1>4, <1>5, <1>6, Steps

-----------------------------------------------------------------------------
(* The records of a binding                                                *)

SameBinding(d) ==
  driver'[d] = driver[d] /\ attached'[d] = attached[d] /\ (d \in provided' <=> d \in provided)

(* A step that leaves the binding alone. *)
LEMMA SameAgrees ==
  ASSUME NEW d, SameBinding(d)
  PROVE  Agree(d)' <=> Agree(d)
BY DEF SameBinding, Agree

(* And leaves a probe's view of it alone. *)
LEMMA SameBind ==
  ASSUME NEW u, BindAt(u), Dev(u)' = Dev(u), pc'[u] = pc[u], SameBinding(Dev(u))
  PROVE  BindAt(u)'
<1>1. Agree(Dev(u))' <=> Agree(Dev(u))
  BY SameAgrees
<1>2. Agree(Dev(u))' <=> (/\ attached'[Dev(u)] = driver'[Dev(u)]
                          /\ driver'[Dev(u)] # None <=> Dev(u) \in provided')
  BY <1>1, SameAgrees DEF Agree
<1>3. QED
  BY <1>1 DEF BindAt, SameBinding, Agree

(* what a step of a probe does to the binding of its own device *)
LEMMA ProberBinds ==
  ASSUME TypeOK, NextInv, LastMayDefer, NEW t \in Probers, Prober(t),
         Holds(t) => BindAt(t)
  PROVE  /\ \A d \in Devices \ {Dev(t)} : SameBinding(d)
         /\ ~Holds(t) => SameBinding(Dev(t))
         /\ Holds(t) /\ Holds(t)' => BindAt(t)'
         /\ Holds(t) /\ ~Holds(t)' => Agree(Dev(t))'
         /\ Holds(t) /\ pc[t] = "add" => SameBinding(Dev(t))
<1> DEFINE d == Dev(t)
           n == Len(DriversOf[d])
<1>1. /\ d' = d /\ d \in Devices /\ n \in Nat /\ DriversOf[d] \in Seq(Drivers)
      /\ t \in Threads /\ nxt \in [Threads -> Nat] /\ nxt[t] \in Nat
      /\ pc \in [Threads -> AllStates] /\ Return(t) \in {"work", "added"}
      /\ driver \in [Devices -> Drivers \cup {None}]
      /\ attached \in [Devices -> Drivers \cup {None}]
      /\ provided \subseteq Devices
      /\ driver[d] \in Drivers \cup {None} /\ None \notin Drivers
  BY ProberMoves, ItsDevice, ThreadsAre DEF TypeOK, Return
<1>2. /\ Holds(t) <=> pc[t] \in HoldStates \/ (pc[t] = "next" /\ nxt[t] < n)
      /\ Holds(t)' <=> pc'[t] \in HoldStates \/ (pc'[t] = "next" /\ nxt'[t] < n)
  BY <1>1 DEF Holds, HoldStates
<1>3. Agree(d) <=> attached[d] = driver[d] /\ (driver[d] # None <=> d \in provided)
  BY DEF Agree
<1>4. Agree(d)' <=> attached'[d] = driver'[d] /\ (driver'[d] # None <=> d \in provided')
  BY <1>1 DEF Agree
<1>5. BindAt(t) <=>
        /\ pc[t] \notin {"probe", "deferred", "failed", "bound"} => Agree(d)
        /\ pc[t] \in {"probe", "deferred", "failed"} => attached[d] = None /\ d \notin provided
        /\ pc[t] = "bound" => attached[d] = None /\ (driver[d] # None => d \in provided)
        /\ pc[t] \in {"attach", "next", "add"} => driver[d] = None
  BY DEF BindAt
<1>6. BindAt(t)' <=>
        /\ pc'[t] \notin {"probe", "deferred", "failed", "bound"} => Agree(d)'
        /\ pc'[t] \in {"probe", "deferred", "failed"} => attached'[d] = None /\ d \notin provided'
        /\ pc'[t] = "bound" => attached'[d] = None /\ (driver'[d] # None => d \in provided')
        /\ pc'[t] \in {"attach", "next", "add"} => driver'[d] = None
  BY <1>1 DEF BindAt, Agree
<1>7. SUFFICES
                   /\ \A x \in Devices \ {d} : SameBinding(x)
                   /\ ~Holds(t) => SameBinding(d)
                   /\ Holds(t) /\ Holds(t)' => BindAt(t)'
                   /\ Holds(t) /\ ~Holds(t)' => Agree(d)'
                   /\ Holds(t) /\ pc[t] = "add" => SameBinding(d)
  BY DEF d
<1> HIDE DEF d, n
<1>8. ASSUME UNCHANGED bindvars PROVE \A x : SameBinding(x)
  BY <1>8 DEF SameBinding, bindvars
<1> USE <1>1, <1>2, <1>3, <1>4, <1>5, <1>6 DEF HoldStates
<1>9. CASE Attach(t)
  BY <1>8, <1>9 DEF Attach, Goto, bindvars, d
<1>10. CASE NextDriver(t)
  <2>1. Goto(t, "next", "probe") /\ UNCHANGED <<attached, provided>> /\ nxt[t] < n
        /\ \E r : driver' = [driver EXCEPT ![d] = r]
    BY <1>10 DEF NextDriver, d, n
  <2>2. \A x \in Devices \ {d} : SameBinding(x)
    BY <2>1 DEF SameBinding
  <2>3. QED
    BY <2>1, <2>2 DEF Goto
<1>11. CASE NoDriver(t)
  BY <1>8, <1>11 DEF NoDriver, Goto, bindvars
<1>12. CASE Probe(t)
  <2>1. /\ UNCHANGED <<driver, attached>>
        /\ \/ Goto(t, "probe", "bound") /\ provided' = provided \cup {d}
           \/ Goto(t, "probe", "deferred") /\ provided' = provided
           \/ Goto(t, "probe", "failed") /\ provided' = provided
    BY <1>12 DEF Probe, d
  <2>2. \A x \in Devices \ {d} : SameBinding(x)
    BY <2>1 DEF SameBinding
  <2>3. pc[t] = "probe" /\ pc'[t] \in {"bound", "deferred", "failed"}
    BY <2>1 DEF Goto
  <2>4. pc'[t] # "bound" => provided' = provided
    BY <2>1 DEF Goto
  <2>5. pc'[t] = "bound" => d \in provided'
    BY <2>1 DEF Goto
  <2>6. QED
    BY <2>1, <2>2, <2>3, <2>4, <2>5
<1>13. CASE ProbeFailed(t)
  <2>1. /\ UNCHANGED <<attached, provided>> /\ driver' = [driver EXCEPT ![d] = None]
        /\ \/ Goto(t, "deferred", "add") \/ Goto(t, "failed", "next")
    BY <1>13 DEF ProbeFailed, d
  <2>2. \A x \in Devices \ {d} : SameBinding(x)
    BY <2>1 DEF SameBinding
  <2>3. pc[t] \in {"deferred", "failed"} /\ pc'[t] \in {"add", "next"}
    BY <2>1 DEF Goto
  <2>4. driver'[d] = None
    BY <2>1
  <2>5. QED
    BY <2>1, <2>2, <2>3, <2>4
<1>14. CASE DeferredAdd(t)
  BY <1>8, <1>14 DEF DeferredAdd, Goto, bindvars
<1>15. CASE Compare(t)
  BY <1>8, <1>15 DEF Compare, Goto, bindvars
<1>16. CASE Bound(t)
  <2>1. pc[t] = "bound" /\ UNCHANGED <<driver, provided>> /\ Holds(t)
    BY <1>16 DEF Bound, Goto
  <2>2. attached[d] = None
    BY <2>1
  <2>3. \/ Goto(t, "bound", "del") /\ driver[d] # None /\ attached' = [attached EXCEPT ![d] = driver[d]]
        \/ Goto(t, "bound", "bound") /\ driver[d] = None /\ attached' = attached
    BY <1>16, <2>2 DEF Bound, d
  <2>4. \A x \in Devices \ {d} : SameBinding(x)
    BY <2>1, <2>3 DEF SameBinding
  <2>5. \/ pc'[t] = "del" /\ attached'[d] = driver[d] /\ driver[d] # None
        \/ pc'[t] = "bound" /\ attached'[d] = attached[d] /\ driver[d] = None
    BY <2>3 DEF Goto
  <2>6. QED
    BY <2>1, <2>2, <2>4, <2>5
<1>17. CASE DeferredDel(t)
  BY <1>8, <1>17 DEF DeferredDel, Goto, bindvars
<1>18. CASE Trigger(t)
  BY <1>8, <1>18 DEF Trigger, bindvars
<1>19. CASE Splice(t)
  BY <1>8, <1>19 DEF Splice, Goto, bindvars
<1>20. CASE QueueWork(t)
  BY <1>8, <1>20 DEF QueueWork, bindvars
<1>21. QED
  BY <1>9, <1>10, <1>11, <1>12, <1>13, <1>14, <1>15, <1>16, <1>17, <1>18, <1>19, <1>20 DEF Prober

(* Worker and initcall bind nothing between two probes. *)
LEMMA OtherBinds ==
  ASSUME WorkStart \/ WorkNext \/ WorkEnd \/ InitStep
  PROVE  \A d : SameBinding(d)
BY DEF WorkStart, WorkNext, WorkEnd, InitStep, EnableProbing, Flushed, Trigger, Splice, QueueWork,
   bindvars, SameBinding

(* Adding and deleting touch their own device only. *)
LEMMA DeviceBinds ==
  ASSUME TypeOK, NEW x \in Devices, DeviceAdd(x) \/ Delete(x)
  PROVE  /\ \A d \in Devices \ {x} : SameBinding(d)
         /\ SameBinding(x) \/ /\ driver'[x] = None
                              /\ attached'[x] = IF driver[x] = None THEN attached[x] ELSE None
                              /\ x \in provided' <=> driver[x] = None /\ x \in provided
<1>1. CASE DeviceDel(x)
  BY <1>1 DEF DeviceDel, SameBinding, TypeOK
<1>2. CASE UNCHANGED bindvars
  BY <1>2 DEF SameBinding, bindvars
<1>3. QED
  BY <1>1, <1>2 DEF DeviceAdd, Delete, DeviceUnlist, DeviceUnlink

(* BindInv, device by device. *)
LEMMA Bindings ==
  BindInv <=> /\ \A t \in Probers : Holds(t) => BindAt(t)
              /\ \A d \in Devices : /\ Free(d) => Agree(d)
                                    /\ OnList(d) \/ pc[d] = "new" => driver[d] = None
BY DEF BindInv, Free

(* a thread that holds something holds a device *)
LEMMA HeldDevice ==
  ASSUME TypeOK, NEW t \in Probers, Holds(t)
  PROVE  Dev(t) \in Devices
BY ItsDevice DEF Holds, HoldStates, ProbeStates

(* A probe binds only the device it holds. *)
LEMMA ProberBindStep ==
  ASSUME TypeOK, ListedOnce, NextInv, HolderInv, BindInv, LastMayDefer,
         NEW t \in Probers, Prober(t)
  PROVE  BindInv'
<1>1. /\ Move(t) /\ Dev(t)' = Dev(t) /\ Dev(t) \in Devices /\ t \in Threads
      /\ (Holds(t)' => Holds(t)) /\ pc'[t] # "new"
  BY ProberMoves, ProberNext, ItsDevice, ThreadsAre
<1>2. \A u \in Probers \ {t} : Dev(u)' = Dev(u) /\ pc'[u] = pc[u] /\ (Holds(u)' <=> Holds(u))
  BY <1>1, ProberMoves, ProberNext, StaysPut, ThreadsAre DEF ProbeSame
<1>3. /\ \A d \in Devices \ {Dev(t)} : SameBinding(d)
      /\ ~Holds(t) => SameBinding(Dev(t))
      /\ Holds(t) /\ Holds(t)' => BindAt(t)'
      /\ Holds(t) /\ ~Holds(t)' => Agree(Dev(t))'
      /\ Holds(t) /\ pc[t] = "add" => SameBinding(Dev(t))
  BY ProberBinds, Bindings
<1>4. ASSUME NEW u \in Probers, Holds(u)' PROVE BindAt(u)'
  <2>1. CASE u = t
    BY <1>1, <1>3, <1>4, <2>1
  <2>2. CASE u # t
    <3>1. Holds(u) /\ BindAt(u) /\ Dev(u) \in Devices /\ Dev(u)' = Dev(u) /\ pc'[u] = pc[u]
      BY <1>2, <1>4, <2>2, Bindings, HeldDevice
    <3>2. Dev(u) = Dev(t) => ~Holds(t)
      BY <2>2, <3>1, Holders DEF OneHolder
    <3>3. SameBinding(Dev(u))
      BY <1>3, <3>1, <3>2
    <3>4. QED
      BY <3>1, <3>3, SameBind
  <2>3. QED
    BY <2>1, <2>2
<1>5. ASSUME NEW d \in Devices, Free(d)' PROVE Agree(d)'
  <2>1. CASE ~(d = Dev(t) /\ Holds(t))
    <3>1. Free(d) /\ SameBinding(d)
      BY <1>1, <1>2, <1>3, <1>5, <2>1 DEF Free
    <3>2. QED
      BY <3>1, Bindings, SameAgrees
  <2>2. CASE d = Dev(t) /\ Holds(t)
    BY <1>1, <1>3, <1>5, <2>2 DEF Free
  <2>3. QED
    BY <2>1, <2>2
<1>6. ASSUME NEW d \in Devices, OnList(d)' \/ pc'[d] = "new" PROVE driver'[d] = None
  <2>1. pc'[d] = "new" => pc[d] = "new"
    BY <1>1, ThreadsAre DEF Move
  <2>2. CASE OnList(d) \/ pc[d] = "new"
    <3>1. driver[d] = None /\ Free(d)
      BY <2>2, Bindings, Holders
    <3>2. SameBinding(d)
      BY <1>3, <3>1 DEF Free
    <3>3. QED
      BY <3>1, <3>2 DEF SameBinding
  <2>3. CASE d = Dev(t) /\ pc[t] = "add"
    <3>1. Holds(t) /\ driver[d] = None
      BY <2>3, Bindings DEF Holds, HoldStates, BindAt
    <3>2. QED
      BY <1>3, <2>3, <3>1 DEF SameBinding
  <2>4. QED
    BY <1>6, <2>1, <2>2, <2>3, ProberLists
<1>7. QED
  BY <1>4, <1>5, <1>6 DEF BindInv, Free

(* Bindings agree after every step. *)
LEMMA BindStep ==
  ASSUME TypeOK, ListedOnce, NextInv, HolderInv, BindInv, LastMayDefer, Next
  PROVE  BindInv'
<1>1. CASE WorkStart \/ WorkEnd
  <2>1. Move(Worker) /\ ~Holds(Worker)' /\ ~Holds(Worker) /\ nxt' = nxt /\ UNCHANGED lists
    BY <1>1, WorkerMoves, OtherNext DEF WorkStart, WorkEnd, WorkNext, Goto
  <2>2. /\ \A u \in Probers \ {Worker} : Dev(u)' = Dev(u) /\ pc'[u] = pc[u] /\ (Holds(u)' <=> Holds(u))
        /\ \A d \in Devices : pc'[d] = pc[d] /\ (OnList(d)' <=> OnList(d)) /\ SameBinding(d)
    BY <1>1, <2>1, StaysPut, SameLists, OtherBinds, ThreadsAre DEF Move
  <2>3. ASSUME NEW u \in Probers, Holds(u)' PROVE BindAt(u)'
    BY <2>1, <2>2, <2>3, SameBind, HeldDevice, Bindings
  <2>4. ASSUME NEW d \in Devices
        PROVE  (Free(d)' => Agree(d)') /\ (OnList(d)' \/ pc'[d] = "new" => driver'[d] = None)
    <3>1. Free(d)' => Free(d)
      BY <2>1, <2>2 DEF Free
    <3>2. QED
      BY <2>2, <3>1, Bindings, SameAgrees DEF SameBinding
  <2>5. QED
    BY <2>3, <2>4 DEF BindInv, Free
<1>2. CASE WorkNext
  <2>1. Move(Worker) /\ ~Holds(Worker) /\ nxt' = nxt /\ pc'[Worker] = "attach"
    BY <1>2, WorkerMoves, OtherNext, ThreadsAre DEF WorkNext, Goto, TypeOK
  <2>2. PICK x \in Devices : /\ OnList(x) /\ Dev(Worker)' = x
                             /\ \A y : OnList(y)' <=> OnList(y) /\ y # x
    BY <1>2, Taking DEF Dev
  <2>3. /\ \A u \in Probers \ {Worker} : Dev(u)' = Dev(u) /\ pc'[u] = pc[u] /\ (Holds(u)' <=> Holds(u))
        /\ \A d \in Devices : pc'[d] = pc[d] /\ SameBinding(d)
    BY <1>2, <2>1, StaysPut, OtherBinds, ThreadsAre DEF Move
  <2>4. Agree(x)' /\ driver'[x] = None
    <3>1. Agree(x) /\ driver[x] = None /\ SameBinding(x)
      BY <2>2, <2>3, Holders, Bindings
    <3>2. QED
      BY <3>1 DEF SameBinding, Agree
  <2>5. ASSUME NEW u \in Probers, Holds(u)' PROVE BindAt(u)'
    <3>1. CASE u = Worker
      BY <2>1, <2>2, <2>4, <3>1 DEF BindAt, Agree
    <3>2. CASE u # Worker
      BY <2>3, <2>5, <3>2, SameBind, HeldDevice, Bindings
    <3>3. QED
      BY <3>1, <3>2
  <2>6. ASSUME NEW d \in Devices
        PROVE  (Free(d)' => Agree(d)') /\ (OnList(d)' \/ pc'[d] = "new" => driver'[d] = None)
    <3>1. Free(d)' => Free(d)
      BY <2>1, <2>3 DEF Free
    <3>2. QED
      BY <2>2, <2>3, <3>1, Bindings, SameAgrees DEF SameBinding
  <2>7. QED
    BY <2>5, <2>6 DEF BindInv, Free
<1>3. CASE InitStep
  <2>1. /\ \A u \in Probers : Dev(u)' = Dev(u) /\ pc'[u] = pc[u] /\ (Holds(u)' <=> Holds(u))
        /\ \A d \in Devices : pc'[d] = pc[d] /\ (OnList(d)' <=> OnList(d)) /\ SameBinding(d)
    BY <1>3, InitMoves, InitLists, StaysPut, OtherBinds, ThreadsAre DEF Move
  <2>2. ASSUME NEW u \in Probers, Holds(u)' PROVE BindAt(u)'
    BY <2>1, <2>2, SameBind, HeldDevice, Bindings
  <2>3. ASSUME NEW d \in Devices
        PROVE  (Free(d)' => Agree(d)') /\ (OnList(d)' \/ pc'[d] = "new" => driver'[d] = None)
    <3>1. Free(d)' => Free(d)
      BY <2>1 DEF Free
    <3>2. QED
      BY <2>1, <3>1, Bindings, SameAgrees DEF SameBinding
  <2>4. QED
    BY <2>2, <2>3 DEF BindInv, Free
<1>4. ASSUME NEW x \in Devices, DeviceAdd(x) \/ Delete(x) PROVE BindInv'
  <2>1. /\ Move(x) /\ cur' = cur /\ nxt' = nxt /\ ~Holds(x) /\ pc'[x] # "new" /\ x \in Probers
        /\ x \in Threads /\ Dev(x) = x /\ Dev(x)' = x
    BY <1>4, DeviceMoves, DeviceNext, ThreadsAre DEF Probers, Dev
  <2>2. /\ \A u \in Probers \ {x} : Dev(u)' = Dev(u) /\ pc'[u] = pc[u] /\ (Holds(u)' <=> Holds(u))
        /\ \A d \in Devices \ {x} : pc'[d] = pc[d]
        /\ \A d : OnList(d)' => OnList(d)
    BY <1>4, <2>1, StaysPut, DeviceLists, ThreadsAre DEF Move
  <2>3. \A d \in Devices \ {x} : SameBinding(d)
    BY <1>4, DeviceBinds
  <2>4. \/ SameBinding(x)
        \/ /\ driver'[x] = None
           /\ attached'[x] = IF driver[x] = None THEN attached[x] ELSE None
           /\ x \in provided' <=> driver[x] = None /\ x \in provided
    BY <1>4, DeviceBinds
  <2>5. Agree(x) => Agree(x)'
    BY <2>4 DEF SameBinding, Agree
  <2>6. driver[x] = None => driver'[x] = None
    BY <2>4 DEF SameBinding
  <2>7. ASSUME NEW u \in Probers, Holds(u)' PROVE BindAt(u)'
    <3>1. CASE u # x
      <4>1. Holds(u) /\ BindAt(u) /\ Dev(u) \in Devices /\ Dev(u)' = Dev(u) /\ pc'[u] = pc[u]
        BY <2>2, <2>7, <3>1, HeldDevice, Bindings
      <4>2. CASE SameBinding(Dev(u))
        BY <4>1, <4>2, SameBind
      <4>3. CASE /\ Dev(u) = x /\ driver'[x] = None
                 /\ attached'[x] = IF driver[x] = None THEN attached[x] ELSE None
                 /\ x \in provided' <=> driver[x] = None /\ x \in provided
        BY <4>1, <4>3 DEF BindAt, Agree
      <4>4. QED
        BY <2>3, <2>4, <4>1, <4>2, <4>3
    <3>2. CASE u = x
      <4>1. DeviceAdd(x) /\ pc[x] = "new" /\ pc'[x] = "attach"
        BY <1>4, <2>1, <2>7, <3>2, DeviceNext DEF DeviceAdd, Goto, TypeOK
      <4>2. Agree(x)' /\ driver'[x] = None
        BY <2>5, <2>6, <4>1, Holders, Bindings
      <4>3. QED
        BY <2>1, <3>2, <4>1, <4>2 DEF BindAt, Agree
    <3>3. QED
      BY <3>1, <3>2
  <2>8. ASSUME NEW d \in Devices
        PROVE  (Free(d)' => Agree(d)') /\ (OnList(d)' \/ pc'[d] = "new" => driver'[d] = None)
    <3>1. Free(d)' => Free(d)
      BY <2>1, <2>2 DEF Free
    <3>2. CASE d # x
      BY <2>2, <2>3, <3>1, <3>2, Bindings, SameAgrees DEF SameBinding
    <3>3. CASE d = x
      BY <2>1, <2>2, <2>5, <2>6, <3>1, <3>3, Bindings
    <3>4. QED
      BY <3>2, <3>3
  <2>9. QED
    BY <2>7, <2>8 DEF BindInv, Free
<1>5. QED
  BY <1>1, <1>2, <1>3, <1>4, Steps, ProberBindStep

-----------------------------------------------------------------------------
(* No retry is lost                                                        *)

(* Membership in pending. *)
LEMMA InPending ==
  ASSUME TypeOK, NEW x
  PROVE  x \in ToSet(pending) <=> Contains(pending, x)
BY Containing DEF TypeOK

(* a thread that was not about to trigger leaves the others to *)
LEMMA StillTriggers ==
  ASSUME NEW t \in Threads, Move(t), t = InitCall => pc[t] # "idle",
         pc[t] \notin {"bound", "del", "trigger", "retrigger"}
  PROVE  /\ ToTrigger => ToTrigger'
         /\ pc[t] \notin {"splice", "resplice"} => (ToSplice => ToSplice')
<1>1. InitCall \in Threads
  BY DEF Threads
<1>2. ToTrigger => ToTrigger'
  BY <1>1 DEF ToTrigger, Move
<1>3. QED
  BY <1>2 DEF ToSplice, Move

(* A thread that has bound a device triggers the list after it. *)
LEMMA WillTrigger ==
  ASSUME NEW t \in Threads, pc'[t] \in {"bound", "del", "trigger", "retrigger"}
  PROVE  ToTrigger' /\ ToSplice'
BY DEF ToTrigger, ToSplice

(* A need is not met by taking a provider away. *)
LEMMA LessReady ==
  ASSUME NEW d, provided' \subseteq provided, Ready(d)'
  PROVE  Ready(d)
BY DEF Ready

(* a thread that neither defers a device nor ends a deferral, and leaves the
   triggers to come, changes nothing *)
LEMMA RetryKept ==
  ASSUME TypeOK, TypeOK', DeferredInv, PendingInv, NEW t \in Threads, Move(t),
         cur' = cur \/ t = Worker, provided' \subseteq provided, stale \ {t} \subseteq stale',
         pc[t] # "compare", pc'[t] \notin {"deferred", "add"},
         ToTrigger => ToTrigger'
  PROVE  /\ DeferredInv'
         /\ (ToSplice => ToSplice') /\ (\A x : Contains(pending', x) => Contains(pending, x))
              => PendingInv'
<1>1. \A u \in Probers \ {t} : Dev(u)' = Dev(u) /\ pc'[u] = pc[u]
  BY ThreadsAre DEF Dev, Move
<1>2. DeferredInv'
  <2>1. SUFFICES ASSUME NEW u \in Probers, pc'[u] \in {"deferred", "add"}, Ready(Dev(u))', ~ToTrigger'
                 PROVE  u \in stale'
    BY DEF DeferredInv
  <2>2. u # t
    BY <2>1
  <2>3. pc[u] \in {"deferred", "add"} /\ Ready(Dev(u))
    BY <1>1, <2>1, <2>2, LessReady DEF Ready
  <2>4. QED
    BY <2>1, <2>2, <2>3 DEF DeferredInv
<1>3. ASSUME ToSplice => ToSplice', \A x : Contains(pending', x) => Contains(pending, x)
      PROVE  PendingInv'
  <2>1. SUFFICES ASSUME NEW d \in ToSet(pending'), Ready(d)', ~ToSplice'
                 PROVE  \E u \in Probers : Dev(u)' = d /\ pc'[u] = "compare" /\ u \in stale'
    BY DEF PendingInv
  <2>2. d \in ToSet(pending)
    <3>1. pending \in Seq(Devices) /\ pending' \in Seq(Devices)
      BY DEF TypeOK
    <3>2. QED
      BY <1>3, <2>1, <3>1, Containing
  <2>3. PICK u \in Probers : Dev(u) = d /\ pc[u] = "compare" /\ u \in stale
    BY <1>3, <2>1, <2>2, LessReady DEF PendingInv
  <2>4. u # t
    BY <2>3
  <2>5. QED
    BY <1>1, <2>3, <2>4
<1>4. QED
  BY <1>2, <1>3

(* A trigger to come serves every deferred device. *)
LEMMA Triggered ==
  ASSUME ToTrigger'
  PROVE  DeferredInv' /\ PendingInv'
BY DEF DeferredInv, PendingInv, ToSplice

(* the two steps of a trigger, by any thread *)
LEMMA TriggerRetries ==
  ASSUME TypeOK, RetryInv, NEW t \in Threads, Move(t), Trigger(t)
  PROVE  DeferredInv' /\ PendingInv'
<1>1. InitCall \in Threads /\ pc \in [Threads -> AllStates]
  BY ThreadsAre DEF TypeOK
<1>2. CASE ~enabled
  <2>1. pc[InitCall] = "idle" /\ t # InitCall
    BY <1>2 DEF RetryInv, EnabledInv, Trigger
  <2>2. ToTrigger'
    BY <1>1, <2>1 DEF ToTrigger, Move
  <2>3. QED
    BY <2>2, Triggered
<1>3. CASE enabled
  <2>1. /\ pc'[t] \in {"splice", "resplice"} /\ cur' = cur
        /\ stale' = stale \cup {u \in Threads : pc[u] \in {"probe", "deferred", "add", "compare"}}
    BY <1>1, <1>3 DEF Trigger, ProbeSame
  <2>2. ToSplice'
    BY <2>1 DEF ToSplice
  <2>3. ASSUME NEW u \in Probers, pc'[u] \in {"deferred", "add"} PROVE u \in stale'
    <3>1. u \in Threads /\ pc[u] = pc'[u]
      BY <2>1, <2>3, ThreadsAre DEF Move
    <3>2. QED
      BY <2>1, <2>3, <3>1
  <2>4. QED
    BY <2>2, <2>3 DEF DeferredInv, PendingInv
<1>4. QED
  BY <1>2, <1>3

(* Pending is spliced whole. *)
LEMMA SpliceRetries ==
  ASSUME TypeOK, TypeOK', ListedOnce, RetryInv, NEW t \in Threads, Move(t), Splice(t)
  PROVE  DeferredInv' /\ PendingInv'
<1>1. /\ cur' = cur /\ UNCHANGED <<provided, stale>> /\ pc \in [Threads -> AllStates]
      /\ pc[t] \in {"splice", "resplice"} /\ pc'[t] \in {"queue", "requeue"}
  BY DEF Splice, Goto, ProbeSame, bindvars, TypeOK
<1>2. ToTrigger => ToTrigger'
  BY <1>1, StillTriggers
<1>3. DeferredInv'
  BY <1>1, <1>2, RetryKept DEF RetryInv
<1>4. PendingInv'
  <2>1. pending' = <<>> /\ \A x : ~Contains(pending', x)
    BY Splicing
  <2>2. pending' \in Seq(Devices)
    BY DEF TypeOK
  <2>3. QED
    BY <2>1, <2>2, Containing DEF PendingInv
<1>5. QED
  BY <1>3, <1>4

(* A probe whose needs were met meanwhile triggers again. *)
LEMMA ProberRetries ==
  ASSUME TypeOK, TypeOK', ListedOnce, NextInv, BindInv, RetryInv, LastMayDefer,
         NEW t \in Probers, Prober(t)
  PROVE  DeferredInv' /\ PendingInv'
<1>1. /\ Move(t) /\ Dev(t)' = Dev(t) /\ Dev(t) \in Devices /\ t \in Threads /\ t # InitCall
      /\ cur' = cur /\ enabled' = enabled /\ pc[t] \in ProbeStates
      /\ DeferredInv /\ PendingInv /\ EnabledInv /\ DriversOf[Dev(t)] \in Seq(Drivers)
  BY ProberMoves, ItsDevice, ThreadsAre DEF ProbeSame, RetryInv
<1>2. /\ pc \in [Threads -> AllStates] /\ nxt \in [Threads -> Nat]
      /\ pending \in Seq(Devices) /\ pending' \in Seq(Devices)
  BY DEF TypeOK
<1>3. \A u \in Probers \ {t} : Dev(u)' = Dev(u) /\ pc'[u] = pc[u]
  BY <1>1, ThreadsAre DEF Dev, Move
<1>4. pc[t] \notin {"bound", "del", "trigger", "retrigger"} =>
        /\ ToTrigger => ToTrigger'
        /\ pc[t] \notin {"splice", "resplice"} => (ToSplice => ToSplice')
  BY <1>1, StillTriggers
<1>5. ASSUME provided' \subseteq provided, stale \ {t} \subseteq stale',
             pc[t] # "compare", pc'[t] \notin {"deferred", "add"},
             pc[t] \notin {"bound", "del", "trigger", "retrigger"}
      PROVE  /\ DeferredInv'
             /\ pc[t] \notin {"splice", "resplice"} /\ pending' = pending => PendingInv'
  BY <1>1, <1>4, <1>5, RetryKept
<1>6. ASSUME pc'[t] \in {"bound", "del", "trigger", "retrigger"}
      PROVE  DeferredInv' /\ PendingInv'
  BY <1>1, <1>6, WillTrigger, Triggered
(* the two steps of a deferral *)
<1>7. ASSUME provided' = provided, stale' = stale,
             \A x : Contains(pending', x) => Contains(pending, x) \/ (x = Dev(t) /\ pc'[t] = "compare"),
             pc[t] \in {"probe", "deferred", "add"}, pc'[t] \in {"deferred", "add", "compare"},
             pc[t] = "probe" => ~Ready(Dev(t))
      PROVE  DeferredInv' /\ PendingInv'
  <2>1. /\ \A d : Ready(d)' <=> Ready(d)
        /\ (ToTrigger => ToTrigger') /\ (ToSplice => ToSplice')
    BY <1>4, <1>7 DEF Ready
  <2>2. Ready(Dev(t)) => t \in stale \/ ToTrigger
    BY <1>1, <1>7 DEF DeferredInv
  <2>3. ASSUME NEW u \in Probers, pc'[u] \in {"deferred", "add"}, Ready(Dev(u))'
        PROVE  u \in stale' \/ ToTrigger'
    <3>1. CASE u = t
      <4>1. Ready(Dev(t))
        BY <1>1, <2>1, <2>3, <3>1 DEF Ready
      <4>2. QED
        BY <1>7, <2>1, <2>2, <3>1, <4>1
    <3>2. CASE u # t
      <4>1. Ready(Dev(u)) /\ pc[u] \in {"deferred", "add"}
        BY <1>3, <1>7, <2>3, <3>2 DEF Ready
      <4>2. QED
        BY <1>1, <1>7, <2>1, <4>1 DEF DeferredInv
    <3>3. QED
      BY <3>1, <3>2
  <2>4. ASSUME NEW d \in ToSet(pending'), Ready(d)', ~ToSplice'
        PROVE  \E u \in Probers : Dev(u)' = d /\ pc'[u] = "compare" /\ u \in stale'
    <3>1. Contains(pending, d) \/ (d = Dev(t) /\ pc'[t] = "compare")
      BY <1>2, <1>7, <2>4, Containing
    <3>2. CASE d = Dev(t) /\ pc'[t] = "compare"
      BY <1>1, <1>7, <2>1, <2>2, <2>4, <3>2 DEF ToSplice
    <3>3. CASE Contains(pending, d)
      <4>1. PICK u \in Probers : Dev(u) = d /\ pc[u] = "compare" /\ u \in stale
        BY <1>1, <1>2, <2>1, <2>4, <3>3, Containing DEF PendingInv
      <4>2. u # t
        BY <1>7, <4>1
      <4>3. QED
        BY <1>3, <1>7, <4>1, <4>2
    <3>4. QED
      BY <3>1, <3>2, <3>3
  <2>5. DeferredInv'
    BY <2>3 DEF DeferredInv
  <2>6. PendingInv'
    BY <2>4 DEF PendingInv
  <2>7. QED
    BY <2>5, <2>6
<1> USE <1>1, <1>2
<1>8. CASE Attach(t)
  <2>1. pc[t] = "attach" /\ pc'[t] \in {"bound", "next"} /\ UNCHANGED <<stale, bindvars, pending>>
    BY <1>8 DEF Attach, Goto, lists
  <2>2. QED
    BY <1>5, <1>6, <2>1 DEF bindvars
<1>9. CASE NextDriver(t)
  <2>1. pc[t] = "next" /\ pc'[t] = "probe" /\ stale' = stale \ {t} /\ UNCHANGED <<provided, pending>>
    BY <1>9 DEF NextDriver, Goto, lists
  <2>2. QED
    BY <1>5, <2>1
<1>10. CASE NoDriver(t)
  <2>1. pc[t] = "next" /\ pc'[t] \in {"work", "added"} /\ UNCHANGED <<stale, provided, pending>>
    BY <1>10 DEF NoDriver, Goto, Return, lists, bindvars
  <2>2. QED
    BY <1>5, <2>1
<1>11. CASE Probe(t)
  <2>1. pc[t] = "probe" /\ pc'[t] \in {"bound", "failed", "deferred"} /\ pending' = pending
    BY <1>11 DEF Probe, Goto, lists
  <2>2. CASE pc'[t] = "bound"
    BY <1>6, <2>2
  <2>3. pc'[t] # "bound" => provided' = provided /\ stale' = stale
    BY <1>11 DEF Probe, Goto
  <2>4. CASE pc'[t] = "failed"
    BY <1>5, <2>1, <2>3, <2>4
  <2>5. CASE pc'[t] = "deferred"
    <3>1. Driver(t) \notin Rejects /\ ~(Needs[Driver(t)] \subseteq provided)
      BY <1>11, <2>5 DEF Probe, Goto
    <3>2. nxt[t] = Len(DriversOf[Dev(t)])
      BY <2>1, <3>1, DeferredIsLast
    <3>3. ~Ready(Dev(t))
      <4>1. DOMAIN DriversOf[Dev(t)] = 1..Len(DriversOf[Dev(t)])
        OBVIOUS
      <4>2. ASSUME NEW i \in 1..Len(DriversOf[Dev(t)]), DriversOf[Dev(t)][i] \notin Rejects
            PROVE  i = nxt[t]
        <5>1. i \notin 1..(Len(DriversOf[Dev(t)]) - 1)
          BY <4>2 DEF LastMayDefer
        <5>2. QED
          BY <3>2, <5>1
      <4>3. QED
        BY <3>1, <4>1, <4>2 DEF Driver, Ready
    <3>4. QED
      BY <1>7, <2>1, <2>3, <2>5, <3>3
  <2>6. QED
    BY <2>1, <2>2, <2>4, <2>5
<1>12. CASE ProbeFailed(t)
  <2>1. /\ \/ pc[t] = "deferred" /\ pc'[t] = "add"
           \/ pc[t] = "failed" /\ pc'[t] = "next"
        /\ UNCHANGED <<stale, provided, pending>>
    BY <1>12 DEF ProbeFailed, Goto, lists
  <2>2. CASE pc[t] = "deferred" /\ pc'[t] = "add"
    BY <1>7, <2>1, <2>2
  <2>3. CASE pc[t] = "failed" /\ pc'[t] = "next"
    BY <1>5, <2>1, <2>3
  <2>4. QED
    BY <2>1, <2>2, <2>3
<1>13. CASE DeferredAdd(t)
  <2>1. pc[t] = "add" /\ pc'[t] = "compare" /\ UNCHANGED <<stale, provided>>
    BY <1>13 DEF DeferredAdd, Goto, bindvars
  <2>2. QED
    BY <1>7, <1>13, <2>1, Listing
<1>14. CASE Compare(t)
  <2>1. /\ pc[t] = "compare" /\ UNCHANGED <<provided, pending>>
        /\ \/ pc'[t] = "retrigger"
           \/ pc'[t] = "next" /\ t \notin stale /\ stale' = stale
    BY <1>14 DEF Compare, Goto, bindvars, lists
  <2>2. CASE pc'[t] = "retrigger"
    BY <1>6, <2>2
  <2>3. CASE pc'[t] = "next" /\ t \notin stale /\ stale' = stale
    <3>1. (\A d : Ready(d)' <=> Ready(d)) /\ (ToTrigger => ToTrigger') /\ (ToSplice => ToSplice')
      BY <1>4, <2>1 DEF Ready
    <3>2. ASSUME NEW u \in Probers, pc'[u] \in {"deferred", "add"}, Ready(Dev(u))'
          PROVE  u \in stale' \/ ToTrigger'
      <4>1. Ready(Dev(u)) /\ pc[u] \in {"deferred", "add"}
        BY <1>3, <2>1, <2>3, <3>2 DEF Ready
      <4>2. QED
        BY <2>3, <3>1, <4>1 DEF DeferredInv
    <3>3. ASSUME NEW d \in ToSet(pending'), Ready(d)', ~ToSplice'
          PROVE  \E u \in Probers : Dev(u)' = d /\ pc'[u] = "compare" /\ u \in stale'
      <4>1. PICK u \in Probers : Dev(u) = d /\ pc[u] = "compare" /\ u \in stale
        BY <2>1, <3>1, <3>3 DEF PendingInv
      <4>2. QED
        BY <1>3, <2>3, <4>1
    <3>4. QED
      BY <3>2, <3>3 DEF DeferredInv, PendingInv
  <2>4. QED
    BY <2>1, <2>2, <2>3
<1>15. CASE Bound(t)
  <2>1. pc[t] = "bound" /\ attached[Dev(t)] = None
    BY <1>15 DEF Bound, Goto, BindInv, BindAt, Holds, HoldStates
  <2>2. pc'[t] \in {"del", "bound"}
    BY <1>15, <2>1 DEF Bound, Goto
  <2>3. QED
    BY <1>6, <2>2
<1>16. CASE DeferredDel(t)
  <2>1. pc'[t] = "trigger"
    BY <1>16 DEF DeferredDel, Goto
  <2>2. QED
    BY <1>6, <2>1
<1>17. CASE Trigger(t)
  BY <1>17, TriggerRetries
<1>18. CASE Splice(t)
  BY <1>18, SpliceRetries
<1>19. CASE QueueWork(t)
  <2>1. /\ pc[t] \in {"queue", "requeue"} /\ pc'[t] \in {"next", "work", "added"}
        /\ UNCHANGED <<stale, provided, pending>>
    BY <1>19 DEF QueueWork, AfterTrigger, Return, lists, bindvars
  <2>2. QED
    BY <1>5, <2>1
<1>20. QED
  BY <1>8, <1>9, <1>10, <1>11, <1>12, <1>13, <1>14, <1>15, <1>16, <1>17, <1>18, <1>19 DEF Prober

(* What waits on the active list is going to be taken: this needs nothing of
   the bindings. *)
LEMMA ActiveKept ==
  ASSUME ActiveInv, NEW t \in Threads, Move(t), t = Worker => pc'[t] # "idle",
         pc[t] \notin {"queue", "requeue"}, queued => queued', active' # <<>> => active # <<>>
  PROVE  ActiveInv'
BY ThreadsAre DEF ActiveInv, Move

(* What is on active has a worker that comes for it. *)
LEMMA ProberServes ==
  ASSUME TypeOK, ListedOnce, ActiveInv, NEW t \in Probers, Prober(t), pc'[t] # "idle"
  PROVE  ActiveInv'
<1>1. Move(t) /\ t \in Threads /\ Dev(t) \in Devices /\ pc \in [Threads -> AllStates]
  BY ProberMoves, ItsDevice, ThreadsAre DEF TypeOK
<1>2. CASE Splice(t)
  BY <1>1, <1>2 DEF Splice, Goto, ActiveInv
<1>3. CASE QueueWork(t)
  BY <1>3 DEF QueueWork, ActiveInv
<1>4. ASSUME pc[t] \notin {"queue", "requeue"}, queued' = queued, active' = active \/ Unlist(Dev(t))
      PROVE  ActiveInv'
  BY <1>1, <1>4, ActiveKept, Unlisting
<1>5. CASE DeferredDel(t) \/ DeferredAdd(t) \/ Bound(t)
  BY <1>4, <1>5 DEF DeferredDel, DeferredAdd, Bound, Goto, lists
<1>6. CASE Attach(t) \/ NextDriver(t) \/ NoDriver(t) \/ ProbeFailed(t)
  BY <1>4, <1>6 DEF Attach, NextDriver, NoDriver, ProbeFailed, Goto, lists
<1>7. CASE Probe(t) \/ Compare(t) \/ Trigger(t)
  BY <1>4, <1>7 DEF Probe, Compare, Trigger, Goto, lists
<1>8. QED
  BY <1>2, <1>3, <1>5, <1>6, <1>7 DEF Prober

(* No retry is lost by a step. *)
LEMMA RetryStep ==
  ASSUME TypeOK, TypeOK', ListedOnce, NextInv, BindInv, RetryInv, LastMayDefer, Next
  PROVE  RetryInv'
<1>1. DeferredInv /\ PendingInv /\ EnabledInv /\ ActiveInv
  BY DEF RetryInv
<1>2. /\ pc \in [Threads -> AllStates] /\ Worker \in Threads /\ InitCall \in Threads
      /\ InitCall # Worker /\ Devices \subseteq Threads /\ InitCall \notin Probers
      /\ Worker \notin Devices /\ InitCall \notin Devices
      /\ Probers \subseteq Threads
  BY ThreadsAre DEF TypeOK
<1>3. ASSUME NEW t \in Threads \ {InitCall}, Move(t), enabled' = enabled PROVE EnabledInv'
  BY <1>1, <1>2, <1>3 DEF EnabledInv, Move
<1>4. ASSUME NEW t \in Probers, Prober(t) PROVE RetryInv'
  <2>1. Move(t) /\ enabled' = enabled /\ t \in Threads \ {InitCall} /\ pc'[t] # "idle"
    BY <1>2, <1>4, ProberMoves, ProberNext DEF ProbeSame
  <2>2. QED
    BY <1>1, <1>3, <1>4, <2>1, ProberRetries, ProberServes DEF RetryInv
<1>5. CASE WorkStart \/ WorkNext \/ WorkEnd
  <2>1. /\ Move(Worker) /\ enabled' = enabled /\ UNCHANGED <<stale, provided, pending>>
        /\ pc[Worker] \in {"idle", "work"} /\ pc'[Worker] \in {"idle", "work", "attach"}
    BY <1>2, <1>5, WorkerMoves DEF WorkStart, WorkNext, WorkEnd, Goto, lists, bindvars
  <2>2. (ToTrigger => ToTrigger') /\ (ToSplice => ToSplice')
    BY <1>2, <2>1, StillTriggers
  <2>3. DeferredInv' /\ PendingInv'
    BY <1>1, <1>2, <2>1, <2>2, RetryKept
  <2>4. ActiveInv'
    <3>1. CASE WorkStart \/ WorkNext
      BY <1>2, <3>1 DEF WorkStart, WorkNext, Goto, ActiveInv
    <3>2. CASE WorkEnd
      BY <3>2 DEF WorkEnd, lists, ActiveInv
    <3>3. QED
      BY <1>5, <3>1, <3>2
  <2>5. QED
    BY <1>2, <1>3, <2>1, <2>3, <2>4 DEF RetryInv
<1>6. CASE InitStep
  <2>1. Move(InitCall)
    BY <1>6, InitMoves
  <2>2. CASE EnableProbing
    <3>1. pc[InitCall] = "idle" /\ pc'[InitCall] = "trigger" /\ enabled' /\ UNCHANGED <<queued, active>>
      BY <1>2, <2>2 DEF EnableProbing, Goto, lists
    <3>2. DeferredInv' /\ PendingInv'
      BY <1>2, <3>1, WillTrigger, Triggered
    <3>3. ActiveInv'
      BY <1>1, <1>2, <2>1, <3>1, ActiveKept
    <3>4. QED
      BY <3>1, <3>2, <3>3 DEF RetryInv, EnabledInv
  <2>3. CASE Flushed
    <3>1. /\ pc[InitCall] = "flush" /\ pc'[InitCall] = "done"
          /\ UNCHANGED <<cur, stale, provided, pending, enabled, queued, active>>
      BY <1>2, <2>3 DEF Flushed, Goto, lists, bindvars
    <3>2. (ToTrigger => ToTrigger') /\ (ToSplice => ToSplice')
      BY <1>2, <2>1, <3>1, StillTriggers
    <3>3. DeferredInv' /\ PendingInv'
      BY <1>1, <1>2, <2>1, <3>1, <3>2, RetryKept
    <3>4. ActiveInv'
      BY <1>1, <1>2, <2>1, <3>1, ActiveKept
    <3>5. QED
      BY <1>1, <3>1, <3>3, <3>4 DEF RetryInv, EnabledInv
  <2>4. CASE Trigger(InitCall)
    <3>1. /\ pc[InitCall] \in {"trigger", "retrigger"} /\ pc'[InitCall] # "idle"
          /\ UNCHANGED <<enabled, queued, active>>
      BY <1>2, <2>4 DEF Trigger, AfterTrigger, lists, ProbeSame
    <3>2. ActiveInv'
      BY <1>1, <1>2, <2>1, <3>1, ActiveKept
    <3>3. QED
      BY <1>1, <1>2, <2>1, <2>4, <3>1, <3>2, TriggerRetries DEF RetryInv, EnabledInv
  <2>5. CASE Splice(InitCall)
    <3>1. /\ pc[InitCall] \in {"splice", "resplice"} /\ pc'[InitCall] \in {"queue", "requeue"}
          /\ UNCHANGED <<enabled>>
      BY <1>2, <2>5 DEF Splice, Goto, ProbeSame
    <3>2. ActiveInv'
      BY <1>2, <3>1 DEF ActiveInv
    <3>3. QED
      BY <1>1, <1>2, <2>1, <2>5, <3>1, <3>2, SpliceRetries DEF RetryInv, EnabledInv
  <2>6. CASE QueueWork(InitCall)
    <3>1. /\ pc[InitCall] \in {"queue", "requeue"} /\ pc'[InitCall] = "flush" /\ queued'
          /\ UNCHANGED <<cur, stale, provided, pending, enabled>>
      BY <1>2, <2>6 DEF QueueWork, AfterTrigger, ProbeSame, lists, bindvars
    <3>2. (ToTrigger => ToTrigger') /\ (ToSplice => ToSplice')
      BY <1>2, <2>1, <3>1, StillTriggers
    <3>3. DeferredInv' /\ PendingInv'
      BY <1>1, <1>2, <2>1, <3>1, <3>2, RetryKept
    <3>4. QED
      BY <1>1, <3>1, <3>3 DEF RetryInv, EnabledInv, ActiveInv
  <2>7. QED
    BY <1>6, <2>2, <2>3, <2>4, <2>5, <2>6 DEF InitStep
<1>7. ASSUME NEW d \in Devices, DeviceAdd(d) \/ Delete(d) PROVE RetryInv'
  <2>1. /\ Move(d) /\ cur' = cur /\ d \in Threads \ {InitCall} /\ d # Worker
        /\ pc[d] \in {"new", "added", "unlist", "unlink"}
    BY <1>2, <1>7, DeviceMoves
  <2>2. /\ UNCHANGED <<stale, enabled, queued>> /\ provided' \subseteq provided
        /\ pc'[d] \in {"attach", "unlist", "unlink", "deleted"}
    BY <1>2, <1>7, <2>1 DEF DeviceAdd, Delete, DeviceDel, DeviceUnlist, DeviceUnlink, Goto, bindvars
  <2>3. /\ \A x : Contains(pending', x) => Contains(pending, x)
        /\ active' # <<>> => active # <<>>
    <3>1. CASE DeviceUnlist(d)
      BY <3>1, Unlisting DEF DeviceUnlist
    <3>2. CASE UNCHANGED lists
      BY <3>2 DEF lists
    <3>3. QED
      BY <1>7, <3>1, <3>2 DEF DeviceAdd, Delete, DeviceDel, DeviceUnlink, lists
  <2>4. (ToTrigger => ToTrigger') /\ (ToSplice => ToSplice')
    BY <2>1, StillTriggers
  <2>5. DeferredInv' /\ PendingInv'
    BY <1>1, <2>1, <2>2, <2>3, <2>4, RetryKept
  <2>6. ActiveInv'
    BY <1>1, <2>1, <2>2, <2>3, ActiveKept
  <2>7. QED
    BY <1>3, <2>1, <2>2, <2>5, <2>6 DEF RetryInv
<1>8. QED
  BY <1>4, <1>5, <1>6, <1>7, Steps

-----------------------------------------------------------------------------
(* The theorems                                                            *)

HandOver == TypeOK /\ ListedOnce /\ NextInv /\ HolderInv
Inv == HandOver /\ BindInv /\ RetryInv

(* The invariants before the first step. *)
LEMMA InitInv ==
  ASSUME Init
  PROVE  NextInv /\ HolderInv /\ BindInv /\ RetryInv
<1>1. /\ \A t \in Threads : nxt[t] = 0 /\ pc[t] \in {"new", "idle"}
      /\ \A d \in Devices : pc[d] = "new"
      /\ pc[Worker] = "idle" /\ pc[InitCall] = "idle" /\ pending = <<>> /\ active = <<>>
  BY ThreadsAre DEF Init
<1>2. \A d : ~OnList(d)
  BY <1>1 DEF OnList, Contains
<1>3. \A t \in Probers : ~Holds(t) /\ NextAt(t)
  BY <1>1, ThreadsAre DEF Holds, HoldStates, NextAt, DeferredStates
<1>4. \A d \in Devices : driver[d] = None /\ Agree(d)
  BY DEF Init, Agree
<1>5. RetryInv
  <2>1. \A t \in Probers : pc[t] \notin {"deferred", "add"}
    BY <1>1, ThreadsAre
  <2>2. ToSet(pending) = {}
    BY <1>1 DEF ToSet
  <2>3. ~enabled
    BY DEF Init
  <2>4. QED
    BY <1>1, <2>1, <2>2, <2>3 DEF RetryInv, EnabledInv, DeferredInv, PendingInv, ActiveInv
<1>6. QED
  BY <1>2, <1>3, <1>4, <1>5 DEF NextInv, HolderInv, BindInv

(* They survive a step of nobody. *)
LEMMA InvStutters ==
  ASSUME UNCHANGED vars, NextInv /\ HolderInv /\ BindInv /\ RetryInv
  PROVE  NextInv' /\ HolderInv' /\ BindInv' /\ RetryInv'
<1>1. /\ pc' = pc /\ cur' = cur /\ nxt' = nxt /\ stale' = stale /\ driver' = driver
      /\ attached' = attached /\ provided' = provided /\ pending' = pending /\ active' = active
      /\ enabled' = enabled /\ queued' = queued
  BY DEF vars
<1>2. \A t : Dev(t)' = Dev(t)
  BY <1>1 DEF Dev
<1>3. \A t : (Holds(t)' <=> Holds(t)) /\ (NextAt(t)' <=> NextAt(t))
  BY <1>1, <1>2 DEF Holds, NextAt, HoldStates, DeferredStates
<1>4. \A d : (OnList(d)' <=> OnList(d)) /\ (Agree(d)' <=> Agree(d)) /\ (Ready(d)' <=> Ready(d))
  BY <1>1 DEF OnList, Agree, Ready
<1>5. NextInv'
  BY <1>3 DEF NextInv
<1>6. HolderInv'
  BY <1>1, <1>2, <1>3, <1>4 DEF HolderInv
<1>7. ASSUME NEW t \in Probers, BindAt(t) PROVE BindAt(t)'
  BY <1>1, <1>2, <1>7 DEF BindAt, Agree
<1>8. BindInv'
  BY <1>1, <1>2, <1>3, <1>4, <1>7 DEF BindInv
<1>9. RetryInv'
  BY <1>1, <1>2, <1>4 DEF RetryInv, EnabledInv, DeferredInv, PendingInv, ActiveInv, ToTrigger,
     ToSplice, Ready
<1>10. QED
  BY <1>5, <1>6, <1>8, <1>9

(* Inv over a whole run. *)
LEMMA InvAlways ==
  ASSUME LastMayDefer
  PROVE  Spec => []Inv
<1>1. Init => NextInv /\ HolderInv /\ BindInv /\ RetryInv
  BY InitInv
<1>2. /\ NextInv /\ HolderInv /\ BindInv /\ RetryInv /\ TypeOK /\ ListedOnce
      /\ TypeOK' /\ ListedOnce' /\ [Next]_vars
      => (NextInv /\ HolderInv /\ BindInv /\ RetryInv)'
  BY NextStep, HolderStep, BindStep, RetryStep, InvStutters
<1>3. QED
  BY <1>1, <1>2, TypesAlways, PTL DEF Spec, Inv, HandOver

(* A device is on one of the two deferred lists at most, and once, whatever  *)
(* the threads do between one another's list operations: also with several   *)
(* deferring drivers to a device.                                            *)
THEOREM EachIsListedOnce == Spec => []ListedOnce
BY TypesAlways, PTL

(* No device is probed by two threads at once, though no lock keeps them     *)
(* apart: it is on a list, or one thread has it.                             *)
THEOREM NoTwoProbes == ASSUME LastMayDefer PROVE Spec => []OneProbe
<1>1. Inv => OneProbe
  <2> SUFFICES ASSUME Inv, NEW t \in Probers, NEW u \in Probers, Probing(t), Probing(u),
                      Dev(t) = Dev(u)
               PROVE  t = u
    BY DEF OneProbe, Probers
  <2>1. Holds(t) /\ Holds(u)
    BY DEF Probing, Holds, HoldStates
  <2>2. Dev(t) \in Devices
    BY <2>1, HeldDevice DEF Inv, HandOver
  <2>3. QED
    BY <2>1, <2>2 DEF Inv, HandOver, HolderInv
<1>2. QED
  BY <1>1, InvAlways, PTL

(* A device nobody is probing has a driver exactly when it is on that        *)
(* driver's list of devices, and then its probe has succeeded.               *)
THEOREM BindingsAgree == ASSUME LastMayDefer PROVE Spec => []BoundMatchesDriver
<1>1. Inv => BoundMatchesDriver
  <2> SUFFICES ASSUME Inv, NEW d \in Devices, Settled(d) PROVE Agree(d)
    BY DEF BoundMatchesDriver, Agree
  <2>1. ASSUME NEW t \in Probers, Dev(t) = d PROVE ~Holds(t)
    BY <2>1 DEF Settled, Probers, Holds, HoldStates, ProbeStates
  <2>2. QED
    BY <2>1 DEF Inv, BindInv
<1>2. QED
  BY <1>1, InvAlways, PTL

(* When nobody has anything left to do, no device waits on the active list,  *)
(* and none waits on the pending list for what has been probed in the mean-  *)
(* time, also while its own probe was failing.                               *)
THEOREM RetriesAreNotLost == ASSUME LastMayDefer PROVE Spec => []NoRetryLost
<1>1. Inv => NoRetryLost
  <2> SUFFICES ASSUME Inv, Quiet
               PROVE  active = <<>> /\ \A d \in ToSet(pending) : ~Ready(d)
    BY DEF NoRetryLost, Ready
  <2>1. \A t \in Threads : pc[t] \in {"idle", "done", "new", "added", "deleted"}
    BY DEF Quiet, Threads
  <2>2. pc[Worker] = "idle" /\ pc[InitCall] = "done" /\ ~queued
    BY DEF Quiet
  <2>3. active = <<>>
    BY <2>1, <2>2 DEF Inv, RetryInv, ActiveInv
  <2>4. ~ToSplice /\ \A t \in Probers : pc[t] # "compare"
    BY <2>1, <2>2, ThreadsAre DEF ToSplice, ToTrigger
  <2>5. QED
    BY <2>3, <2>4 DEF Inv, RetryInv, PendingInv
<1>2. QED
  BY <1>1, InvAlways, PTL

(* driver.c:121: a bound device "is no longer in one of the deferred lists"; *)
(* with a second deferring driver it can be, as the run probe_pair shows.    *)
THEOREM BoundIsOffTheLists == ASSUME LastMayDefer PROVE Spec => []BoundNotDeferred
<1>1. Inv => BoundNotDeferred
  <2> SUFFICES ASSUME Inv, NEW d \in Devices, attached[d] # None, Settled(d) PROVE ~OnList(d)
    BY DEF BoundNotDeferred
  <2>1. ASSUME NEW t \in Probers, Dev(t) = d PROVE ~Holds(t)
    BY <2>1 DEF Settled, Probers, Holds, HoldStates, ProbeStates
  <2>2. Agree(d)
    BY <2>1 DEF Inv, BindInv
  <2>3. QED
    BY <2>2 DEF Inv, BindInv, Agree
<1>2. QED
  BY <1>1, InvAlways, PTL
=============================================================================
