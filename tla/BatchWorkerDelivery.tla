------------------------- MODULE BatchWorkerDelivery -------------------------
(***************************************************************************)
(* How often BatchWorker settles and inserts a message, and what it        *)
(* promises the publisher, for every value of its constants: a delivery is *)
(* settled at most once, without faults nothing is inserted twice, and the *)
(* worker implements Delivery: the initial states map to initial states,   *)
(* and every step of the worker, of the broker or of the environment maps  *)
(* to a step of Delivery or to none.                                       *)
(***************************************************************************)
EXTENDS BatchWorkerProofs

-----------------------------------------------------------------------------
(* Injective sequences.                                                    *)

\* Appending a new element.
LEMMA AppendKeepsInjective ==
  ASSUME NEW S, NEW s \in Seq(S), NEW d \in S, IsInjective(s), d \notin Range(s)
  PROVE  /\ IsInjective(Append(s, d))
         /\ Range(Append(s, d)) = Range(s) \union {d}
<1> DEFINE t == Append(s, d)
<1>1. /\ Len(s) \in Nat /\ DOMAIN s = 1 .. Len(s)
      /\ DOMAIN t = 1 .. Len(s) + 1
      /\ \A i \in 1 .. Len(s) : t[i] = s[i]
      /\ t[Len(s) + 1] = d
  OBVIOUS
<1> HIDE DEF t
<1>2. \A i \in DOMAIN t : i \in DOMAIN s \/ i = Len(s) + 1
  BY <1>1
<1>3. \A i \in DOMAIN s : s[i] # d
  BY DEF Range
<1>4. IsInjective(t)
  BY <1>1, <1>2, <1>3 DEF IsInjective
<1>5. Range(t) = Range(s) \union {d}
  BY <1>1, <1>2 DEF Range
<1> QED
  BY <1>4, <1>5 DEF t

\* Dropping the head.
LEMMA TailKeepsInjective ==
  ASSUME NEW S, NEW s \in Seq(S), IsInjective(s), s # <<>>
  PROVE  /\ IsInjective(Tail(s))
         /\ Range(Tail(s)) = Range(s) \ {Head(s)}
         /\ Head(s) \in Range(s)
<1> DEFINE t == Tail(s)
<1>1. /\ Len(s) \in Nat /\ Len(s) >= 1 /\ DOMAIN s = 1 .. Len(s)
      /\ DOMAIN t = 1 .. Len(s) - 1
      /\ \A i \in DOMAIN t : t[i] = s[i + 1]
      /\ Head(s) = s[1]
  OBVIOUS
<1> HIDE DEF t
<1>2. \A i \in DOMAIN t : i + 1 \in DOMAIN s /\ i + 1 # 1
  BY <1>1
<1>3. \A j \in DOMAIN s : j = 1 \/ (j - 1 \in DOMAIN t /\ t[j - 1] = s[j])
  BY <1>1
<1>4. IsInjective(t)
  <2> SUFFICES ASSUME NEW i \in DOMAIN t, NEW j \in DOMAIN t, t[i] = t[j]
               PROVE  i = j
    BY DEF IsInjective
  <2>1. i + 1 = j + 1
    BY <1>1, <1>2 DEF IsInjective
  <2> QED
    BY <1>1, <2>1
<1>5. \A j \in DOMAIN s : j # 1 => s[j] # s[1]
  BY <1>1 DEF IsInjective
<1>6. Range(t) \subseteq Range(s) \ {Head(s)}
  BY <1>1, <1>2, <1>5 DEF Range
<1>7. Range(s) \ {Head(s)} \subseteq Range(t)
  BY <1>1, <1>3 DEF Range
<1>8. Head(s) \in Range(s)
  BY <1>1 DEF Range
<1> QED
  BY <1>4, <1>6, <1>7, <1>8 DEF t

\* Cutting a slice in two.
LEMMA HalvesKeepInjective ==
  ASSUME NEW s \in Seq(Deliveries), Len(s) > 1, IsInjective(s)
  PROVE  LET a == SubSeq(s, 1, Midpoint(s))
             b == SubSeq(s, Midpoint(s) + 1, Len(s))
         IN /\ IsInjective(a) /\ IsInjective(b)
            /\ Range(a) \intersect Range(b) = {}
            /\ Range(a) \union Range(b) = Range(s)
<1> DEFINE m == Midpoint(s)
           a == SubSeq(s, 1, m)
           b == SubSeq(s, m + 1, Len(s))
<1>1. Len(s) \in Nat /\ DOMAIN s = 1 .. Len(s) /\ m \in 1 .. Len(s) - 1
  BY HalvesType
<1> HIDE DEF m
<1>2. DOMAIN a = 1 .. m /\ \A i \in 1 .. m : a[i] = s[i]
  BY <1>1
<1>3. DOMAIN b = 1 .. Len(s) - m /\ \A i \in 1 .. Len(s) - m : b[i] = s[i + m]
  BY <1>1
<1>4. \A i \in 1 .. m : i \in DOMAIN s
  BY <1>1
<1>5. \A i \in 1 .. Len(s) - m : i + m \in DOMAIN s /\ i + m > m
  BY <1>1
<1>6. \A j \in DOMAIN s : j \in 1 .. m \/ (j - m \in 1 .. Len(s) - m /\ (j - m) + m = j)
  BY <1>1
<1> HIDE DEF a, b
<1>7. IsInjective(a)
  BY <1>2, <1>4 DEF IsInjective
<1>8. IsInjective(b)
  <2> SUFFICES ASSUME NEW i \in DOMAIN b, NEW j \in DOMAIN b, b[i] = b[j]
               PROVE  i = j
    BY DEF IsInjective
  <2>1. i + m = j + m
    BY <1>3, <1>5 DEF IsInjective
  <2> QED
    BY <1>1, <1>3, <2>1
<1>9. Range(a) \intersect Range(b) = {}
  <2> SUFFICES ASSUME NEW i \in DOMAIN a, NEW j \in DOMAIN b, a[i] = b[j]
               PROVE  FALSE
    BY DEF Range
  <2>1. i = j + m
    BY <1>2, <1>3, <1>4, <1>5 DEF IsInjective
  <2> QED
    BY <1>1, <1>2, <1>3, <1>5, <2>1
<1>10. Range(a) \union Range(b) = Range(s)
  <2>1. Range(a) \subseteq Range(s) /\ Range(b) \subseteq Range(s)
    BY <1>2, <1>3, <1>4, <1>5 DEF Range
  <2>2. \A j \in DOMAIN s : s[j] \in Range(a) \union Range(b)
    BY <1>2, <1>3, <1>6 DEF Range
  <2> QED
    BY <2>1, <2>2 DEF Range
<1> QED
  BY <1>7, <1>8, <1>9, <1>10 DEF a, b, m

-----------------------------------------------------------------------------
(* Where the deliveries of the process are.                                *)

HeldSet == buffer \union fetched \union InPending \union InWork \union InSettling

PlacesApart ==
  /\ buffer \intersect fetched = {}
  /\ buffer \intersect InPending = {}
  /\ buffer \intersect InWork = {}
  /\ buffer \intersect InSettling = {}
  /\ fetched \intersect InPending = {}
  /\ fetched \intersect InWork = {}
  /\ fetched \intersect InSettling = {}
  /\ InPending \intersect InWork = {}
  /\ InPending \intersect InSettling = {}
  /\ InWork \intersect InSettling = {}

PendingApart ==
  /\ \A g \in Groups : IsInjective(pending[g])
  /\ \A g, h \in Groups :
       g # h => Range(pending[g]) \intersect Range(pending[h]) = {}

WorkApart ==
  /\ \A k \in DOMAIN work : IsInjective(work[k])
  /\ \A k, l \in DOMAIN work :
       k # l => Range(work[k]) \intersect Range(work[l]) = {}

\* The broker waits for the settlement of every live delivery.
HeldAwaited == \A d \in HeldSet : Live(d) => d.msg \in unacked \ acking

\* No delivery comes from a connection that is not open yet.
HeldKnown == \A d \in HeldSet : d \in Deliveries /\ d.epoch <= epoch

\* The broker keeps a message in one state.
BrokerApart ==
  /\ ready \intersect unacked = {}
  /\ acking \subseteq unacked
  /\ ready \union unacked \subseteq published

NoStraySettling == pc # "settle" => settling = <<>>

OnceInv ==
  /\ TypeInv
  /\ PlacesApart
  /\ PendingApart
  /\ WorkApart
  /\ IsInjective(settling)
  /\ HeldAwaited
  /\ HeldKnown
  /\ BrokerApart
  /\ NoStraySettling

\* The five places, one by one.
LEMMA HeldIsHeldSet == Held = HeldSet
<1>1. DOMAIN Places = 1 .. 5
  BY DEF Places
<1>2. Range(Places) = {buffer, fetched, InPending, InWork, InSettling}
  <2>1. /\ Places[1] = buffer /\ Places[2] = fetched /\ Places[3] = InPending
        /\ Places[4] = InWork /\ Places[5] = InSettling
    BY DEF Places
  <2>2. \A i \in 1 .. 5 : i = 1 \/ i = 2 \/ i = 3 \/ i = 4 \/ i = 5
    OBVIOUS
  <2> QED
    BY <1>1, <2>1, <2>2 DEF Range
<1> QED
  BY <1>2 DEF Held, HeldSet

LEMMA PlacesApartIsDisjoint ==
  PlacesApart =>
    \A i, j \in DOMAIN Places : i # j => Places[i] \intersect Places[j] = {}
<1> SUFFICES ASSUME PlacesApart, NEW i \in DOMAIN Places, NEW j \in DOMAIN Places,
                    i # j
             PROVE  Places[i] \intersect Places[j] = {}
  OBVIOUS
<1>1. i \in 1 .. 5 /\ j \in 1 .. 5
  BY DEF Places
<1>2. /\ Places[1] = buffer /\ Places[2] = fetched /\ Places[3] = InPending
      /\ Places[4] = InWork /\ Places[5] = InSettling
  BY DEF Places
<1>3. /\ i = 1 \/ i = 2 \/ i = 3 \/ i = 4 \/ i = 5
      /\ j = 1 \/ j = 2 \/ j = 3 \/ j = 4 \/ j = 5
  BY <1>1
<1> QED
  BY <1>2, <1>3 DEF PlacesApart

\* The property of the runs follows from the invariant.
LEMMA OnceInvSettledAtMostOnce == OnceInv => SettledAtMostOnce
BY PlacesApartIsDisjoint, HeldIsHeldSet
DEF OnceInv, SettledAtMostOnce, PendingApart, WorkApart, HeldAwaited

\* A delivery is its message and its connection.
LEMMA SameDelivery ==
  ASSUME NEW d \in Deliveries, NEW e \in Deliveries,
         d.msg = e.msg, d.epoch = e.epoch
  PROVE  d = e
BY DEF Deliveries

\* The deliveries in every place are deliveries.
LEMMA PlacesType ==
  ASSUME TypeOK
  PROVE  /\ InPending \subseteq Deliveries
         /\ InWork \subseteq Deliveries
         /\ InSettling \subseteq Deliveries
         /\ HeldSet \subseteq Deliveries
<1>1. \A g \in Groups : Range(pending[g]) \subseteq Deliveries
  BY RangeOfSeq DEF TypeOK
<1>2. \A k \in DOMAIN work : Range(work[k]) \subseteq Deliveries
  <2>1. \A k \in DOMAIN work : work[k] \in Seq(Deliveries)
    BY DEF TypeOK
  <2> QED
    BY <2>1, RangeOfSeq
<1>3. Range(settling) \subseteq Deliveries
  BY RangeOfSeq DEF TypeOK
<1> QED
  BY <1>1, <1>2, <1>3 DEF InPending, InWork, InSettling, HeldSet, TypeOK

-----------------------------------------------------------------------------
(* How the operations move deliveries.                                     *)

\* Nothing is in an empty list.
LEMMA EmptyRange == Range(<<>>) = {} /\ IsInjective(<<>>)
BY DEF Range, IsInjective

LEMMA SingletonRange ==
  ASSUME NEW d
  PROVE  Range(<<d>>) = {d} /\ IsInjective(<<d>>)
BY DEF Range, IsInjective

LEMMA PendingAppend ==
  ASSUME TypeOK, PendingApart, NEW g \in Groups, NEW d \in Deliveries,
         d \notin InPending,
         pending' = [pending EXCEPT ![g] = Append(@, d)]
  PROVE  PendingApart' /\ InPending' = InPending \union {d}
<1>1. \A h \in Groups : h # g => pending'[h] = pending[h]
  BY DEF TypeOK
<1>2. pending'[g] = Append(pending[g], d) /\ pending[g] \in Seq(Deliveries)
  BY DEF TypeOK
<1>3. \A h \in Groups : Range(pending[h]) \subseteq InPending
  BY DEF InPending
<1>4. IsInjective(pending'[g]) /\ Range(pending'[g]) = Range(pending[g]) \union {d}
  BY <1>2, <1>3, AppendKeepsInjective DEF PendingApart
<1>5. PendingApart'
  <2>1. \A h \in Groups : IsInjective(pending'[h])
    BY <1>1, <1>4 DEF PendingApart
  <2>2. \A h \in Groups : h # g => d \notin Range(pending[h])
    BY <1>3
  <2>3. \A h \in Groups : h # g =>
          Range(pending'[h]) \intersect Range(pending'[g]) = {}
    BY <1>1, <1>4, <2>2 DEF PendingApart
  <2>4. \A h, k \in Groups : h # g /\ k # g /\ h # k =>
          Range(pending'[h]) \intersect Range(pending'[k]) = {}
    BY <1>1 DEF PendingApart
  <2> QED
    BY <2>1, <2>3, <2>4 DEF PendingApart
<1>6. InPending' = InPending \union {d}
  BY <1>1, <1>4 DEF InPending
<1> QED
  BY <1>5, <1>6

LEMMA PendingPop ==
  ASSUME TypeOK, PendingApart, NEW g \in Groups,
         pending' = [pending EXCEPT ![g] = <<>>]
  PROVE  /\ PendingApart'
         /\ InPending' = InPending \ Range(pending[g])
         /\ Range(pending[g]) \subseteq InPending
<1>1. \A h \in Groups : h # g => pending'[h] = pending[h]
  BY DEF TypeOK
<1>2. Range(pending'[g]) = {} /\ IsInjective(pending'[g])
  BY EmptyRange DEF TypeOK
<1>3. PendingApart'
  BY <1>1, <1>2 DEF PendingApart
<1>4. InPending' = InPending \ Range(pending[g])
  BY <1>1, <1>2 DEF InPending, PendingApart
<1> QED
  BY <1>3, <1>4 DEF InPending

LEMMA WorkTail ==
  ASSUME TypeOK, WorkApart, work # <<>>, work' = Tail(work)
  PROVE  /\ WorkApart'
         /\ InWork' = InWork \ Range(Head(work))
         /\ Range(Head(work)) \subseteq InWork
         /\ IsInjective(Head(work))
<1>1. /\ Len(work) \in Nat /\ Len(work) >= 1 /\ DOMAIN work = 1 .. Len(work)
      /\ DOMAIN work' = 1 .. Len(work) - 1
      /\ \A k \in DOMAIN work' : work'[k] = work[k + 1]
      /\ Head(work) = work[1]
  BY DEF TypeOK
<1>2. \A k \in DOMAIN work' : k + 1 \in DOMAIN work /\ k + 1 # 1
  BY <1>1
<1>3. \A k \in DOMAIN work : k = 1 \/ (k - 1 \in DOMAIN work' /\ work'[k - 1] = work[k])
  BY <1>1
<1>4. \A k, l \in DOMAIN work' : k # l => k + 1 # l + 1
  BY <1>1
<1>5. WorkApart'
  BY <1>1, <1>2, <1>4 DEF WorkApart
<1>6. InWork' \subseteq InWork \ Range(Head(work))
  BY <1>1, <1>2 DEF InWork, WorkApart
<1>7. InWork \ Range(Head(work)) \subseteq InWork'
  BY <1>1, <1>3 DEF InWork
<1> QED
  BY <1>1, <1>5, <1>6, <1>7 DEF InWork, WorkApart

LEMMA WorkSplit ==
  ASSUME TypeInv, WorkApart, SplitSlice
  PROVE  WorkApart' /\ InWork' = InWork
<1> DEFINE s == Head(work)
           a == SubSeq(s, 1, Midpoint(s))
           b == SubSeq(s, Midpoint(s) + 1, Len(s))
           n == Len(work)
<1>1. work # <<>> /\ work' = <<a, b>> \o Tail(work)
  BY DEF SplitSlice, TypeInv, SliceLeft
<1>2. /\ n \in Nat /\ n >= 1 /\ DOMAIN work = 1 .. n /\ s = work[1]
      /\ 1 \in DOMAIN work /\ s \in Seq(Deliveries)
  BY <1>1 DEF TypeInv, TypeOK
<1>3. Tail(work) \in Seq(Seq(Deliveries)) /\ Len(Tail(work)) = n - 1
      /\ \A k \in 1 .. n - 1 : Tail(work)[k] = work[k + 1]
  BY <1>1, <1>2 DEF TypeInv, TypeOK
<1>4. /\ IsInjective(a) /\ IsInjective(b)
      /\ Range(a) \intersect Range(b) = {}
      /\ Range(a) \union Range(b) = Range(s)
  BY <1>2, HalvesKeepInjective DEF SplitSlice, WorkApart
<1>5. a \in Seq(Deliveries) /\ b \in Seq(Deliveries)
  BY <1>2, HalvesType DEF SplitSlice
<1> HIDE DEF a, b, s, n
<1>6. /\ DOMAIN work' = 1 .. n + 1
      /\ work'[1] = a /\ work'[2] = b
      /\ \A k \in 3 .. n + 1 : work'[k] = work[k - 1]
  <2>1. <<a, b>> \in Seq(Seq(Deliveries)) /\ Len(<<a, b>>) = 2
        /\ <<a, b>>[1] = a /\ <<a, b>>[2] = b
    BY <1>5
  <2>2. Len(work') = n + 1 /\ work' \in Seq(Seq(Deliveries))
    BY <1>1, <1>2, <1>3, <2>1, ConcatProperties
  <2>3. \A k \in 3 .. n + 1 : work'[k] = Tail(work)[k - 2]
    BY <1>1, <1>2, <1>3, <2>1, ConcatProperties
  <2>4. \A k \in 3 .. n + 1 : k - 2 \in 1 .. n - 1 /\ (k - 2) + 1 = k - 1
    BY <1>2
  <2>5. work'[1] = a /\ work'[2] = b
    BY <1>1, <1>2, <1>3, <2>1, ConcatProperties
  <2> QED
    BY <1>3, <2>2, <2>3, <2>4, <2>5
<1>7. \A k \in DOMAIN work' : k = 1 \/ k = 2 \/ k \in 3 .. n + 1
  BY <1>2, <1>6
<1>8. \A k \in 3 .. n + 1 : k - 1 \in DOMAIN work /\ k - 1 # 1
  BY <1>2
<1>9. \A k, l \in 3 .. n + 1 : k # l => k - 1 # l - 1
  BY <1>2
<1>10. \A k \in DOMAIN work : k = 1 \/ (k + 1 \in 3 .. n + 1 /\ (k + 1) - 1 = k)
  BY <1>2
<1>11. \A k \in 3 .. n + 1 : Range(work'[k]) \intersect Range(s) = {}
  BY <1>2, <1>6, <1>8 DEF WorkApart
<1>12. \A k \in DOMAIN work' : IsInjective(work'[k])
  BY <1>4, <1>6, <1>7, <1>8 DEF WorkApart
<1>13. ASSUME NEW k \in DOMAIN work', NEW l \in DOMAIN work', k # l
       PROVE  Range(work'[k]) \intersect Range(work'[l]) = {}
  <2>1. CASE k \in 3 .. n + 1 /\ l \in 3 .. n + 1
    BY <1>6, <1>8, <1>9, <1>13, <2>1 DEF WorkApart
  <2>2. CASE k \notin 3 .. n + 1 /\ l \in 3 .. n + 1
    BY <1>4, <1>6, <1>7, <1>11, <2>2
  <2>3. CASE k \in 3 .. n + 1 /\ l \notin 3 .. n + 1
    BY <1>4, <1>6, <1>7, <1>11, <2>3
  <2>4. CASE k \notin 3 .. n + 1 /\ l \notin 3 .. n + 1
    BY <1>4, <1>6, <1>7, <1>13, <2>4
  <2> QED
    BY <2>1, <2>2, <2>3, <2>4
<1>14. WorkApart'
  BY <1>12, <1>13 DEF WorkApart
<1>15. InWork' \subseteq InWork
  BY <1>2, <1>4, <1>6, <1>7, <1>8 DEF InWork
<1>16. InWork \subseteq InWork'
  <2>1. 1 \in DOMAIN work' /\ 2 \in DOMAIN work' /\ 3 .. n + 1 \subseteq DOMAIN work'
    BY <1>2, <1>6
  <2>2. Range(s) \subseteq InWork'
    BY <1>4, <1>6, <2>1 DEF InWork
  <2>3. \A k \in DOMAIN work : k # 1 => Range(work[k]) \subseteq InWork'
    BY <1>6, <1>10, <2>1 DEF InWork
  <2> QED
    BY <1>2, <2>2, <2>3 DEF InWork
<1> QED
  BY <1>14, <1>15, <1>16

-----------------------------------------------------------------------------
(* Every step keeps OnceInv.                                               *)

\* What the invariant says beside the types.
Once ==
  /\ PlacesApart /\ PendingApart /\ WorkApart /\ IsInjective(settling)
  /\ HeldAwaited /\ HeldKnown /\ BrokerApart /\ NoStraySettling

\* A step that moves no delivery and leaves the broker alone.
LEMMA OnceFrame ==
  ASSUME OnceInv,
         UNCHANGED <<buffer, fetched, pending, work, settling, brokerVars>>,
         NoStraySettling'
  PROVE  Once'
BY DEF OnceInv, Once, PlacesApart, PendingApart, WorkApart, HeldAwaited,
       HeldKnown, BrokerApart, HeldSet, InPending, InWork, InSettling, Live,
       brokerVars

\* Fewer deliveries held, the same broker.
LEMMA HeldShrinks ==
  ASSUME OnceInv, HeldSet' \subseteq HeldSet, UNCHANGED <<unacked, acking, epoch>>
  PROVE  HeldAwaited' /\ HeldKnown'
BY DEF OnceInv, HeldAwaited, HeldKnown, Live

\* The same broker.
LEMMA BrokerFrame ==
  ASSUME OnceInv, UNCHANGED brokerVars
  PROVE  BrokerApart'
BY DEF OnceInv, BrokerApart, brokerVars

\* An abandoned flush.
LEMMA OnceRaise ==
  ASSUME OnceInv, Raise, UNCHANGED <<brokerVars, fetchVars, batchVars>>
  PROVE  Once'
<1> USE DEF brokerVars, fetchVars, batchVars
<1>1. InWork' = {} /\ InSettling' = {} /\ WorkApart' /\ IsInjective(settling')
  BY EmptyRange DEF Raise, InWork, InSettling, WorkApart
<1>2. InPending' = InPending /\ PendingApart'
  BY DEF InPending, PendingApart, OnceInv
<1>3. PlacesApart'
  BY <1>1, <1>2 DEF OnceInv, PlacesApart
<1>4. HeldAwaited' /\ HeldKnown'
  BY <1>1, <1>2, HeldShrinks DEF HeldSet
<1> QED
  BY <1>1, <1>2, <1>3, <1>4, BrokerFrame DEF Once, NoStraySettling, Raise

\* A process that is gone holds nothing.
LEMMA OnceForget ==
  ASSUME ForgetMemory, BrokerApart'
  PROVE  Once'
<1>1. /\ InPending' = {} /\ InWork' = {} /\ InSettling' = {}
      /\ buffer' = {} /\ fetched' = {}
  BY EmptyRange DEF ForgetMemory, InPending, InWork, InSettling
<1>2. PendingApart' /\ WorkApart' /\ IsInjective(settling')
  BY EmptyRange DEF ForgetMemory, PendingApart, WorkApart
<1>3. HeldSet' = {}
  BY <1>1 DEF HeldSet
<1> QED
  BY <1>1, <1>2, <1>3
  DEF Once, PlacesApart, HeldAwaited, HeldKnown, NoStraySettling, ForgetMemory

\* Taking the first slice of work to be settled.
LEMMA OnceSettleSlice ==
  ASSUME OnceInv, work # <<>>, pc # "settle", NEW v, SettleSlice(v),
         UNCHANGED <<brokerVars, fetchVars, batchVars>>
  PROVE  Once'
<1> USE DEF brokerVars, fetchVars, batchVars
<1>1. /\ WorkApart'
      /\ InWork' = InWork \ Range(Head(work))
      /\ Range(Head(work)) \subseteq InWork
      /\ IsInjective(Head(work))
  BY WorkTail DEF OnceInv, TypeInv, SettleSlice
<1>2. InSettling' = Range(Head(work)) /\ IsInjective(settling')
  BY <1>1 DEF InSettling, SettleSlice
<1>3. InPending' = InPending /\ PendingApart'
  BY DEF InPending, PendingApart, OnceInv
<1>4. PlacesApart'
  BY <1>1, <1>2, <1>3 DEF OnceInv, PlacesApart
<1>5. HeldAwaited' /\ HeldKnown'
  BY <1>1, <1>2, <1>3, HeldShrinks DEF HeldSet
<1> QED
  BY <1>1, <1>2, <1>3, <1>4, <1>5, BrokerFrame DEF Once, NoStraySettling, SettleSlice

LEMMA OnceInit == Init => OnceInv
<1> SUFFICES ASSUME Init PROVE OnceInv
  OBVIOUS
<1>1. /\ InPending = {} /\ InWork = {} /\ InSettling = {}
      /\ buffer = {} /\ fetched = {}
  BY EmptyRange DEF Init, InPending, InWork, InSettling
<1>2. PendingApart /\ WorkApart /\ IsInjective(settling)
  BY EmptyRange DEF Init, PendingApart, WorkApart
<1>3. HeldSet = {}
  BY <1>1 DEF HeldSet
<1> QED
  BY <1>1, <1>2, <1>3, TypeInit
  DEF OnceInv, PlacesApart, HeldAwaited, HeldKnown, BrokerApart,
      NoStraySettling, Init

LEMMA OnceBroker == OnceInv /\ Broker => Once'
<1> SUFFICES ASSUME OnceInv, Broker PROVE Once'
  OBVIOUS
<1> USE DEF sinkVars, fetchVars, batchVars, flushVars, backoffVars, brokerVars
<1>1. ASSUME NEW m \in Messages, Publish(m) PROVE Once'
  <2>1. BrokerApart'
    BY <1>1 DEF Publish, OnceInv, BrokerApart
  <2>2. HeldSet' = HeldSet /\ PlacesApart' /\ PendingApart' /\ WorkApart'
    BY <1>1 DEF Publish, OnceInv, HeldSet, PlacesApart, PendingApart, WorkApart,
                InPending, InWork, InSettling
  <2>3. HeldAwaited' /\ HeldKnown'
    BY <1>1, <2>2, HeldShrinks DEF Publish
  <2> QED
    BY <1>1, <2>1, <2>2, <2>3 DEF Publish, Once, OnceInv, NoStraySettling
<1>2. ASSUME NEW m \in Messages, Deliver(m) PROVE Once'
  <2> DEFINE d == [msg |-> m, epoch |-> epoch]
  <2>1. d \in Deliveries /\ Live(d) /\ d.msg = m /\ d.epoch = epoch /\ epoch \in Nat
    BY DEF Deliveries, Live, OnceInv, TypeInv, TypeOK
  <2>2. m \notin unacked /\ m \notin acking
    BY <1>2 DEF Deliver, OnceInv, BrokerApart
  <2> HIDE DEF d
  <2>3. d \notin HeldSet
    BY <2>1, <2>2 DEF OnceInv, HeldAwaited
  <2>4. buffer' = buffer \union {d}
    BY <1>2 DEF Deliver, d
  <2>5. /\ InPending' = InPending /\ InWork' = InWork /\ InSettling' = InSettling
        /\ fetched' = fetched /\ PendingApart' /\ WorkApart'
        /\ IsInjective(settling')
    BY <1>2 DEF Deliver, OnceInv, PendingApart, WorkApart, InPending, InWork,
                InSettling
  <2>6. PlacesApart'
    BY <2>3, <2>4, <2>5 DEF OnceInv, PlacesApart, HeldSet
  <2>7. HeldSet' = HeldSet \union {d}
    BY <2>4, <2>5 DEF HeldSet
  <2>8. epoch' = epoch /\ acking' = acking /\ unacked' = unacked \union {m}
    BY <1>2 DEF Deliver
  <2>9. HeldAwaited'
    BY <2>1, <2>2, <2>7, <2>8 DEF OnceInv, HeldAwaited, Live
  <2>10. HeldKnown'
    BY <2>1, <2>7, <2>8 DEF OnceInv, HeldKnown
  <2>11. BrokerApart'
    BY <1>2 DEF Deliver, OnceInv, BrokerApart
  <2> QED
    BY <1>2, <2>5, <2>6, <2>9, <2>10, <2>11 DEF Deliver, Once, OnceInv, NoStraySettling
<1>3. ASSUME NEW m \in Messages, ProcessAck(m) PROVE Once'
  <2>1. BrokerApart'
    BY <1>3 DEF ProcessAck, OnceInv, BrokerApart
  <2>2. HeldSet' = HeldSet /\ PlacesApart' /\ PendingApart' /\ WorkApart'
    BY <1>3 DEF ProcessAck, OnceInv, HeldSet, PlacesApart, PendingApart,
                WorkApart, InPending, InWork, InSettling
  <2>3. unacked' \ acking' = unacked \ acking /\ epoch' = epoch
    BY <1>3 DEF ProcessAck
  <2>4. HeldAwaited' /\ HeldKnown'
    BY <2>2, <2>3 DEF OnceInv, HeldAwaited, HeldKnown, Live
  <2> QED
    BY <1>3, <2>1, <2>2, <2>4 DEF ProcessAck, Once, OnceInv, NoStraySettling
<1>4. ASSUME NEW d \in buffer, CompleteTask(d) PROVE Once'
  <2>1. /\ InPending' = InPending /\ InWork' = InWork /\ InSettling' = InSettling
        /\ PendingApart' /\ WorkApart' /\ IsInjective(settling')
    BY <1>4 DEF CompleteTask, OnceInv, PendingApart, WorkApart, InPending,
                InWork, InSettling
  <2>2. PlacesApart'
    BY <1>4, <2>1 DEF CompleteTask, OnceInv, PlacesApart
  <2>3. HeldAwaited' /\ HeldKnown'
    BY <1>4, <2>1, HeldShrinks DEF CompleteTask, HeldSet
  <2> QED
    BY <1>4, <2>1, <2>2, <2>3, BrokerFrame
    DEF CompleteTask, Once, OnceInv, NoStraySettling
<1> QED
  BY <1>1, <1>2, <1>3, <1>4 DEF Broker

LEMMA OnceLoop == OnceInv /\ Loop => Once'
<1> SUFFICES ASSUME OnceInv, Loop PROVE Once'
  OBVIOUS
<1> USE DEF sinkVars, fetchVars, batchVars, flushVars, backoffVars, brokerVars
<1>1. CASE StartWait \/ StartBackoff \/ EndBackoff \/ TimeOut
  BY <1>1, OnceFrame DEF StartWait, StartBackoff, EndBackoff, TimeOut, OnceInv,
                         NoStraySettling
<1>2. CASE OverflowBackoff \/ FailIteration
  BY <1>2, OnceRaise DEF OverflowBackoff, FailIteration
<1>3. ASSUME NEW d \in fetched, DropMessage(d) PROVE Once'
  <2>1. fetched' = {} /\ buffer' = buffer /\ settling' = <<d>>
    BY <1>3 DEF DropMessage, TakeMessage
  <2>2. /\ InPending' = InPending /\ InWork' = InWork
        /\ PendingApart' /\ WorkApart'
    BY <1>3 DEF DropMessage, TakeMessage, OnceInv, PendingApart, WorkApart,
                InPending, InWork
  <2>3. InSettling' = {d} /\ IsInjective(settling')
    BY <2>1, SingletonRange DEF InSettling
  <2>4. PlacesApart'
    BY <2>1, <2>2, <2>3 DEF OnceInv, PlacesApart
  <2>5. UNCHANGED brokerVars
    BY <1>3 DEF DropMessage, TakeMessage
  <2>6. HeldAwaited' /\ HeldKnown'
    BY <2>1, <2>2, <2>3, <2>5, HeldShrinks DEF HeldSet
  <2> QED
    BY <1>3, <2>2, <2>3, <2>4, <2>5, <2>6, BrokerFrame
    DEF Once, NoStraySettling, DropMessage
<1>4. ASSUME NEW d \in fetched, BufferMessage(d) PROVE Once'
  <2> DEFINE g == GroupOf[d.msg]
  <2>1. d \in Deliveries /\ d.msg \in Messages /\ g \in Groups
    BY BatchWorkerAssumption DEF OnceInv, TypeInv, TypeOK, Deliveries
  <2>2. d \notin InPending
    BY DEF OnceInv, PlacesApart
  <2>3. pending' = [pending EXCEPT ![g] = Append(@, d)]
    BY <1>4 DEF BufferMessage
  <2>4. PendingApart' /\ InPending' = InPending \union {d}
    BY <2>1, <2>2, <2>3, PendingAppend DEF OnceInv, TypeInv
  <2>5. /\ fetched' = {} /\ buffer' = buffer
        /\ InWork' = InWork /\ InSettling' = InSettling
        /\ WorkApart' /\ IsInjective(settling') /\ UNCHANGED brokerVars
        /\ settling' = settling /\ pc # "settle"
    BY <1>4 DEF BufferMessage, TakeMessage, OnceInv, WorkApart, InWork, InSettling
  <2>6. PlacesApart'
    BY <2>4, <2>5 DEF OnceInv, PlacesApart
  <2>7. HeldAwaited' /\ HeldKnown'
    BY <2>4, <2>5, HeldShrinks DEF HeldSet
  <2>8. NoStraySettling'
    BY <2>5 DEF OnceInv, NoStraySettling
  <2> QED
    BY <2>4, <2>5, <2>6, <2>7, <2>8, BrokerFrame DEF Once
<1> QED
  BY <1>1, <1>2, <1>3, <1>4 DEF Loop

LEMMA OnceFlush == OnceInv /\ Flush => Once'
<1> SUFFICES ASSUME OnceInv, Flush PROVE Once'
  OBVIOUS
<1> USE DEF sinkVars, fetchVars, batchVars, flushVars, backoffVars, brokerVars
<1>1. ASSUME NEW g \in Groups, FlushTableGroup(g) PROVE Once'
  <2>1. pending' = [pending EXCEPT ![g] = <<>>] /\ pc = "flush"
    BY <1>1 DEF FlushTableGroup
  <2>2. /\ PendingApart'
        /\ InPending' = InPending \ Range(pending[g])
        /\ Range(pending[g]) \subseteq InPending
    BY <2>1, PendingPop DEF OnceInv, TypeInv
  <2>3. work' = <<pending[g]>> /\ settling' = <<>> /\ UNCHANGED <<buffer, fetched, brokerVars>>
    BY <1>1 DEF FlushTableGroup, OnceInv, NoStraySettling
  <2>4. InWork' = Range(pending[g]) /\ WorkApart'
    BY <2>3 DEF InWork, WorkApart, OnceInv, PendingApart
  <2>5. InSettling' = {} /\ IsInjective(settling')
    BY <2>3, EmptyRange DEF InSettling
  <2>6. PlacesApart'
    BY <2>2, <2>3, <2>4, <2>5 DEF OnceInv, PlacesApart
  <2>7. HeldAwaited' /\ HeldKnown'
    BY <2>2, <2>3, <2>4, <2>5, HeldShrinks DEF HeldSet
  <2> QED
    BY <2>2, <2>3, <2>4, <2>5, <2>6, <2>7, BrokerFrame DEF Once, NoStraySettling
<1>2. ASSUME NEW g \in Groups, RecordFlush(g) PROVE Once'
  BY <1>2, OnceFrame DEF RecordFlush, NoStraySettling
<1>3. CASE EndFlush \/ IsolateMessage \/ NextSlice \/ EndDrop
  BY <1>3, OnceFrame DEF EndFlush, IsolateMessage, NextSlice, EndDrop, OnceInv,
                         NoStraySettling
<1>4. CASE InsertRows \/ PublishFailedMessage
  BY <1>4, OnceSettleSlice DEF InsertRows, PublishFailedMessage, OnceInv,
                               TypeInv, SliceLeft
<1>5. CASE SplitSlice
  <2>1. WorkApart' /\ InWork' = InWork
    BY <1>5, WorkSplit DEF OnceInv
  <2>2. UNCHANGED <<buffer, fetched, pending, settling, brokerVars, pc>>
    BY <1>5 DEF SplitSlice
  <2>3. InPending' = InPending /\ InSettling' = InSettling /\ PendingApart'
    BY <2>2 DEF InPending, InSettling, PendingApart, OnceInv
  <2>4. PlacesApart' /\ HeldSet' = HeldSet
    BY <2>1, <2>2, <2>3 DEF OnceInv, PlacesApart, HeldSet
  <2>5. HeldAwaited' /\ HeldKnown'
    BY <2>2, <2>4, HeldShrinks
  <2> QED
    BY <2>1, <2>2, <2>3, <2>4, <2>5, BrokerFrame
    DEF Once, OnceInv, NoStraySettling
<1>6. CASE SendAck \/ SendNack
  <2> DEFINE d == Head(settling)
  <2>1. /\ settling # <<>> /\ Live(d) /\ settling' = Tail(settling)
        /\ UNCHANGED <<published, buffer, fetched, pending, work, epoch, pc>>
        /\ pc = "settle"
    BY <1>6 DEF SendAck, SendNack
  <2>2. settling \in Seq(Deliveries)
    BY DEF OnceInv, TypeInv, TypeOK
  <2>3. /\ IsInjective(settling')
        /\ InSettling' = InSettling \ {d} /\ d \in InSettling
    BY <2>1, <2>2, TailKeepsInjective DEF OnceInv, InSettling
  <2>4. d \in Deliveries /\ HeldSet \subseteq Deliveries
    BY <2>3, PlacesType DEF OnceInv, TypeInv
  <2> HIDE DEF d
  <2>5. /\ InPending' = InPending /\ InWork' = InWork
        /\ PendingApart' /\ WorkApart'
    BY <2>1 DEF InPending, InWork, PendingApart, WorkApart, OnceInv
  <2>6. PlacesApart'
    BY <2>1, <2>3, <2>5 DEF OnceInv, PlacesApart
  <2>7. HeldSet' = HeldSet \ {d} /\ d \in HeldSet
    BY <2>1, <2>3, <2>5 DEF OnceInv, PlacesApart, HeldSet
  <2>8. d.msg \in unacked \ acking
    BY <2>1, <2>7 DEF OnceInv, HeldAwaited
  <2>9. /\ unacked \ acking \subseteq (unacked' \ acking') \union {d.msg}
        /\ BrokerApart'
    BY <1>6, <2>8 DEF SendAck, SendNack, OnceInv, BrokerApart, d
  <2>10. \A e \in HeldSet' : Live(e) => e.msg # d.msg
    BY <2>1, <2>4, <2>7, SameDelivery DEF Live
  <2>11. HeldAwaited'
    BY <2>1, <2>7, <2>9, <2>10 DEF OnceInv, HeldAwaited, Live
  <2>12. HeldKnown'
    BY <2>1, <2>7 DEF OnceInv, HeldKnown
  <2> QED
    BY <2>1, <2>3, <2>5, <2>6, <2>9, <2>11, <2>12 DEF Once, NoStraySettling
<1>7. CASE FailSettle
  BY <1>7, OnceRaise DEF FailSettle
<1> QED
  BY <1>1, <1>2, <1>3, <1>4, <1>5, <1>6, <1>7 DEF Flush

LEMMA OnceStop == OnceInv /\ Stop => Once'
<1> SUFFICES ASSUME OnceInv, Stop PROVE Once'
  OBVIOUS
<1> USE DEF sinkVars, fetchVars, batchVars, flushVars, backoffVars, brokerVars
<1>1. CASE CloseIterator
  <2> DEFINE returned == {d.msg : d \in {b \in buffer : Live(b)}}
  <2>1. /\ buffer' = {} /\ fetched' = {} /\ settling' = <<>>
        /\ UNCHANGED <<published, acking, epoch, pending, work>>
        /\ unacked' = unacked \ returned /\ ready' = ready \union returned
    BY <1>1 DEF CloseIterator, OnceInv, NoStraySettling
  <2>2. /\ InPending' = InPending /\ InWork' = InWork /\ InSettling' = {}
        /\ PendingApart' /\ WorkApart' /\ IsInjective(settling')
    BY <2>1, EmptyRange
    DEF InPending, InWork, InSettling, PendingApart, WorkApart, OnceInv
  <2>3. PlacesApart'
    BY <2>1, <2>2 DEF OnceInv, PlacesApart
  <2>4. HeldSet' \subseteq HeldSet /\ HeldSet' \intersect buffer = {}
    BY <2>1, <2>2 DEF OnceInv, PlacesApart, HeldSet
  <2>5. buffer \subseteq HeldSet /\ HeldSet \subseteq Deliveries
    BY PlacesType DEF HeldSet, OnceInv, TypeInv
  <2>6. returned \subseteq unacked \ acking
    BY <2>5 DEF OnceInv, HeldAwaited
  <2>7. \A d \in HeldSet' : Live(d) => d.msg \notin returned
    <3> SUFFICES ASSUME NEW d \in HeldSet', Live(d),
                        NEW b \in buffer, Live(b), d.msg = b.msg
                 PROVE  FALSE
      OBVIOUS
    <3>1. d = b
      BY <2>4, <2>5, SameDelivery DEF Live
    <3> QED
      BY <2>4, <3>1
  <2> HIDE DEF returned
  <2>8. HeldAwaited' /\ HeldKnown'
    BY <2>1, <2>4, <2>7 DEF OnceInv, HeldAwaited, HeldKnown, Live
  <2>9. BrokerApart'
    BY <2>1, <2>6 DEF OnceInv, BrokerApart
  <2> QED
    BY <2>1, <2>2, <2>3, <2>8, <2>9 DEF Once, NoStraySettling
<1>2. CASE CloseChannel
  <2>1. BrokerApart'
    BY <1>2 DEF CloseChannel, OnceInv, BrokerApart
  <2> QED
    BY <1>2, <2>1, OnceForget DEF CloseChannel
<1> QED
  BY <1>1, <1>2 DEF Stop

LEMMA OnceEnvironment == OnceInv /\ Environment => Once'
<1> SUFFICES ASSUME OnceInv, Environment PROVE Once'
  OBVIOUS
<1> USE DEF sinkVars, fetchVars, batchVars, flushVars, backoffVars, brokerVars
<1>1. CASE FailInsert \/ FailPublish
  BY <1>1, OnceSettleSlice DEF FailInsert, FailPublish, OnceInv, TypeInv,
                               SliceLeft
<1>2. CASE StopIterator
  BY <1>2, OnceFrame DEF StopIterator, OnceInv, NoStraySettling
<1>3. CASE LoseConnection \/ Restart
  <2>1. /\ UNCHANGED <<buffer, fetched, pending, work, settling>>
        /\ epoch' = epoch + 1
    BY <1>3 DEF LoseConnection, Restart
  <2>2. /\ InPending' = InPending /\ InWork' = InWork /\ InSettling' = InSettling
        /\ PendingApart' /\ WorkApart' /\ IsInjective(settling')
    BY <2>1 DEF InPending, InWork, InSettling, PendingApart, WorkApart, OnceInv
  <2>3. PlacesApart' /\ HeldSet' = HeldSet
    BY <2>1, <2>2 DEF OnceInv, PlacesApart, HeldSet
  <2>4. epoch \in Nat /\ \A d \in HeldSet : d.epoch \in Nat /\ d.epoch <= epoch
    BY DEF OnceInv, TypeInv, TypeOK, HeldKnown, Deliveries
  <2>5. HeldAwaited'
    BY <2>1, <2>3, <2>4 DEF HeldAwaited, Live
  <2>6. HeldKnown'
    BY <2>1, <2>3, <2>4 DEF OnceInv, HeldKnown
  <2>7. BrokerApart'
    BY <1>3 DEF LoseConnection, Restart, OnceInv, BrokerApart
  <2>8. NoStraySettling'
    BY <1>3 DEF LoseConnection, Restart, OnceInv, NoStraySettling
  <2> QED
    BY <2>2, <2>3, <2>5, <2>6, <2>7, <2>8 DEF Once
<1>4. CASE Cancel
  BY <1>4, OnceRaise DEF Cancel
<1>5. CASE Kill
  <2>1. BrokerApart'
    BY <1>5 DEF Kill, OnceInv, BrokerApart
  <2> QED
    BY <1>5, <2>1, OnceForget DEF Kill
<1> QED
  BY <1>1, <1>2, <1>3, <1>4, <1>5 DEF Environment

LEMMA OnceStep == OnceInv /\ [Next]_vars => OnceInv'
<1> SUFFICES ASSUME OnceInv, [Next]_vars PROVE OnceInv'
  OBVIOUS
<1>1. CASE Next
  <2>1. TypeInv'
    BY <1>1, TypeBroker, TypeLoop, TypeFlush, TypeStop, TypeEnvironment
    DEF Next, Worker, OnceInv
  <2>2. Once'
    BY <1>1, OnceBroker, OnceLoop, OnceFlush, OnceStop, OnceEnvironment
    DEF Next, Worker
  <2> QED
    BY <2>1, <2>2 DEF OnceInv, Once
<1>2. CASE UNCHANGED vars
  <2>1. TypeInv'
    BY <1>2 DEF OnceInv, TypeInv, TypeOK, SliceLeft, vars, brokerVars, sinkVars,
                fetchVars, batchVars, flushVars, backoffVars
  <2>2. Once'
    BY <1>2, OnceFrame DEF vars, brokerVars, fetchVars, batchVars, flushVars,
                           OnceInv, NoStraySettling
  <2> QED
    BY <2>1, <2>2 DEF OnceInv, Once
<1> QED
  BY <1>1, <1>2

\* No delivery is settled twice, whatever the faults.
THEOREM SettledOnce == Spec => []SettledAtMostOnce
<1>1. Init => OnceInv
  BY OnceInit
<1>2. OnceInv /\ [Next]_vars => OnceInv'
  BY OnceStep
<1>3. OnceInv => SettledAtMostOnce
  BY OnceInvSettledAtMostOnce
<1> QED
  BY <1>1, <1>2, <1>3, PTL DEF Spec

-----------------------------------------------------------------------------
(* Exactly once, as long as there is no fault.  Then no delivery is old,   *)
(* no flush fails and the loop is never left, so that nothing goes back to *)
(* the queue; a message that is inserted is in one place only, which is    *)
(* left in the same step.                                                  *)

Sunk == stored \union failed

\* The deliveries that may still be inserted.
ToInsert == InWork \union InPending \union buffer \union fetched

FaultFree ==
  faults = 0 =>
    /\ epoch = 0
    /\ mode = "running"
    /\ pc \notin {"unwind", "close", "down"}
    /\ task # "stopped"
    /\ succeeded
    /\ verb # "nack"
    /\ \A g \in Groups : failures[g] = 0
    /\ Sunk \subseteq published \ ready
    /\ \A d \in ToInsert : d.msg \notin Sunk

FaultFreeInv == OnceInv /\ FaultFree

LEMMA FaultFreeInit == Init => FaultFreeInv
<1> SUFFICES ASSUME Init PROVE FaultFreeInv
  OBVIOUS
<1>1. InPending = {} /\ InWork = {} /\ buffer = {} /\ fetched = {}
  BY EmptyRange DEF Init, InPending, InWork
<1> QED
  BY <1>1, OnceInit DEF Init, FaultFreeInv, FaultFree, ToInsert, Sunk

\* Without a fault every delivery the process holds is live, so the broker has
\* its message and waits for it to be settled.
LEMMA FaultFreeHeld ==
  ASSUME FaultFreeInv, faults = 0
  PROVE  \A d \in HeldSet : /\ d \in Deliveries
                            /\ d.epoch = 0
                            /\ d.msg \in unacked
                            /\ d.msg \in published \ ready
<1>1. epoch = 0 /\ \A d \in HeldSet : d \in Deliveries /\ d.epoch <= epoch
  BY DEF FaultFreeInv, FaultFree, OnceInv, HeldKnown
<1>2. \A d \in HeldSet : d.epoch \in Nat
  BY <1>1 DEF Deliveries
<1>3. \A d \in HeldSet : Live(d)
  BY <1>1, <1>2 DEF Live
<1> QED
  BY <1>1, <1>3 DEF FaultFreeInv, OnceInv, HeldAwaited, BrokerApart, Live

\* Two deliveries of one message are one delivery.
LEMMA FaultFreeSame ==
  ASSUME FaultFreeInv, faults = 0, NEW d \in HeldSet, NEW e \in HeldSet,
         d.msg = e.msg
  PROVE  d = e
<1>1. d \in Deliveries /\ e \in Deliveries /\ d.epoch = e.epoch
  BY FaultFreeHeld
<1> QED
  BY <1>1, SameDelivery

\* Settling the first slice, its messages now in ClickHouse or in the failed
\* queue.
LEMMA FaultFreeSettleSlice ==
  ASSUME FaultFreeInv, pc \in {"insert", "publish"}, SettleSlice("ack"),
         UNCHANGED <<brokerVars, mode, fetchVars, batchVars, succeeded,
                     backoffVars, faults>>,
         Sunk' = Sunk \union MsgsOf(Head(work))
  PROVE  FaultFree'
<1> USE DEF brokerVars, fetchVars, batchVars, backoffVars
<1> SUFFICES ASSUME faults = 0 PROVE FaultFree'
  BY DEF FaultFree
<1>1. work # <<>> /\ TypeOK /\ WorkApart
  BY DEF FaultFreeInv, OnceInv, TypeInv, SliceLeft
<1>2. /\ InWork' = InWork \ Range(Head(work))
      /\ Range(Head(work)) \subseteq InWork
  BY <1>1, WorkTail DEF SettleSlice
<1>3. InPending' = InPending
  BY DEF InPending
<1>4. ToInsert' = ToInsert \ Range(Head(work))
  BY <1>2, <1>3 DEF ToInsert, FaultFreeInv, OnceInv, PlacesApart
<1>5. ToInsert \subseteq HeldSet /\ InWork \subseteq HeldSet
  BY DEF ToInsert, HeldSet
<1>6. MsgsOf(Head(work)) = {e.msg : e \in Range(Head(work))}
  BY DEF MsgsOf, Range
<1>7. \A d \in ToInsert' : d.msg \notin MsgsOf(Head(work))
  <2> SUFFICES ASSUME NEW d \in ToInsert', NEW e \in Range(Head(work)), d.msg = e.msg
               PROVE  FALSE
    BY <1>6
  <2>1. d \in HeldSet /\ e \in HeldSet
    BY <1>2, <1>4, <1>5
  <2>2. d = e
    BY <2>1, FaultFreeSame
  <2> QED
    BY <1>4, <2>2
<1>8. MsgsOf(Head(work)) \subseteq published \ ready
  BY <1>2, <1>5, <1>6, FaultFreeHeld
<1>9. \A d \in ToInsert' : d.msg \notin Sunk'
  BY <1>4, <1>7 DEF FaultFreeInv, FaultFree
<1>10. Sunk' \subseteq published' \ ready'
  BY <1>8 DEF FaultFreeInv, FaultFree
<1> QED
  BY <1>9, <1>10 DEF FaultFreeInv, FaultFree, SettleSlice

LEMMA FaultFreeBroker == FaultFreeInv /\ Broker => FaultFree'
<1> SUFFICES ASSUME FaultFreeInv, Broker PROVE FaultFree'
  OBVIOUS
<1> USE DEF sinkVars, fetchVars, batchVars, flushVars, backoffVars, brokerVars
<1>1. ASSUME NEW m \in Messages, Publish(m) PROVE FaultFree'
  <2>1. ToInsert' = ToInsert /\ Sunk' = Sunk
    BY <1>1 DEF Publish, ToInsert, Sunk, InWork, InPending
  <2> QED
    BY <1>1, <2>1 DEF Publish, FaultFreeInv, FaultFree
<1>2. ASSUME NEW m \in Messages, Deliver(m) PROVE FaultFree'
  <2> DEFINE d == [msg |-> m, epoch |-> epoch]
  <2>1. ToInsert' = ToInsert \union {d} /\ Sunk' = Sunk /\ d.msg = m
    BY <1>2 DEF Deliver, ToInsert, Sunk, InWork, InPending
  <2> HIDE DEF d
  <2> QED
    BY <1>2, <2>1 DEF Deliver, FaultFreeInv, FaultFree
<1>3. ASSUME NEW m \in Messages, ProcessAck(m) PROVE FaultFree'
  <2>1. ToInsert' = ToInsert /\ Sunk' = Sunk
    BY <1>3 DEF ProcessAck, ToInsert, Sunk, InWork, InPending
  <2>2. UNCHANGED <<published, ready, epoch, mode, pc, task, succeeded, verb,
                    failures, faults>>
    BY <1>3 DEF ProcessAck
  <2> QED
    BY <2>1, <2>2 DEF FaultFreeInv, FaultFree
<1>4. ASSUME NEW d \in buffer, CompleteTask(d) PROVE FaultFree'
  <2>1. ToInsert' \subseteq ToInsert /\ Sunk' = Sunk
    BY <1>4 DEF CompleteTask, ToInsert, Sunk, InWork, InPending
  <2>2. /\ task' = "done"
        /\ UNCHANGED <<published, ready, epoch, mode, pc, succeeded, verb, failures, faults>>
    BY <1>4 DEF CompleteTask
  <2> QED
    BY <2>1, <2>2 DEF FaultFreeInv, FaultFree
<1> QED
  BY <1>1, <1>2, <1>3, <1>4 DEF Broker

LEMMA FaultFreeLoop == FaultFreeInv /\ Loop => FaultFree'
<1> SUFFICES ASSUME FaultFreeInv, Loop PROVE FaultFree'
  OBVIOUS
<1> USE DEF sinkVars, fetchVars, batchVars, flushVars, backoffVars, brokerVars
<1>1. CASE StartWait \/ StartBackoff \/ EndBackoff \/ TimeOut
  <2>1. ToInsert' = ToInsert /\ Sunk' = Sunk
    BY <1>1 DEF StartWait, StartBackoff, EndBackoff, TimeOut, ToInsert, Sunk,
                InWork, InPending
  <2> QED
    BY <1>1, <2>1 DEF StartWait, StartBackoff, EndBackoff, TimeOut, FetchTask,
                      FaultFreeInv, FaultFree
<1>2. CASE OverflowBackoff
  <2>1. PICK g \in Unapplied : failures[g] - 1 > MaxExponent
    BY <1>2 DEF OverflowBackoff, DelayOverflows
  <2>2. failures[g] # 0
    BY <2>1, BatchWorkerAssumption DEF Unapplied
  <2> QED
    BY <1>2, <2>2 DEF OverflowBackoff, Unapplied, FaultFreeInv, FaultFree
<1>3. CASE FailIteration
  BY <1>3 DEF FailIteration, FaultFreeInv, FaultFree
<1>4. ASSUME NEW d \in fetched, DropMessage(d) PROVE FaultFree'
  <2>1. ToInsert' \subseteq ToInsert /\ Sunk' = Sunk
    BY <1>4 DEF DropMessage, TakeMessage, ToInsert, Sunk, InWork, InPending
  <2> QED
    BY <1>4, <2>1 DEF DropMessage, TakeMessage, FaultFreeInv, FaultFree
<1>5. ASSUME NEW d \in fetched, BufferMessage(d) PROVE FaultFree'
  <2> DEFINE g == GroupOf[d.msg]
  <2>1. d \in Deliveries /\ g \in Groups
    BY BatchWorkerAssumption DEF FaultFreeInv, OnceInv, TypeInv, TypeOK, Deliveries
  <2>2. d \notin InPending
    BY DEF FaultFreeInv, OnceInv, PlacesApart
  <2>3. pending' = [pending EXCEPT ![g] = Append(@, d)]
    BY <1>5 DEF BufferMessage
  <2>4. InPending' = InPending \union {d}
    BY <2>1, <2>2, <2>3, PendingAppend DEF FaultFreeInv, OnceInv, TypeInv
  <2>5. ToInsert' \subseteq ToInsert /\ Sunk' = Sunk
    BY <1>5, <2>4 DEF BufferMessage, TakeMessage, ToInsert, Sunk, InWork
  <2>6. /\ UNCHANGED <<brokerVars, mode, succeeded, verb, failures, faults>>
        /\ task' = "none" /\ pc' \in {"flush", "top"}
    BY <1>5 DEF BufferMessage, TakeMessage
  <2> QED
    BY <2>5, <2>6 DEF FaultFreeInv, FaultFree
<1> QED
  BY <1>1, <1>2, <1>3, <1>4, <1>5 DEF Loop

LEMMA FaultFreeFlush == FaultFreeInv /\ Flush => FaultFree'
<1> SUFFICES ASSUME FaultFreeInv, Flush PROVE FaultFree'
  OBVIOUS
<1> USE DEF sinkVars, fetchVars, batchVars, flushVars, backoffVars, brokerVars
<1>1. ASSUME NEW g \in Groups, FlushTableGroup(g) PROVE FaultFree'
  <2>1. /\ InPending' = InPending \ Range(pending[g])
        /\ Range(pending[g]) \subseteq InPending
    BY <1>1, PendingPop DEF FlushTableGroup, FaultFreeInv, OnceInv, TypeInv
  <2>2. InWork' = Range(pending[g])
    BY <1>1 DEF FlushTableGroup, InWork
  <2>3. ToInsert' \subseteq ToInsert /\ Sunk' = Sunk
    BY <1>1, <2>1, <2>2 DEF FlushTableGroup, ToInsert, Sunk
  <2> QED
    BY <1>1, <2>3 DEF FlushTableGroup, FaultFreeInv, FaultFree
<1>2. ASSUME NEW g \in Groups, RecordFlush(g) PROVE FaultFree'
  <2>1. ToInsert' = ToInsert /\ Sunk' = Sunk
    BY <1>2 DEF RecordFlush, ToInsert, Sunk, InWork, InPending
  <2>2. faults = 0 => \A h \in Groups : failures'[h] = 0
    BY <1>2 DEF RecordFlush, FaultFreeInv, FaultFree, OnceInv, TypeInv, TypeOK
  <2> QED
    BY <1>2, <2>1, <2>2 DEF RecordFlush, FaultFreeInv, FaultFree
<1>3. CASE EndFlush \/ IsolateMessage \/ NextSlice \/ EndDrop
  <2>1. ToInsert' = ToInsert /\ Sunk' = Sunk
    BY <1>3 DEF EndFlush, IsolateMessage, NextSlice, EndDrop, ToInsert, Sunk,
                InWork, InPending
  <2> QED
    BY <1>3, <2>1 DEF EndFlush, IsolateMessage, NextSlice, EndDrop, FaultFreeInv,
                      FaultFree
<1>4. CASE InsertRows
  <2>1. Sunk' = Sunk \union MsgsOf(Head(work))
    BY <1>4 DEF InsertRows, Sunk
  <2> QED
    BY <1>4, <2>1, FaultFreeSettleSlice DEF InsertRows
<1>5. CASE PublishFailedMessage
  <2>1. Sunk' = Sunk \union MsgsOf(Head(work))
    BY <1>5 DEF PublishFailedMessage, Sunk
  <2> QED
    BY <1>5, <2>1, FaultFreeSettleSlice DEF PublishFailedMessage
<1>6. CASE SplitSlice
  <2>1. InWork' = InWork
    BY <1>6, WorkSplit DEF FaultFreeInv, OnceInv
  <2>2. ToInsert' = ToInsert /\ Sunk' = Sunk
    BY <1>6, <2>1 DEF SplitSlice, ToInsert, Sunk, InPending
  <2> QED
    BY <1>6, <2>2 DEF SplitSlice, FaultFreeInv, FaultFree
<1>7. CASE SendAck
  <2>1. ToInsert' = ToInsert /\ Sunk' = Sunk
    BY <1>7 DEF SendAck, ToInsert, Sunk, InWork, InPending
  <2> QED
    BY <1>7, <2>1 DEF SendAck, FaultFreeInv, FaultFree
<1>8. CASE SendNack
  BY <1>8 DEF SendNack, FaultFreeInv, FaultFree
<1>9. CASE FailSettle
  <2>1. settling \in Seq(Deliveries) /\ settling # <<>>
    BY <1>9 DEF FailSettle, FaultFreeInv, OnceInv, TypeInv, TypeOK
  <2>2. Head(settling) \in HeldSet
    BY <2>1 DEF HeldSet, InSettling, Range
  <2>3. faults # 0
    BY <1>9, <2>2, FaultFreeHeld DEF FailSettle, Live, FaultFreeInv, FaultFree
  <2> QED
    BY <1>9, <2>3 DEF FailSettle, FaultFree
<1> QED
  BY <1>1, <1>2, <1>3, <1>4, <1>5, <1>6, <1>7, <1>8, <1>9 DEF Flush

\* Without a fault the loop is never left.
LEMMA FaultFreeRest == FaultFreeInv /\ (Stop \/ Environment) => FaultFree'
<1> SUFFICES ASSUME FaultFreeInv, Stop \/ Environment PROVE FaultFree'
  OBVIOUS
<1>1. CASE Stop \/ Restart
  BY <1>1 DEF Stop, CloseIterator, CloseChannel, Restart, FaultFreeInv, FaultFree
<1>2. ASSUME NEW kind, Fault(kind) PROVE FaultFree'
  BY <1>2 DEF Fault, FaultFree, FaultFreeInv, OnceInv, TypeInv, TypeOK
<1> QED
  BY <1>1, <1>2 DEF Environment, FailInsert, FailPublish, StopIterator,
                    LoseConnection, Cancel, Kill

LEMMA FaultFreeStep == FaultFreeInv /\ [Next]_vars => FaultFreeInv'
<1> SUFFICES ASSUME FaultFreeInv, [Next]_vars PROVE FaultFreeInv'
  OBVIOUS
<1>1. OnceInv'
  BY OnceStep DEF FaultFreeInv
<1>2. CASE Next
  BY <1>1, <1>2, FaultFreeBroker, FaultFreeLoop, FaultFreeFlush, FaultFreeRest
  DEF Next, Worker, FaultFreeInv
<1>3. CASE UNCHANGED vars
  BY <1>1, <1>3 DEF FaultFreeInv, FaultFree, Sunk, ToInsert, InWork, InPending,
                    vars, brokerVars, sinkVars, fetchVars, batchVars, flushVars,
                    backoffVars
<1> QED
  BY <1>2, <1>3

\* Until the first fault, nothing that is stored or in the failed queue is
\* inserted again.
THEOREM InsertedOnce == Spec => []ExactlyOnceWithoutFaults
<1>1. FaultFreeInv => ExactlyOnceWithoutFaults
  BY DEF FaultFreeInv, FaultFree, ExactlyOnceWithoutFaults, ToInsert, Sunk
<1> QED
  BY <1>1, FaultFreeInit, FaultFreeStep, PTL DEF Spec

-----------------------------------------------------------------------------
(* What the step simulation needs beside NoLossInv and OnceInv.            *)

Batched == InPending \union InWork

\* The process holds published messages only.
HeldPublished == \A d \in HeldSet : d.msg \in published

\* A batch holds no message that should have been dropped.
BatchesStorable == \A d \in Batched : d.msg \notin Discardable

\* Only a rejected slice of one message goes to the failed queue.
PublishRejected ==
  pc = "publish" => Len(Head(work)) = 1 /\ Rejected(Head(work))

\* Poison is in the failed queue or nowhere, everything else in ClickHouse.
SinksApart == stored \intersect Poison = {} /\ failed \subseteq Poison

MapInv ==
  /\ OnceInv
  /\ NoLossInv
  /\ HeldPublished
  /\ BatchesStorable
  /\ PublishRejected
  /\ SinksApart

LEMMA MapInit == Init => MapInv
<1> SUFFICES ASSUME Init PROVE MapInv
  OBVIOUS
<1>1. /\ InPending = {} /\ InWork = {} /\ InSettling = {}
      /\ buffer = {} /\ fetched = {}
  BY EmptyRange DEF Init, InPending, InWork, InSettling
<1> QED
  BY <1>1, OnceInit, NoLossInit
  DEF Init, MapInv, HeldPublished, BatchesStorable, PublishRejected, SinksApart,
      HeldSet, Batched

-----------------------------------------------------------------------------
(* The process never holds an unpublished message nor batches a            *)
(* discardable one.                                                        *)

\* The constants stay.
LEMMA DiscardableConstant == Discardable' = Discardable
BY DEF Discardable, Empty

\* No delivery is new.
LEMMA FewerHeld ==
  ASSUME MapInv, HeldSet' \subseteq HeldSet, Batched' \subseteq Batched,
         published \subseteq published'
  PROVE  HeldPublished' /\ BatchesStorable'
BY DiscardableConstant DEF MapInv, HeldPublished, BatchesStorable

LEMMA SameHeld ==
  ASSUME MapInv, UNCHANGED <<buffer, fetched, pending, work, settling>>,
         published \subseteq published'
  PROVE  HeldPublished' /\ BatchesStorable'
<1>1. HeldSet' = HeldSet /\ Batched' = Batched
  BY DEF HeldSet, Batched, InPending, InWork, InSettling
<1> QED
  BY <1>1, FewerHeld

LEMMA RaiseHeld ==
  ASSUME MapInv, Raise, UNCHANGED <<published, buffer, fetched, pending>>
  PROVE  HeldPublished' /\ BatchesStorable'
<1>1. InPending' = InPending /\ InWork' = {} /\ InSettling' = {}
  BY EmptyRange DEF Raise, InPending, InWork, InSettling
<1>2. HeldSet' \subseteq HeldSet /\ Batched' \subseteq Batched
  BY <1>1 DEF HeldSet, Batched
<1> QED
  BY <1>2, FewerHeld

LEMMA ForgetHeld ==
  ASSUME MapInv, ForgetMemory, published' = published
  PROVE  HeldPublished' /\ BatchesStorable'
<1>1. /\ InPending' = {} /\ InWork' = {} /\ InSettling' = {}
      /\ buffer' = {} /\ fetched' = {}
  BY EmptyRange DEF ForgetMemory, InPending, InWork, InSettling
<1> QED
  BY <1>1 DEF HeldPublished, BatchesStorable, HeldSet, Batched

LEMMA SettleSliceHeld ==
  ASSUME MapInv, work # <<>>, NEW v, SettleSlice(v),
         UNCHANGED <<published, buffer, fetched, pending>>
  PROVE  HeldPublished' /\ BatchesStorable'
<1>1. /\ InWork' = InWork \ Range(Head(work))
      /\ Range(Head(work)) \subseteq InWork
  BY WorkTail DEF MapInv, OnceInv, TypeInv, SettleSlice
<1>2. InSettling' = Range(Head(work)) /\ InPending' = InPending
  BY DEF InSettling, InPending, SettleSlice
<1>3. HeldSet' \subseteq HeldSet /\ Batched' \subseteq Batched
  BY <1>1, <1>2 DEF HeldSet, Batched
<1> QED
  BY <1>3, FewerHeld

LEMMA HeldBroker == MapInv /\ Broker => HeldPublished' /\ BatchesStorable'
<1> SUFFICES ASSUME MapInv, Broker PROVE HeldPublished' /\ BatchesStorable'
  OBVIOUS
<1> USE DEF sinkVars, fetchVars, batchVars, flushVars, backoffVars, brokerVars
<1>1. ASSUME NEW m \in Messages, Publish(m) \/ ProcessAck(m)
      PROVE  HeldPublished' /\ BatchesStorable'
  BY <1>1, SameHeld DEF Publish, ProcessAck
<1>2. ASSUME NEW m \in Messages, Deliver(m)
      PROVE  HeldPublished' /\ BatchesStorable'
  <2> DEFINE d == [msg |-> m, epoch |-> epoch]
  <2>1. buffer' = buffer \union {d} /\ m \in published /\ published' = published
        /\ d.msg = m
    BY <1>2 DEF Deliver, MapInv, OnceInv, BrokerApart
  <2>2. UNCHANGED <<fetched, pending, work, settling>>
    BY <1>2 DEF Deliver
  <2> HIDE DEF d
  <2>3. HeldSet' = HeldSet \union {d} /\ Batched' = Batched
    BY <2>1, <2>2 DEF HeldSet, Batched, InPending, InWork, InSettling
  <2> QED
    BY <2>1, <2>3, DiscardableConstant DEF MapInv, HeldPublished, BatchesStorable
<1>3. ASSUME NEW d \in buffer, CompleteTask(d)
      PROVE  HeldPublished' /\ BatchesStorable'
  <2>1. HeldSet' \subseteq HeldSet /\ Batched' = Batched /\ published' = published
    BY <1>3 DEF CompleteTask, HeldSet, Batched, InPending, InWork, InSettling
  <2> QED
    BY <2>1, FewerHeld
<1> QED
  BY <1>1, <1>2, <1>3 DEF Broker

LEMMA HeldLoop == MapInv /\ Loop => HeldPublished' /\ BatchesStorable'
<1> SUFFICES ASSUME MapInv, Loop PROVE HeldPublished' /\ BatchesStorable'
  OBVIOUS
<1> USE DEF sinkVars, fetchVars, batchVars, flushVars, backoffVars, brokerVars
<1>1. CASE StartWait \/ StartBackoff \/ EndBackoff \/ TimeOut
  BY <1>1, SameHeld DEF StartWait, StartBackoff, EndBackoff, TimeOut
<1>2. CASE OverflowBackoff \/ FailIteration
  BY <1>2, RaiseHeld DEF OverflowBackoff, FailIteration
<1>3. ASSUME NEW d \in fetched, DropMessage(d)
      PROVE  HeldPublished' /\ BatchesStorable'
  <2>1. /\ fetched' = {} /\ settling' = <<d>>
        /\ UNCHANGED <<published, buffer, pending, work>>
    BY <1>3 DEF DropMessage, TakeMessage
  <2>2. HeldSet' \subseteq HeldSet /\ Batched' = Batched
    BY <2>1, SingletonRange DEF HeldSet, Batched, InPending, InWork, InSettling
  <2> QED
    BY <2>1, <2>2, FewerHeld
<1>4. ASSUME NEW d \in fetched, BufferMessage(d)
      PROVE  HeldPublished' /\ BatchesStorable'
  <2> DEFINE g == GroupOf[d.msg]
  <2>1. d \in Deliveries /\ g \in Groups
    BY BatchWorkerAssumption DEF MapInv, OnceInv, TypeInv, TypeOK, Deliveries
  <2>2. d \notin InPending
    BY DEF MapInv, OnceInv, PlacesApart
  <2>3. pending' = [pending EXCEPT ![g] = Append(@, d)]
    BY <1>4 DEF BufferMessage
  <2>4. InPending' = InPending \union {d}
    BY <2>1, <2>2, <2>3, PendingAppend DEF MapInv, OnceInv, TypeInv
  <2>5. /\ fetched' = {} /\ UNCHANGED <<published, buffer, work, settling>>
        /\ d.msg \notin Discardable
    BY <1>4 DEF BufferMessage, TakeMessage
  <2>6. HeldSet' \subseteq HeldSet /\ Batched' = Batched \union {d}
    BY <2>4, <2>5 DEF HeldSet, Batched, InWork, InSettling
  <2> QED
    BY <2>5, <2>6, DiscardableConstant DEF MapInv, HeldPublished, BatchesStorable
<1> QED
  BY <1>1, <1>2, <1>3, <1>4 DEF Loop

LEMMA HeldFlush == MapInv /\ Flush => HeldPublished' /\ BatchesStorable'
<1> SUFFICES ASSUME MapInv, Flush PROVE HeldPublished' /\ BatchesStorable'
  OBVIOUS
<1> USE DEF sinkVars, fetchVars, batchVars, flushVars, backoffVars, brokerVars
<1>1. ASSUME NEW g \in Groups, FlushTableGroup(g)
      PROVE  HeldPublished' /\ BatchesStorable'
  <2>1. /\ InPending' = InPending \ Range(pending[g])
        /\ Range(pending[g]) \subseteq InPending
    BY <1>1, PendingPop DEF FlushTableGroup, MapInv, OnceInv, TypeInv
  <2>2. /\ work' = <<pending[g]>>
        /\ UNCHANGED <<published, buffer, fetched, settling>>
    BY <1>1 DEF FlushTableGroup
  <2>3. InWork' = Range(pending[g])
    BY <2>2 DEF InWork
  <2>4. HeldSet' \subseteq HeldSet /\ Batched' \subseteq Batched
    BY <2>1, <2>2, <2>3 DEF HeldSet, Batched, InSettling
  <2> QED
    BY <2>2, <2>4, FewerHeld
<1>2. ASSUME NEW g \in Groups, RecordFlush(g)
      PROVE  HeldPublished' /\ BatchesStorable'
  BY <1>2, SameHeld DEF RecordFlush
<1>3. CASE EndFlush \/ IsolateMessage \/ NextSlice \/ EndDrop
  BY <1>3, SameHeld DEF EndFlush, IsolateMessage, NextSlice, EndDrop
<1>4. CASE InsertRows \/ PublishFailedMessage
  BY <1>4, SettleSliceHeld DEF InsertRows, PublishFailedMessage, MapInv,
                               OnceInv, TypeInv, SliceLeft
<1>5. CASE SplitSlice
  <2>1. InWork' = InWork
    BY <1>5, WorkSplit DEF MapInv, OnceInv
  <2>2. UNCHANGED <<published, buffer, fetched, pending, settling>>
    BY <1>5 DEF SplitSlice
  <2>3. HeldSet' = HeldSet /\ Batched' = Batched
    BY <2>1, <2>2 DEF HeldSet, Batched, InPending, InSettling
  <2> QED
    BY <2>2, <2>3, FewerHeld
<1>6. CASE SendAck \/ SendNack
  <2>1. /\ settling # <<>> /\ settling' = Tail(settling)
        /\ UNCHANGED <<published, buffer, fetched, pending, work>>
    BY <1>6 DEF SendAck, SendNack
  <2>2. settling \in Seq(Deliveries) /\ IsInjective(settling)
    BY DEF MapInv, OnceInv, TypeInv, TypeOK
  <2>3. InSettling' \subseteq InSettling
    BY <2>1, <2>2, TailKeepsInjective DEF InSettling
  <2>4. HeldSet' \subseteq HeldSet /\ Batched' = Batched
    BY <2>1, <2>3 DEF HeldSet, Batched, InPending, InWork
  <2> QED
    BY <2>1, <2>4, FewerHeld
<1>7. CASE FailSettle
  BY <1>7, RaiseHeld DEF FailSettle
<1> QED
  BY <1>1, <1>2, <1>3, <1>4, <1>5, <1>6, <1>7 DEF Flush

LEMMA HeldRest ==
  MapInv /\ (Stop \/ Environment) => HeldPublished' /\ BatchesStorable'
<1> SUFFICES ASSUME MapInv, Stop \/ Environment
             PROVE  HeldPublished' /\ BatchesStorable'
  OBVIOUS
<1> USE DEF sinkVars, fetchVars, batchVars, flushVars, backoffVars, brokerVars
<1>1. CASE CloseIterator
  <2>1. /\ buffer' = {} /\ fetched' = {}
        /\ UNCHANGED <<published, pending, work, settling>>
    BY <1>1 DEF CloseIterator
  <2>2. HeldSet' \subseteq HeldSet /\ Batched' = Batched
    BY <2>1 DEF HeldSet, Batched, InPending, InWork, InSettling
  <2> QED
    BY <2>1, <2>2, FewerHeld
<1>2. CASE CloseChannel \/ Kill
  BY <1>2, ForgetHeld DEF CloseChannel, Kill
<1>3. CASE FailInsert \/ FailPublish
  BY <1>3, SettleSliceHeld DEF FailInsert, FailPublish, MapInv, OnceInv,
                               TypeInv, SliceLeft
<1>4. CASE StopIterator \/ LoseConnection \/ Restart
  BY <1>4, SameHeld DEF StopIterator, LoseConnection, Restart
<1>5. CASE Cancel
  BY <1>5, RaiseHeld DEF Cancel
<1> QED
  BY <1>1, <1>2, <1>3, <1>4, <1>5 DEF Stop, Environment

-----------------------------------------------------------------------------
(* What may enter ClickHouse and the failed queue.                         *)

\* The slice in hand is published and worth storing.
LEMMA SliceInHand ==
  ASSUME MapInv, pc \in {"insert", "publish"}
  PROVE  /\ MsgsOf(Head(work)) \subseteq published \ Discardable
         /\ MsgsOf(Head(work)) \subseteq Messages
<1>1. work # <<>> /\ work \in Seq(Seq(Deliveries))
  BY DEF MapInv, OnceInv, TypeInv, TypeOK, SliceLeft
<1>2. 1 \in DOMAIN work /\ Head(work) = work[1]
  BY <1>1
<1>3. \A i \in DOMAIN Head(work) : Head(work)[i] \in InWork
  BY <1>2 DEF InWork, Range
<1>4. InWork \subseteq HeldSet /\ InWork \subseteq Batched
  BY DEF HeldSet, Batched
<1>5. MsgsOf(Head(work)) \subseteq published \ Discardable
  BY <1>3, <1>4 DEF MapInv, HeldPublished, BatchesStorable, MsgsOf
<1>6. published \subseteq Messages
  BY DEF MapInv, OnceInv, TypeInv, TypeOK
<1> QED
  BY <1>5, <1>6

\* A slice on its way to the failed queue is one poison message.
LEMMA PublishedSlice ==
  ASSUME MapInv, pc = "publish"
  PROVE  \E m \in Poison : MsgsOf(Head(work)) = {m}
<1>1. Head(work) \in Seq(Deliveries)
  BY DEF MapInv, OnceInv, TypeInv, TypeOK, SliceLeft
<1>2. Len(Head(work)) = 1 /\ Rejected(Head(work))
  BY DEF MapInv, PublishRejected
<1>3. DOMAIN Head(work) = {1}
  BY <1>1, <1>2
<1>4. MsgsOf(Head(work)) = {Head(work)[1].msg}
  BY <1>3 DEF MsgsOf
<1> QED
  BY <1>2, <1>4 DEF Rejected

\* What can happen to ClickHouse and to the failed queue in a step.
StoreNothing == stored' = stored
StoreSlice ==
  /\ pc = "insert"
  /\ ~Rejected(Head(work))
  /\ stored' = stored \union MsgsOf(Head(work))
FailNothing == failed' = failed
FailSlice ==
  /\ pc = "publish"
  /\ failed' = failed \union MsgsOf(Head(work))

SinkStep == (StoreNothing \/ StoreSlice) /\ (FailNothing \/ FailSlice)

LEMMA CutShortSinks == CutShort => SinkStep
BY DEF CutShort, MayStore, SinkStep, StoreNothing, StoreSlice, FailNothing,
       FailSlice

LEMMA SinkSteps == Next => SinkStep
<1> SUFFICES ASSUME Next PROVE SinkStep
  OBVIOUS
<1> USE DEF sinkVars, fetchVars, batchVars, flushVars, backoffVars, brokerVars,
            SinkStep, StoreNothing, StoreSlice, FailNothing, FailSlice
<1>1. CASE Broker
  BY <1>1 DEF Broker, Publish, Deliver, ProcessAck, CompleteTask
<1>2. CASE Loop
  BY <1>2 DEF Loop, StartWait, StartBackoff, OverflowBackoff, EndBackoff,
              TimeOut, FailIteration, DropMessage, BufferMessage, TakeMessage
<1>3. CASE Flush
  <2>1. CASE InsertRows \/ PublishFailedMessage
    BY <2>1 DEF InsertRows, PublishFailedMessage
  <2>2. CASE \E g \in Groups : FlushTableGroup(g) \/ RecordFlush(g)
    BY <2>2 DEF FlushTableGroup, RecordFlush
  <2>3. CASE EndFlush \/ SplitSlice \/ IsolateMessage
    BY <2>3 DEF EndFlush, SplitSlice, IsolateMessage
  <2>4. CASE SendAck \/ SendNack \/ FailSettle \/ NextSlice \/ EndDrop
    BY <2>4 DEF SendAck, SendNack, FailSettle, NextSlice, EndDrop
  <2> QED
    BY <1>3, <2>1, <2>2, <2>3, <2>4 DEF Flush
<1>4. CASE Stop
  BY <1>4 DEF Stop, CloseIterator, CloseChannel
<1>5. CASE Environment
  <2>1. CASE FailInsert \/ FailPublish
    BY <2>1 DEF FailInsert, FailPublish, MayStore
  <2>2. CASE StopIterator \/ LoseConnection \/ Restart
    BY <2>2 DEF StopIterator, LoseConnection, Restart
  <2>3. CASE Cancel \/ Kill
    BY <2>3, CutShortSinks DEF Cancel, Kill
  <2> QED
    BY <1>5, <2>1, <2>2, <2>3 DEF Environment
<1> QED
  BY <1>1, <1>2, <1>3, <1>4, <1>5 DEF Next, Worker

LEMMA SinksStayApart == MapInv /\ SinkStep => SinksApart'
<1> SUFFICES ASSUME MapInv, SinkStep PROVE SinksApart'
  OBVIOUS
<1>1. stored' \intersect Poison = {}
  BY DEF MapInv, SinksApart, SinkStep, StoreNothing, StoreSlice, Rejected
<1>2. failed' \subseteq Poison
  BY PublishedSlice DEF MapInv, SinksApart, SinkStep, FailNothing, FailSlice
<1> QED
  BY <1>1, <1>2 DEF SinksApart

\* Only IsolateMessage enters "publish".
LEMMA PublishStaysRejected == MapInv /\ Next => PublishRejected'
<1> SUFFICES ASSUME MapInv, Next PROVE PublishRejected'
  OBVIOUS
<1> USE DEF sinkVars, fetchVars, batchVars, flushVars, backoffVars, brokerVars,
            PublishRejected
<1> DEFINE Same == pc' = pc /\ work' = work
           Away == pc' # "publish"
<1>1. Same => PublishRejected'
  BY DEF MapInv, Rejected, MsgsOf
<1>2. Away => PublishRejected'
  OBVIOUS
<1>3. CASE Broker
  BY <1>1, <1>3 DEF Broker, Publish, Deliver, ProcessAck, CompleteTask
<1>4. CASE Loop
  BY <1>2, <1>4 DEF Loop, StartWait, StartBackoff, OverflowBackoff, EndBackoff,
                    TimeOut, FailIteration, DropMessage, BufferMessage, Raise
<1>5. CASE Flush
  <2>1. CASE IsolateMessage
    BY <2>1 DEF IsolateMessage, Rejected, MsgsOf
  <2>2. CASE \E g \in Groups : FlushTableGroup(g) \/ RecordFlush(g)
    BY <1>2, <2>2 DEF FlushTableGroup, RecordFlush
  <2>3. CASE EndFlush \/ SplitSlice \/ InsertRows \/ PublishFailedMessage
    BY <1>2, <2>3 DEF EndFlush, SplitSlice, InsertRows, PublishFailedMessage,
                      SettleSlice
  <2>4. CASE SendAck \/ SendNack \/ FailSettle \/ NextSlice \/ EndDrop
    BY <1>2, <2>4 DEF SendAck, SendNack, FailSettle, NextSlice, EndDrop, Raise
  <2> QED
    BY <1>5, <2>1, <2>2, <2>3, <2>4 DEF Flush
<1>6. CASE Stop
  BY <1>2, <1>6 DEF Stop, CloseIterator, CloseChannel, ForgetMemory
<1>7. CASE Environment
  <2>1. CASE StopIterator \/ LoseConnection
    BY <1>1, <2>1 DEF StopIterator, LoseConnection
  <2>2. CASE FailInsert \/ FailPublish \/ Cancel \/ Kill \/ Restart
    BY <1>2, <2>2 DEF FailInsert, FailPublish, Cancel, Kill, Restart,
                      SettleSlice, Raise, ForgetMemory
  <2> QED
    BY <1>7, <2>1, <2>2 DEF Environment
<1> QED
  BY <1>3, <1>4, <1>5, <1>6, <1>7 DEF Next, Worker

LEMMA MapStep == MapInv /\ [Next]_vars => MapInv'
<1> SUFFICES ASSUME MapInv, [Next]_vars PROVE MapInv'
  OBVIOUS
<1>1. OnceInv'
  BY OnceStep DEF MapInv
<1>2. NoLossInv'
  BY NoLossStep DEF MapInv
<1>3. CASE Next
  <2>1. HeldPublished' /\ BatchesStorable'
    BY <1>3, HeldBroker, HeldLoop, HeldFlush, HeldRest DEF Next, Worker
  <2>2. PublishRejected' /\ SinksApart'
    BY <1>3, PublishStaysRejected, SinkSteps, SinksStayApart
  <2> QED
    BY <1>1, <1>2, <2>1, <2>2 DEF MapInv
<1>4. CASE UNCHANGED vars
  <2> USE <1>4 DEF vars, brokerVars, sinkVars, fetchVars, batchVars, flushVars,
                   backoffVars
  <2>1. HeldPublished' /\ BatchesStorable'
    BY SameHeld
  <2>2. PublishRejected' /\ SinksApart'
    BY DEF MapInv, PublishRejected, SinksApart, Rejected, MsgsOf
  <2> QED
    BY <1>1, <1>2, <2>1, <2>2 DEF MapInv
<1> QED
  BY <1>3, <1>4

-----------------------------------------------------------------------------
(* The step simulation.                                                    *)

\* What the broker has forgotten: the refinement mapping of settled.
Settled == published \ (ready \union unacked)

\* A step that leaves Settled alone maps to Store, Isolate or no step.
LEMMA SinkStepMaps ==
  ASSUME MapInv, SinkStep, published' = published, Settled' = Settled
  PROVE  [D!Next]_(D!deliveryVars)
<1>1. Settled \subseteq Resolved
  BY DEF MapInv, NoLossInv, NoLoss, Settled
<1>2. CASE StoreNothing /\ FailNothing
  BY <1>2 DEF D!deliveryVars, Settled, StoreNothing, FailNothing
<1>3. CASE StoreSlice /\ FailNothing
  <2> DEFINE S == MsgsOf(Head(work)) \ stored
  <2>1. /\ S \subseteq published \ Discardable /\ S \subseteq Messages
        /\ S \intersect Poison = {}
    BY <1>3, SliceInHand DEF StoreSlice, Rejected
  <2>2. S \intersect Settled = {}
    BY <1>1, <2>1 DEF Resolved, MapInv, SinksApart
  <2>3. stored' = stored \union S /\ failed' = failed
    BY <1>3 DEF StoreSlice, FailNothing
  <2> HIDE DEF S
  <2>4. D!Store(S)
    BY <2>1, <2>2, <2>3 DEF D!Store, Settled
  <2> QED
    BY <2>1, <2>4 DEF D!Next
<1>4. CASE StoreNothing /\ FailSlice
  <2>1. PICK m \in Poison : MsgsOf(Head(work)) = {m}
    BY <1>4, PublishedSlice DEF FailSlice
  <2>2. m \in published \ Discardable /\ m \in Messages
    BY <1>4, <2>1, SliceInHand DEF FailSlice
  <2>3. stored' = stored /\ failed' = failed \union {m}
    BY <1>4, <2>1 DEF StoreNothing, FailSlice
  <2>4. CASE m \in Settled
    <3>1. m \in failed
      BY <1>1, <2>2, <2>4 DEF Resolved, MapInv, SinksApart
    <3> QED
      BY <2>3, <3>1 DEF D!deliveryVars, Settled
  <2>5. CASE m \notin Settled
    <3>1. D!Isolate(m)
      BY <2>2, <2>3, <2>5 DEF D!Isolate, Settled
    <3> QED
      BY <2>2, <3>1 DEF D!Next
  <2> QED
    BY <2>4, <2>5
<1> QED
  BY <1>2, <1>3, <1>4 DEF SinkStep, StoreSlice, FailSlice

\* The steps that publish or forget a message map to Accept and Settle; every
\* other step moves messages between ready and unacked at most.
LEMMA BrokerMaps ==
  MapInv /\ Broker => [D!Next]_(D!deliveryVars) \/ (published' = published /\ Settled' = Settled)
<1> SUFFICES ASSUME MapInv, Broker
             PROVE  [D!Next]_(D!deliveryVars)
                      \/ (published' = published /\ Settled' = Settled)
  OBVIOUS
<1> USE DEF sinkVars
<1>1. ASSUME NEW m \in Messages, Publish(m) PROVE [D!Next]_(D!deliveryVars)
  <2>1. /\ m \notin published /\ published' = published \union {m}
        /\ ready' = ready \union {m}
        /\ UNCHANGED <<unacked, stored, failed>>
    BY <1>1 DEF Publish
  <2>2. Settled' = Settled
    BY <2>1 DEF Settled
  <2>3. D!Accept(m)
    BY <2>1, <2>2 DEF D!Accept, Settled
  <2> QED
    BY <2>3 DEF D!Next
<1>2. ASSUME NEW m \in Messages, Deliver(m)
      PROVE  published' = published /\ Settled' = Settled
  BY <1>2 DEF Deliver, Settled
<1>3. ASSUME NEW m \in Messages, ProcessAck(m) PROVE [D!Next]_(D!deliveryVars)
  <2>1. m \in unacked /\ m \notin ready /\ m \in published /\ m \in Resolved
    BY <1>3 DEF ProcessAck, MapInv, NoLossInv, NoLoss, OnceInv, BrokerApart
  <2>2. Settled' = Settled \union {m}
    BY <1>3, <2>1 DEF ProcessAck, Settled
  <2>3. D!Settle({m})
    BY <1>3, <2>1, <2>2 DEF ProcessAck, D!Settle, Settled, Resolved
  <2> QED
    BY <2>3 DEF D!Next
<1>4. ASSUME NEW d \in buffer, CompleteTask(d)
      PROVE  published' = published /\ Settled' = Settled
  BY <1>4 DEF CompleteTask, Settled, brokerVars
<1> QED
  BY <1>1, <1>2, <1>3, <1>4 DEF Broker

LEMMA WorkerMaps ==
  MapInv /\ Worker => [D!Next]_(D!deliveryVars) \/ (published' = published /\ Settled' = Settled)
<1> SUFFICES ASSUME MapInv, Worker
             PROVE  [D!Next]_(D!deliveryVars)
                      \/ (published' = published /\ Settled' = Settled)
  OBVIOUS
<1> USE DEF brokerVars, sinkVars
<1>1. CASE UNCHANGED brokerVars
  BY <1>1 DEF Settled
<1>2. CASE SendAck
  BY <1>2 DEF SendAck, Settled
<1>3. CASE SendNack
  <2>1. Head(settling) \in InSettling
    <3>1. settling # <<>> /\ settling \in Seq(Deliveries) /\ IsInjective(settling)
      BY <1>3 DEF SendNack, MapInv, OnceInv, TypeInv, TypeOK
    <3> QED
      BY <3>1, TailKeepsInjective DEF InSettling
  <2>2. Head(settling).msg \in unacked
    BY <1>3, <2>1 DEF SendNack, MapInv, OnceInv, HeldAwaited, HeldSet
  <2> QED
    BY <1>3, <2>2 DEF SendNack, Settled
<1>4. CASE CloseIterator
  <2> DEFINE returned == {d.msg : d \in {b \in buffer : Live(b)}}
  <2>1. returned \subseteq unacked
    BY DEF MapInv, OnceInv, HeldAwaited, HeldSet
  <2>2. /\ published' = published
        /\ ready' = ready \union returned /\ unacked' = unacked \ returned
    BY <1>4 DEF CloseIterator
  <2> HIDE DEF returned
  <2> QED
    BY <2>1, <2>2 DEF Settled
<1>5. CASE CloseChannel
  <2>1. /\ acking \subseteq unacked /\ acking \intersect ready = {}
        /\ acking \subseteq published /\ acking \subseteq Resolved
        /\ acking \subseteq Messages
    BY DEF MapInv, NoLossInv, NoLoss, OnceInv, BrokerApart, TypeInv, TypeOK
  <2>2. Settled' = Settled \union acking
    BY <1>5, <2>1 DEF CloseChannel, Settled
  <2>3. D!Settle(acking)
    BY <1>5, <2>1, <2>2 DEF CloseChannel, D!Settle, Settled, Resolved
  <2> QED
    BY <2>1, <2>3 DEF D!Next
<1>6. CASE Loop
  <2>1. UNCHANGED brokerVars
    BY <1>6 DEF Loop, StartWait, StartBackoff, OverflowBackoff, EndBackoff,
                TimeOut, FailIteration, DropMessage, BufferMessage, TakeMessage
  <2> QED
    BY <1>1, <2>1
<1>7. CASE \E g \in Groups : FlushTableGroup(g) \/ RecordFlush(g)
  <2>1. UNCHANGED brokerVars
    BY <1>7 DEF FlushTableGroup, RecordFlush
  <2> QED
    BY <1>1, <2>1
<1>8. CASE \/ EndFlush \/ InsertRows \/ SplitSlice \/ IsolateMessage
           \/ PublishFailedMessage \/ FailSettle \/ NextSlice \/ EndDrop
  <2>1. UNCHANGED brokerVars
    BY <1>8 DEF EndFlush, InsertRows, SplitSlice, IsolateMessage,
                PublishFailedMessage, FailSettle, NextSlice, EndDrop
  <2> QED
    BY <1>1, <2>1
<1> QED
  BY <1>2, <1>3, <1>4, <1>5, <1>6, <1>7, <1>8 DEF Worker, Flush, Stop

LEMMA EnvironmentMaps ==
  MapInv /\ Environment => published' = published /\ Settled' = Settled
<1> SUFFICES ASSUME MapInv, Environment
             PROVE  published' = published /\ Settled' = Settled
  OBVIOUS
<1> USE DEF brokerVars
<1>1. CASE FailInsert \/ FailPublish \/ StopIterator \/ Cancel
  BY <1>1 DEF FailInsert, FailPublish, StopIterator, Cancel, Settled
<1>2. CASE LoseConnection \/ Kill \/ Restart
  BY <1>2 DEF LoseConnection, Kill, Restart, Settled
<1> QED
  BY <1>1, <1>2 DEF Environment

LEMMA StepMaps == MapInv /\ [Next]_vars => [D!Next]_(D!deliveryVars)
<1> SUFFICES ASSUME MapInv, [Next]_vars PROVE [D!Next]_(D!deliveryVars)
  OBVIOUS
<1>1. CASE Next
  <2>1. [D!Next]_(D!deliveryVars) \/ (published' = published /\ Settled' = Settled)
    BY <1>1, BrokerMaps, WorkerMaps, EnvironmentMaps DEF Next
  <2>2. SinkStep
    BY <1>1, SinkSteps
  <2> QED
    BY <2>1, <2>2, SinkStepMaps
<1>2. CASE UNCHANGED vars
  BY <1>2 DEF vars, brokerVars, sinkVars, D!deliveryVars
<1> QED
  BY <1>1, <1>2

\* The worker, with every fault, delivers at least once: it implements Delivery.
THEOREM Implements == Spec => DeliversAtLeastOnce
<1>1. Init => MapInv
  BY MapInit
<1>2. MapInv /\ [Next]_vars => MapInv'
  BY MapStep
<1>3. Init => D!Init
  BY DEF Init, D!Init
<1>4. MapInv /\ [Next]_vars => [D!Next]_(D!deliveryVars)
  BY StepMaps
<1> QED
  BY <1>1, <1>2, <1>3, <1>4, PTL DEF Spec, DeliversAtLeastOnce, D!Spec

=============================================================================
