----------------------------- MODULE IntakeProofs -----------------------------
(***************************************************************************)
(* Proofs about Intake, for every number of requests, agents and slots,    *)
(* every cache size and all bodies:                                        *)
(*                                                                         *)
(*   - the cache of user agents and the slots of its threads, on their own *)
(*     (CacheInv), and in the collector, which is a use of them;           *)
(*   - the loop over a request's events: a row for each of them, made of   *)
(*     it alone;                                                           *)
(*   - parse_payload: what a context makes of a row, what all of them and  *)
(*     the other steps make of it, so where each field of a row comes from *)
(*     (RowIsRight);                                                       *)
(*   - the requests: all rows or none, and each as it should be            *)
(*     (IntakeInv).                                                        *)
(***************************************************************************)
EXTENDS Intake, FiniteSetTheorems, WellFoundedInduction, TLAPS

CacheInv == CacheTypeOK /\ CacheIsSound /\ SlotsAreKept

\* Where the entry at j was before the one at i was moved to the end.
Was(i, j) == IF j < i THEN j ELSE IF j < Len(cache) THEN j + 1 ELSE i

-----------------------------------------------------------------------------
(***************************************************************************)
(* The cache.                                                              *)
(***************************************************************************)

\* Taking one element out of a sequence.
LEMMA RemovingOne ==
  ASSUME cache \in Seq(Entries), NEW i \in 1..Len(cache)
  PROVE  /\ Removing(i) \in Seq(Entries)
         /\ Len(Removing(i)) = Len(cache) - 1
         /\ \A j \in 1..(Len(cache) - 1) :
              Removing(i)[j] = cache[IF j < i THEN j ELSE j + 1]
<1> DEFINE s == SubSeq(cache, 1, i - 1)
           t == SubSeq(cache, i + 1, Len(cache))
<1>1. /\ s \in Seq(Entries) /\ Len(s) = i - 1
      /\ \A j \in 1..(i - 1) : s[j] = cache[j]
  OBVIOUS
<1>2. /\ t \in Seq(Entries) /\ Len(t) = Len(cache) - i
      /\ \A j \in 1..(Len(cache) - i) : t[j] = cache[i + j]
  OBVIOUS
<1> HIDE DEF s, t
<1>3. s \o t \in Seq(Entries) /\ Len(s \o t) = Len(cache) - 1
  BY <1>1, <1>2
<1>4. ASSUME NEW j \in 1..(Len(cache) - 1)
      PROVE  (s \o t)[j] = cache[IF j < i THEN j ELSE j + 1]
  <2>1. CASE j < i
    BY <1>1, <1>2, <2>1
  <2>2. CASE j >= i
    <3>1. (s \o t)[j] = t[j - (i - 1)]
      BY <1>1, <1>2, <2>2
    <3>2. t[j - (i - 1)] = cache[i + (j - (i - 1))]
      BY <1>2, <2>2
    <3> QED
      BY <2>2, <3>1, <3>2
  <2>3. j < i \/ j >= i
    OBVIOUS
  <2> QED
    BY <2>1, <2>2, <2>3
<1> QED
  BY <1>3, <1>4 DEF Removing, s, t

\* A hit moves one entry to the end and keeps the others in their order.
LEMMA HitMoves ==
  ASSUME cache \in Seq(Entries), NEW i \in 1..Len(cache),
         cache' = Append(Removing(i), cache[i])
  PROVE  /\ cache' \in Seq(Entries)
         /\ Len(cache') = Len(cache)
         /\ \A j \in 1..Len(cache) : cache'[j] = cache[Was(i, j)]
         /\ \A j \in 1..Len(cache) : Was(i, j) \in 1..Len(cache)
         /\ \A j, k \in 1..Len(cache) : Was(i, j) = Was(i, k) => j = k
         /\ \A k \in 1..Len(cache) : \E j \in 1..Len(cache) : Was(i, j) = k
<1>2. cache[i] \in Entries
  OBVIOUS
<1>3. /\ Removing(i) \in Seq(Entries)
      /\ Len(Removing(i)) = Len(cache) - 1
      /\ \A j \in 1..(Len(cache) - 1) :
           Removing(i)[j] = cache[IF j < i THEN j ELSE j + 1]
  BY RemovingOne
<1>4. cache' \in Seq(Entries) /\ Len(cache') = Len(cache)
  BY <1>2, <1>3
<1>5. ASSUME NEW j \in 1..Len(cache) PROVE cache'[j] = cache[Was(i, j)]
  <2>1. CASE j < Len(cache)
    <3>1. cache'[j] = Removing(i)[j]
      BY <1>2, <1>3, <2>1
    <3> QED
      BY <1>2, <1>3, <2>1, <3>1 DEF Was
  <2>2. CASE j = Len(cache)
    <3>1. cache'[j] = cache[i]
      BY <1>2, <1>3, <2>2
    <3>2. Was(i, j) = i
      BY <1>2, <2>2 DEF Was
    <3> QED
      BY <3>1, <3>2
  <2>3. j < Len(cache) \/ j = Len(cache)
    OBVIOUS
  <2> QED
    BY <2>1, <2>2, <2>3
<1>6. \A j \in 1..Len(cache) : Was(i, j) \in 1..Len(cache)
  BY <1>2 DEF Was
<1>7. \A j, k \in 1..Len(cache) : Was(i, j) = Was(i, k) => j = k
  BY <1>2 DEF Was
<1>8. ASSUME NEW k \in 1..Len(cache) PROVE \E j \in 1..Len(cache) : Was(i, j) = k
  <2>1. CASE k < i
    <3>1. Was(i, k) = k
      BY <2>1 DEF Was
    <3> QED
      BY <3>1
  <2>2. CASE k = i
    <3>1. Len(cache) \in 1..Len(cache) /\ Was(i, Len(cache)) = i
      BY <1>2 DEF Was
    <3> QED
      BY <2>2, <3>1
  <2>3. CASE k > i
    <3>1. k - 1 \in 1..Len(cache) /\ Was(i, k - 1) = k
      BY <1>2, <2>3 DEF Was
    <3> QED
      BY <3>1
  <2> QED
    BY <1>2, <2>1, <2>2, <2>3
<1> QED
  BY <1>4, <1>5, <1>6, <1>7, <1>8

\* The parts of the properties that are about cache and object alone.
Sound(s, obj) ==
  /\ s \in Seq(Entries)
  /\ Len(s) <= size
  /\ \A i, j \in 1..Len(s) : s[i][1] = s[j][1] => i = j
  /\ \A i \in 1..Len(s) : agentOf[s[i][2]] = s[i][1]
  /\ obj \in [Requests -> Requests \union {NoObject}]
  /\ \A r \in Requests : obj[r] # NoObject => agentOf[obj[r]] = agentOf[r]

\* No entry is lost but the first one, with its agent.
Keeps(s, t) ==
  \A i \in 1..Len(s) :
    \/ \E j \in 1..Len(t) : t[j] = s[i]
    \/ i = 1 /\ \A j \in 1..Len(t) : t[j][1] # s[1][1]

LEMMA HitIsSound ==
  ASSUME CacheAssumption, CacheTypeOK, Sound(cache, object),
         NEW r \in Requests, NEW found \in Requests,
         Hit(agentOf[r], found), object' = [object EXCEPT ![r] = found]
  PROVE  Sound(cache', object') /\ Keeps(cache, cache')
<1>0. /\ cache \in Seq(Entries) /\ Len(cache) <= size
      /\ \A i, j \in 1..Len(cache) : cache[i][1] = cache[j][1] => i = j
      /\ \A i \in 1..Len(cache) : agentOf[cache[i][2]] = cache[i][1]
      /\ object \in [Requests -> Requests \union {NoObject}]
      /\ \A q \in Requests : object[q] # NoObject => agentOf[object[q]] = agentOf[q]
  BY DEF Sound
<1>a. PICK i \in Position(agentOf[r]) :
        found = cache[i][2] /\ cache' = Append(Removing(i), cache[i])
  BY DEF Hit
<1>b. i \in 1..Len(cache) /\ cache[i][1] = agentOf[r] /\ cache[i][2] = found
  BY <1>a DEF Position
<1>1. /\ cache' \in Seq(Entries)
      /\ Len(cache') = Len(cache)
      /\ \A j \in 1..Len(cache) : cache'[j] = cache[Was(i, j)]
      /\ \A j \in 1..Len(cache) : Was(i, j) \in 1..Len(cache)
      /\ \A j, k \in 1..Len(cache) : Was(i, j) = Was(i, k) => j = k
      /\ \A k \in 1..Len(cache) : \E j \in 1..Len(cache) : Was(i, j) = k
  BY <1>0, <1>a, <1>b, HitMoves
<1>2. ASSUME NEW j \in 1..Len(cache'), NEW k \in 1..Len(cache'), cache'[j][1] = cache'[k][1]
      PROVE  j = k
  <2>1. cache'[j] = cache[Was(i, j)] /\ cache'[k] = cache[Was(i, k)]
    BY <1>1
  <2>2. Was(i, j) \in 1..Len(cache) /\ Was(i, k) \in 1..Len(cache)
    BY <1>1
  <2>3. Was(i, j) = Was(i, k)
    BY <1>0, <1>2, <2>1, <2>2
  <2> QED
    BY <1>1, <2>3
<1>3. ASSUME NEW j \in 1..Len(cache') PROVE agentOf[cache'[j][2]] = cache'[j][1]
  <2>1. cache'[j] = cache[Was(i, j)] /\ Was(i, j) \in 1..Len(cache)
    BY <1>1
  <2> QED
    BY <1>0, <2>1
<1>4. agentOf[found] = agentOf[r]
  BY <1>0, <1>b
<1>5. /\ object' \in [Requests -> Requests \union {NoObject}]
      /\ \A q \in Requests : object'[q] # NoObject => agentOf[object'[q]] = agentOf[q]
  BY <1>0, <1>4
<1>6. ASSUME NEW k \in 1..Len(cache) PROVE \E j \in 1..Len(cache') : cache'[j] = cache[k]
  <2>1. PICK j \in 1..Len(cache) : Was(i, j) = k
    BY <1>1
  <2> QED
    BY <1>1, <2>1
<1> QED
  BY <1>0, <1>1, <1>2, <1>3, <1>5, <1>6 DEF Sound, Keeps

LEMMA StoreIsSound ==
  ASSUME CacheAssumption, CacheTypeOK, Sound(cache, object),
         NEW r \in Requests, NEW kept \in Requests,
         StoreCached(agentOf[r], r, kept), object' = [object EXCEPT ![r] = kept]
  PROVE  Sound(cache', object') /\ Keeps(cache, cache')
<1>0. /\ cache \in Seq(Entries) /\ Len(cache) <= size
      /\ \A i, j \in 1..Len(cache) : cache[i][1] = cache[j][1] => i = j
      /\ \A i \in 1..Len(cache) : agentOf[cache[i][2]] = cache[i][1]
      /\ object \in [Requests -> Requests \union {NoObject}]
      /\ \A q \in Requests : object[q] # NoObject => agentOf[object[q]] = agentOf[q]
      /\ size \in Nat /\ agentOf \in [Requests -> Agents]
  BY DEF Sound, CacheTypeOK, CacheAssumption
<1>1. CASE Hit(agentOf[r], kept)
  BY <1>1, HitIsSound
<1>2. CASE ~Hit(agentOf[r], kept)
  <2>1. kept = r
    BY <1>2 DEF StoreCached
  <2>2. /\ object' \in [Requests -> Requests \union {NoObject}]
        /\ \A q \in Requests : object'[q] # NoObject => agentOf[object'[q]] = agentOf[q]
    BY <1>0, <2>1
  <2>3. CASE cache' = cache
    BY <1>0, <2>2, <2>3 DEF Sound, Keeps
  <2>4. CASE cache' # cache
    <3> DEFINE e == <<agentOf[r], r>>
               s == Append(cache, e)
    <3>1. size > 0 /\ Position(agentOf[r]) = {} /\ cache' = Evicted(s)
      BY <1>2, <2>1, <2>4 DEF StoreCached
    <3>2. e \in Entries /\ e[1] = agentOf[r] /\ e[2] = r
      BY <1>0 DEF Entries
    <3>3. \A i \in 1..Len(cache) : cache[i][1] # e[1]
      BY <3>1, <3>2 DEF Position
    <3> HIDE DEF e
    <3>4. /\ s \in Seq(Entries) /\ Len(s) = Len(cache) + 1
          /\ \A i \in 1..Len(cache) : s[i] = cache[i]
          /\ s[Len(cache) + 1] = e
      BY <1>0, <3>2
    <3> HIDE DEF s
    <3>5. \A i, j \in 1..Len(s) : s[i][1] = s[j][1] => i = j
      <4>1. SUFFICES ASSUME NEW i \in 1..Len(s), NEW j \in 1..Len(s), s[i][1] = s[j][1]
                     PROVE  i = j
        OBVIOUS
      <4>2. CASE i \in 1..Len(cache) /\ j \in 1..Len(cache)
        BY <1>0, <3>4, <4>1, <4>2
      <4>3. CASE i = Len(cache) + 1 \/ j = Len(cache) + 1
        BY <1>0, <3>3, <3>4, <4>1, <4>3
      <4> QED
        BY <1>0, <3>4, <4>2, <4>3
    <3>6. \A i \in 1..Len(s) : agentOf[s[i][2]] = s[i][1]
      BY <1>0, <3>2, <3>4
    <3>7. CASE Len(s) <= size
      <4>1. cache' = s
        BY <1>0, <3>1, <3>4, <3>7 DEF Evicted
      <4> QED
        BY <1>0, <2>2, <3>4, <3>5, <3>6, <3>7, <4>1 DEF Sound, Keeps
    <3>8. CASE Len(s) > size
      <4>1. cache' = Tail(s)
        BY <3>1, <3>8 DEF Evicted
      <4>2. /\ cache' \in Seq(Entries) /\ Len(cache') = Len(s) - 1
            /\ \A i \in 1..Len(cache') : cache'[i] = s[i + 1]
        BY <1>0, <3>4, <4>1
      <4>3. \A i, j \in 1..Len(cache') : cache'[i][1] = cache'[j][1] => i = j
        BY <1>0, <3>4, <3>5, <4>2
      <4>4. \A i \in 1..Len(cache') : agentOf[cache'[i][2]] = cache'[i][1]
        BY <1>0, <3>4, <3>6, <4>2
      <4>5. ASSUME NEW i \in 1..Len(cache)
            PROVE  \/ \E j \in 1..Len(cache') : cache'[j] = cache[i]
                   \/ i = 1 /\ \A j \in 1..Len(cache') : cache'[j][1] # cache[1][1]
        <5>1. CASE i = 1
          <6>1. ASSUME NEW j \in 1..Len(cache') PROVE cache'[j][1] # cache[1][1]
            <7>1. j + 1 \in 1..Len(s) /\ 1 \in 1..Len(s) /\ cache'[j] = s[j + 1] /\ s[1] = cache[1]
              BY <1>0, <3>4, <4>2, <5>1
            <7> QED
              BY <3>5, <7>1
          <6> QED
            BY <5>1, <6>1
        <5>2. CASE i # 1
          <6>1. i - 1 \in 1..Len(cache') /\ cache'[i - 1] = cache[i]
            BY <1>0, <3>4, <4>2, <5>2
          <6> QED
            BY <6>1
        <5> QED
          BY <5>1, <5>2
      <4>6. Len(cache') <= size
        BY <1>0, <3>4, <4>2
      <4> QED
        BY <1>0, <2>2, <4>2, <4>3, <4>4, <4>5, <4>6 DEF Sound, Keeps
    <3> QED
      BY <1>0, <3>4, <3>7, <3>8
  <2> QED
    BY <2>3, <2>4
<1> QED
  BY <1>1, <1>2

-----------------------------------------------------------------------------
(***************************************************************************)
(* The slots.                                                              *)
(***************************************************************************)

Busy == {"thread", "parsing", "parsed", "raised"}

\* free and waiting, and who waits, as the slots have them.
Counted(n, line, places) ==
  /\ n \in 0..Slots
  /\ line \in Seq(Requests)
  /\ places \in [Requests -> Places]
  /\ Cardinality({q \in Requests : places[q] \in Busy}) + n = Slots
  /\ line # <<>> => n = 0
  /\ \A q \in Requests : places[q] = "waiting" <=> \E i \in 1..Len(line) : line[i] = q
  /\ \A i, j \in 1..Len(line) : line[i] = line[j] => i = j

LEMMA BusyIsFinite ==
  ASSUME NEW places
  PROVE  LET busy == {q \in Requests : places[q] \in Busy}
         IN IsFiniteSet(busy) /\ Cardinality(busy) \in Nat
<1> DEFINE busy == {q \in Requests : places[q] \in Busy}
<1>1. busy \in SUBSET Requests
  OBVIOUS
<1> HIDE DEF busy
<1>2. IsFiniteSet(busy)
  BY <1>1, CacheAssumption, FS_Subset DEF CacheAssumption
<1>3. Cardinality(busy) \in Nat
  BY <1>2, FS_CardinalityType
<1> QED
  BY <1>2, <1>3 DEF busy

\* A request that moves on among those that hold a slot, or among those that
\* neither hold one nor wait.
LEMMA MovesOn ==
  ASSUME NEW n, NEW line, NEW places, Counted(n, line, places),
         NEW r \in Requests, NEW place \in Places,
         places[r] # "waiting", place # "waiting", places[r] \in Busy <=> place \in Busy
  PROVE  Counted(n, line, [places EXCEPT ![r] = place])
<1> DEFINE after == [places EXCEPT ![r] = place]
<1>1. places \in [Requests -> Places] /\ after \in [Requests -> Places]
  BY DEF Counted
<1>2. \A q \in Requests :
        (after[q] \in Busy <=> places[q] \in Busy) /\ (after[q] = "waiting" <=> places[q] = "waiting")
  BY <1>1
<1> HIDE DEF after
<1>3. {q \in Requests : after[q] \in Busy} = {q \in Requests : places[q] \in Busy}
  BY <1>2
<1>4. Counted(n, line, after)
  BY <1>1, <1>2, <1>3 DEF Counted
<1> QED
  BY <1>4 DEF after

\* A request that takes a free slot.
LEMMA Takes ==
  ASSUME NEW n, NEW line, NEW places, Counted(n, line, places), n > 0,
         NEW r \in Requests, places[r] = "new"
  PROVE  Counted(n - 1, line, [places EXCEPT ![r] = "thread"])
<1> DEFINE after == [places EXCEPT ![r] = "thread"]
           busy == {q \in Requests : places[q] \in Busy}
           busier == {q \in Requests : after[q] \in Busy}
<1>0. n \in 0..Slots /\ line \in Seq(Requests) /\ Slots \in Nat
  BY CacheAssumption DEF CacheAssumption, Counted
<1>1. /\ places \in [Requests -> Places] /\ after \in [Requests -> Places]
      /\ \A q \in Requests : after[q] = "waiting" <=> places[q] = "waiting"
  BY DEF Counted, Places
<1>2. busier = busy \union {r} /\ r \notin busy
  BY <1>1 DEF Busy
<1>3. IsFiniteSet(busy) /\ Cardinality(busy) \in Nat
  BY BusyIsFinite
<1>4. Cardinality(busy) + n = Slots
  BY DEF Counted
<1>5. line = <<>>
  BY <1>0 DEF Counted
<1>6. /\ \A q \in Requests : places[q] = "waiting" <=> \E i \in 1..Len(line) : line[i] = q
      /\ \A i, j \in 1..Len(line) : line[i] = line[j] => i = j
  BY DEF Counted
<1> HIDE DEF busy, busier, after
<1>7. Cardinality(busier) = Cardinality(busy) + 1
  BY <1>2, <1>3, FS_AddElement
<1>8. Cardinality(busier) + (n - 1) = Slots /\ n - 1 \in 0..Slots
  BY <1>0, <1>3, <1>4, <1>7
<1>9. Counted(n - 1, line, after)
  BY <1>0, <1>1, <1>5, <1>6, <1>8 DEF Counted, busier
<1> QED
  BY <1>9 DEF after

\* A request that gets in line.
LEMMA Queues ==
  ASSUME NEW line, NEW places, Counted(0, line, places), NEW r \in Requests, places[r] = "new"
  PROVE  Counted(0, Append(line, r), [places EXCEPT ![r] = "waiting"])
<1> DEFINE after == [places EXCEPT ![r] = "waiting"]
           longer == Append(line, r)
<1>0. line \in Seq(Requests) /\ Len(line) \in Nat /\ places \in [Requests -> Places]
  BY DEF Counted
<1>1. /\ after \in [Requests -> Places]
      /\ after[r] = "waiting"
      /\ \A q \in Requests \ {r} : after[q] = places[q]
      /\ \A q \in Requests : after[q] \in Busy <=> places[q] \in Busy
  BY <1>0 DEF Places, Busy
<1>2. /\ longer \in Seq(Requests) /\ Len(longer) = Len(line) + 1
      /\ \A i \in 1..Len(line) : longer[i] = line[i]
      /\ longer[Len(line) + 1] = r
  BY <1>0
<1>3. \A i \in 1..Len(line) : line[i] # r
  BY DEF Counted
<1> HIDE DEF after, longer
<1>4. {q \in Requests : after[q] \in Busy} = {q \in Requests : places[q] \in Busy}
  BY <1>1
<1>5. ASSUME NEW q \in Requests
      PROVE  after[q] = "waiting" <=> \E i \in 1..Len(longer) : longer[i] = q
  <2>1. CASE q = r
    <3>1. Len(line) + 1 \in 1..Len(longer)
      BY <1>0, <1>2
    <3> QED
      BY <1>1, <1>2, <2>1, <3>1
  <2>2. CASE q # r
    <3>1. after[q] = "waiting" <=> \E i \in 1..Len(line) : line[i] = q
      BY <1>1, <2>2 DEF Counted
    <3>2. \A i \in 1..Len(longer) : i \in 1..Len(line) \/ i = Len(line) + 1
      BY <1>0, <1>2
    <3>3. \A i \in 1..Len(line) : i \in 1..Len(longer)
      BY <1>0, <1>2
    <3> QED
      BY <1>2, <2>2, <3>1, <3>2, <3>3
  <2> QED
    BY <2>1, <2>2
<1>6. \A i, j \in 1..Len(longer) : longer[i] = longer[j] => i = j
  <2>1. \A i \in 1..Len(longer) : i \in 1..Len(line) \/ i = Len(line) + 1
    BY <1>0, <1>2
  <2>2. \A i, j \in 1..Len(line) : line[i] = line[j] => i = j
    BY DEF Counted
  <2> QED
    BY <1>2, <1>3, <2>1, <2>2
<1>7. 0 \in 0..Slots /\ Cardinality({q \in Requests : places[q] \in Busy}) + 0 = Slots
  BY DEF Counted
<1>8. Counted(0, longer, after)
  BY <1>1, <1>2, <1>4, <1>5, <1>6, <1>7 DEF Counted
<1> QED
  BY <1>8 DEF longer, after

\* A request that gives its slot back when none is waiting.
LEMMA GivesBack ==
  ASSUME NEW n, NEW places, Counted(n, <<>>, places),
         NEW r \in Requests, places[r] \in Busy, NEW place \in {"ready", "failed"}
  PROVE  Counted(n + 1, <<>>, [places EXCEPT ![r] = place])
<1> DEFINE after == [places EXCEPT ![r] = place]
           busy == {q \in Requests : places[q] \in Busy}
           freer == {q \in Requests : after[q] \in Busy}
<1>0. n \in 0..Slots /\ Slots \in Nat
  BY CacheAssumption DEF CacheAssumption, Counted
<1>1. /\ places \in [Requests -> Places] /\ after \in [Requests -> Places]
      /\ \A q \in Requests : after[q] = "waiting" <=> places[q] = "waiting"
  BY DEF Counted, Places, Busy
<1>2. freer = busy \ {r} /\ r \in busy
  BY <1>1 DEF Busy
<1>3. IsFiniteSet(busy) /\ Cardinality(busy) \in Nat
  BY BusyIsFinite
<1>4. Cardinality(busy) + n = Slots
  BY DEF Counted
<1>5. IsFiniteSet(freer) /\ Cardinality(freer) \in Nat
  BY BusyIsFinite
<1>6. \A q \in Requests : places[q] = "waiting" <=> \E i \in 1..Len(<<>>) : <<>>[i] = q
  BY DEF Counted
<1> HIDE DEF busy, freer, after
<1>7. Cardinality(freer) = Cardinality(busy) - 1
  BY <1>2, <1>3, FS_RemoveElement
<1>8. Cardinality(freer) + (n + 1) = Slots /\ n + 1 \in 0..Slots
  BY <1>0, <1>3, <1>4, <1>5, <1>7
<1>9. Counted(n + 1, <<>>, after)
  BY <1>1, <1>6, <1>8 DEF Counted, freer
<1> QED
  BY <1>9 DEF after

\* A request that gives its slot to the first in line.
LEMMA HandsOver ==
  ASSUME NEW line, NEW n, NEW places, Counted(n, line, places), line # <<>>,
         NEW r \in Requests, places[r] \in Busy, NEW place \in {"ready", "failed"}
  PROVE  Counted(n, Tail(line), [places EXCEPT ![r] = place, ![Head(line)] = "thread"])
<1> DEFINE h == Head(line)
           rest == Tail(line)
           after == [places EXCEPT ![r] = place, ![h] = "thread"]
           busy == {q \in Requests : places[q] \in Busy}
           busy2 == {q \in Requests : after[q] \in Busy}
<1>0. /\ line \in Seq(Requests) /\ Len(line) \in Nat \ {0}
      /\ places \in [Requests -> Places]
      /\ n = 0 /\ Slots \in Nat
  BY CacheAssumption DEF CacheAssumption, Counted
<1>1. h = line[1] /\ h \in Requests /\ 1 \in 1..Len(line)
  BY <1>0
<1>2. places[h] = "waiting"
  BY <1>1 DEF Counted
<1>3. h # r /\ h \notin busy /\ r \in busy
  BY <1>2 DEF Busy
<1>4. /\ rest \in Seq(Requests) /\ Len(rest) = Len(line) - 1
      /\ \A i \in 1..Len(rest) : rest[i] = line[i + 1]
  BY <1>0
<1> HIDE DEF h, rest
<1>5. /\ after \in [Requests -> Places]
      /\ after[h] = "thread" /\ after[r] = place
      /\ \A q \in Requests \ {h, r} : after[q] = places[q]
  BY <1>0, <1>1, <1>3 DEF Places
<1> HIDE DEF after
<1>6. busy2 = (busy \ {r}) \union {h}
  BY <1>1, <1>3, <1>5 DEF Busy
<1>7. IsFiniteSet(busy) /\ Cardinality(busy) \in Nat
  BY BusyIsFinite
<1>8. Cardinality(busy) + n = Slots
  BY DEF Counted
<1>9. \A i, j \in 1..Len(line) : line[i] = line[j] => i = j
  BY DEF Counted
<1>10. \A q \in Requests : places[q] = "waiting" <=> \E i \in 1..Len(line) : line[i] = q
  BY DEF Counted
<1> HIDE DEF busy, busy2
<1>11. IsFiniteSet(busy \ {r}) /\ Cardinality(busy \ {r}) = Cardinality(busy) - 1
  BY <1>3, <1>7, FS_RemoveElement
<1>12. Cardinality(busy2) = Cardinality(busy \ {r}) + 1
  BY <1>3, <1>6, <1>11, FS_AddElement
<1>13. Cardinality(busy2) + n = Slots
  BY <1>0, <1>7, <1>8, <1>11, <1>12
<1>14. ASSUME NEW q \in Requests
       PROVE  after[q] = "waiting" <=> \E i \in 1..Len(rest) : rest[i] = q
  <2>1. CASE q = r
    <3>1. after[q] # "waiting" /\ places[q] # "waiting"
      BY <1>5, <2>1 DEF Busy
    <3>2. \A i \in 1..Len(rest) : i + 1 \in 1..Len(line)
      BY <1>0, <1>4
    <3> QED
      BY <1>4, <1>10, <3>1, <3>2
  <2>2. CASE q = h
    <3>1. after[q] # "waiting"
      BY <1>5, <2>2
    <3>2. ASSUME NEW i \in 1..Len(rest) PROVE rest[i] # q
      <4>1. i + 1 \in 1..Len(line) /\ i + 1 # 1
        BY <1>0, <1>4
      <4> QED
        BY <1>1, <1>4, <1>9, <2>2, <4>1
    <3> QED
      BY <3>1, <3>2
  <2>3. CASE q # r /\ q # h
    <3>1. after[q] = "waiting" <=> \E i \in 1..Len(line) : line[i] = q
      BY <1>5, <1>10, <2>3
    <3>2. ASSUME NEW i \in 1..Len(line), line[i] = q PROVE i - 1 \in 1..Len(rest) /\ rest[i - 1] = q
      <4>1. i # 1
        BY <1>1, <2>3, <3>2
      <4>2. i - 1 \in 1..Len(rest) /\ (i - 1) + 1 = i
        BY <1>0, <1>4, <4>1
      <4> QED
        BY <1>4, <3>2, <4>2
    <3>3. \A i \in 1..Len(rest) : i + 1 \in 1..Len(line)
      BY <1>0, <1>4
    <3> QED
      BY <1>4, <3>1, <3>2, <3>3
  <2> QED
    BY <2>1, <2>2, <2>3
<1>15. \A i, j \in 1..Len(rest) : rest[i] = rest[j] => i = j
  <2>1. \A i \in 1..Len(rest) : i + 1 \in 1..Len(line) /\ i \in Nat
    BY <1>0, <1>4
  <2> QED
    BY <1>4, <1>9, <2>1
<1>16. Counted(n, rest, after)
  BY <1>0, <1>4, <1>5, <1>13, <1>14, <1>15 DEF Counted, busy2
<1> QED
  BY <1>16 DEF h, rest, after

-----------------------------------------------------------------------------
(***************************************************************************)
(* The invariant.                                                          *)
(***************************************************************************)

Parts(obj, places) ==
  /\ size \in Sizes
  /\ agentOf \in [Requests -> Agents]
  /\ Sound(cache, obj)
  /\ Counted(free, waiting, places)

LEMMA InvInParts == CacheInv <=> Parts(object, pc)
<1>1. Holding = {q \in Requests : pc[q] \in Busy}
  BY DEF Holding, Busy
<1>2. ASSUME CacheInv PROVE Parts(object, pc)
  BY <1>1, <1>2 DEF CacheInv, CacheTypeOK, CacheIsSound, SlotsAreKept, Parts, Sound, Counted
<1>3. ASSUME Parts(object, pc) PROVE CacheInv
  BY <1>1, <1>3 DEF CacheInv, CacheTypeOK, CacheIsSound, SlotsAreKept, Parts, Sound, Counted
<1> QED
  BY <1>2, <1>3

LEMMA CacheInvInit == CacheInit => CacheInv
<1> SUFFICES ASSUME CacheInit PROVE CacheInv
  OBVIOUS
<1>1. /\ size \in Nat /\ Slots \in Nat /\ NoObject \notin Requests
      /\ cache = <<>> /\ waiting = <<>> /\ free = Slots
      /\ \A r \in Requests : pc[r] = "new" /\ object[r] = NoObject
  BY CacheAssumption DEF CacheAssumption, CacheInit
<1>2. CacheTypeOK
  BY <1>1 DEF CacheInit, CacheTypeOK, Places
<1>3. CacheIsSound
  BY <1>1 DEF CacheIsSound
<1>4. Holding = {}
  BY <1>1 DEF Holding
<1>5. Cardinality(Holding) + free = Slots
  BY <1>1, <1>4, FS_EmptySet
<1>6. SlotsAreKept
  BY <1>1, <1>5 DEF SlotsAreKept
<1> QED
  BY <1>2, <1>3, <1>6 DEF CacheInv

\* One step of any request or thread.
LEMMA CacheInvStep ==
  ASSUME CacheInv, NEW r \in Requests, Ask(r) \/ AgentStep(r)
  PROVE  CacheInv' /\ Keeps(cache, cache')
<1>1. /\ size \in Sizes /\ agentOf \in [Requests -> Agents]
      /\ Sound(cache, object) /\ Counted(free, waiting, pc)
      /\ CacheTypeOK /\ CacheAssumption
  BY InvInParts, CacheAssumption DEF Parts, CacheInv
<1>2. /\ size' = size /\ agentOf' = agentOf
  BY DEF Ask, AgentStep, ThreadStep, AskHit, AskMiss, ThreadHit, ThreadMiss, ParseAndStore,
         ParseRaises, Release, agentVars
<1>3. /\ pc \in [Requests -> Places] /\ free \in 0..Slots /\ waiting \in Seq(Requests)
      /\ object \in [Requests -> Requests \union {NoObject}]
  BY <1>1 DEF CacheTypeOK
<1>4. Keeps(cache, cache)
  BY DEF Keeps
<1>5. Sound(cache', object') /\ Keeps(cache, cache')
  <2>1. CASE AskHit(r)
    <3>1. PICK found \in Requests : /\ Hit(agentOf[r], found)
                                    /\ object' = [object EXCEPT ![r] = found]
      BY <2>1 DEF AskHit
    <3> QED
      BY <1>1, <3>1, HitIsSound
  <2>2. CASE ThreadHit(r)
    <3>1. PICK found \in Requests : /\ Hit(agentOf[r], found)
                                    /\ object' = [object EXCEPT ![r] = found]
      BY <2>2 DEF ThreadHit
    <3> QED
      BY <1>1, <3>1, HitIsSound
  <2>3. CASE ParseAndStore(r)
    <3>1. PICK kept \in Requests : /\ StoreCached(agentOf[r], r, kept)
                                   /\ object' = [object EXCEPT ![r] = kept]
      BY <2>3 DEF ParseAndStore
    <3> QED
      BY <1>1, <3>1, StoreIsSound
  <2>4. CASE AskMiss(r) \/ ThreadMiss(r) \/ ParseRaises(r) \/ Release(r)
    <3>1. cache' = cache /\ object' = object
      BY <2>4 DEF AskMiss, ThreadMiss, ParseRaises, Release, agentVars
    <3> QED
      BY <1>1, <1>4, <3>1
  <2> QED
    BY <2>1, <2>2, <2>3, <2>4 DEF Ask, AgentStep, ThreadStep
<1>6. Counted(free', waiting', pc')
  <2>1. CASE AskHit(r)
    <3>1. /\ pc' = [pc EXCEPT ![r] = "ready"] /\ UNCHANGED <<free, waiting>>
          /\ pc[r] = "new"
      BY <2>1 DEF AskHit
    <3>2. Counted(free, waiting, [pc EXCEPT ![r] = "ready"])
      BY <1>1, <3>1, MovesOn DEF Places, Busy
    <3> QED
      BY <3>1, <3>2
  <2>2. CASE AskMiss(r)
    <3>1. CASE free > 0
      <4>1. /\ pc' = [pc EXCEPT ![r] = "thread"] /\ free' = free - 1 /\ waiting' = waiting
            /\ pc[r] = "new"
        BY <2>2, <3>1 DEF AskMiss
      <4>2. Counted(free - 1, waiting, [pc EXCEPT ![r] = "thread"])
        BY <1>1, <3>1, <4>1, Takes
      <4> QED
        BY <4>1, <4>2
    <3>2. CASE ~(free > 0)
      <4>1. /\ pc' = [pc EXCEPT ![r] = "waiting"] /\ waiting' = Append(waiting, r)
            /\ free' = free /\ pc[r] = "new"
        BY <2>2, <3>2 DEF AskMiss
      <4>2. free = 0
        BY <1>1, <1>3, <3>2 DEF CacheAssumption
      <4>3. Counted(0, Append(waiting, r), [pc EXCEPT ![r] = "waiting"])
        BY <1>1, <4>1, <4>2, Queues
      <4> QED
        BY <4>1, <4>2, <4>3
    <3> QED
      BY <3>1, <3>2
  <2>3. CASE ThreadHit(r) \/ ParseAndStore(r)
    <3>1. /\ pc' = [pc EXCEPT ![r] = "parsed"] /\ UNCHANGED <<free, waiting>>
          /\ pc[r] \in {"thread", "parsing"}
      BY <2>3 DEF ThreadHit, ParseAndStore
    <3>2. Counted(free, waiting, [pc EXCEPT ![r] = "parsed"])
      BY <1>1, <3>1, MovesOn DEF Places, Busy
    <3> QED
      BY <3>1, <3>2
  <2>4. CASE ThreadMiss(r)
    <3>1. /\ pc' = [pc EXCEPT ![r] = "parsing"] /\ UNCHANGED <<free, waiting>>
          /\ pc[r] = "thread"
      BY <2>4 DEF ThreadMiss, agentVars
    <3>2. Counted(free, waiting, [pc EXCEPT ![r] = "parsing"])
      BY <1>1, <3>1, MovesOn DEF Places, Busy
    <3> QED
      BY <3>1, <3>2
  <2>5. CASE ParseRaises(r)
    <3>1. /\ pc' = [pc EXCEPT ![r] = "raised"] /\ UNCHANGED <<free, waiting>>
          /\ pc[r] = "parsing"
      BY <2>5 DEF ParseRaises, agentVars
    <3>2. Counted(free, waiting, [pc EXCEPT ![r] = "raised"])
      BY <1>1, <3>1, MovesOn DEF Places, Busy
    <3> QED
      BY <3>1, <3>2
  <2>6. CASE Release(r)
    <3>0. pc[r] \in Busy /\ After(r) \in {"ready", "failed"}
      BY <2>6 DEF Release, Busy, After
    <3>1. CASE waiting = <<>>
      <4>1. /\ pc' = [pc EXCEPT ![r] = After(r)] /\ free' = free + 1 /\ waiting' = <<>>
        BY <2>6, <3>1 DEF Release
      <4>2. Counted(free, <<>>, pc)
        BY <1>1, <3>1
      <4>3. Counted(free + 1, <<>>, [pc EXCEPT ![r] = After(r)])
        BY <3>0, <4>2, GivesBack
      <4> QED
        BY <4>1, <4>3
    <3>2. CASE waiting # <<>>
      <4>1. /\ pc' = [pc EXCEPT ![r] = After(r), ![Head(waiting)] = "thread"]
            /\ free' = free /\ waiting' = Tail(waiting)
        BY <2>6, <3>2 DEF Release
      <4>2. Counted(free, Tail(waiting), [pc EXCEPT ![r] = After(r), ![Head(waiting)] = "thread"])
        BY <1>1, <3>0, <3>2, HandsOver
      <4> QED
        BY <4>1, <4>2
    <3> QED
      BY <3>1, <3>2
  <2> QED
    BY <2>1, <2>2, <2>3, <2>4, <2>5, <2>6 DEF Ask, AgentStep, ThreadStep
<1>7. Parts(object, pc)'
  BY <1>1, <1>2, <1>5, <1>6 DEF Parts, Sound, Counted
<1>8. CacheInv' <=> Parts(object, pc)'
  BY InvInParts, PTL
<1> QED
  BY <1>5, <1>7, <1>8

LEMMA CacheInvNext == CacheInv /\ [CacheNext]_cacheVars => CacheInv'
<1> SUFFICES ASSUME CacheInv, [CacheNext]_cacheVars PROVE CacheInv'
  OBVIOUS
<1>1. CASE CacheNext
  BY <1>1, CacheInvStep DEF CacheNext
<1>2. CASE UNCHANGED cacheVars
  <2>1. UNCHANGED <<size, agentOf, cache, free, waiting, pc, object>>
    BY <1>2 DEF cacheVars
  <2> QED
    BY <2>1 DEF CacheInv, CacheTypeOK, CacheIsSound, SlotsAreKept, Holding
<1> QED
  BY <1>1, <1>2

LEMMA CacheInvariant == CacheSpec => []CacheInv
<1> QED
  BY CacheInvInit, CacheInvNext, PTL DEF CacheSpec

-----------------------------------------------------------------------------
(***************************************************************************)
(* The theorems.                                                           *)
(***************************************************************************)

\* The state of cache, requests and slots always has its type: no more than
\* the configured number of slots is ever taken or free (useragent.py:34-71,
\* concurrency.py:11-39).
THEOREM TypeCorrect == CacheSpec => []CacheTypeOK
<1>1. CacheInv => CacheTypeOK
  BY DEF CacheInv
<1> QED
  BY CacheInvariant, <1>1, PTL

\* However many requests and threads share it, the cache stays within its
\* size, holds no agent twice, and what a request gets was parsed from the
\* string it sent (useragent.py:41-71).
THEOREM CacheSound == CacheSpec => []CacheIsSound
<1>1. CacheInv => CacheIsSound
  BY DEF CacheInv
<1> QED
  BY CacheInvariant, <1>1, PTL

\* Every slot is free or held by one request, through parses that return or
\* raise, and none is free while a request waits for one (concurrency.py:31-39).
THEOREM SlotsNeverLost == CacheSpec => []SlotsAreKept
<1>1. CacheInv => SlotsAreKept
  BY DEF CacheInv
<1> QED
  BY CacheInvariant, <1>1, PTL

\* An object that is cached stays so until it is the least recently used one
\* and evicted, whatever threads parsed the same string (useragent.py:63-71).
THEOREM FirstWins == CacheSpec => FirstCachedWins
<1> DEFINE A == \A i \in 1..Len(cache) :
                  \/ \E j \in 1..Len(cache') : cache'[j] = cache[i]
                  \/ i = 1 /\ \A j \in 1..Len(cache') : cache'[j][1] # cache[1][1]
<1>1. CacheInv /\ [CacheNext]_cacheVars => [A]_cacheVars
  <2> SUFFICES ASSUME CacheInv, CacheNext PROVE A
    OBVIOUS
  <2>1. PICK r \in Requests : Ask(r) \/ AgentStep(r)
    BY DEF CacheNext
  <2>2. Keeps(cache, cache')
    BY <2>1, CacheInvStep
  <2> QED
    BY <2>2 DEF Keeps
<1> QED
  BY CacheInvariant, <1>1, PTL DEF CacheSpec, FirstCachedWins

-----------------------------------------------------------------------------
(***************************************************************************)
(* The collector uses the cache, and does nothing else to it.              *)
(***************************************************************************)

LEMMA CacheUses == [Next]_vars => [CacheNext]_cacheVars
<1> SUFFICES ASSUME [Next]_vars PROVE [CacheNext]_cacheVars
  OBVIOUS
<1>1. ASSUME NEW r \in Requests, Receive(r) \/ ParseAgent(r) PROVE CacheNext
  BY <1>1 DEF Receive, ParseAgent, CacheNext
<1>2. ASSUME NEW r \in Requests, Refuse(r) \/ Finish(r) PROVE UNCHANGED cacheVars
  BY <1>2 DEF Refuse, Finish, Process, Insert, InsertFails, FailAgent
<1>3. CASE UNCHANGED vars
  BY <1>3 DEF vars
<1> QED
  BY <1>1, <1>2, <1>3 DEF Next

\* Whatever a request does, its user agent goes through the cache and the slots
\* as UserAgentCache has them (useragent.py:41-71, concurrency.py:11-39).
THEOREM UsesCache == Spec => CacheSpec
<1>1. Init => CacheInit
  BY DEF Init
<1> QED
  BY <1>1, CacheUses, PTL DEF Spec, CacheSpec

\* So what is proved of the cache holds of the collector.
THEOREM CacheInCollector ==
  Spec => []CacheTypeOK /\ []CacheIsSound /\ []SlotsAreKept /\ FirstCachedWins
BY UsesCache, TypeCorrect, CacheSound, SlotsNeverLost, FirstWins

-----------------------------------------------------------------------------
(***************************************************************************)
(* The loop over the events (process_data): FoldLeft recurses on the sets  *)
(* of a sequence's indices.  The library's induction theorems take an      *)
(* operator, so induction is derived here as a statement about a set.      *)
(***************************************************************************)

\* A set of natural numbers has a least element.
LEMMA LeastNumber ==
  ASSUME NEW T \in SUBSET Nat, T # {}
  PROVE  \E m \in T : \A k \in T : m <= k
<1> DEFINE R == OpToRel(<, Nat)
<1>1. IsWellFoundedOn(R, Nat)
  BY NatLessThanWellFounded
<1>2. \A x, y \in Nat : x < y => <<x, y>> \in R
  BY DEF OpToRel
<1> HIDE DEF R
<1>3. \E m \in T : \A k \in T : <<k, m>> \notin R
  BY <1>1, WFMin
<1>4. PICK m \in T : \A k \in T : <<k, m>> \notin R
  BY <1>3
<1>5. \A k \in T : ~ (k < m)
  BY <1>2, <1>4
<1>6. \A k \in T : m <= k
  BY <1>5
<1> QED
  BY <1>6

LEMMA Induction ==
  ASSUME NEW T \in SUBSET Nat, 0 \in T, \A n \in T : n + 1 \in T
  PROVE  T = Nat
<1> SUFFICES ASSUME Nat \ T # {} PROVE FALSE
  OBVIOUS
<1>1. PICK m \in Nat \ T : \A k \in Nat \ T : m <= k
  BY LeastNumber
<1>2. m - 1 \in T
  BY <1>1
<1> QED
  BY <1>1, <1>2

\* The largest of some indices.
LEMMA LargestIndex ==
  ASSUME NEW n \in Nat, NEW s \in SUBSET (1..n), s # {}
  PROVE  /\ Max(s) \in s
         /\ \A i \in s : Max(s) >= i
<1> DEFINE T == {n - i : i \in s}
<1>0. \A i \in s : i \in Nat /\ n - i \in Nat
  OBVIOUS
<1>1. T \in SUBSET Nat /\ T # {}
  BY <1>0
<1>2. PICK m \in T : \A k \in T : m <= k
  BY <1>1, LeastNumber
<1>3. PICK i \in s : m = n - i
  BY <1>2
<1>4. \A j \in s : i >= j
  BY <1>0, <1>2, <1>3
<1> QED
  BY <1>3, <1>4 DEF Max

\* One turn of process_data's loop over the events, or of parse_contexts' loop.
EventTurn(agent, cookies, done, event) ==
  [defaults |-> DefaultsAfter(done.defaults, ParsePayload(done.defaults, agent, event, cookies)),
   rows |-> Append(done.rows, ParsePayload(done.defaults, agent, event, cookies))]

OverEvents(agent, cookies) == [over |-> "events", agent |-> agent, cookies |-> cookies]
OverContexts == [over |-> "contexts"]

Turn(loop, done, item) ==
  IF loop.over = "events" THEN EventTurn(loop.agent, loop.cookies, done, item)
                          ELSE ParseContext(done, item)

\* The recursion that FoldLeft makes of a loop: iter[1..k] is what the first k
\* turns have done.
Loop(loop, first, list, iter) ==
  iter = [s \in SUBSET DOMAIN list |->
            IF s = {} THEN first ELSE Turn(loop, iter[s \ {Max(s)}], list[Max(s)])]

\* The same with the turn written out, as FoldLeft has it.
EventLoop(first, agent, cookies, list, iter) ==
  iter = [s \in SUBSET DOMAIN list |->
            IF s = {} THEN first
            ELSE EventTurn(agent, cookies, iter[s \ {Max(s)}], list[Max(s)])]

ContextLoop(first, list, iter) ==
  iter = [s \in SUBSET DOMAIN list |->
            IF s = {} THEN first ELSE ParseContext(iter[s \ {Max(s)}], list[Max(s)])]

LEMMA ProcessedUnfolds ==
  ASSUME NEW r
  PROVE  Processed(r) =
           (CHOOSE iter : EventLoop([defaults |-> defaults, rows |-> <<>>], object[r],
                                    body[r].cookies, body[r].events, iter))[DOMAIN body[r].events]
BY Zenon DEF Processed, FoldLeft, MapThenFoldSet, EventLoop, EventTurn

LEMMA ContextsUnfold ==
  ASSUME NEW row, NEW list
  PROVE  FoldLeft(ParseContext, row, list) =
           (CHOOSE iter : ContextLoop(row, list, iter))[DOMAIN list]
BY Zenon DEF FoldLeft, MapThenFoldSet, ContextLoop

\* The recursion has a solution.
LEMMA LoopExists ==
  ASSUME NEW n \in Nat, NEW list, DOMAIN list = 1..n, NEW first, NEW loop
  PROVE  \E iter : Loop(loop, first, list, iter)
<1> DEFINE Body(h, s) == IF s = {} THEN first
                         ELSE Turn(loop, h[s \ {Max(s)}], list[Max(s)])
           UpTo(k, h) == \A s \in SUBSET (1..n) : s \subseteq 1..k => h[s] = Body(h, s)
           T == {k \in Nat : \E h : UpTo(k, h)}
<1>1. 0 \in T
  <2> DEFINE h == [s \in SUBSET (1..n) |-> first]
  <2>1. ASSUME NEW s \in SUBSET (1..n), s \subseteq 1..0 PROVE h[s] = Body(h, s)
    <3>1. s = {}
      BY <2>1
    <3> QED
      BY <3>1
  <2> QED
    BY <2>1
<1>2. ASSUME NEW k \in T PROVE k + 1 \in T
  <2>1. k \in Nat /\ k + 1 \in Nat
    OBVIOUS
  <2>2. PICK h : UpTo(k, h)
    OBVIOUS
  <2> DEFINE g == [s \in SUBSET (1..n) |-> Body(h, s)]
  <2>3. ASSUME NEW s \in SUBSET (1..n), s \subseteq 1..(k + 1), s # {}
        PROVE  g[s] = Turn(loop, g[s \ {Max(s)}], list[Max(s)])
    <3>1. s \ {Max(s)} \in SUBSET (1..n) /\ s \ {Max(s)} \subseteq 1..k
      <4>1. Max(s) \in s /\ \A i \in s : Max(s) >= i
        BY <2>3, LargestIndex
      <4>2. ASSUME NEW i \in s \ {Max(s)} PROVE i \in 1..k
        <5>1. i \in 1..(k + 1) /\ Max(s) \in 1..(k + 1) /\ i # Max(s) /\ Max(s) >= i
          BY <2>3, <4>1
        <5> QED
          BY <2>1, <5>1
      <4> QED
        BY <4>2
    <3>2. g[s \ {Max(s)}] = h[s \ {Max(s)}]
      BY <2>2, <3>1
    <3> QED
      BY <2>3, <3>2
  <2>4. UpTo(k + 1, g)
    BY <2>3
  <2> QED
    BY <2>1, <2>4
<1> HIDE DEF T
<1>3. n \in T
  BY <1>1, <1>2, Induction DEF T
<1>4. PICK h : \A s \in SUBSET (1..n) : h[s] = Body(h, s)
  BY <1>3 DEF T
<1> DEFINE iter == [s \in SUBSET (1..n) |-> Body(h, s)]
<1>5. ASSUME NEW s \in SUBSET (1..n), s # {} PROVE iter[s \ {Max(s)}] = h[s \ {Max(s)}]
  BY <1>4
<1>6. ASSUME NEW s \in SUBSET (1..n) PROVE Body(h, s) = Body(iter, s)
  BY <1>5
<1>7. iter = [s \in SUBSET (1..n) |-> Body(iter, s)]
  BY <1>6
<1>8. Loop(loop, first, list, iter)
  BY <1>7, Zenon DEF Loop
<1> QED
  BY <1>8

LEMMA EventLoops ==
  ASSUME NEW list, NEW first, NEW agent, NEW cookies, NEW iter
  PROVE  EventLoop(first, agent, cookies, list, iter)
           <=> Loop(OverEvents(agent, cookies), first, list, iter)
<1>1. \A done, item : Turn(OverEvents(agent, cookies), done, item)
                        = EventTurn(agent, cookies, done, item)
  BY DEF Turn, OverEvents
<1> QED
  BY <1>1, Zenon DEF EventLoop, Loop

LEMMA ContextLoops ==
  ASSUME NEW list, NEW first, NEW iter
  PROVE  ContextLoop(first, list, iter) <=> Loop(OverContexts, first, list, iter)
<1>1. \A done, item : Turn(OverContexts, done, item) = ParseContext(done, item)
  BY DEF Turn, OverContexts
<1> QED
  BY <1>1, Zenon DEF ContextLoop, Loop

\* What the turns have done is what one more turn makes of what they had done.
LEMMA LoopUnrolls ==
  ASSUME NEW n \in Nat, NEW list, DOMAIN list = 1..n, NEW first, NEW loop, NEW iter,
         Loop(loop, first, list, iter)
  PROVE  /\ iter[1..0] = first
         /\ \A k \in 1..n : iter[1..k] = Turn(loop, iter[1..(k - 1)], list[k])
<1>1. /\ iter[{}] = first
      /\ \A s \in SUBSET (1..n) :
           s # {} => iter[s] = Turn(loop, iter[s \ {Max(s)}], list[Max(s)])
  BY DEF Loop
<1>2. 1..0 = {}
  OBVIOUS
<1>3. ASSUME NEW k \in 1..n PROVE iter[1..k] = Turn(loop, iter[1..(k - 1)], list[k])
  <2> DEFINE s == 1..k
  <2>1. s \in SUBSET (1..n) /\ s # {} /\ k \in s
    OBVIOUS
  <2>2. Max(s) = k
    <3>1. Max(s) \in s /\ \A i \in s : Max(s) >= i
      BY <2>1, LargestIndex
    <3> QED
      BY <2>1, <3>1
  <2>3. s \ {k} = 1..(k - 1)
    OBVIOUS
  <2> QED
    BY <1>1, <2>1, <2>2, <2>3
<1> QED
  BY <1>1, <1>2, <1>3

\* After k turns there are k rows, each made of its own event and the defaults
\* that were there before the first turn.
LEMMA LoopMakes ==
  ASSUME NEW n \in Nat, NEW list, DOMAIN list = 1..n, NEW d, NEW agent, NEW cookies, NEW iter,
         Loop(OverEvents(agent, cookies), [defaults |-> d, rows |-> <<>>], list, iter)
  PROVE  /\ iter[1..n].defaults = d
         /\ \E S : iter[1..n].rows \in Seq(S)
         /\ Len(iter[1..n].rows) = n
         /\ \A i \in 1..n : iter[1..n].rows[i] = ParsePayload(d, agent, list[i], cookies)
<1> DEFINE Row(i) == ParsePayload(d, agent, list[i], cookies)
           S == {Row(i) : i \in 1..n}
           Done(k) == /\ iter[1..k].defaults = d
                      /\ iter[1..k].rows \in Seq(S)
                      /\ Len(iter[1..k].rows) = k
                      /\ \A i \in 1..k : iter[1..k].rows[i] = Row(i)
           T == {k \in Nat : k <= n => Done(k)}
<1>1. /\ iter[1..0] = [defaults |-> d, rows |-> <<>>]
      /\ \A k \in 1..n : iter[1..k] = Turn(OverEvents(agent, cookies), iter[1..(k - 1)], list[k])
  BY LoopUnrolls
<1>2. 0 \in T
  <2>1. 1..0 = {}
    OBVIOUS
  <2>2. iter[1..0].defaults = d /\ iter[1..0].rows = <<>>
    BY <1>1
  <2> HIDE DEF Row, S
  <2>3. Done(0)
    BY <2>1, <2>2
  <2> QED
    BY <2>3
<1>3. ASSUME NEW k \in T PROVE k + 1 \in T
  <2> SUFFICES ASSUME k + 1 <= n PROVE Done(k + 1)
    OBVIOUS
  <2>1. k \in Nat /\ k + 1 \in 1..n /\ Done(k)
    OBVIOUS
  <2> DEFINE s == 1..(k + 1)
  <2>5. iter[s] = EventTurn(agent, cookies, iter[1..k], list[k + 1])
    <3>1. iter[s] = Turn(OverEvents(agent, cookies), iter[1..k], list[k + 1])
      BY <1>1, <2>1
    <3> QED
      BY <3>1 DEF Turn, OverEvents
  <2> HIDE DEF Row, S, s
  <2>6. iter[s].defaults = d /\ iter[s].rows = Append(iter[1..k].rows, Row(k + 1))
    BY <2>1, <2>5 DEF EventTurn, DefaultsAfter, Row
  <2>7. Row(k + 1) \in S
    BY <2>1 DEF S
  <2>8. /\ iter[s].rows \in Seq(S) /\ Len(iter[s].rows) = k + 1
        /\ \A i \in 1..(k + 1) : iter[s].rows[i] = Row(i)
    BY <2>1, <2>6, <2>7
  <2> QED
    BY <2>6, <2>8 DEF s
<1> HIDE DEF T
<1>4. n \in T
  BY <1>2, <1>3, Induction DEF T
<1>5. Done(n)
  BY <1>4 DEF T
<1> QED
  BY <1>5

\* What process_data makes of the events of a body.
LEMMA LoopOverEvents ==
  ASSUME NEW r, NEW events, events = body[r].events, NEW E, events \in Seq(E)
  PROVE  /\ Processed(r).defaults = defaults
         /\ \E S : Processed(r).rows \in Seq(S)
         /\ Len(Processed(r).rows) = Len(events)
         /\ \A i \in 1..Len(events) :
              Processed(r).rows[i] = ParsePayload(defaults, object[r], events[i], body[r].cookies)
<1> DEFINE first == [defaults |-> defaults, rows |-> <<>>]
           chosen == CHOOSE iter : EventLoop(first, object[r], body[r].cookies, events, iter)
<1>1. Len(events) \in Nat /\ DOMAIN events = 1..Len(events)
  OBVIOUS
<1>2. Loop(OverEvents(object[r], body[r].cookies), first, events, chosen)
  <2>1. \E iter : EventLoop(first, object[r], body[r].cookies, events, iter)
    BY <1>1, LoopExists, EventLoops
  <2> QED
    BY <2>1, EventLoops
<1>3. Processed(r) = chosen[1..Len(events)]
  BY <1>1, ProcessedUnfolds
<1> HIDE DEF chosen
<1> QED
  BY <1>1, <1>2, <1>3, LoopMakes

-----------------------------------------------------------------------------
(***************************************************************************)
(* What a context makes of a row.                                          *)
(***************************************************************************)

\* The fields that the precedence is about, and those that decide it.
Tracked == {"e", "url", "refr", "duid", "view_id", "res", "agent", "device_model",
            "is_mobile", "extra", "ue", "screen", "amp", "raised"}

IsRow(row) == Tracked \subseteq DOMAIN row

\* The value under a key, if there is one.
At(data, key) == IF key \in DOMAIN data THEN {data[key]} ELSE {}

\* What one context makes of the row.
ContextMakes(row, c, next) ==
  /\ IsRow(next)
  /\ next.e = row.e /\ next.refr = row.refr /\ next.agent = row.agent
  /\ next.duid = IF NamesUser(c) THEN SafeUuid(c.data["userId"]) ELSE row.duid
  /\ next.url = IF TitlesScreen(c) THEN c.data["name"] ELSE row.url
  /\ next.view_id = IF Views(c) THEN SafeUuid(Get(c.data, "id", Null)) ELSE row.view_id
  /\ next.res = IF Measures(c) THEN c.data["resolution"] ELSE row.res
  /\ next.device_model = IF NamesModel(c) THEN c.data["deviceModel"] ELSE row.device_model
  /\ next.is_mobile = IF c.schema = "mobile_context" THEN TRUE ELSE row.is_mobile
  /\ Get(next.amp, "domainUserid", Null)
       = IF NamesAmpDevice(c) THEN c.data["domainUserid"] ELSE Get(row.amp, "domainUserid", Null)
  /\ At(next.screen, "screen_name")
       = IF NamesScreen(c) THEN {c.data["screen_name"]} ELSE At(row.screen, "screen_name")
  /\ Get(next.extra, "client_hints", NoKeys)
       = IF GivesHints(c) THEN HintsOf(c) ELSE Get(row.extra, "client_hints", NoKeys)
  /\ DOMAIN next.extra = DOMAIN row.extra \union ExtraKeysOf(c)
  /\ DOMAIN next.ue = DOMAIN row.ue \union UeKeysOf(c)

\* Who has a say in what.
LEMMA Silent ==
  ASSUME NEW c
  PROVE  /\ c.schema # "client_session" => ~NamesUser(c)
         /\ c.schema # "screen" => ~TitlesScreen(c)
         /\ c.schema \notin {"web_page", "screen"} => ~Views(c)
         /\ c.schema # "browser_context" => ~Measures(c)
         /\ c.schema # "mobile_context" => ~NamesModel(c)
         /\ c.schema \notin AmpSchemas => ~NamesAmpDevice(c)
         /\ c.schema \notin {"screen", "screen_data"} => ~NamesScreen(c)
         /\ c.schema \notin {"http_client_hints", "static_context"} => ~GivesHints(c)
         /\ c.schema # "static_context" /\ c.schema \notin DOMAIN ExtraKeys => ExtraKeysOf(c) = {}
         /\ c.schema \notin DOMAIN UeKeys => UeKeysOf(c) = {}
BY DEF NamesUser, TitlesScreen, Views, Measures, NamesModel, NamesAmpDevice, NamesScreen,
       GivesHints, ExtraKeysOf, UeKeysOf

\* The schemas that collect what has no column.
LEMMA KeyDomains ==
  /\ DOMAIN ExtraKeys = {"PerformanceTiming", "http_client_hints", "cookies"}
  /\ DOMAIN UeKeys = {"ad_data", "screen_summary", "application_lifecycle", "referrer_details",
                      "PerformanceNavigationTiming", "deep_link", "deep_link_received",
                      "message_notification"}
BY DEF ExtraKeys, UeKeys

\* Each handler writes the fields that its schema has a say in, and no other.
LEMMA HandleMakes ==
  ASSUME NEW row, IsRow(row), NEW c
  PROVE  ContextMakes(row, c, Handle(row, c.schema, c.data))
<1> SUFFICES ASSUME NEW next, next = Handle(row, c.schema, c.data)
             PROVE  ContextMakes(row, c, next)
  OBVIOUS
<1>0. Tracked \subseteq DOMAIN row
  BY DEF IsRow
<1>1. CASE c.schema = "static_context"
  <2>1. next = [row EXCEPT !.extra = Merged(@, c.data)]
    BY <1>1, KeyDomains DEF Handle, AmpSchemas
  <2>2. /\ ~NamesUser(c) /\ ~TitlesScreen(c) /\ ~Views(c) /\ ~Measures(c)
        /\ ~NamesModel(c) /\ ~NamesAmpDevice(c) /\ ~NamesScreen(c) /\ UeKeysOf(c) = {}
        /\ c.schema # "mobile_context"
    BY <1>1, Silent, KeyDomains DEF AmpSchemas
  <2>3. next.extra = Merged(row.extra, c.data)
    BY <1>0, <2>1 DEF Tracked
  <2>4. Get(next.extra, "client_hints", NoKeys)
          = IF GivesHints(c) THEN HintsOf(c) ELSE Get(row.extra, "client_hints", NoKeys)
    <3>1. Get(next.extra, "client_hints", NoKeys)
            = IF "client_hints" \in DOMAIN c.data THEN c.data["client_hints"]
              ELSE Get(row.extra, "client_hints", NoKeys)
      BY <2>3 DEF Merged, Get
    <3>2. GivesHints(c) <=> "client_hints" \in DOMAIN c.data
      BY <1>1 DEF GivesHints
    <3>3. HintsOf(c) = c.data["client_hints"]
      BY <1>1 DEF HintsOf
    <3> QED
      BY <3>1, <3>2, <3>3
  <2>5. DOMAIN next.extra = DOMAIN row.extra \union ExtraKeysOf(c)
    BY <1>1, <2>3 DEF Merged, ExtraKeysOf
  <2> QED
    BY <1>0, <1>1, <2>1, <2>2, <2>3, <2>4, <2>5 DEF Tracked, ContextMakes, IsRow
<1>2. CASE c.schema \in DOMAIN ExtraKeys
  <2>1. next = [row EXCEPT !.extra = Put(@, ExtraKeys[c.schema], c.data)]
    BY <1>2, KeyDomains DEF Handle, AmpSchemas
  <2>2. /\ ~NamesUser(c) /\ ~TitlesScreen(c) /\ ~Views(c) /\ ~Measures(c)
        /\ ~NamesModel(c) /\ ~NamesAmpDevice(c) /\ ~NamesScreen(c) /\ UeKeysOf(c) = {}
        /\ c.schema # "mobile_context"
    BY <1>2, Silent, KeyDomains DEF AmpSchemas
  <2>3. next.extra = Put(row.extra, ExtraKeys[c.schema], c.data)
    BY <1>0, <2>1 DEF Tracked
  <2>4. Get(next.extra, "client_hints", NoKeys)
          = IF GivesHints(c) THEN HintsOf(c) ELSE Get(row.extra, "client_hints", NoKeys)
    <3>1. Get(next.extra, "client_hints", NoKeys)
            = IF ExtraKeys[c.schema] = "client_hints" THEN c.data
              ELSE Get(row.extra, "client_hints", NoKeys)
      BY <2>3 DEF Put, Get
    <3>2. GivesHints(c) <=> c.schema = "http_client_hints"
      BY <1>2, KeyDomains DEF GivesHints
    <3>3. ExtraKeys[c.schema] = "client_hints" <=> c.schema = "http_client_hints"
      BY <1>2, KeyDomains DEF ExtraKeys
    <3>4. c.schema = "http_client_hints" => HintsOf(c) = c.data
      BY DEF HintsOf
    <3> QED
      BY <3>1, <3>2, <3>3, <3>4
  <2>5. DOMAIN next.extra = DOMAIN row.extra \union ExtraKeysOf(c)
    BY <1>2, <2>3, KeyDomains DEF Put, ExtraKeysOf
  <2> QED
    BY <1>0, <1>2, <2>1, <2>2, <2>3, <2>4, <2>5 DEF Tracked, ContextMakes, IsRow
<1>3. CASE c.schema \in DOMAIN UeKeys
  <2>1. next = [row EXCEPT !.ue = Put(@, UeKeys[c.schema], c.data)]
    BY <1>3, KeyDomains DEF Handle, AmpSchemas
  <2>2. /\ ~NamesUser(c) /\ ~TitlesScreen(c) /\ ~Views(c) /\ ~Measures(c)
        /\ ~NamesModel(c) /\ ~NamesAmpDevice(c) /\ ~NamesScreen(c) /\ ~GivesHints(c)
        /\ ExtraKeysOf(c) = {} /\ c.schema # "mobile_context"
    BY <1>3, Silent, KeyDomains DEF AmpSchemas
  <2>3. next.ue = Put(row.ue, UeKeys[c.schema], c.data)
    BY <1>0, <2>1 DEF Tracked
  <2>4. DOMAIN next.ue = DOMAIN row.ue \union UeKeysOf(c)
    BY <1>3, <2>3 DEF Put, UeKeysOf
  <2> QED
    BY <1>0, <1>3, <2>1, <2>2, <2>3, <2>4 DEF Tracked, ContextMakes, IsRow
<1>4. CASE c.schema = "web_page"
  <2>1. next = WebPage(row, c.data)
    BY <1>4, KeyDomains DEF Handle, AmpSchemas
  <2>2. /\ ~NamesUser(c) /\ ~TitlesScreen(c) /\ ~Measures(c) /\ ~NamesModel(c)
        /\ ~NamesAmpDevice(c) /\ ~NamesScreen(c) /\ ~GivesHints(c) /\ ExtraKeysOf(c) = {}
        /\ UeKeysOf(c) = {} /\ c.schema # "mobile_context"
    BY <1>4, Silent, KeyDomains DEF AmpSchemas
  <2>3. Views(c)
    BY <1>4 DEF Views
  <2> QED
    BY <1>0, <1>4, <2>1, <2>2, <2>3 DEF WebPage, Tracked, ContextMakes, IsRow
<1>5. CASE c.schema \in AmpSchemas
  <2>1. next = [row EXCEPT !.amp = Merged(@, c.data)]
    BY <1>5, KeyDomains DEF Handle, AmpSchemas
  <2>2. /\ ~NamesUser(c) /\ ~TitlesScreen(c) /\ ~Views(c) /\ ~Measures(c)
        /\ ~NamesModel(c) /\ ~NamesScreen(c) /\ ~GivesHints(c) /\ ExtraKeysOf(c) = {}
        /\ UeKeysOf(c) = {} /\ c.schema # "mobile_context"
    BY <1>5, Silent, KeyDomains DEF AmpSchemas
  <2>3. next.amp = Merged(row.amp, c.data)
    BY <1>0, <2>1 DEF Tracked
  <2>4. Get(next.amp, "domainUserid", Null)
          = IF "domainUserid" \in DOMAIN c.data THEN c.data["domainUserid"]
            ELSE Get(row.amp, "domainUserid", Null)
    BY <2>3 DEF Merged, Get
  <2>5. NamesAmpDevice(c) <=> "domainUserid" \in DOMAIN c.data
    BY <1>5 DEF NamesAmpDevice
  <2> QED
    BY <1>0, <1>5, <2>1, <2>2, <2>3, <2>4, <2>5 DEF Tracked, ContextMakes, IsRow
<1>6. CASE c.schema = "screen_data"
  <2>1. next = [row EXCEPT !.screen = Merged(@, c.data)]
    BY <1>6, KeyDomains DEF Handle, AmpSchemas
  <2>2. /\ ~NamesUser(c) /\ ~TitlesScreen(c) /\ ~Views(c) /\ ~Measures(c)
        /\ ~NamesModel(c) /\ ~NamesAmpDevice(c) /\ ~GivesHints(c) /\ ExtraKeysOf(c) = {}
        /\ UeKeysOf(c) = {} /\ c.schema # "mobile_context"
    BY <1>6, Silent, KeyDomains DEF AmpSchemas
  <2>3. next.screen = Merged(row.screen, c.data)
    BY <1>0, <2>1 DEF Tracked
  <2>4. At(next.screen, "screen_name")
          = IF "screen_name" \in DOMAIN c.data THEN {c.data["screen_name"]}
            ELSE At(row.screen, "screen_name")
    BY <2>3 DEF Merged, At
  <2>5. NamesScreen(c) <=> "screen_name" \in DOMAIN c.data
    BY <1>6 DEF NamesScreen
  <2> QED
    BY <1>0, <1>6, <2>1, <2>2, <2>3, <2>4, <2>5 DEF Tracked, ContextMakes, IsRow
<1>7. CASE c.schema = "mobile_context"
  <2>1. next = MobileContext(row, c.data)
    BY <1>7, KeyDomains DEF Handle, AmpSchemas
  <2>2. /\ ~NamesUser(c) /\ ~TitlesScreen(c) /\ ~Views(c) /\ ~Measures(c)
        /\ ~NamesAmpDevice(c) /\ ~NamesScreen(c) /\ ~GivesHints(c) /\ ExtraKeysOf(c) = {}
        /\ UeKeysOf(c) = {}
    BY <1>7, Silent, KeyDomains DEF AmpSchemas
  <2>3. next.device_model = Or(c.data, "deviceModel", row.device_model) /\ next.is_mobile = TRUE
    BY <1>0, <2>1 DEF MobileContext, Tracked
  <2>4. NamesModel(c) <=> Given(c.data, "deviceModel")
    BY <1>7 DEF NamesModel
  <2>5. next.device_model = IF NamesModel(c) THEN c.data["deviceModel"] ELSE row.device_model
    BY <2>3, <2>4 DEF Or
  <2> QED
    BY <1>0, <1>7, <2>1, <2>2, <2>3, <2>4, <2>5 DEF MobileContext, Tracked, ContextMakes, IsRow
<1>8. CASE c.schema = "client_session"
  <2>1. next = ClientSession(row, c.data)
    BY <1>8, KeyDomains DEF Handle, AmpSchemas
  <2>2. /\ ~TitlesScreen(c) /\ ~Views(c) /\ ~Measures(c) /\ ~NamesModel(c)
        /\ ~NamesAmpDevice(c) /\ ~NamesScreen(c) /\ ~GivesHints(c) /\ ExtraKeysOf(c) = {}
        /\ UeKeysOf(c) = {} /\ c.schema # "mobile_context"
    BY <1>8, Silent, KeyDomains DEF AmpSchemas
  <2>3. next.duid = IF Truthy(Get(c.data, "userId", Null)) THEN SafeUuid(c.data["userId"])
                    ELSE row.duid
    BY <1>0, <2>1 DEF ClientSession, Tracked
  <2>4. NamesUser(c) <=> Truthy(Get(c.data, "userId", Null))
    BY <1>8 DEF NamesUser
  <2> QED
    BY <1>0, <1>8, <2>1, <2>2, <2>3, <2>4 DEF ClientSession, Tracked, ContextMakes, IsRow
<1>9. CASE c.schema = "screen"
  <2>1. next = MobileScreen(row, c.data)
    BY <1>9, KeyDomains DEF Handle, AmpSchemas
  <2>2. /\ ~NamesUser(c) /\ ~Measures(c) /\ ~NamesModel(c) /\ ~NamesAmpDevice(c)
        /\ ~GivesHints(c) /\ ExtraKeysOf(c) = {} /\ UeKeysOf(c) = {} /\ c.schema # "mobile_context"
    BY <1>9, Silent, KeyDomains DEF AmpSchemas
  <2>3. /\ next.url = Or(c.data, "name", row.url)
        /\ next.view_id = IF Given(c.data, "id") THEN SafeUuid(c.data["id"]) ELSE row.view_id
        /\ next.screen = Merged(row.screen, Without(c.data, {"name", "id"}))
    BY <1>0, <2>1 DEF MobileScreen, Tracked
  <2>4. next.url = IF TitlesScreen(c) THEN c.data["name"] ELSE row.url
    BY <1>9, <2>3 DEF Or, TitlesScreen
  <2>5. next.view_id = IF Views(c) THEN SafeUuid(Get(c.data, "id", Null)) ELSE row.view_id
    <3>1. Views(c) <=> Given(c.data, "id")
      BY <1>9 DEF Views
    <3>2. Given(c.data, "id") => Get(c.data, "id", Null) = c.data["id"]
      BY DEF Given, Get
    <3> QED
      BY <2>3, <3>1, <3>2
  <2>6. At(next.screen, "screen_name")
          = IF "screen_name" \in DOMAIN c.data THEN {c.data["screen_name"]}
            ELSE At(row.screen, "screen_name")
    BY <2>3 DEF Merged, At, Without, Restrict
  <2>7. NamesScreen(c) <=> "screen_name" \in DOMAIN c.data
    BY <1>9 DEF NamesScreen
  <2> QED
    BY <1>0, <1>9, <2>1, <2>2, <2>3, <2>4, <2>5, <2>6, <2>7
    DEF MobileScreen, Tracked, ContextMakes, IsRow
<1>10. CASE c.schema = "browser_context"
  <2>1. next = BrowserContext(row, c.data)
    BY <1>10, KeyDomains DEF Handle, AmpSchemas
  <2>2. /\ ~NamesUser(c) /\ ~TitlesScreen(c) /\ ~Views(c) /\ ~NamesModel(c)
        /\ ~NamesAmpDevice(c) /\ ~NamesScreen(c) /\ ~GivesHints(c) /\ ExtraKeysOf(c) = {}
        /\ UeKeysOf(c) = {} /\ c.schema # "mobile_context"
    BY <1>10, Silent, KeyDomains DEF AmpSchemas
  <2>3. next.res = Dimension(c.data, "resolution", row.res)
    BY <1>0, <2>1 DEF BrowserContext, Tracked
  <2>4. Measures(c) <=> IsText(Get(c.data, "resolution", Null))
    BY <1>10 DEF Measures
  <2>5. next.res = IF Measures(c) THEN c.data["resolution"] ELSE row.res
    BY <2>3, <2>4 DEF Dimension
  <2> QED
    BY <1>0, <1>10, <2>1, <2>2, <2>3, <2>4, <2>5 DEF BrowserContext, Tracked, ContextMakes, IsRow
<1>11. CASE /\ c.schema \notin {"static_context", "web_page", "screen_data", "mobile_context",
                          "client_session", "screen", "browser_context"}
           /\ c.schema \notin DOMAIN ExtraKeys /\ c.schema \notin DOMAIN UeKeys
           /\ c.schema \notin AmpSchemas
  <2>1. \/ next = [row EXCEPT !.page_data = Merged(@, c.data)]
        \/ next = [row EXCEPT !.user_data = Merged(@, c.data)]
        \/ next = MobileApplication(row, c.data)
        \/ next = [row EXCEPT !.geolocation = c.data]
        \/ next = row
    BY <1>11 DEF Handle
  <2>2. /\ ~NamesUser(c) /\ ~TitlesScreen(c) /\ ~Views(c) /\ ~Measures(c)
        /\ ~NamesModel(c) /\ ~NamesAmpDevice(c) /\ ~NamesScreen(c) /\ ~GivesHints(c)
        /\ ExtraKeysOf(c) = {} /\ UeKeysOf(c) = {} /\ c.schema # "mobile_context"
    BY <1>11, Silent, KeyDomains
  <2>3. /\ Tracked \subseteq DOMAIN next
        /\ \A field \in Tracked : next[field] = row[field]
    BY <1>0, <2>1 DEF MobileApplication, Tracked
  <2> QED
    BY <2>2, <2>3 DEF Tracked, ContextMakes, IsRow
<1> QED
  BY <1>1, <1>2, <1>3, <1>4, <1>5, <1>6, <1>7, <1>8, <1>9, <1>10, <1>11

-----------------------------------------------------------------------------
(***************************************************************************)
(* What the contexts of an event make of it: a field is what the last one  *)
(* that has a say wrote, and the keys of an object are those of all.       *)
(***************************************************************************)

\* The last of some positions.
LEMMA LatestIsOne ==
  ASSUME NEW n \in Nat, NEW at \in SUBSET (1..n)
  PROVE  \/ at = {} /\ Latest(at) = {}
         \/ \E i \in at : Latest(at) = {i}
<1>1. CASE at = {}
  BY <1>1 DEF Latest
<1>2. CASE at # {}
  <2>1. PICK m \in at : \A i \in at : m >= i
    BY <1>2, LargestIndex
  <2>2. ASSUME NEW i \in at, \A j \in at : j <= i PROVE i = m
    <3>1. i \in Nat /\ m \in Nat /\ m <= i /\ m >= i
      BY <2>1, <2>2
    <3> QED
      BY <3>1
  <2>3. \A j \in at : j <= m
    BY <2>1
  <2>4. Latest(at) = {m}
    BY <2>1, <2>2, <2>3 DEF Latest
  <2> QED
    BY <2>1, <2>4
<1> QED
  BY <1>1, <1>2

\* What the last of the writers wrote is there at the end.
Written(v, at) == {v[i] : i \in Latest(at)}

LEMMA LastWriteWins ==
  ASSUME NEW n \in Nat, NEW x, NEW v, NEW at \in SUBSET (1..n),
         \A k \in 1..n : x[k] = IF k \in at THEN v[k] ELSE x[k - 1]
  PROVE  x[n] = Prefer(Written(v, at), x[0])
<1>1. CASE at = {} /\ Latest(at) = {}
  <2> DEFINE T == {k \in Nat : k <= n => x[k] = x[0]}
  <2>1. 0 \in T
    OBVIOUS
  <2>2. ASSUME NEW k \in T PROVE k + 1 \in T
    BY <1>1
  <2> HIDE DEF T
  <2>3. n \in T
    BY <2>1, <2>2, Induction DEF T
  <2>4. x[n] = x[0]
    BY <2>3 DEF T
  <2>5. Written(v, at) = {}
    BY <1>1 DEF Written
  <2> QED
    BY <2>4, <2>5 DEF Prefer
<1>2. ASSUME NEW i \in at, Latest(at) = {i}
      PROVE  x[n] = Prefer(Written(v, at), x[0])
  <2>0. i \in 1..n /\ \A j \in at : j <= i
    BY <1>2 DEF Latest
  <2> DEFINE T == {k \in Nat : i <= k /\ k <= n => x[k] = v[i]}
  <2>1. 0 \in T
    BY <2>0
  <2>2. ASSUME NEW k \in T PROVE k + 1 \in T
    <3>1. CASE k + 1 = i
      BY <2>0, <3>1
    <3>2. CASE k + 1 # i
      BY <2>0, <3>2
    <3> QED
      BY <3>1, <3>2
  <2> HIDE DEF T
  <2>3. n \in T
    BY <2>1, <2>2, Induction DEF T
  <2>4. x[n] = v[i]
    BY <2>0, <2>3 DEF T
  <2>5. Written(v, at) = {v[i]}
    BY <1>2 DEF Written
  <2> QED
    BY <2>4, <2>5 DEF Prefer
<1> QED
  BY <1>1, <1>2, LatestIsOne

\* The indices up to the next one.
LEMMA UpToNext ==
  ASSUME NEW n \in Nat, NEW at \in SUBSET (1..n)
  PROVE  /\ {j \in at : j <= 0} = {}
         /\ {j \in at : j <= n} = at
         /\ \A k \in Nat : {j \in at : j <= k + 1} = {j \in at : j <= k} \union (at \cap {k + 1})
<1>1. \A j \in at : j \in Nat /\ 1 <= j /\ j <= n
  OBVIOUS
<1>2. ASSUME NEW k \in Nat
      PROVE  {j \in at : j <= k + 1} = {j \in at : j <= k} \union (at \cap {k + 1})
  <2>1. \A j \in at : j <= k + 1 <=> j <= k \/ j = k + 1
    BY <1>1
  <2> QED
    BY <2>1, Zenon
<1>3. \A j \in at : ~(j <= 0)
  BY <1>1
<1> QED
  BY <1>1, <1>2, <1>3

\* A set to which some positions add has what each of them adds.
Grown(old, new) == old \union new
Added(add, at) == UNION {add[i] : i \in at}

LEMMA SetsGrow ==
  ASSUME NEW n \in Nat, NEW y, NEW add, NEW at \in SUBSET (1..n),
         \A k \in 1..n : y[k] = IF k \in at THEN Grown(y[k - 1], add[k]) ELSE y[k - 1]
  PROVE  y[n] = Grown(y[0], Added(add, at))
<1> DEFINE UpTo(k) == {j \in at : j <= k}
           Sum(k) == y[0] \union UNION {add[i] : i \in UpTo(k)}
           T == {k \in Nat : k <= n => y[k] = Sum(k)}
<1>1. 0 \in T
  <2>1. UpTo(0) = {}
    BY UpToNext
  <2>2. Sum(0) = y[0]
    BY <2>1
  <2> HIDE DEF Sum
  <2> QED
    BY <2>2
<1>2. ASSUME NEW k \in Nat, k + 1 <= n, y[k] = Sum(k) PROVE y[k + 1] = Sum(k + 1)
  <2>0. k + 1 \in 1..n /\ (k + 1) - 1 = k
    BY <1>2
  <2>1. CASE k + 1 \in at
    <3>1. UpTo(k + 1) = UpTo(k) \union (at \cap {k + 1})
      BY UpToNext
    <3> HIDE DEF UpTo
    <3>2. Sum(k + 1) = Sum(k) \union add[k + 1]
      BY <2>1, <3>1
    <3> QED
      BY <1>2, <2>0, <2>1, <3>2 DEF Grown
  <2>2. CASE k + 1 \notin at
    <3>1. UpTo(k + 1) = UpTo(k) \union (at \cap {k + 1})
      BY UpToNext
    <3> HIDE DEF UpTo
    <3>2. Sum(k + 1) = Sum(k)
      BY <2>2, <3>1
    <3> QED
      BY <1>2, <2>0, <2>2, <3>2 DEF Grown
  <2> QED
    BY <2>1, <2>2
<1>3. UpTo(n) = at
  BY UpToNext
<1> HIDE DEF UpTo, Sum
<1>4. \A k \in T : k + 1 \in T
  BY <1>2
<1>5. T \in SUBSET Nat
  OBVIOUS
<1> HIDE DEF T
<1>6. n \in T
  BY <1>1, <1>4, <1>5, Induction
<1>7. y[n] = Sum(n)
  BY <1>6 DEF T
<1> QED
  BY <1>3, <1>7 DEF Sum, Added, Grown

\* The rows before and after each context.
LEMMA ContextsTrace ==
  ASSUME NEW n \in Nat, NEW list, DOMAIN list = 1..n, NEW row, IsRow(row)
  PROVE  \E t :
           /\ t[0] = row
           /\ t[n] = FoldLeft(ParseContext, row, list)
           /\ \A k \in 1..n : IF list[k].form = "ok" THEN ContextMakes(t[k - 1], list[k], t[k])
                                                     ELSE t[k] = t[k - 1]
           /\ IsRow(t[n])
           /\ t[n].e = row.e /\ t[n].refr = row.refr /\ t[n].agent = row.agent
<1> DEFINE chosen == CHOOSE iter : ContextLoop(row, list, iter)
           t == [k \in 0..n |-> chosen[1..k]]
<1>1. Loop(OverContexts, row, list, chosen)
  <2>1. \E iter : ContextLoop(row, list, iter)
    BY LoopExists, ContextLoops
  <2> QED
    BY <2>1, ContextLoops
<1>2. FoldLeft(ParseContext, row, list) = chosen[1..n]
  BY ContextsUnfold
<1> HIDE DEF chosen
<1>3. t[0] = row /\ t[n] = FoldLeft(ParseContext, row, list)
  BY <1>1, <1>2, LoopUnrolls
<1>4. ASSUME NEW k \in 1..n PROVE t[k] = ParseContext(t[k - 1], list[k])
  <2>1. chosen[1..k] = Turn(OverContexts, chosen[1..(k - 1)], list[k])
    BY <1>1, LoopUnrolls
  <2>2. k \in 0..n /\ k - 1 \in 0..n
    OBVIOUS
  <2>3. chosen[1..k] = ParseContext(chosen[1..(k - 1)], list[k])
    BY <2>1 DEF Turn, OverContexts
  <2> QED
    BY <2>2, <2>3
<1> HIDE DEF t
<1> DEFINE Same(k) == /\ IsRow(t[k])
                      /\ t[k].e = row.e /\ t[k].refr = row.refr /\ t[k].agent = row.agent
           T == {k \in Nat : k <= n => Same(k)}
<1>5. 0 \in T
  BY <1>3
<1>6. ASSUME NEW k \in 1..n, IsRow(t[k - 1])
      PROVE  IF list[k].form = "ok" THEN ContextMakes(t[k - 1], list[k], t[k])
                                    ELSE t[k] = t[k - 1]
  BY <1>4, <1>6, HandleMakes DEF ParseContext
<1>7. ASSUME NEW k \in Nat, k + 1 <= n, Same(k) PROVE Same(k + 1)
  <2>1. k + 1 \in 1..n /\ (k + 1) - 1 = k
    BY <1>7
  <2>2. IF list[k + 1].form = "ok" THEN ContextMakes(t[k], list[k + 1], t[k + 1])
                                   ELSE t[k + 1] = t[k]
    BY <1>6, <1>7, <2>1
  <2> QED
    BY <1>7, <2>2 DEF ContextMakes
<1>8. \A k \in T : k + 1 \in T
  <2> HIDE DEF Same
  <2> QED
    BY <1>7
<1>9. \A k \in 0..n : Same(k)
  <2> HIDE DEF Same
  <2>1. T \in SUBSET Nat
    OBVIOUS
  <2>2. T = Nat
    <3> HIDE DEF T
    <3> QED
      BY <1>5, <1>8, <2>1, Induction
  <2> QED
    BY <2>2
<1>10. \A k \in 1..n : IF list[k].form = "ok" THEN ContextMakes(t[k - 1], list[k], t[k])
                                               ELSE t[k] = t[k - 1]
  BY <1>6, <1>9
<1>11. Same(n)
  BY <1>9
<1> QED
  BY <1>3, <1>10, <1>11

\* What all contexts of an event make of the row.
ContextsMake(row, event, next) ==
  /\ IsRow(next)
  /\ next.e = row.e /\ next.refr = row.refr /\ next.agent = row.agent
  /\ next.duid
       = Prefer({SafeUuid(c.data["userId"]) : c \in LastContext(event, NamesUser)}, row.duid)
  /\ next.url
       = Prefer({c.data["name"] : c \in LastContext(event, TitlesScreen)}, row.url)
  /\ next.view_id
       = Prefer({SafeUuid(Get(c.data, "id", Null)) : c \in LastContext(event, Views)}, row.view_id)
  /\ next.res
       = Prefer({c.data["resolution"] : c \in LastContext(event, Measures)}, row.res)
  /\ next.device_model
       = Prefer({c.data["deviceModel"] : c \in LastContext(event, NamesModel)}, row.device_model)
  /\ Get(next.amp, "domainUserid", Null)
       = Prefer({c.data["domainUserid"] : c \in LastContext(event, NamesAmpDevice)},
                Get(row.amp, "domainUserid", Null))
  /\ At(next.screen, "screen_name")
       = Prefer({{c.data["screen_name"]} : c \in LastContext(event, NamesScreen)},
                At(row.screen, "screen_name"))
  /\ Get(next.extra, "client_hints", NoKeys)
       = Prefer({HintsOf(c) : c \in LastContext(event, GivesHints)},
                Get(row.extra, "client_hints", NoKeys))
  /\ next.is_mobile = IF PlacesIn(event, OfMobile) # {} THEN TRUE ELSE row.is_mobile
  /\ DOMAIN next.extra = DOMAIN row.extra \union KeysFrom(event, ExtraKeysOf)
  /\ DOMAIN next.ue = DOMAIN row.ue \union KeysFrom(event, UeKeysOf)

\* So does the loop over the contexts.
LEMMA ContextsSay ==
  ASSUME NEW n \in Nat, NEW event, DOMAIN ContextsIn(event) = 1..n,
         NEW row, IsRow(row)
  PROVE  ContextsMake(row, event, FoldLeft(ParseContext, row, ContextsIn(event)))
<1> DEFINE list == ContextsIn(event)
<1>a. PICK t :
        /\ t[0] = row
        /\ t[n] = FoldLeft(ParseContext, row, list)
        /\ \A k \in 1..n : IF list[k].form = "ok" THEN ContextMakes(t[k - 1], list[k], t[k])
                                                  ELSE t[k] = t[k - 1]
        /\ IsRow(t[n])
        /\ t[n].e = row.e /\ t[n].refr = row.refr /\ t[n].agent = row.agent
  BY ContextsTrace
<1>0. 0 \in 0..n /\ n \in 0..n /\ \A k \in 1..n : k \in 0..n /\ k - 1 \in 0..n
  OBVIOUS
<1>1. t[n].duid
        = Prefer({SafeUuid(c.data["userId"]) : c \in LastContext(event, NamesUser)}, row.duid)
  <2> DEFINE x == [k \in 0..n |-> t[k].duid]
             v == [k \in 1..n |-> SafeUuid(list[k].data["userId"])]
             at == PlacesIn(event, NamesUser)
  <2>1. at = {k \in 1..n : list[k].form = "ok" /\ NamesUser(list[k])}
    BY DEF PlacesIn
  <2>2. ASSUME NEW k \in 1..n PROVE x[k] = IF k \in at THEN v[k] ELSE x[k - 1]
    <3>1. t[k].duid
              = IF list[k].form = "ok" /\ NamesUser(list[k])
                THEN SafeUuid(list[k].data["userId"])
                ELSE t[k - 1].duid
      BY <1>a DEF ContextMakes
    <3> QED
      BY <1>0, <2>1, <3>1
  <2>3. Written(v, at) = {SafeUuid(c.data["userId"]) : c \in LastContext(event, NamesUser)}
    <3>1. Latest(at) \subseteq 1..n
      BY <2>1 DEF Latest
    <3> QED
      BY <3>1 DEF LastContext, Written
  <2>4. x[n] = t[n].duid /\ x[0] = row.duid
    BY <1>0, <1>a
  <2>5. at \in SUBSET (1..n)
    BY <2>1
  <2> HIDE DEF x, v, at
  <2>6. x[n] = Prefer(Written(v, at), x[0])
    BY <2>2, <2>5, LastWriteWins
  <2> QED
    BY <2>3, <2>4, <2>6
<1>2. t[n].url
        = Prefer({c.data["name"] : c \in LastContext(event, TitlesScreen)}, row.url)
  <2> DEFINE x == [k \in 0..n |-> t[k].url]
             v == [k \in 1..n |-> list[k].data["name"]]
             at == PlacesIn(event, TitlesScreen)
  <2>1. at = {k \in 1..n : list[k].form = "ok" /\ TitlesScreen(list[k])}
    BY DEF PlacesIn
  <2>2. ASSUME NEW k \in 1..n PROVE x[k] = IF k \in at THEN v[k] ELSE x[k - 1]
    <3>1. t[k].url
              = IF list[k].form = "ok" /\ TitlesScreen(list[k])
                THEN list[k].data["name"]
                ELSE t[k - 1].url
      BY <1>a DEF ContextMakes
    <3> QED
      BY <1>0, <2>1, <3>1
  <2>3. Written(v, at) = {c.data["name"] : c \in LastContext(event, TitlesScreen)}
    <3>1. Latest(at) \subseteq 1..n
      BY <2>1 DEF Latest
    <3> QED
      BY <3>1 DEF LastContext, Written
  <2>4. x[n] = t[n].url /\ x[0] = row.url
    BY <1>0, <1>a
  <2>5. at \in SUBSET (1..n)
    BY <2>1
  <2> HIDE DEF x, v, at
  <2>6. x[n] = Prefer(Written(v, at), x[0])
    BY <2>2, <2>5, LastWriteWins
  <2> QED
    BY <2>3, <2>4, <2>6
<1>3. t[n].view_id
        = Prefer({SafeUuid(Get(c.data, "id", Null)) : c \in LastContext(event, Views)}, row.view_id)
  <2> DEFINE x == [k \in 0..n |-> t[k].view_id]
             v == [k \in 1..n |-> SafeUuid(Get(list[k].data, "id", Null))]
             at == PlacesIn(event, Views)
  <2>1. at = {k \in 1..n : list[k].form = "ok" /\ Views(list[k])}
    BY DEF PlacesIn
  <2>2. ASSUME NEW k \in 1..n PROVE x[k] = IF k \in at THEN v[k] ELSE x[k - 1]
    <3>1. t[k].view_id
              = IF list[k].form = "ok" /\ Views(list[k])
                THEN SafeUuid(Get(list[k].data, "id", Null))
                ELSE t[k - 1].view_id
      BY <1>a DEF ContextMakes
    <3> QED
      BY <1>0, <2>1, <3>1
  <2>3. Written(v, at) = {SafeUuid(Get(c.data, "id", Null)) : c \in LastContext(event, Views)}
    <3>1. Latest(at) \subseteq 1..n
      BY <2>1 DEF Latest
    <3> QED
      BY <3>1 DEF LastContext, Written
  <2>4. x[n] = t[n].view_id /\ x[0] = row.view_id
    BY <1>0, <1>a
  <2>5. at \in SUBSET (1..n)
    BY <2>1
  <2> HIDE DEF x, v, at
  <2>6. x[n] = Prefer(Written(v, at), x[0])
    BY <2>2, <2>5, LastWriteWins
  <2> QED
    BY <2>3, <2>4, <2>6
<1>4. t[n].res
        = Prefer({c.data["resolution"] : c \in LastContext(event, Measures)}, row.res)
  <2> DEFINE x == [k \in 0..n |-> t[k].res]
             v == [k \in 1..n |-> list[k].data["resolution"]]
             at == PlacesIn(event, Measures)
  <2>1. at = {k \in 1..n : list[k].form = "ok" /\ Measures(list[k])}
    BY DEF PlacesIn
  <2>2. ASSUME NEW k \in 1..n PROVE x[k] = IF k \in at THEN v[k] ELSE x[k - 1]
    <3>1. t[k].res
              = IF list[k].form = "ok" /\ Measures(list[k])
                THEN list[k].data["resolution"]
                ELSE t[k - 1].res
      BY <1>a DEF ContextMakes
    <3> QED
      BY <1>0, <2>1, <3>1
  <2>3. Written(v, at) = {c.data["resolution"] : c \in LastContext(event, Measures)}
    <3>1. Latest(at) \subseteq 1..n
      BY <2>1 DEF Latest
    <3> QED
      BY <3>1 DEF LastContext, Written
  <2>4. x[n] = t[n].res /\ x[0] = row.res
    BY <1>0, <1>a
  <2>5. at \in SUBSET (1..n)
    BY <2>1
  <2> HIDE DEF x, v, at
  <2>6. x[n] = Prefer(Written(v, at), x[0])
    BY <2>2, <2>5, LastWriteWins
  <2> QED
    BY <2>3, <2>4, <2>6
<1>5. t[n].device_model
        = Prefer({c.data["deviceModel"] : c \in LastContext(event, NamesModel)}, row.device_model)
  <2> DEFINE x == [k \in 0..n |-> t[k].device_model]
             v == [k \in 1..n |-> list[k].data["deviceModel"]]
             at == PlacesIn(event, NamesModel)
  <2>1. at = {k \in 1..n : list[k].form = "ok" /\ NamesModel(list[k])}
    BY DEF PlacesIn
  <2>2. ASSUME NEW k \in 1..n PROVE x[k] = IF k \in at THEN v[k] ELSE x[k - 1]
    <3>1. t[k].device_model
              = IF list[k].form = "ok" /\ NamesModel(list[k])
                THEN list[k].data["deviceModel"]
                ELSE t[k - 1].device_model
      BY <1>a DEF ContextMakes
    <3> QED
      BY <1>0, <2>1, <3>1
  <2>3. Written(v, at) = {c.data["deviceModel"] : c \in LastContext(event, NamesModel)}
    <3>1. Latest(at) \subseteq 1..n
      BY <2>1 DEF Latest
    <3> QED
      BY <3>1 DEF LastContext, Written
  <2>4. x[n] = t[n].device_model /\ x[0] = row.device_model
    BY <1>0, <1>a
  <2>5. at \in SUBSET (1..n)
    BY <2>1
  <2> HIDE DEF x, v, at
  <2>6. x[n] = Prefer(Written(v, at), x[0])
    BY <2>2, <2>5, LastWriteWins
  <2> QED
    BY <2>3, <2>4, <2>6
<1>6. Get(t[n].amp, "domainUserid", Null)
        = Prefer({c.data["domainUserid"] : c \in LastContext(event, NamesAmpDevice)},
                 Get(row.amp, "domainUserid", Null))
  <2> DEFINE x == [k \in 0..n |-> Get(t[k].amp, "domainUserid", Null)]
             v == [k \in 1..n |-> list[k].data["domainUserid"]]
             at == PlacesIn(event, NamesAmpDevice)
  <2>1. at = {k \in 1..n : list[k].form = "ok" /\ NamesAmpDevice(list[k])}
    BY DEF PlacesIn
  <2>2. ASSUME NEW k \in 1..n PROVE x[k] = IF k \in at THEN v[k] ELSE x[k - 1]
    <3>1. Get(t[k].amp, "domainUserid", Null)
              = IF list[k].form = "ok" /\ NamesAmpDevice(list[k])
                THEN list[k].data["domainUserid"]
                ELSE Get(t[k - 1].amp, "domainUserid", Null)
      BY <1>a DEF ContextMakes
    <3> QED
      BY <1>0, <2>1, <3>1
  <2>3. Written(v, at) = {c.data["domainUserid"] : c \in LastContext(event, NamesAmpDevice)}
    <3>1. Latest(at) \subseteq 1..n
      BY <2>1 DEF Latest
    <3> QED
      BY <3>1 DEF LastContext, Written
  <2>4. x[n] = Get(t[n].amp, "domainUserid", Null) /\ x[0] = Get(row.amp, "domainUserid", Null)
    BY <1>0, <1>a
  <2>5. at \in SUBSET (1..n)
    BY <2>1
  <2> HIDE DEF x, v, at
  <2>6. x[n] = Prefer(Written(v, at), x[0])
    BY <2>2, <2>5, LastWriteWins
  <2> QED
    BY <2>3, <2>4, <2>6
<1>7. At(t[n].screen, "screen_name")
        = Prefer({{c.data["screen_name"]} : c \in LastContext(event, NamesScreen)},
                 At(row.screen, "screen_name"))
  <2> DEFINE x == [k \in 0..n |-> At(t[k].screen, "screen_name")]
             v == [k \in 1..n |-> {list[k].data["screen_name"]}]
             at == PlacesIn(event, NamesScreen)
  <2>1. at = {k \in 1..n : list[k].form = "ok" /\ NamesScreen(list[k])}
    BY DEF PlacesIn
  <2>2. ASSUME NEW k \in 1..n PROVE x[k] = IF k \in at THEN v[k] ELSE x[k - 1]
    <3>1. At(t[k].screen, "screen_name")
              = IF list[k].form = "ok" /\ NamesScreen(list[k])
                THEN {list[k].data["screen_name"]}
                ELSE At(t[k - 1].screen, "screen_name")
      BY <1>a DEF ContextMakes
    <3> QED
      BY <1>0, <2>1, <3>1
  <2>3. Written(v, at) = {{c.data["screen_name"]} : c \in LastContext(event, NamesScreen)}
    <3>1. Latest(at) \subseteq 1..n
      BY <2>1 DEF Latest
    <3> QED
      BY <3>1 DEF LastContext, Written
  <2>4. x[n] = At(t[n].screen, "screen_name") /\ x[0] = At(row.screen, "screen_name")
    BY <1>0, <1>a
  <2>5. at \in SUBSET (1..n)
    BY <2>1
  <2> HIDE DEF x, v, at
  <2>6. x[n] = Prefer(Written(v, at), x[0])
    BY <2>2, <2>5, LastWriteWins
  <2> QED
    BY <2>3, <2>4, <2>6
<1>8. Get(t[n].extra, "client_hints", NoKeys)
        = Prefer({HintsOf(c) : c \in LastContext(event, GivesHints)},
                 Get(row.extra, "client_hints", NoKeys))
  <2> DEFINE x == [k \in 0..n |-> Get(t[k].extra, "client_hints", NoKeys)]
             v == [k \in 1..n |-> HintsOf(list[k])]
             at == PlacesIn(event, GivesHints)
  <2>1. at = {k \in 1..n : list[k].form = "ok" /\ GivesHints(list[k])}
    BY DEF PlacesIn
  <2>2. ASSUME NEW k \in 1..n PROVE x[k] = IF k \in at THEN v[k] ELSE x[k - 1]
    <3>1. Get(t[k].extra, "client_hints", NoKeys)
              = IF list[k].form = "ok" /\ GivesHints(list[k])
                THEN HintsOf(list[k])
                ELSE Get(t[k - 1].extra, "client_hints", NoKeys)
      BY <1>a DEF ContextMakes
    <3> QED
      BY <1>0, <2>1, <3>1
  <2>3. Written(v, at) = {HintsOf(c) : c \in LastContext(event, GivesHints)}
    <3>1. Latest(at) \subseteq 1..n
      BY <2>1 DEF Latest
    <3> QED
      BY <3>1 DEF LastContext, Written
  <2>4. /\ x[n] = Get(t[n].extra, "client_hints", NoKeys)
        /\ x[0] = Get(row.extra, "client_hints", NoKeys)
    BY <1>0, <1>a
  <2>5. at \in SUBSET (1..n)
    BY <2>1
  <2> HIDE DEF x, v, at
  <2>6. x[n] = Prefer(Written(v, at), x[0])
    BY <2>2, <2>5, LastWriteWins
  <2> QED
    BY <2>3, <2>4, <2>6
<1>9. t[n].is_mobile = IF PlacesIn(event, OfMobile) # {} THEN TRUE ELSE row.is_mobile
  <2> DEFINE x == [k \in 0..n |-> t[k].is_mobile]
             v == [k \in 1..n |-> TRUE]
             at == PlacesIn(event, OfMobile)
  <2>1. at = {k \in 1..n : list[k].form = "ok" /\ OfMobile(list[k])}
    BY DEF PlacesIn
  <2>2. ASSUME NEW k \in 1..n PROVE x[k] = IF k \in at THEN v[k] ELSE x[k - 1]
    <3>1. t[k].is_mobile = IF list[k].form = "ok" /\ OfMobile(list[k]) THEN TRUE
                           ELSE t[k - 1].is_mobile
      BY <1>a DEF ContextMakes, OfMobile
    <3> QED
      BY <1>0, <2>1, <3>1
  <2>3. x[n] = t[n].is_mobile /\ x[0] = row.is_mobile
    BY <1>0, <1>a
  <2>4. at \in SUBSET (1..n)
    BY <2>1
  <2>5. \A k \in 1..n : v[k] = TRUE
    OBVIOUS
  <2> HIDE DEF x, v, at
  <2>6. x[n] = Prefer(Written(v, at), x[0])
    BY <2>2, <2>4, LastWriteWins
  <2>7. ASSUME at = {}, Latest(at) = {} PROVE t[n].is_mobile = row.is_mobile
    <3>1. Written(v, at) = {}
      BY <2>7 DEF Written
    <3>2. x[n] = x[0]
      BY <2>6, <3>1 DEF Prefer
    <3> QED
      BY <2>3, <3>2
  <2>8. ASSUME NEW i \in at, Latest(at) = {i} PROVE t[n].is_mobile = TRUE
    <3>1. v[i] = TRUE
      BY <2>4, <2>5
    <3>2. Written(v, at) = {v[i]}
      BY <2>8 DEF Written
    <3>3. x[n] = v[i]
      BY <2>6, <3>2 DEF Prefer
    <3> QED
      BY <2>3, <3>1, <3>3
  <2>9. at # {} => t[n].is_mobile = TRUE
    BY <2>4, <2>8, LatestIsOne
  <2>10. at = {} => t[n].is_mobile = row.is_mobile
    BY <2>4, <2>7, LatestIsOne
  <2> QED
    BY <2>9, <2>10 DEF at
<1>10. DOMAIN t[n].extra = DOMAIN row.extra \union KeysFrom(event, ExtraKeysOf)
  <2> DEFINE y == [k \in 0..n |-> DOMAIN t[k].extra]
             add == [k \in 1..n |-> ExtraKeysOf(list[k])]
             at == PlacesIn(event, LAMBDA c : TRUE)
  <2>1. at = {k \in 1..n : list[k].form = "ok"}
    BY DEF PlacesIn
  <2>2. ASSUME NEW k \in 1..n
        PROVE  y[k] = IF k \in at THEN y[k - 1] \union add[k] ELSE y[k - 1]
    <3>1. DOMAIN t[k].extra = IF list[k].form = "ok"
                             THEN DOMAIN t[k - 1].extra \union ExtraKeysOf(list[k])
                             ELSE DOMAIN t[k - 1].extra
      BY <1>a DEF ContextMakes
    <3> QED
      BY <1>0, <2>1, <3>1
  <2>3. Added(add, at) = KeysFrom(event, ExtraKeysOf)
    BY <2>1 DEF KeysFrom, Added
  <2>4. y[n] = DOMAIN t[n].extra /\ y[0] = DOMAIN row.extra
    BY <1>0, <1>a
  <2>5. at \in SUBSET (1..n)
    BY <2>1
  <2> HIDE DEF y, add, at
  <2>6. y[n] = y[0] \union Added(add, at)
    <3>1. \A k \in 1..n : y[k] = IF k \in at THEN Grown(y[k - 1], add[k]) ELSE y[k - 1]
      BY <2>2 DEF Grown
    <3>2. y[n] = Grown(y[0], Added(add, at))
      BY <2>5, <3>1, SetsGrow
    <3> QED
      BY <3>2 DEF Grown
  <2> QED
    BY <2>3, <2>4, <2>6
<1>11. DOMAIN t[n].ue = DOMAIN row.ue \union KeysFrom(event, UeKeysOf)
  <2> DEFINE y == [k \in 0..n |-> DOMAIN t[k].ue]
             add == [k \in 1..n |-> UeKeysOf(list[k])]
             at == PlacesIn(event, LAMBDA c : TRUE)
  <2>1. at = {k \in 1..n : list[k].form = "ok"}
    BY DEF PlacesIn
  <2>2. ASSUME NEW k \in 1..n
        PROVE  y[k] = IF k \in at THEN y[k - 1] \union add[k] ELSE y[k - 1]
    <3>1. DOMAIN t[k].ue = IF list[k].form = "ok"
                          THEN DOMAIN t[k - 1].ue \union UeKeysOf(list[k])
                          ELSE DOMAIN t[k - 1].ue
      BY <1>a DEF ContextMakes
    <3> QED
      BY <1>0, <2>1, <3>1
  <2>3. Added(add, at) = KeysFrom(event, UeKeysOf)
    BY <2>1 DEF KeysFrom, Added
  <2>4. y[n] = DOMAIN t[n].ue /\ y[0] = DOMAIN row.ue
    BY <1>0, <1>a
  <2>5. at \in SUBSET (1..n)
    BY <2>1
  <2> HIDE DEF y, add, at
  <2>6. y[n] = y[0] \union Added(add, at)
    <3>1. \A k \in 1..n : y[k] = IF k \in at THEN Grown(y[k - 1], add[k]) ELSE y[k - 1]
      BY <2>2 DEF Grown
    <3>2. y[n] = Grown(y[0], Added(add, at))
      BY <2>5, <3>1, SetsGrow
    <3> QED
      BY <3>2 DEF Grown
  <2> QED
    BY <2>3, <2>4, <2>6
<1> QED
  BY <1>a, <1>1, <1>2, <1>3, <1>4, <1>5, <1>6, <1>7, <1>8, <1>9, <1>10, <1>11 DEF ContextsMake

-----------------------------------------------------------------------------
(***************************************************************************)
(* What each of the other steps makes of a row.                            *)
(***************************************************************************)

\* A step that leaves the other tracked fields alone and forgets no error.
ChangesOnly(row, next, changed) ==
  /\ IsRow(next)
  /\ \A field \in Tracked \ changed : next[field] = row[field]
  /\ ~next.raised => ~row.raised

\* What the payload, the defaults and the user agent give.
LEMMA InitialRow ==
  ASSUME NEW agent, NEW event, NEW row, row = BuildInitialModel(NoDefaults, agent, event)
  PROVE  /\ IsRow(row)
         /\ row.e = event.e /\ row.url = event.url /\ row.refr = event.refr
         /\ row.duid = event.duid /\ row.res = event.res /\ row.agent = agent
         /\ row.view_id = ZeroUuid /\ row.device_model = "agent's" /\ row.is_mobile = FALSE
         /\ DOMAIN row.extra = {} /\ DOMAIN row.ue = {}
         /\ DOMAIN row.screen = {} /\ DOMAIN row.amp = {}
BY DEF BuildInitialModel, NoDefaults, NoKeys, IsRow, Tracked

\* A structured event changes the kind, another goes to ue.
LEMMA EventSays ==
  ASSUME NEW row, IsRow(row), NEW ue, ue.form \in {"none", "raises", "ok"},
         NEW next, next = ParseEvent(row, ue)
  PROVE  /\ ChangesOnly(row, next, {"e", "ue", "raised"})
         /\ ~next.raised =>
              /\ next.e = IF ue.form = "ok" /\ ue.name = "u2s" THEN "se" ELSE row.e
              /\ next.ue = IF ue.form = "ok" /\ ue.name # "u2s" THEN Put(row.ue, ue.name, ue.data)
                           ELSE row.ue
<1>0. Tracked \subseteq DOMAIN row
  BY DEF IsRow
<1>1. CASE ue.form = "none"
  <2>1. next = row
    BY <1>1 DEF ParseEvent
  <2> QED
    BY <1>1, <2>1 DEF ChangesOnly
<1>2. CASE ue.form = "raises"
  <2>1. next = [row EXCEPT !.raised = TRUE]
    BY <1>2 DEF ParseEvent
  <2> QED
    BY <1>0, <2>1 DEF Tracked, ChangesOnly, IsRow
<1>3. CASE ue.form = "ok" /\ ue.name = "u2s"
  <2>1. next = [row EXCEPT !.e = "se", !.se_pr = Get(ue.data, "property", Empty),
                           !.se_va = Get(ue.data, "value", Empty)]
    BY <1>3 DEF ParseEvent
  <2> QED
    BY <1>0, <1>3, <2>1 DEF Tracked, ChangesOnly, IsRow
<1>4. CASE ue.form = "ok" /\ ue.name # "u2s"
  <2>1. next = [row EXCEPT !.ue = Put(@, ue.name, ue.data)]
    BY <1>4 DEF ParseEvent
  <2> QED
    BY <1>0, <1>4, <2>1 DEF Tracked, ChangesOnly, IsRow
<1> QED
  BY <1>1, <1>2, <1>3, <1>4

\* A ping goes to ue.
LEMMA PingSays ==
  ASSUME NEW row, IsRow(row), NEW ping, NEW next, next = PagePing(row, ping)
  PROVE  /\ ChangesOnly(row, next, {"ue"})
         /\ \E value : next.ue = IF ping = Null THEN row.ue ELSE Put(row.ue, "page_ping", value)
<1>0. Tracked \subseteq DOMAIN row
  BY DEF IsRow
<1>1. CASE ping = Null
  BY <1>1 DEF PagePing, ChangesOnly
<1>2. CASE ping # Null
  BY <1>0, <1>2 DEF PagePing, Tracked, ChangesOnly, IsRow
<1> QED
  BY <1>1, <1>2

\* The device of an AMP page wins over what the row has.
LEMMA AmpSays ==
  ASSUME NEW row, IsRow(row), NEW next, next = ApplyAmpFields(row)
  PROVE  /\ ChangesOnly(row, next, {"e", "duid", "amp", "raised"})
         /\ next.e = IF row.e = "ue" /\ "amp_page_ping" \in DOMAIN row.ue THEN "pp" ELSE row.e
         /\ next.duid = IF Truthy(Get(row.amp, "domainUserid", Null))
                        THEN SafeUuid(Get(row.amp, "domainUserid", Null)) ELSE row.duid
<1>0. Tracked \subseteq DOMAIN row
  BY DEF IsRow
<1> QED
  BY <1>0 DEF ApplyAmpFields, Tracked, ChangesOnly, IsRow

\* The linker changes amp alone.
LEMMA LinkerSays ==
  ASSUME NEW row, IsRow(row), NEW next, next = ApplyAmpLinker(row)
  PROVE  ChangesOnly(row, next, {"amp", "raised"})
<1>0. Tracked \subseteq DOMAIN row
  BY DEF IsRow
<1> QED
  BY <1>0 DEF ApplyAmpLinker, Tracked, ChangesOnly, IsRow

\* The cookie's device is taken when there is no other.
LEMMA CookieSays ==
  ASSUME NEW row, IsRow(row), NEW cookies, NEW next, next = ApplyCookieDuid(row, cookies)
  PROVE  /\ ChangesOnly(row, next, {"duid"})
         /\ next.duid = IF row.duid = Null /\ CookieDevices(cookies) # <<>>
                        THEN SafeUuid(Last(CookieDevices(cookies))) ELSE row.duid
<1>0. Tracked \subseteq DOMAIN row
  BY DEF IsRow
<1>1. CASE row.duid = Null /\ CookieDevices(cookies) # <<>>
  BY <1>0, <1>1 DEF ApplyCookieDuid, Tracked, ChangesOnly, IsRow
<1>2. CASE ~(row.duid = Null /\ CookieDevices(cookies) # <<>>)
  BY <1>2 DEF ApplyCookieDuid, ChangesOnly
<1> QED
  BY <1>1, <1>2

\* What a structured event carries is normalised apart from the rest.
LEMMA SeSays ==
  ASSUME NEW row, IsRow(row), NEW property, property = NormalizeSeProperty(row),
         NEW next, next = NormalizeSeValue(property)
  PROVE  ChangesOnly(row, next, {})
<1>0. Tracked \subseteq DOMAIN row
  BY DEF IsRow
<1>1. ChangesOnly(row, property, {})
  BY <1>0 DEF NormalizeSeProperty, Tracked, ChangesOnly, IsRow
<1>2. ChangesOnly(property, next, {})
  <2>1. Tracked \subseteq DOMAIN property
    BY <1>1 DEF ChangesOnly, IsRow
  <2>2. \/ next = [property EXCEPT !.se_va = "0.0"]
        \/ next = property
        \/ next = [property EXCEPT !.se_pr = Put(@, "ex-value", property.se_va), !.se_va = "0.0"]
    BY DEF NormalizeSeValue
  <2> QED
    BY <2>1, <2>2 DEF Tracked, ChangesOnly, IsRow
<1> QED
  BY <1>1, <1>2 DEF ChangesOnly, Tracked

\* The client hint, if there is one, says whether the device is mobile.
LEMMA HintsSay ==
  ASSUME NEW row, IsRow(row), NEW next, next = ApplyClientHintsDevice(row),
         NEW hint, hint = Get(Get(row.extra, "client_hints", NoKeys), "isMobile", Null)
  PROVE  /\ ChangesOnly(row, next, {"is_mobile", "raised"})
         /\ ~next.raised => next.is_mobile = IF hint = Null THEN row.is_mobile ELSE (hint # "false")
<1> DEFINE hints == Get(row.extra, "client_hints", NoKeys)
<1>0. Tracked \subseteq DOMAIN row
  BY DEF IsRow
<1>1. CASE hints # NoJsonObject /\ hint = Null
  <2>1. next = row
    BY <1>1 DEF ApplyClientHintsDevice, Null, Number
  <2> QED
    BY <1>1, <2>1 DEF ChangesOnly
<1>2. CASE hints # NoJsonObject /\ hint \in {"true", "false", Number}
  <2>1. next = [row EXCEPT !.is_mobile = (hint # "false"), !.is_pc = (hint = "false")]
    BY <1>2 DEF ApplyClientHintsDevice, Null, Number
  <2>2. hint # Null
    BY <1>2 DEF Null, Number
  <2> QED
    BY <1>0, <2>1, <2>2 DEF Tracked, ChangesOnly, IsRow
<1>3. CASE hints = NoJsonObject \/ hint \notin {Null, "true", "false", Number}
  <2>1. next = [row EXCEPT !.raised = TRUE]
    BY <1>3 DEF ApplyClientHintsDevice
  <2> QED
    BY <1>0, <2>1 DEF Tracked, ChangesOnly, IsRow
<1> QED
  BY <1>1, <1>2, <1>3

\* A set of one value, or of none.
LEMMA PreferSays ==
  ASSUME NEW value, NEW other
  PROVE  Prefer({}, other) = other /\ Prefer({value}, other) = value
BY DEF Prefer

\* The screen's name becomes the address.
LEMMA NameSays ==
  ASSUME NEW row, IsRow(row), NEW next, next = ScreenName(row)
  PROVE  /\ ChangesOnly(row, next, {"url", "screen"})
         /\ next.url = Prefer(At(row.screen, "screen_name"), row.url)
<1>0. Tracked \subseteq DOMAIN row
  BY DEF IsRow
<1>1. CASE "screen_name" \in DOMAIN row.screen
  <2>1. At(row.screen, "screen_name") = {row.screen["screen_name"]}
    BY <1>1 DEF At
  <2>2. next = [row EXCEPT !.url = row.screen["screen_name"],
                           !.screen = Without(@, {"screen_name"})]
    BY <1>1 DEF ScreenName
  <2> QED
    BY <1>0, <2>1, <2>2, PreferSays DEF Tracked, ChangesOnly, IsRow
<1>2. CASE "screen_name" \notin DOMAIN row.screen
  <2>1. At(row.screen, "screen_name") = {}
    BY <1>2 DEF At
  <2> QED
    BY <1>2, <2>1, PreferSays DEF ScreenName, ChangesOnly
<1> QED
  BY <1>1, <1>2

\* What the view of a screen_view event makes of the row.
ViewMakes(row, view, next) ==
  /\ DOMAIN next.ue = DOMAIN row.ue \ {"screen_view"}
  /\ next.e = IF view # {} THEN "pv" ELSE row.e
  /\ next.view_id = Prefer({SafeUuid(v["id"]) : v \in view}, row.view_id)
  /\ next.refr = Prefer({IF Get(v, "previousName", Empty) = "Unknown" THEN Empty
                         ELSE Get(v, "previousName", Empty) : v \in view}, row.refr)
  /\ next.url = Prefer({v["screen_name"] : v \in {w \in view : "screen_name" \in DOMAIN w}},
                  Prefer(At(row.screen, "screen_name"),
                    Prefer({v["name"] : v \in view}, row.url)))

\* A screen_view becomes a page view, with its own id, name and referrer.
LEMMA ViewSays ==
  ASSUME NEW row, IsRow(row), NEW view, view = At(row.ue, "screen_view"),
         NEW next, next = ApplyScreenView(row)
  PROVE  /\ ChangesOnly(row, next, {"e", "view_id", "url", "refr", "screen", "ue", "raised"})
         /\ ~next.raised => ViewMakes(row, view, next)
<1>0. Tracked \subseteq DOMAIN row
  BY DEF IsRow
<1>1. CASE "screen_view" \notin DOMAIN row.ue
  <2>1. view = {}
    BY <1>1 DEF At
  <2>2. next = ScreenName(row)
    BY <1>1 DEF ApplyScreenView
  <2>3. /\ ChangesOnly(row, next, {"url", "screen"})
        /\ next.url = Prefer(At(row.screen, "screen_name"), row.url)
    BY <2>2, NameSays
  <2>4. ChangesOnly(row, next, {"e", "view_id", "url", "refr", "screen", "ue", "raised"})
    BY <2>3 DEF ChangesOnly
  <2>5. next.ue = row.ue /\ next.e = row.e /\ next.view_id = row.view_id /\ next.refr = row.refr
    BY <2>3 DEF ChangesOnly, Tracked
  <2>6. /\ {SafeUuid(v["id"]) : v \in view} = {}
        /\ {IF Get(v, "previousName", Empty) = "Unknown" THEN Empty
            ELSE Get(v, "previousName", Empty) : v \in view} = {}
        /\ {v["screen_name"] : v \in {w \in view : "screen_name" \in DOMAIN w}} = {}
        /\ {v["name"] : v \in view} = {}
    BY <2>1
  <2>7. DOMAIN next.ue = DOMAIN row.ue \ {"screen_view"}
    BY <1>1, <2>5
  <2>8. \A other : Prefer({}, other) = other
    BY PreferSays
  <2> QED
    BY <2>1, <2>3, <2>4, <2>5, <2>6, <2>7, <2>8 DEF ViewMakes
<1>2. CASE "screen_view" \in DOMAIN row.ue
  <2> DEFINE v == row.ue["screen_view"]
             middle == ScreenView(row)
  <2>1. view = {v}
    BY <1>2 DEF At
  <2>2. next = ScreenName(middle)
    BY <1>2 DEF ApplyScreenView
  <2>3. /\ Tracked \subseteq DOMAIN middle
        /\ middle.e = "pv" /\ middle.view_id = SafeUuid(Get(v, "id", Null))
        /\ middle.url = Get(v, "name", Null)
        /\ middle.refr = IF Get(v, "previousName", Empty) = "Unknown" THEN Empty
                         ELSE Get(v, "previousName", Empty)
        /\ middle.screen = Merged(row.screen, Without(v, {"id", "name", "previousName"}))
        /\ middle.ue = Without(row.ue, {"screen_view"})
    BY <1>0 DEF ScreenView, Tracked
  <2>4. ChangesOnly(row, middle, {"e", "view_id", "url", "refr", "screen", "ue", "raised"})
    BY <1>0 DEF ScreenView, Tracked, ChangesOnly, IsRow
  <2>5. ~middle.raised => "id" \in DOMAIN v /\ "name" \in DOMAIN v
    BY <1>0 DEF ScreenView, Tracked
  <2> HIDE DEF middle
  <2>6. /\ ChangesOnly(middle, next, {"url", "screen"})
        /\ next.url = Prefer(At(middle.screen, "screen_name"), middle.url)
    BY <2>2, <2>3, NameSays DEF IsRow
  <2>10. ChangesOnly(row, next, {"e", "view_id", "url", "refr", "screen", "ue", "raised"})
    BY <2>4, <2>6 DEF ChangesOnly, Tracked
  <2> SUFFICES ASSUME ~next.raised PROVE ViewMakes(row, view, next)
    BY <2>10
  <2>7. /\ ~middle.raised
        /\ next.ue = middle.ue /\ next.e = "pv"
        /\ next.view_id = middle.view_id /\ next.refr = middle.refr
    BY <2>3, <2>6 DEF ChangesOnly, Tracked
  <2>8. middle.url = v["name"] /\ middle.view_id = SafeUuid(v["id"])
    BY <2>3, <2>5, <2>7 DEF Get
  <2>9. At(middle.screen, "screen_name")
          = IF "screen_name" \in DOMAIN v THEN {v["screen_name"]} ELSE At(row.screen, "screen_name")
    BY <2>3 DEF Merged, At, Without, Restrict
  <2> HIDE DEF v
  <2>11. DOMAIN next.ue = DOMAIN row.ue \ {"screen_view"}
    BY <2>3, <2>7 DEF Without, Restrict
  <2>12. next.view_id = Prefer({SafeUuid(w["id"]) : w \in view}, row.view_id)
    <3> DEFINE ids == {SafeUuid(w["id"]) : w \in view}
    <3>1. ids = {SafeUuid(v["id"])}
      BY <2>1
    <3> HIDE DEF ids
    <3>2. next.view_id = Prefer(ids, row.view_id)
      BY <2>7, <2>8, <3>1, PreferSays
    <3> QED
      BY <3>2 DEF ids
  <2>13. next.refr = Prefer({IF Get(w, "previousName", Empty) = "Unknown" THEN Empty
                             ELSE Get(w, "previousName", Empty) : w \in view}, row.refr)
    <3> DEFINE referrers == {IF Get(w, "previousName", Empty) = "Unknown" THEN Empty
                             ELSE Get(w, "previousName", Empty) : w \in view}
    <3>1. referrers = {middle.refr}
      BY <2>1, <2>3
    <3> HIDE DEF referrers
    <3>2. next.refr = Prefer(referrers, row.refr)
      BY <2>7, <3>1, PreferSays
    <3> QED
      BY <3>2 DEF referrers
  <2>14. next.url = Prefer({w["screen_name"] : w \in {u \in view : "screen_name" \in DOMAIN u}},
                      Prefer(At(row.screen, "screen_name"),
                        Prefer({w["name"] : w \in view}, row.url)))
    <3> DEFINE viewed == {w["screen_name"] : w \in {u \in view : "screen_name" \in DOMAIN u}}
               names == {w["name"] : w \in view}
    <3>1. names = {v["name"]}
      BY <2>1
    <3>2. viewed = At(v, "screen_name")
      BY <2>1 DEF At
    <3> HIDE DEF viewed, names
    <3>3. Prefer(names, row.url) = v["name"]
      BY <3>1, PreferSays
    <3>4. next.url = Prefer(viewed, Prefer(At(row.screen, "screen_name"), v["name"]))
      <4>1. CASE "screen_name" \in DOMAIN v
        <5>1. viewed = {v["screen_name"]} /\ At(middle.screen, "screen_name") = {v["screen_name"]}
          BY <2>9, <3>2, <4>1 DEF At
        <5>2. next.url = v["screen_name"]
          BY <2>6, <5>1, PreferSays
        <5> QED
          BY <5>1, <5>2, PreferSays
      <4>2. CASE "screen_name" \notin DOMAIN v
        <5>1. viewed = {} /\ At(middle.screen, "screen_name") = At(row.screen, "screen_name")
          BY <2>9, <3>2, <4>2 DEF At
        <5>2. next.url = Prefer(At(row.screen, "screen_name"), v["name"])
          BY <2>6, <2>8, <5>1
        <5> QED
          BY <5>1, <5>2, PreferSays
      <4> QED
        BY <4>1, <4>2
    <3> QED
      BY <3>3, <3>4 DEF viewed, names
  <2>15. next.e = IF view # {} THEN "pv" ELSE row.e
    BY <2>1, <2>7
  <2> QED
    BY <2>11, <2>12, <2>13, <2>14, <2>15 DEF ViewMakes
<1> QED
  BY <1>1, <1>2

-----------------------------------------------------------------------------
(***************************************************************************)
(* What parse_payload makes of an event: its steps and the rows between    *)
(* them, then the fields of the last one.                                  *)
(***************************************************************************)

\* parse_payload is its steps, one after the other.
LEMMA PayloadSteps ==
  ASSUME NEW first, NEW agent, NEW event, NEW cookies,
         NEW contexts, contexts = FindAvailable(event.co, event.cx),
         NEW ue, ue = FindAvailable(event.ue_pr, event.ue_px)
  PROVE  ParsePayload(first, agent, event, cookies) =
           ApplyClientHintsDevice(NormalizeSeValue(NormalizeSeProperty(
             ApplyScreenView(ApplyCookieDuid(ApplyAmpLinker(ApplyAmpFields(
               PagePing(ParseEvent(ParseContexts(BuildInitialModel(first, agent, event),
                                                 contexts), ue), event.ping))), cookies)))))
<1> DEFINE r0 == BuildInitialModel(first, agent, event)
           r1 == ParseContexts(r0, contexts)
           r2 == ParseEvent(r1, ue)
           r3 == PagePing(r2, event.ping)
           r4 == ApplyAmpFields(r3)
           r5 == ApplyAmpLinker(r4)
           r6 == ApplyCookieDuid(r5, cookies)
           r7 == ApplyScreenView(r6)
           r8 == NormalizeSeProperty(r7)
           r9 == NormalizeSeValue(r8)
           r10 == ApplyClientHintsDevice(r9)
<1>0. r0 = BuildInitialModel(first, agent, event)
  OBVIOUS
<1>1. {ParseContexts(row, contexts) : row \in {r0}} = {r1}
  OBVIOUS
<1>2. {ParseEvent(row, ue) : row \in {r1}} = {r2}
  OBVIOUS
<1>3. {PagePing(row, event.ping) : row \in {r2}} = {r3}
  OBVIOUS
<1>4. {ApplyAmpFields(row) : row \in {r3}} = {r4}
  OBVIOUS
<1>5. {ApplyAmpLinker(row) : row \in {r4}} = {r5}
  OBVIOUS
<1>6. {ApplyCookieDuid(row, cookies) : row \in {r5}} = {r6}
  OBVIOUS
<1>7. {ApplyScreenView(row) : row \in {r6}} = {r7}
  OBVIOUS
<1>8. {NormalizeSeProperty(row) : row \in {r7}} = {r8}
  OBVIOUS
<1>9. {NormalizeSeValue(row) : row \in {r8}} = {r9}
  OBVIOUS
<1>10. {ApplyClientHintsDevice(row) : row \in {r9}} = {r10}
  OBVIOUS
<1> HIDE DEF r0, r1, r2, r3, r4, r5, r6, r7, r8, r9, r10
<1>11. ParsePayload(first, agent, event, cookies) = CHOOSE row \in {r10} : TRUE
  BY <1>0, <1>1, <1>2, <1>3, <1>4, <1>5, <1>6, <1>7, <1>8, <1>9, <1>10, SMTT(60)
     DEF ParsePayload, Then
<1>12. ParsePayload(first, agent, event, cookies) = r10
  BY <1>11
<1> QED
  BY <1>12 DEF r0, r1, r2, r3, r4, r5, r6, r7, r8, r9, r10

\* The contexts of a readable event are a list.
LEMMA ContextsAreListed ==
  ASSUME NEW event, Readable(event), NEW contexts, contexts = FindAvailable(event.co, event.cx)
  PROVE  /\ contexts.form \in {"none", "raises", "ok"}
         /\ \E n \in Nat : DOMAIN ContextsIn(event) = 1..n
<1>1. \/ contexts = [form |-> "none"]
      \/ \E text \in {event.co, event.cx} :
           contexts = text /\ text.form \notin {"empty", "invalid"}
  BY DEF FindAvailable
<1>2. contexts.form \in {"none", "raises", "ok"}
  BY <1>1 DEF Readable, TextForms
<1>3. CASE contexts.form = "ok"
  <2>1. contexts.data \in Seq(Range(contexts.data))
    BY <1>1, <1>3 DEF Readable
  <2>2. ContextsIn(event) = contexts.data
    BY <1>3 DEF ContextsIn
  <2>3. Len(contexts.data) \in Nat /\ DOMAIN contexts.data = 1..Len(contexts.data)
    BY <2>1
  <2> QED
    BY <1>2, <2>2, <2>3
<1>4. CASE contexts.form # "ok"
  <2>1. ContextsIn(event) = <<>>
    BY <1>4 DEF ContextsIn
  <2>2. DOMAIN ContextsIn(event) = 1..0
    BY <2>1
  <2> QED
    BY <1>2, <2>2
<1> QED
  BY <1>3, <1>4

\* So is its unstructured event, or it is missing or raises.
LEMMA UeIsRead ==
  ASSUME NEW event, Readable(event), NEW ue, ue = FindAvailable(event.ue_pr, event.ue_px)
  PROVE  ue.form \in {"none", "raises", "ok"}
BY DEF FindAvailable, Readable, TextForms

\* What parse_contexts makes of a row, when it does not raise.
LEMMA ContextsParsed ==
  ASSUME NEW event, Readable(event), NEW contexts, contexts = FindAvailable(event.co, event.cx),
         NEW row, IsRow(row), NEW next, next = ParseContexts(row, contexts)
  PROVE  /\ IsRow(next)
         /\ ~next.raised => ContextsMake(row, event, next)
<1>1. PICK n \in Nat : DOMAIN ContextsIn(event) = 1..n
  BY ContextsAreListed
<1>2. ContextsMake(row, event, FoldLeft(ParseContext, row, ContextsIn(event)))
  BY <1>1, ContextsSay
<1>3. CASE contexts.form = "ok"
  <2>1. next = FoldLeft(ParseContext, row, contexts.data) /\ ContextsIn(event) = contexts.data
    BY <1>3 DEF ParseContexts, ContextsIn
  <2> QED
    BY <1>2, <2>1 DEF ContextsMake
<1>4. CASE contexts.form = "raises"
  <2>1. next = [row EXCEPT !.raised = TRUE]
    BY <1>4 DEF ParseContexts
  <2> QED
    BY <2>1 DEF IsRow, Tracked
<1>5. CASE contexts.form = "none"
  <2>1. next = row /\ ContextsIn(event) = <<>>
    BY <1>5 DEF ParseContexts, ContextsIn
  <2>2. DOMAIN ContextsIn(event) = 1..0
    BY <2>1
  <2>3. FoldLeft(ParseContext, row, ContextsIn(event)) = row
    BY <2>2, ContextsTrace
  <2> QED
    BY <1>2, <2>1, <2>3
<1> QED
  BY <1>3, <1>4, <1>5, ContextsAreListed

\* There is at most one last context that counts.
LEMMA OneWritten ==
  ASSUME NEW n \in Nat, NEW list, NEW at \in SUBSET (1..n)
  PROVE  Written(list, at) = {} \/ \E c : Written(list, at) = {c}
<1>1. CASE Latest(at) = {}
  BY <1>1 DEF Written
<1>2. ASSUME NEW i, Latest(at) = {i} PROVE Written(list, at) = {list[i]}
  BY <1>2 DEF Written
<1> QED
  BY <1>1, <1>2, LatestIsOne

\* So for the sources of which more than one value is read.
LEMMA LastContexts ==
  ASSUME NEW n \in Nat, NEW event, DOMAIN ContextsIn(event) = 1..n
  PROVE  /\ \/ LastContext(event, NamesAmpDevice) = {}
            \/ \E c : LastContext(event, NamesAmpDevice) = {c}
         /\ LastContext(event, NamesUser) = {} \/ \E c : LastContext(event, NamesUser) = {c}
         /\ LastContext(event, NamesScreen) = {} \/ \E c : LastContext(event, NamesScreen) = {c}
         /\ LastContext(event, GivesHints) = {} \/ \E c : LastContext(event, GivesHints) = {c}
<1>1. \/ LastContext(event, NamesAmpDevice) = {}
      \/ \E c : LastContext(event, NamesAmpDevice) = {c}
  <2>1. LastContext(event, NamesAmpDevice)
          = Written(ContextsIn(event), PlacesIn(event, NamesAmpDevice))
    BY DEF LastContext, Written
  <2>2. PlacesIn(event, NamesAmpDevice) \in SUBSET (1..n)
    BY DEF PlacesIn
  <2> QED
    BY <2>1, <2>2, OneWritten
<1>2. LastContext(event, NamesUser) = {} \/ \E c : LastContext(event, NamesUser) = {c}
  <2>1. LastContext(event, NamesUser) = Written(ContextsIn(event), PlacesIn(event, NamesUser))
    BY DEF LastContext, Written
  <2>2. PlacesIn(event, NamesUser) \in SUBSET (1..n)
    BY DEF PlacesIn
  <2> QED
    BY <2>1, <2>2, OneWritten
<1>3. LastContext(event, NamesScreen) = {} \/ \E c : LastContext(event, NamesScreen) = {c}
  <2>1. LastContext(event, NamesScreen) = Written(ContextsIn(event), PlacesIn(event, NamesScreen))
    BY DEF LastContext, Written
  <2>2. PlacesIn(event, NamesScreen) \in SUBSET (1..n)
    BY DEF PlacesIn
  <2> QED
    BY <2>1, <2>2, OneWritten
<1>4. LastContext(event, GivesHints) = {} \/ \E c : LastContext(event, GivesHints) = {c}
  <2>1. LastContext(event, GivesHints) = Written(ContextsIn(event), PlacesIn(event, GivesHints))
    BY DEF LastContext, Written
  <2>2. PlacesIn(event, GivesHints) \in SUBSET (1..n)
    BY DEF PlacesIn
  <2> QED
    BY <2>1, <2>2, OneWritten
<1> QED
  BY <1>1, <1>2, <1>3, <1>4

\* The rows between the steps of parse_payload.
Steps(event, cookies, agent, r) ==
  /\ r[0] = BuildInitialModel(NoDefaults, agent, event)
  /\ r[1] = ParseContexts(r[0], FindAvailable(event.co, event.cx))
  /\ r[2] = ParseEvent(r[1], FindAvailable(event.ue_pr, event.ue_px))
  /\ r[3] = PagePing(r[2], event.ping)
  /\ r[4] = ApplyAmpFields(r[3])
  /\ r[5] = ApplyAmpLinker(r[4])
  /\ r[6] = ApplyCookieDuid(r[5], cookies)
  /\ r[7] = ApplyScreenView(r[6])
  /\ r[8] = NormalizeSeValue(NormalizeSeProperty(r[7]))
  /\ r[9] = ApplyClientHintsDevice(r[8])

\* parse_payload has such rows, and the last one is its result.
LEMMA StepsAre ==
  ASSUME NEW event, NEW cookies, NEW agent
  PROVE  \E r : /\ Steps(event, cookies, agent, r)
                /\ r[9] = ParsePayload(NoDefaults, agent, event, cookies)
<1> DEFINE r0 == BuildInitialModel(NoDefaults, agent, event)
           r1 == ParseContexts(r0, FindAvailable(event.co, event.cx))
           r2 == ParseEvent(r1, FindAvailable(event.ue_pr, event.ue_px))
           r3 == PagePing(r2, event.ping)
           r4 == ApplyAmpFields(r3)
           r5 == ApplyAmpLinker(r4)
           r6 == ApplyCookieDuid(r5, cookies)
           r7 == ApplyScreenView(r6)
           r8 == NormalizeSeValue(NormalizeSeProperty(r7))
           r9 == ApplyClientHintsDevice(r8)
<1>1. r9 = ParsePayload(NoDefaults, agent, event, cookies)
  BY PayloadSteps
<1>2. /\ r0 = BuildInitialModel(NoDefaults, agent, event)
      /\ r1 = ParseContexts(r0, FindAvailable(event.co, event.cx))
      /\ r2 = ParseEvent(r1, FindAvailable(event.ue_pr, event.ue_px))
      /\ r3 = PagePing(r2, event.ping)
      /\ r4 = ApplyAmpFields(r3)
      /\ r5 = ApplyAmpLinker(r4)
      /\ r6 = ApplyCookieDuid(r5, cookies)
      /\ r7 = ApplyScreenView(r6)
      /\ r8 = NormalizeSeValue(NormalizeSeProperty(r7))
      /\ r9 = ApplyClientHintsDevice(r8)
  OBVIOUS
<1> HIDE DEF r0, r1, r2, r3, r4, r5, r6, r7, r8, r9
<1> DEFINE r == [i \in 0..9 |->
                   IF i = 0 THEN r0 ELSE IF i = 1 THEN r1 ELSE IF i = 2 THEN r2
                   ELSE IF i = 3 THEN r3 ELSE IF i = 4 THEN r4 ELSE IF i = 5 THEN r5
                   ELSE IF i = 6 THEN r6 ELSE IF i = 7 THEN r7 ELSE IF i = 8 THEN r8 ELSE r9]
<1>3. /\ r[0] = r0 /\ r[1] = r1 /\ r[2] = r2 /\ r[3] = r3 /\ r[4] = r4
      /\ r[5] = r5 /\ r[6] = r6 /\ r[7] = r7 /\ r[8] = r8 /\ r[9] = r9
  OBVIOUS
<1> HIDE DEF r
<1>4. Steps(event, cookies, agent, r)
  BY <1>2, <1>3 DEF Steps
<1> QED
  BY <1>1, <1>3, <1>4

\* The first row has the fields.
LEMMA FirstIsRow ==
  ASSUME NEW agent, NEW event
  PROVE  IsRow(BuildInitialModel(NoDefaults, agent, event))
BY InitialRow

\* What each step makes of the row, when none raises.
LEMMA StepsMake ==
  ASSUME NEW event, Readable(event), NEW cookies, NEW agent, NEW r,
         Steps(event, cookies, agent, r), ~r[9].raised
  PROVE  /\ ContextsMake(r[0], event, r[1])
         /\ ChangesOnly(r[1], r[2], {"e", "ue", "raised"})
         /\ ChangesOnly(r[2], r[3], {"ue"})
         /\ ChangesOnly(r[3], r[4], {"e", "duid", "amp", "raised"})
         /\ ChangesOnly(r[4], r[5], {"amp", "raised"})
         /\ ChangesOnly(r[5], r[6], {"duid"})
         /\ ChangesOnly(r[6], r[7], {"e", "view_id", "url", "refr", "screen", "ue", "raised"})
         /\ ChangesOnly(r[7], r[8], {})
         /\ ChangesOnly(r[8], r[9], {"is_mobile", "raised"})
         /\ ~r[2].raised /\ ~r[7].raised
<1> DEFINE contexts == FindAvailable(event.co, event.cx)
           ue == FindAvailable(event.ue_pr, event.ue_px)
<1>0. IsRow(r[0])
  BY FirstIsRow DEF Steps
<1>1. /\ IsRow(r[1])
      /\ ~r[1].raised => ContextsMake(r[0], event, r[1])
  BY <1>0, ContextsParsed DEF Steps
<1>2. ChangesOnly(r[1], r[2], {"e", "ue", "raised"})
  BY <1>1, UeIsRead, EventSays DEF Steps
<1>3. ChangesOnly(r[2], r[3], {"ue"})
  BY <1>2, PingSays DEF Steps, ChangesOnly
<1>4. ChangesOnly(r[3], r[4], {"e", "duid", "amp", "raised"})
  BY <1>3, AmpSays DEF Steps, ChangesOnly
<1>5. ChangesOnly(r[4], r[5], {"amp", "raised"})
  BY <1>4, LinkerSays DEF Steps, ChangesOnly
<1>6. ChangesOnly(r[5], r[6], {"duid"})
  BY <1>5, CookieSays DEF Steps, ChangesOnly
<1>7. ChangesOnly(r[6], r[7], {"e", "view_id", "url", "refr", "screen", "ue", "raised"})
  BY <1>6, ViewSays DEF Steps, ChangesOnly
<1>8. ChangesOnly(r[7], r[8], {})
  BY <1>7, SeSays DEF Steps, ChangesOnly
<1>9. ChangesOnly(r[8], r[9], {"is_mobile", "raised"})
  BY <1>8, HintsSay DEF Steps, ChangesOnly
<1>10. ~r[7].raised /\ ~r[2].raised /\ ~r[1].raised
  BY <1>2, <1>3, <1>4, <1>5, <1>6, <1>7, <1>8, <1>9 DEF ChangesOnly
<1> QED
  BY <1>1, <1>2, <1>3, <1>4, <1>5, <1>6, <1>7, <1>8, <1>9, <1>10

\* What the steps leave for the last ones.
LEMMA StepsLeave ==
  ASSUME NEW event, Readable(event), NEW cookies, NEW agent, NEW r,
         Steps(event, cookies, agent, r), ~r[9].raised
  PROVE  /\ r[9].url = r[7].url /\ r[9].refr = r[7].refr /\ r[9].view_id = r[7].view_id
         /\ r[9].e = r[7].e /\ r[9].ue = r[7].ue
         /\ r[9].duid = r[6].duid /\ r[5].duid = r[4].duid /\ r[3].duid = r[1].duid
         /\ r[9].res = r[1].res /\ r[9].device_model = r[1].device_model
         /\ r[9].agent = r[1].agent
         /\ r[9].extra = r[1].extra /\ r[8].extra = r[1].extra /\ r[8].is_mobile = r[1].is_mobile
         /\ r[6].url = r[1].url /\ r[6].refr = r[1].refr /\ r[6].view_id = r[1].view_id
         /\ r[6].screen = r[1].screen /\ r[6].ue = r[3].ue /\ r[6].e = r[4].e
         /\ r[3].e = r[2].e /\ r[3].amp = r[1].amp
<1>1. /\ ChangesOnly(r[1], r[2], {"e", "ue", "raised"})
      /\ ChangesOnly(r[2], r[3], {"ue"})
      /\ ChangesOnly(r[3], r[4], {"e", "duid", "amp", "raised"})
      /\ ChangesOnly(r[4], r[5], {"amp", "raised"})
      /\ ChangesOnly(r[5], r[6], {"duid"})
      /\ ChangesOnly(r[6], r[7], {"e", "view_id", "url", "refr", "screen", "ue", "raised"})
      /\ ChangesOnly(r[7], r[8], {})
      /\ ChangesOnly(r[8], r[9], {"is_mobile", "raised"})
  BY StepsMake
<1>2. \A field \in Tracked \ {"is_mobile", "raised"} : r[9][field] = r[7][field]
  BY <1>1 DEF ChangesOnly
<1>3. \A field \in Tracked \ {"e", "view_id", "url", "refr", "screen", "ue", "raised"} :
        r[7][field] = r[6][field]
  BY <1>1 DEF ChangesOnly
<1>4. \A field \in Tracked \ {"duid", "amp", "raised"} : r[6][field] = r[4][field]
  BY <1>1 DEF ChangesOnly
<1>5. \A field \in Tracked \ {"e", "duid", "ue", "amp", "raised"} : r[4][field] = r[1][field]
  BY <1>1 DEF ChangesOnly
<1>6. \A field \in Tracked \ {"ue"} : r[3][field] = r[2][field]
  BY <1>1 DEF ChangesOnly
<1>7. \A field \in Tracked \ {"e", "ue", "raised"} : r[2][field] = r[1][field]
  BY <1>1 DEF ChangesOnly
<1>8. \A field \in Tracked : r[8][field] = r[7][field]
  BY <1>1 DEF ChangesOnly
<1>9. r[5].duid = r[4].duid /\ r[4].ue = r[3].ue
  BY <1>1 DEF ChangesOnly, Tracked
<1>10. /\ r[9].url = r[7].url /\ r[9].refr = r[7].refr /\ r[9].view_id = r[7].view_id
       /\ r[9].e = r[7].e /\ r[9].ue = r[7].ue
  BY <1>2 DEF Tracked
<1>11. /\ r[9].duid = r[6].duid /\ r[3].duid = r[1].duid
       /\ r[3].e = r[2].e /\ r[3].amp = r[1].amp
  BY <1>2, <1>3, <1>6, <1>7 DEF Tracked
<1>12. /\ r[9].res = r[1].res /\ r[9].device_model = r[1].device_model
       /\ r[9].agent = r[1].agent /\ r[9].extra = r[1].extra
  BY <1>2, <1>3, <1>4, <1>5 DEF Tracked
<1>13. r[8].extra = r[1].extra /\ r[8].is_mobile = r[1].is_mobile
  BY <1>3, <1>4, <1>5, <1>8 DEF Tracked
<1>14. /\ r[6].url = r[1].url /\ r[6].refr = r[1].refr /\ r[6].view_id = r[1].view_id
       /\ r[6].screen = r[1].screen /\ r[6].ue = r[3].ue /\ r[6].e = r[4].e
  BY <1>4, <1>5, <1>9 DEF Tracked
<1> QED
  BY <1>9, <1>10, <1>11, <1>12, <1>13, <1>14

\* SafeUuid always gives a device.
LEMMA UuidsAreGiven == \A id : SafeUuid(id) # Null
BY DEF SafeUuid, Uuids, ZeroUuid, Null

\* What the first row says.
LEMMA FirstRow ==
  ASSUME NEW event, NEW cookies, NEW agent, NEW r, Steps(event, cookies, agent, r)
  PROVE  /\ r[0].e = event.e /\ r[0].url = event.url /\ r[0].refr = event.refr
         /\ r[0].duid = event.duid /\ r[0].res = event.res /\ r[0].agent = agent
         /\ r[0].view_id = ZeroUuid /\ r[0].device_model = "agent's"
         /\ DOMAIN r[0].extra = {} /\ DOMAIN r[0].ue = {}
         /\ DOMAIN r[0].screen = {} /\ DOMAIN r[0].amp = {}
<1>1. r[0] = BuildInitialModel(NoDefaults, agent, event)
  BY DEF Steps
<1> QED
  BY <1>1 DEF BuildInitialModel, NoDefaults, NoKeys

\* The device of the row: AMP, the session, the payload, the cookie.
LEMMA DeviceIs ==
  ASSUME NEW event, Readable(event), NEW cookies, NEW agent, NEW r,
         Steps(event, cookies, agent, r), ~r[9].raised
  PROVE  r[9].duid = DeviceOf(event, cookies)
<1> DEFINE amp == {c.data["domainUserid"] : c \in LastContext(event, NamesAmpDevice)}
           named == {SafeUuid(id) : id \in {d \in amp : Truthy(d)}}
           session == {SafeUuid(c.data["userId"]) : c \in LastContext(event, NamesUser)}
           devices == CookieDevices(cookies)
           cookie == IF devices = <<>> THEN Null ELSE SafeUuid(Last(devices))
           payload == IF event.duid # Null THEN event.duid ELSE cookie
           domain == Get(r[1].amp, "domainUserid", Null)
<1>1. r[0].duid = event.duid /\ Get(r[0].amp, "domainUserid", Null) = Null
  <2>1. r[0].duid = event.duid /\ DOMAIN r[0].amp = {}
    BY FirstRow
  <2> QED
    BY <2>1 DEF Get
<1>2. r[1].duid = Prefer(session, event.duid) /\ domain = Prefer(amp, Null)
  <2>1. ContextsMake(r[0], event, r[1])
    BY StepsMake
  <2>2. r[1].duid = Prefer(session, r[0].duid)
    BY <2>1 DEF ContextsMake
  <2>3. domain = Prefer(amp, Get(r[0].amp, "domainUserid", Null))
    BY <2>1 DEF ContextsMake
  <2> QED
    BY <1>1, <2>2, <2>3
<1>3. r[4].duid = IF Truthy(domain) THEN SafeUuid(domain) ELSE r[1].duid
  <2>1. r[4] = ApplyAmpFields(r[3]) /\ IsRow(r[3]) /\ r[3].amp = r[1].amp /\ r[3].duid = r[1].duid
    BY StepsMake, StepsLeave DEF Steps, ChangesOnly
  <2> QED
    BY <2>1, AmpSays
<1>4. r[9].duid = IF r[4].duid = Null /\ devices # <<>> THEN SafeUuid(Last(devices)) ELSE r[4].duid
  <2>1. r[6] = ApplyCookieDuid(r[5], cookies) /\ IsRow(r[5]) /\ r[5].duid = r[4].duid
        /\ r[9].duid = r[6].duid
    BY StepsMake, StepsLeave DEF Steps, ChangesOnly
  <2> QED
    BY <2>1, CookieSays
<1>5. amp = {} \/ \E d : amp = {d}
  <2>1. CASE LastContext(event, NamesAmpDevice) = {}
    BY <2>1
  <2>2. ASSUME NEW c, LastContext(event, NamesAmpDevice) = {c}
        PROVE  amp = {c.data["domainUserid"]}
    BY <2>2
  <2> QED
    <3>1. PICK n \in Nat : DOMAIN ContextsIn(event) = 1..n
      BY ContextsAreListed
    <3>2. LastContext(event, NamesAmpDevice) = {} \/ \E c : LastContext(event, NamesAmpDevice) = {c}
      BY <3>1, LastContexts
    <3> QED
      BY <2>1, <2>2, <3>2
<1>6. session = {} \/ \E d : session = {SafeUuid(d)}
  <2>1. CASE LastContext(event, NamesUser) = {}
    BY <2>1
  <2>2. ASSUME NEW c, LastContext(event, NamesUser) = {c}
        PROVE  session = {SafeUuid(c.data["userId"])}
    BY <2>2
  <2> QED
    BY <2>1, <2>2, ContextsAreListed, LastContexts
<1>7. DeviceOf(event, cookies) = Prefer(named, Prefer(session, payload))
  BY DEF DeviceOf
<1>8. ~Truthy(Null)
  BY DEF Truthy
<1>9. IF Truthy(domain) THEN named = {SafeUuid(domain)} ELSE named = {}
  <2>1. CASE amp = {}
    <3>1. named = {} /\ domain = Null
      BY <1>2, <2>1 DEF Prefer
    <3> QED
      BY <1>8, <3>1
  <2>2. ASSUME NEW d, amp = {d}
        PROVE  IF Truthy(domain) THEN named = {SafeUuid(domain)} ELSE named = {}
    <3>1. domain = d
      BY <1>2, <2>2, PreferSays
    <3> QED
      BY <2>2, <3>1
  <2> QED
    BY <1>5, <2>1, <2>2
<1> HIDE DEF amp, named, session, domain
<1>10. CASE Truthy(domain)
  <2>1. r[9].duid = SafeUuid(domain)
    BY <1>3, <1>4, <1>10, UuidsAreGiven
  <2>2. Prefer(named, Prefer(session, payload)) = SafeUuid(domain)
    BY <1>9, <1>10, PreferSays
  <2> QED
    BY <1>7, <2>1, <2>2
<1>11. CASE ~Truthy(domain)
  <2>1. /\ DeviceOf(event, cookies) = Prefer(session, payload)
        /\ r[4].duid = Prefer(session, event.duid)
    BY <1>2, <1>3, <1>7, <1>9, <1>11, PreferSays
  <2>2. CASE session = {}
    BY <1>4, <2>1, <2>2, PreferSays
  <2>3. ASSUME NEW d, session = {SafeUuid(d)} PROVE r[9].duid = DeviceOf(event, cookies)
    <3>1. r[4].duid = SafeUuid(d) /\ DeviceOf(event, cookies) = SafeUuid(d)
      BY <2>1, <2>3, PreferSays
    <3> QED
      BY <1>4, <3>1, UuidsAreGiven
  <2> QED
    BY <1>6, <2>2, <2>3
<1> QED
  BY <1>10, <1>11

\* No context is kept under the name of an event that is read again.
LEMMA ContextsAreNoViews ==
  ASSUME NEW event
  PROVE  /\ "screen_view" \notin KeysFrom(event, UeKeysOf)
         /\ "amp_page_ping" \notin KeysFrom(event, UeKeysOf)
<1>1. ASSUME NEW c, NEW key \in UeKeysOf(c) PROVE key \notin {"screen_view", "amp_page_ping"}
  <2>1. c.schema \in DOMAIN UeKeys /\ key = UeKeys[c.schema]
    BY <1>1 DEF UeKeysOf
  <2> QED
    BY <2>1 DEF UeKeys
<1>2. \A key \in KeysFrom(event, UeKeysOf) : \E c : key \in UeKeysOf(c)
  BY DEF KeysFrom
<1> QED
  BY <1>1, <1>2

\* What the row has of the event, before the steps that look at it.
LEMMA EventIsKept ==
  ASSUME NEW event, Readable(event), NEW cookies, NEW agent, NEW r,
         Steps(event, cookies, agent, r), ~r[9].raised,
         NEW names, names = {ue.name : ue \in UeIn(event)}
  PROVE  /\ r[3].e = IF "u2s" \in names THEN "se" ELSE event.e
         /\ At(r[3].ue, "screen_view") = ScreenViewIn(event)
         /\ "screen_view" \in names <=> ScreenViewIn(event) # {}
         /\ "amp_page_ping" \in DOMAIN r[3].ue <=> "amp_page_ping" \in names
         /\ DOMAIN r[3].ue = KeysFrom(event, UeKeysOf) \union (names \ {"u2s"})
                               \union (IF event.ping = Null THEN {} ELSE {"page_ping"})
         /\ names = {} \/ \E name : names = {name}
<1> DEFINE ue == FindAvailable(event.ue_pr, event.ue_px)
           keys == KeysFrom(event, UeKeysOf)
<1>1. DOMAIN r[1].ue = keys /\ r[1].e = event.e
  <2>1. ContextsMake(r[0], event, r[1])
    BY StepsMake
  <2>2. DOMAIN r[1].ue = DOMAIN r[0].ue \union keys /\ r[1].e = r[0].e
    BY <2>1 DEF ContextsMake
  <2>3. DOMAIN r[0].ue = {} /\ r[0].e = event.e
    BY FirstRow
  <2> QED
    BY <2>2, <2>3
<1>2. /\ r[2].e = IF ue.form = "ok" /\ ue.name = "u2s" THEN "se" ELSE r[1].e
      /\ r[2].ue = IF ue.form = "ok" /\ ue.name # "u2s" THEN Put(r[1].ue, ue.name, ue.data)
                   ELSE r[1].ue
  <2>1. r[2] = ParseEvent(r[1], ue) /\ IsRow(r[1]) /\ ~r[2].raised
    BY StepsMake DEF Steps, ContextsMake
  <2>2. ue.form \in {"none", "raises", "ok"}
    BY UeIsRead
  <2> HIDE DEF ue
  <2> QED
    BY <2>1, <2>2, EventSays
<1>3. PICK value : r[3].ue = IF event.ping = Null THEN r[2].ue ELSE Put(r[2].ue, "page_ping", value)
  <2>1. r[3] = PagePing(r[2], event.ping) /\ IsRow(r[2])
    BY StepsMake DEF Steps, ChangesOnly
  <2> QED
    BY <2>1, PingSays
<1>4. r[3].e = r[2].e
  BY StepsLeave
<1>5. "screen_view" \notin keys /\ "amp_page_ping" \notin keys
  BY ContextsAreNoViews
<1>6. UeIn(event) = IF ue.form = "ok" THEN {ue} ELSE {}
  BY DEF UeIn
<1>7. ScreenViewIn(event) = IF ue.form = "ok" /\ ue.name = "screen_view" THEN {ue.data} ELSE {}
  BY <1>6 DEF ScreenViewIn
<1>8. names = IF ue.form = "ok" THEN {ue.name} ELSE {}
  BY <1>6
<1> HIDE DEF ue, keys
<1>9. DOMAIN r[2].ue = keys \union (names \ {"u2s"})
  BY <1>1, <1>2, <1>8 DEF Put
<1>10. DOMAIN r[3].ue = DOMAIN r[2].ue \union (IF event.ping = Null THEN {} ELSE {"page_ping"})
  BY <1>3 DEF Put
<1>11. At(r[2].ue, "screen_view") = ScreenViewIn(event)
  <2>1. CASE ue.form = "ok" /\ ue.name = "screen_view"
    BY <1>2, <1>7, <2>1 DEF Put, At
  <2>2. CASE ~(ue.form = "ok" /\ ue.name = "screen_view")
    <3>1. "screen_view" \notin DOMAIN r[2].ue
      BY <1>5, <1>8, <1>9, <2>2
    <3> QED
      BY <1>7, <2>2, <3>1 DEF At
  <2> QED
    BY <2>1, <2>2
<1>12. At(r[3].ue, "screen_view") = At(r[2].ue, "screen_view")
  BY <1>3 DEF Put, At
<1>13. r[3].e = IF "u2s" \in names THEN "se" ELSE event.e
  BY <1>1, <1>2, <1>4, <1>8
<1>14. "screen_view" \in names <=> ScreenViewIn(event) # {}
  BY <1>7, <1>8
<1>15. "amp_page_ping" \in DOMAIN r[3].ue <=> "amp_page_ping" \in names
  BY <1>5, <1>9, <1>10
<1>16. names = {} \/ \E name : names = {name}
  BY <1>8
<1>17. DOMAIN r[3].ue = keys \union (names \ {"u2s"})
                          \union (IF event.ping = Null THEN {} ELSE {"page_ping"})
  BY <1>9, <1>10
<1> QED
  BY <1>11, <1>12, <1>13, <1>14, <1>15, <1>16, <1>17 DEF keys

\* What the steps make of the row, in terms of the event alone.
LEMMA EndsAre ==
  ASSUME NEW event, Readable(event), NEW cookies, NEW agent, NEW r,
         Steps(event, cookies, agent, r), ~r[9].raised
  PROVE  /\ ContextsMake(r[0], event, r[1])
         /\ ViewMakes(r[6], ScreenViewIn(event), r[7])
<1>1. ContextsMake(r[0], event, r[1])
  BY StepsMake
<1>2. r[7] = ApplyScreenView(r[6]) /\ IsRow(r[6]) /\ ~r[7].raised
  BY StepsMake DEF Steps, ChangesOnly
<1>3. At(r[6].ue, "screen_view") = ScreenViewIn(event)
  <2>1. r[6].ue = r[3].ue
    BY StepsLeave
  <2>2. At(r[3].ue, "screen_view") = ScreenViewIn(event)
    BY EventIsKept
  <2> QED
    BY <2>1, <2>2
<1>4. ViewMakes(r[6], At(r[6].ue, "screen_view"), r[7])
  BY <1>2, ViewSays
<1> QED
  BY <1>1, <1>3, <1>4

\* The value of a set of at most one.
LEMMA PreferInside ==
  ASSUME NEW values, values = {} \/ \E v : values = {v}, NEW other
  PROVE  Prefer(Prefer({{v} : v \in values}, {}), other) = Prefer(values, other)
<1>1. CASE values = {}
  <2>1. {{v} : v \in values} = {}
    BY <1>1
  <2>2. Prefer({}, {}) = {}
    BY PreferSays
  <2> QED
    BY <1>1, <2>1, <2>2
<1>2. ASSUME NEW v, values = {v}
      PROVE  Prefer(Prefer({{w} : w \in values}, {}), other) = Prefer(values, other)
  <2>1. {{w} : w \in values} = {values}
    BY <1>2
  <2>2. Prefer({values}, {}) = values
    BY PreferSays
  <2> QED
    BY <2>1, <2>2
<1> QED
  BY <1>1, <1>2

\* Its address, also when the screen is named in several places.
LEMMA UrlIs ==
  ASSUME NEW event, Readable(event), NEW cookies, NEW agent, NEW r,
         Steps(event, cookies, agent, r), ~r[9].raised
  PROVE  r[9].url = UrlOf(event)
<1> DEFINE view == ScreenViewIn(event)
           last == LastContext(event, NamesScreen)
           viewed == {v["screen_name"] : v \in {v \in view : "screen_name" \in DOMAIN v}}
           named == {c.data["screen_name"] : c \in last}
           boxed == {{c.data["screen_name"]} : c \in last}
           names == {v["name"] : v \in view}
           titled == {c.data["name"] : c \in LastContext(event, TitlesScreen)}
<1>0. ContextsMake(r[0], event, r[1]) /\ ViewMakes(r[6], ScreenViewIn(event), r[7])
  BY EndsAre
<1>1. UrlOf(event) = Prefer(viewed, Prefer(named, Prefer(names, Prefer(titled, event.url))))
  BY DEF UrlOf
<1>2. r[7].url = Prefer(viewed, Prefer(At(r[6].screen, "screen_name"), Prefer(names, r[6].url)))
  BY <1>0 DEF ViewMakes
<1>3. r[1].url = Prefer(titled, r[0].url)
      /\ At(r[1].screen, "screen_name") = Prefer(boxed, At(r[0].screen, "screen_name"))
  BY <1>0 DEF ContextsMake
<1>4. r[9].url = r[7].url /\ r[6].url = r[1].url /\ r[6].screen = r[1].screen
  BY StepsLeave
<1>5. r[0].url = event.url /\ DOMAIN r[0].screen = {}
  BY FirstRow
<1>6. At(r[0].screen, "screen_name") = {}
  BY <1>5 DEF At
<1>7. last = {} \/ \E c : last = {c}
  <2>1. PICK n \in Nat : DOMAIN ContextsIn(event) = 1..n
    BY ContextsAreListed
  <2> QED
    BY <2>1, LastContexts
<1> HIDE DEF last
<1>8. boxed = {{v} : v \in named}
  OBVIOUS
<1>9. named = {} \/ \E v : named = {v}
  <2>1. CASE last = {}
    BY <2>1
  <2>2. ASSUME NEW c, last = {c} PROVE named = {c.data["screen_name"]}
    BY <2>2
  <2> QED
    BY <1>7, <2>1, <2>2
<1> HIDE DEF viewed, named, boxed, names, titled
<1>10. \A other : Prefer(Prefer(boxed, {}), other) = Prefer(named, other)
  BY <1>8, <1>9, PreferInside
<1> QED
  BY <1>1, <1>2, <1>3, <1>4, <1>5, <1>6, <1>10

\* Its referrer: the view before, or the payload's.
LEMMA ReferrerIs ==
  ASSUME NEW event, Readable(event), NEW cookies, NEW agent, NEW r,
         Steps(event, cookies, agent, r), ~r[9].raised
  PROVE  r[9].refr = ReferrerOf(event)
<1> DEFINE view == ScreenViewIn(event)
           previous == {Get(v, "previousName", Empty) : v \in view}
           given == {IF p = "Unknown" THEN Empty ELSE p : p \in previous}
           left == {IF Get(v, "previousName", Empty) = "Unknown" THEN Empty
                    ELSE Get(v, "previousName", Empty) : v \in view}
<1>0. ContextsMake(r[0], event, r[1]) /\ ViewMakes(r[6], ScreenViewIn(event), r[7])
  BY EndsAre
<1>1. ReferrerOf(event) = Prefer(given, event.refr)
  BY DEF ReferrerOf
<1>2. r[7].refr = Prefer(left, r[6].refr)
  BY <1>0 DEF ViewMakes
<1>3. r[1].refr = r[0].refr
  BY <1>0 DEF ContextsMake
<1>4. r[9].refr = r[7].refr /\ r[6].refr = r[1].refr
  BY StepsLeave
<1>5. r[0].refr = event.refr
  BY FirstRow
<1>6. left = given
  <2>1. left \subseteq given
    OBVIOUS
  <2>2. given \subseteq left
    OBVIOUS
  <2> QED
    BY <2>1, <2>2
<1> HIDE DEF left, given
<1> QED
  BY <1>1, <1>2, <1>3, <1>4, <1>5, <1>6

\* Its view: that of the event, or of the last page or screen.
LEMMA ViewIs ==
  ASSUME NEW event, Readable(event), NEW cookies, NEW agent, NEW r,
         Steps(event, cookies, agent, r), ~r[9].raised
  PROVE  r[9].view_id = ViewOf(event)
<1> DEFINE ids == {SafeUuid(v["id"]) : v \in ScreenViewIn(event)}
           others == {SafeUuid(Get(c.data, "id", Null)) : c \in LastContext(event, Views)}
<1>0. ContextsMake(r[0], event, r[1]) /\ ViewMakes(r[6], ScreenViewIn(event), r[7])
  BY EndsAre
<1>1. ViewOf(event) = Prefer(ids, Prefer(others, ZeroUuid))
  BY DEF ViewOf
<1>2. r[7].view_id = Prefer(ids, r[6].view_id)
  BY <1>0 DEF ViewMakes
<1>3. r[1].view_id = Prefer(others, r[0].view_id)
  BY <1>0 DEF ContextsMake
<1>4. r[9].view_id = r[7].view_id /\ r[6].view_id = r[1].view_id
  BY StepsLeave
<1>5. r[0].view_id = ZeroUuid
  BY FirstRow
<1> HIDE DEF ids, others
<1> QED
  BY <1>1, <1>2, <1>3, <1>4, <1>5

\* Its kind: a page view, a structured event, a ping, or the payload's.
LEMMA KindIs ==
  ASSUME NEW event, Readable(event), NEW cookies, NEW agent, NEW r,
         Steps(event, cookies, agent, r), ~r[9].raised
  PROVE  r[9].e = KindOf(event)
<1> DEFINE names == {ue.name : ue \in UeIn(event)}
<1>0. ContextsMake(r[0], event, r[1]) /\ ViewMakes(r[6], ScreenViewIn(event), r[7])
  BY EndsAre
<1>1. KindOf(event) = IF "screen_view" \in names THEN "pv"
                      ELSE IF "u2s" \in names THEN "se"
                      ELSE IF "amp_page_ping" \in names /\ event.e = "ue" THEN "pp"
                      ELSE event.e
  <2>1. names = {} \/ \E name : names = {name}
    BY EventIsKept
  <2>2. KindOf(event) = CASE "screen_view" \in names -> "pv"
                          [] "u2s" \in names -> "se"
                          [] "amp_page_ping" \in names /\ event.e = "ue" -> "pp"
                          [] OTHER -> event.e
    BY DEF KindOf
  <2> HIDE DEF names
  <2> QED
    BY <2>1, <2>2
<1>2. /\ r[3].e = IF "u2s" \in names THEN "se" ELSE event.e
      /\ "screen_view" \in names <=> ScreenViewIn(event) # {}
      /\ "amp_page_ping" \in DOMAIN r[3].ue <=> "amp_page_ping" \in names
      /\ names = {} \/ \E name : names = {name}
  BY EventIsKept
<1>3. r[4].e = IF r[3].e = "ue" /\ "amp_page_ping" \in DOMAIN r[3].ue THEN "pp" ELSE r[3].e
  <2>1. r[4] = ApplyAmpFields(r[3]) /\ IsRow(r[3])
    BY StepsMake DEF Steps, ChangesOnly
  <2> QED
    BY <2>1, AmpSays
<1>4. r[7].e = IF ScreenViewIn(event) # {} THEN "pv" ELSE r[6].e
  BY <1>0 DEF ViewMakes
<1>5. r[9].e = r[7].e /\ r[6].e = r[4].e
  BY StepsLeave
<1> HIDE DEF names
<1> QED
  BY <1>1, <1>2, <1>3, <1>4, <1>5

\* Its resolution, device model and user agent.
LEMMA OthersAre ==
  ASSUME NEW event, Readable(event), NEW cookies, NEW agent, NEW r,
         Steps(event, cookies, agent, r), ~r[9].raised
  PROVE  r[9].res = SizeOf(event) /\ r[9].device_model = ModelOf(event) /\ r[9].agent = agent
<1> DEFINE sizes == {c.data["resolution"] : c \in LastContext(event, Measures)}
           models == {c.data["deviceModel"] : c \in LastContext(event, NamesModel)}
<1>1. ContextsMake(r[0], event, r[1])
  BY EndsAre
<1>2. r[1].res = Prefer(sizes, r[0].res) /\ r[1].agent = r[0].agent
  BY <1>1 DEF ContextsMake
<1>3. r[1].device_model = Prefer(models, r[0].device_model)
  BY <1>1 DEF ContextsMake
<1>4. r[0].res = event.res /\ r[0].device_model = "agent's" /\ r[0].agent = agent
  BY FirstRow
<1>5. r[9].res = r[1].res /\ r[9].device_model = r[1].device_model /\ r[9].agent = r[1].agent
  BY StepsLeave
<1>6. SizeOf(event) = Prefer(sizes, event.res)
  BY DEF SizeOf
<1>7. ModelOf(event) = Prefer(models, "agent's")
  BY DEF ModelOf
<1> HIDE DEF sizes, models
<1> QED
  BY <1>2, <1>3, <1>4, <1>5, <1>6, <1>7

\* What it collects without a column: nothing but what its own event has.
LEMMA KeysAre ==
  ASSUME NEW event, Readable(event), NEW cookies, NEW agent, NEW r,
         Steps(event, cookies, agent, r), ~r[9].raised
  PROVE  /\ DOMAIN r[9].extra = KeysFrom(event, ExtraKeysOf)
         /\ DOMAIN r[9].ue = KeysFrom(event, UeKeysOf)
                               \union ({ue.name : ue \in UeIn(event)} \ {"u2s", "screen_view"})
                               \union (IF event.ping = Null THEN {} ELSE {"page_ping"})
<1> DEFINE names == {ue.name : ue \in UeIn(event)}
           keys == KeysFrom(event, UeKeysOf)
<1>0. ContextsMake(r[0], event, r[1]) /\ ViewMakes(r[6], ScreenViewIn(event), r[7])
  BY EndsAre
<1>1. DOMAIN r[9].extra = KeysFrom(event, ExtraKeysOf)
  <2>1. DOMAIN r[1].extra = DOMAIN r[0].extra \union KeysFrom(event, ExtraKeysOf)
    BY <1>0 DEF ContextsMake
  <2>2. r[9].extra = r[1].extra /\ DOMAIN r[0].extra = {}
    BY StepsLeave, FirstRow
  <2> QED
    BY <2>1, <2>2
<1>2. DOMAIN r[3].ue = keys \union (names \ {"u2s"})
                         \union (IF event.ping = Null THEN {} ELSE {"page_ping"})
  BY EventIsKept
<1>3. r[9].ue = r[7].ue /\ r[6].ue = r[3].ue
  BY StepsLeave
<1>4. DOMAIN r[7].ue = DOMAIN r[6].ue \ {"screen_view"}
  BY <1>0 DEF ViewMakes
<1>5. "screen_view" \notin keys
  BY ContextsAreNoViews
<1> HIDE DEF names, keys
<1>6. DOMAIN r[9].ue = keys \union (names \ {"u2s", "screen_view"})
                         \union (IF event.ping = Null THEN {} ELSE {"page_ping"})
  BY <1>2, <1>3, <1>4, <1>5
<1> QED
  BY <1>1, <1>6 DEF names, keys

\* Whether its device is mobile: the hint wins over the mobile context.
LEMMA MobileIs ==
  ASSUME NEW event, Readable(event), NEW cookies, NEW agent, NEW r,
         Steps(event, cookies, agent, r), ~r[9].raised
  PROVE  r[9].is_mobile = MobileOf(event)
<1> DEFINE last == LastContext(event, GivesHints)
           objects == {HintsOf(c) : c \in last}
           hints == {Get(HintsOf(c), "isMobile", Null) : c \in last}
           said == {hint # "false" : hint \in hints \ {Null}}
           mobile == PlacesIn(event, OfMobile) # {}
           hint == Get(Get(r[8].extra, "client_hints", NoKeys), "isMobile", Null)
<1>1. MobileOf(event) = Prefer(said, mobile)
  BY DEF MobileOf
<1>2. ContextsMake(r[0], event, r[1])
  BY EndsAre
<1>3. r[8].is_mobile = mobile
  <2>1. r[1].is_mobile = IF mobile THEN TRUE ELSE r[0].is_mobile
    BY <1>2 DEF ContextsMake
  <2>2. r[0].is_mobile = FALSE
    BY DEF Steps, BuildInitialModel
  <2>3. r[8].is_mobile = r[1].is_mobile
    BY StepsLeave
  <2>4. mobile \in BOOLEAN
    OBVIOUS
  <2> HIDE DEF mobile
  <2> QED
    BY <2>1, <2>2, <2>3, <2>4
<1>4. Get(r[8].extra, "client_hints", NoKeys) = Prefer(objects, NoKeys)
  <2>1. Get(r[1].extra, "client_hints", NoKeys)
          = Prefer(objects, Get(r[0].extra, "client_hints", NoKeys))
    BY <1>2 DEF ContextsMake
  <2>2. DOMAIN r[0].extra = {}
    BY FirstRow
  <2>3. Get(r[0].extra, "client_hints", NoKeys) = NoKeys
    BY <2>2 DEF Get
  <2>4. r[8].extra = r[1].extra
    BY StepsLeave
  <2> HIDE DEF objects
  <2> QED
    BY <2>1, <2>3, <2>4
<1>5. r[9].is_mobile = IF hint = Null THEN r[8].is_mobile ELSE (hint # "false")
  <2>1. r[9] = ApplyClientHintsDevice(r[8]) /\ IsRow(r[8])
    BY StepsMake DEF Steps, ChangesOnly
  <2> QED
    BY <2>1, HintsSay
<1>6. last = {} \/ \E c : last = {c}
  <2>1. PICK n \in Nat : DOMAIN ContextsIn(event) = 1..n
    BY ContextsAreListed
  <2> QED
    BY <2>1, LastContexts
<1>7. CASE last = {}
  <2>1. objects = {} /\ said = {}
    BY <1>7
  <2>2. Get(NoKeys, "isMobile", Null) = Null
    BY DEF Get, NoKeys
  <2> HIDE DEF objects, said, mobile
  <2>3. hint = Null
    BY <1>4, <2>1, <2>2, PreferSays
  <2>4. MobileOf(event) = mobile
    BY <1>1, <2>1, PreferSays
  <2> QED
    BY <1>3, <1>5, <2>3, <2>4
<1>8. ASSUME NEW c, last = {c} PROVE r[9].is_mobile = MobileOf(event)
  <2>1. objects = {HintsOf(c)} /\ hints = {Get(HintsOf(c), "isMobile", Null)}
    BY <1>8
  <2> HIDE DEF objects, mobile
  <2>2. hint = Get(HintsOf(c), "isMobile", Null)
    BY <1>4, <2>1, PreferSays
  <2> HIDE DEF hint, hints
  <2>3. CASE hint = Null
    <3>1. said = {}
      BY <2>1, <2>2, <2>3
    <3> HIDE DEF said
    <3>2. MobileOf(event) = mobile
      BY <1>1, <3>1, PreferSays
    <3> QED
      BY <1>3, <1>5, <2>3, <3>2
  <2>4. CASE hint # Null
    <3> DEFINE claim == (hint # "false")
    <3>1. hints \ {Null} = {hint}
      BY <2>1, <2>2, <2>4
    <3>2. said = {claim}
      BY <3>1
    <3> HIDE DEF said, claim
    <3>3. MobileOf(event) = claim
      BY <1>1, <3>2, PreferSays
    <3>4. r[9].is_mobile = claim
      BY <1>5, <2>4 DEF claim
    <3> QED
      BY <3>3, <3>4
  <2> QED
    BY <2>3, <2>4
<1> QED
  BY <1>6, <1>7, <1>8

\* A row that does not raise takes each field from the source that has precedence.
LEMMA RowIsRight ==
  ASSUME NEW event, Readable(event), NEW cookies, NEW agent,
         NEW row, row = ParsePayload(NoDefaults, agent, event, cookies), ~row.raised
  PROVE  RowSays(row, event, cookies) /\ row.agent = agent
<1>1. PICK r : Steps(event, cookies, agent, r) /\ r[9] = row
  BY StepsAre
<1>2. ~r[9].raised
  BY <1>1
<1>3. /\ r[9].duid = DeviceOf(event, cookies) /\ r[9].url = UrlOf(event)
      /\ r[9].refr = ReferrerOf(event) /\ r[9].view_id = ViewOf(event)
      /\ r[9].e = KindOf(event)
  BY <1>1, <1>2, DeviceIs, UrlIs, ReferrerIs, ViewIs, KindIs
<1>4. r[9].is_mobile = MobileOf(event)
  BY <1>1, <1>2, MobileIs
<1>5. r[9].res = SizeOf(event) /\ r[9].device_model = ModelOf(event) /\ r[9].agent = agent
  BY <1>1, <1>2, OthersAre
<1>6. /\ DOMAIN r[9].extra = KeysFrom(event, ExtraKeysOf)
      /\ DOMAIN r[9].ue = KeysFrom(event, UeKeysOf)
                            \union ({ue.name : ue \in UeIn(event)} \ {"u2s", "screen_view"})
                            \union (IF event.ping = Null THEN {} ELSE {"page_ping"})
  BY <1>1, <1>2, KeysAre
<1> QED
  BY <1>1, <1>3, <1>4, <1>5, <1>6 DEF RowSays


-----------------------------------------------------------------------------
(***************************************************************************)
(* The requests.                                                           *)
(***************************************************************************)

Stages == {"reading", "inserting", "answered"}

\* list has a row for each event of r, made of that event, the cookies of r, the
\* unchanged defaults and a parse of the user agent that r has sent, without an error.
RowsOf(r, list) ==
  /\ body[r] # NoBody
  /\ DOMAIN list = 1..Len(body[r].events) /\ Len(list) = Len(body[r].events)
  /\ \A i \in 1..Len(body[r].events) : \E agent \in Requests :
       /\ agentOf[agent] = agentOf[r]
       /\ list[i] = ParsePayload(NoDefaults, agent, body[r].events[i], body[r].cookies)
       /\ ~list[i].raised

IntakeTypes ==
  /\ stage \in [Requests -> Stages]
  /\ answer \in [Requests -> {0, 204, 422, 500}]
  /\ DOMAIN rows = Requests
  /\ DOMAIN stored = Requests

\* A body is a list of readable events; a request without one is not sent.
Bodies ==
  \A r \in Requests :
    /\ body[r] = NoBody => pc[r] = "new"
    /\ body[r] # NoBody =>
         /\ body[r].events \in Seq(Range(body[r].events))
         /\ \A i \in DOMAIN body[r].events : Readable(body[r].events[i])

\* A request that goes on has a parsed user agent, and finds no dict among the
\* defaults changed.
Ready ==
  /\ defaults = NoDefaults
  /\ \A r \in Requests : pc[r] \in {"parsed", "ready"} => object[r] \in Requests

\* What is stored, at each stage of a request.
StoredOf(r) ==
  /\ stage[r] # "answered" => stored[r] = <<>> /\ answer[r] = 0
  /\ stage[r] = "inserting" => RowsOf(r, rows[r])
  /\ stored[r] # <<>> => RowsOf(r, stored[r])
  /\ answer[r] = 204 => RowsOf(r, stored[r])
  /\ answer[r] = 422 => stored[r] = <<>>

Stored == \A r \in Requests : StoredOf(r)

IntakeInv == CacheInv /\ IntakeTypes /\ Bodies /\ Ready /\ Stored

LEMMA IntakeInvInit == Init => IntakeInv
<1> SUFFICES ASSUME Init PROVE IntakeInv
  OBVIOUS
<1>1. PICK load \in Loads :
        /\ size = load.size /\ ingest = load.ingest
        /\ agentOf = load.agentOf /\ body = load.body
  BY DEF Init
<1>2. CacheInv
  BY CacheInvInit DEF Init
<1>3. IntakeTypes
  BY DEF Init, IntakeTypes, Stages
<1>4. Bodies
  BY <1>1, IntakeAssumption DEF Init, CacheInit, Bodies
<1>5. Ready
  BY DEF Init, CacheInit, Ready
<1>6. Stored
  BY DEF Init, Stored, StoredOf
<1> QED
  BY <1>2, <1>3, <1>4, <1>5, <1>6 DEF IntakeInv

\* Where a step in the cache, or in the line for a slot, takes the requests.
LEMMA AgentMoves ==
  ASSUME IntakeInv, NEW r \in Requests, Ask(r) \/ AgentStep(r)
  PROVE  /\ UNCHANGED agentOf
         /\ \A q \in Requests : q # r /\ pc[q] = "new" => pc'[q] = "new"
         /\ \A q \in Requests : pc'[q] \in {"parsed", "ready"} => object'[q] \in Requests
<1> USE DEF agentVars
<1>0. /\ pc \in [Requests -> Places] /\ object \in [Requests -> Requests \union {NoObject}]
      /\ waiting \in Seq(Requests)
      /\ \A q \in Requests : pc[q] \in {"parsed", "ready"} => object[q] \in Requests
  BY DEF IntakeInv, CacheInv, CacheTypeOK, Ready
<1>1. CASE AskHit(r) \/ ThreadHit(r) \/ ParseAndStore(r)
  <2>1. PICK found \in Requests : object' = [object EXCEPT ![r] = found]
    BY <1>1 DEF AskHit, ThreadHit, ParseAndStore
  <2>2. UNCHANGED agentOf /\ \E place : pc' = [pc EXCEPT ![r] = place]
    BY <1>1 DEF AskHit, ThreadHit, ParseAndStore
  <2> QED
    BY <1>0, <2>1, <2>2
<1>2. CASE AskMiss(r) \/ ThreadMiss(r) \/ ParseRaises(r)
  <2>1. /\ UNCHANGED <<agentOf, object>>
        /\ \E place \in {"waiting", "thread", "parsing", "raised"} :
             pc' = [pc EXCEPT ![r] = place]
    BY <1>2 DEF AskMiss, ThreadMiss, ParseRaises
  <2> QED
    BY <1>0, <2>1
<1>3. CASE Release(r)
  <2>1. /\ UNCHANGED <<agentOf, object>> /\ pc[r] \in {"parsed", "raised"}
        /\ After(r) = "ready" => pc[r] = "parsed"
    BY <1>3 DEF Release, After
  <2>2. CASE waiting = <<>>
    <3>1. pc' = [pc EXCEPT ![r] = After(r)]
      BY <1>3, <2>2 DEF Release
    <3> QED
      BY <1>0, <2>1, <3>1 DEF After
  <2>3. CASE waiting # <<>>
    <3>1. pc' = [pc EXCEPT ![r] = After(r), ![Head(waiting)] = "thread"]
      BY <1>3, <2>3 DEF Release
    <3>2. Len(waiting) \in Nat /\ 1 \in 1..Len(waiting) /\ Head(waiting) = waiting[1]
          /\ waiting[1] \in Requests
      BY <1>0, <2>3
    <3>3. pc[Head(waiting)] = "waiting"
      BY <3>2 DEF IntakeInv, CacheInv, SlotsAreKept
    <3>4. \A q \in Requests : pc'[q] = IF q = Head(waiting) THEN "thread"
                                      ELSE IF q = r THEN After(r) ELSE pc[q]
      BY <1>0, <3>1, <3>2
    <3> QED
      BY <1>0, <2>1, <3>3, <3>4 DEF After
  <2> QED
    BY <2>2, <2>3
<1> QED
  BY <1>1, <1>2, <1>3 DEF Ask, AgentStep, ThreadStep

\* Bodies and agents do not change, so that rows stay those of their events.
LEMMA RowsStay ==
  ASSUME UNCHANGED <<body, agentOf>>, NEW r \in Requests
  PROVE  /\ RowsOf(r, rows[r])' <=> RowsOf(r, rows'[r])
         /\ RowsOf(r, stored[r])' <=> RowsOf(r, stored'[r])
BY DEF RowsOf

\* A step of the request r alone, after which what is stored of it is right.
LEMMA RequestMoves ==
  ASSUME IntakeInv, NEW r \in Requests,
         UNCHANGED <<cacheVars, body, defaults>>,
         \A q \in Requests \ {r} : /\ stage'[q] = stage[q] /\ answer'[q] = answer[q]
                                   /\ rows'[q] = rows[q] /\ stored'[q] = stored[q],
         StoredOf(r)'
  PROVE  Bodies' /\ Ready' /\ Stored'
<1>1. Bodies' /\ Ready'
  BY DEF IntakeInv, Bodies, Ready, cacheVars
<1>2. UNCHANGED <<body, agentOf>>
  BY DEF cacheVars
<1>3. ASSUME NEW q \in Requests PROVE StoredOf(q)'
  <2>1. /\ RowsOf(q, rows[q])' <=> RowsOf(q, rows'[q])
        /\ RowsOf(q, stored[q])' <=> RowsOf(q, stored'[q])
    BY <1>2, RowsStay
  <2>2. CASE q # r
    <3>1. /\ stage'[q] = stage[q] /\ answer'[q] = answer[q]
          /\ rows'[q] = rows[q] /\ stored'[q] = stored[q]
      BY <2>2
    <3> QED
      BY <2>1, <3>1 DEF IntakeInv, Stored, StoredOf
  <2> QED
    BY <2>2
<1> QED
  BY <1>1, <1>3 DEF Stored

\* The answer of a request of which nothing, or nothing more, is stored.
LEMMA Refused ==
  ASSUME IntakeInv, NEW r \in Requests, stage[r] # "answered",
         NEW status \in {422, 500}, Answer(r, status),
         UNCHANGED <<cacheVars, body, defaults, rows, stored>>
  PROVE  IntakeTypes' /\ Bodies' /\ Ready' /\ Stored'
<1>1. /\ stage \in [Requests -> Stages] /\ answer \in [Requests -> {0, 204, 422, 500}]
      /\ stored[r] = <<>>
  BY DEF IntakeInv, IntakeTypes, Stored, StoredOf
<1>2. /\ stage' = [stage EXCEPT ![r] = "answered"] /\ answer' = [answer EXCEPT ![r] = status]
      /\ UNCHANGED <<rows, stored>>
  BY DEF Answer
<1>3. IntakeTypes'
  BY <1>1, <1>2 DEF IntakeInv, IntakeTypes, Stages
<1>4. stage'[r] = "answered" /\ answer'[r] \in {422, 500} /\ stored'[r] = <<>>
  BY <1>1, <1>2
<1>5. StoredOf(r)'
  BY <1>4 DEF StoredOf
<1>6. \A q \in Requests \ {r} : /\ stage'[q] = stage[q] /\ answer'[q] = answer[q]
                                /\ rows'[q] = rows[q] /\ stored'[q] = stored[q]
  BY <1>1, <1>2
<1> QED
  BY <1>3, <1>5, <1>6, RequestMoves

LEMMA IntakeInvNext == IntakeInv /\ [Next]_vars => IntakeInv'
<1> SUFFICES ASSUME IntakeInv, [Next]_vars PROVE IntakeInv'
  OBVIOUS
<1>0. CacheInv'
  BY CacheUses, CacheInvNext DEF IntakeInv
<1>1. /\ DOMAIN rows = Requests /\ DOMAIN stored = Requests
      /\ stage \in [Requests -> Stages] /\ answer \in [Requests -> {0, 204, 422, 500}]
      /\ defaults = NoDefaults
  BY DEF IntakeInv, IntakeTypes, Ready
\* Nothing of a request changes but its place in the cache.
<1>2. ASSUME NEW r \in Requests, Receive(r) \/ ParseAgent(r) PROVE IntakeInv'
  <2>1. (Ask(r) \/ AgentStep(r)) /\ UNCHANGED <<body, defaults, stage, rows, stored, answer>>
    BY <1>2 DEF Receive, ParseAgent, intakeVars
  <2>2. /\ UNCHANGED agentOf
        /\ \A q \in Requests : q # r /\ pc[q] = "new" => pc'[q] = "new"
        /\ \A q \in Requests : pc'[q] \in {"parsed", "ready"} => object'[q] \in Requests
    BY <2>1, AgentMoves
  <2>3. IntakeTypes' /\ Ready'
    BY <2>1, <2>2 DEF IntakeInv, IntakeTypes, Ready
  <2>4. body[r] # NoBody
    BY <1>2 DEF Receive, ParseAgent, AgentStep, ThreadStep, ThreadHit, ThreadMiss,
                ParseAndStore, ParseRaises, Release, IntakeInv, Bodies
  <2>5. Bodies'
    BY <2>1, <2>2, <2>4 DEF IntakeInv, Bodies
  <2>6. Stored'
    <3> SUFFICES ASSUME NEW q \in Requests PROVE StoredOf(q)'
      BY DEF Stored
    <3>1. /\ RowsOf(q, rows[q])' <=> RowsOf(q, rows[q])
          /\ RowsOf(q, stored[q])' <=> RowsOf(q, stored[q])
      BY <2>1, <2>2, RowsStay
    <3> QED
      BY <2>1, <3>1 DEF IntakeInv, Stored, StoredOf
  <2> QED
    BY <1>0, <2>3, <2>5, <2>6 DEF IntakeInv
<1>3. ASSUME NEW r \in Requests, Refuse(r) PROVE IntakeInv'
  <2>1. IntakeTypes' /\ Bodies' /\ Ready' /\ Stored'
    BY <1>3, Refused DEF Refuse
  <2> QED
    BY <1>0, <2>1 DEF IntakeInv
<1>4. ASSUME NEW r \in Requests, FailAgent(r) PROVE IntakeInv'
  <2>1. IntakeTypes' /\ Bodies' /\ Ready' /\ Stored'
    BY <1>4, Refused DEF FailAgent
  <2> QED
    BY <1>0, <2>1 DEF IntakeInv
<1>5. ASSUME NEW r \in Requests, Process(r) PROVE IntakeInv'
  <2> DEFINE done == Processed(r)
  <2>1. /\ pc[r] = "ready" /\ stage[r] = "reading" /\ UNCHANGED <<cacheVars, body, stored>>
        /\ defaults' = done.defaults
        /\ \/ Answer(r, 500) /\ UNCHANGED rows
           \/ /\ \A i \in DOMAIN done.rows : ~done.rows[i].raised
              /\ stage' = [stage EXCEPT ![r] = "inserting"]
              /\ rows' = [rows EXCEPT ![r] = done.rows]
              /\ UNCHANGED answer
    BY <1>5 DEF Process
  <2>2. /\ body[r] # NoBody /\ body[r].events \in Seq(Range(body[r].events))
        /\ object[r] \in Requests /\ stored[r] = <<>> /\ answer[r] = 0
    BY <2>1 DEF IntakeInv, Bodies, Ready, Stored, StoredOf
  <2>3. /\ done.defaults = NoDefaults
        /\ \E S : done.rows \in Seq(S)
        /\ Len(done.rows) = Len(body[r].events)
        /\ \A i \in 1..Len(body[r].events) :
             done.rows[i] = ParsePayload(NoDefaults, object[r], body[r].events[i], body[r].cookies)
    BY <1>1, <2>2, LoopOverEvents
  <2>4. agentOf[object[r]] = agentOf[r]
    BY <2>2, CacheAssumption DEF IntakeInv, CacheInv, CacheIsSound, CacheAssumption
  <2> HIDE DEF done
  <2>5. ASSUME \A i \in DOMAIN done.rows : ~done.rows[i].raised PROVE RowsOf(r, done.rows)
    <3>1. DOMAIN done.rows = 1..Len(body[r].events)
      BY <2>3
    <3> QED
      BY <2>2, <2>3, <2>4, <2>5, <3>1 DEF RowsOf
  <2>6. UNCHANGED defaults
    BY <1>1, <2>1, <2>3
  <2>7. CASE Answer(r, 500) /\ UNCHANGED rows
    <3>1. IntakeTypes' /\ Bodies' /\ Ready' /\ Stored'
      BY <2>1, <2>6, <2>7, Refused
    <3> QED
      BY <1>0, <3>1 DEF IntakeInv
  <2>8. CASE /\ \A i \in DOMAIN done.rows : ~done.rows[i].raised
             /\ stage' = [stage EXCEPT ![r] = "inserting"]
             /\ rows' = [rows EXCEPT ![r] = done.rows] /\ UNCHANGED answer
    <3>1. IntakeTypes'
      BY <1>1, <2>1, <2>8 DEF IntakeTypes, Stages
    <3>2. /\ stage'[r] = "inserting" /\ answer'[r] = 0
          /\ rows'[r] = done.rows /\ stored'[r] = <<>>
      BY <1>1, <2>1, <2>2, <2>8
    <3>3. RowsOf(r, rows[r])'
      BY <2>1, <2>5, <2>8, <3>2, RowsStay DEF cacheVars
    <3>4. StoredOf(r)'
      BY <3>2, <3>3 DEF StoredOf
    <3>5. \A q \in Requests \ {r} : /\ stage'[q] = stage[q] /\ answer'[q] = answer[q]
                                    /\ rows'[q] = rows[q] /\ stored'[q] = stored[q]
      BY <1>1, <2>1, <2>8
    <3>6. Bodies' /\ Ready' /\ Stored'
      BY <2>1, <2>6, <3>4, <3>5, RequestMoves
    <3> QED
      BY <1>0, <3>1, <3>6 DEF IntakeInv
  <2> QED
    BY <2>1, <2>7, <2>8
<1>6. ASSUME NEW r \in Requests, Insert(r) \/ InsertFails(r) PROVE IntakeInv'
  <2>1. /\ stage[r] = "inserting" /\ UNCHANGED <<cacheVars, body, defaults, rows>>
        /\ stage' = [stage EXCEPT ![r] = "answered"]
    BY <1>6 DEF Insert, InsertFails, Answer
  <2>2. RowsOf(r, rows[r])
    BY <2>1 DEF IntakeInv, Stored, StoredOf
  <2>3. PICK status \in {204, 500} : answer' = [answer EXCEPT ![r] = status]
    BY <1>6 DEF Insert, InsertFails, Answer
  \* All rows are there, or none after an error.
  <2>4. answer'[r] = status
    BY <1>1, <2>3
  <2>5. PICK landed \in {<<>>, rows[r]} : stored' = [stored EXCEPT ![r] = landed]
    BY <1>6 DEF Insert, InsertFails
  <2>6. status = 204 => stored'[r] = rows[r]
    BY <1>1, <1>6, <2>4 DEF Insert, InsertFails, Answer
  <2>7. IntakeTypes'
    BY <1>1, <2>1, <2>3, <2>5 DEF IntakeTypes, Stages
  <2>8. /\ stage'[r] = "answered" /\ answer'[r] = status /\ stored'[r] = landed
    BY <1>1, <2>1, <2>4, <2>5
  <2>9. landed # <<>> \/ status = 204 => RowsOf(r, stored[r])'
    <3>1. RowsOf(r, stored[r])' <=> RowsOf(r, stored'[r])
      BY <2>1, RowsStay DEF cacheVars
    <3> QED
      BY <2>2, <2>5, <2>6, <2>8, <3>1
  <2>10. StoredOf(r)'
    BY <2>4, <2>8, <2>9, <2>3 DEF StoredOf
  <2>11. \A q \in Requests \ {r} : /\ stage'[q] = stage[q] /\ answer'[q] = answer[q]
                                   /\ rows'[q] = rows[q] /\ stored'[q] = stored[q]
    BY <1>1, <2>1, <2>3, <2>5
  <2>12. Bodies' /\ Ready' /\ Stored'
    BY <2>1, <2>10, <2>11, RequestMoves
  <2> QED
    BY <1>0, <2>7, <2>12 DEF IntakeInv
<1>7. CASE UNCHANGED vars
  <2>1. UNCHANGED <<body, defaults, stage, rows, stored, answer, agentOf, pc, object>>
    BY <1>7 DEF vars, intakeVars, cacheVars
  <2>2. IntakeTypes' /\ Bodies' /\ Ready'
    BY <2>1 DEF IntakeInv, IntakeTypes, Bodies, Ready
  <2>3. Stored'
    BY <2>1 DEF IntakeInv, Stored, StoredOf, RowsOf
  <2> QED
    BY <1>0, <2>2, <2>3 DEF IntakeInv
<1> QED
  BY <1>2, <1>3, <1>4, <1>5, <1>6, <1>7 DEF Next, Finish

\* A request stores a row for each of its events or none, whichever step of it
\* fails (processing.py:49-60, tracker.py:39-41).
THEOREM RowsAllOrNothing == Spec => []AllOrNothing
<1>1. IntakeInv => AllOrNothing
  BY DEF IntakeInv, Stored, StoredOf, RowsOf, AllOrNothing
<1> QED
  BY IntakeInvInit, IntakeInvNext, <1>1, PTL DEF Spec

\* A stored row is what its own event, the request's cookies and a parse of its
\* user agent give: nothing in it comes from the events before it, or from another
\* request (processing.py:49-60, payload.py:609-632).
THEOREM RowsOfOwnEvents ==
  Spec => [](\A r \in Requests : stored[r] # <<>> => RowsOf(r, stored[r]))
<1>1. IntakeInv => \A r \in Requests : stored[r] # <<>> => RowsOf(r, stored[r])
  BY DEF IntakeInv, Stored, StoredOf
<1> QED
  BY IntakeInvInit, IntakeInvNext, <1>1, PTL DEF Spec

\* What is stored follows the precedence.
LEMMA StoredIsRight == IntakeInv => RowsFollowPrecedence
<1> SUFFICES ASSUME IntakeInv, NEW r \in Requests, NEW i \in DOMAIN stored[r]
             PROVE  /\ RowSays(stored[r][i], body[r].events[i], body[r].cookies)
                    /\ agentOf[stored[r][i].agent] = agentOf[r]
  BY DEF RowsFollowPrecedence
<1>1. stored[r] # <<>>
  OBVIOUS
<1>2. RowsOf(r, stored[r])
  BY <1>1 DEF IntakeInv, Stored, StoredOf
<1>3. i \in 1..Len(body[r].events)
  BY <1>2 DEF RowsOf
<1>4. PICK agent \in Requests :
        /\ agentOf[agent] = agentOf[r]
        /\ stored[r][i] = ParsePayload(NoDefaults, agent, body[r].events[i], body[r].cookies)
        /\ ~stored[r][i].raised
  BY <1>2, <1>3 DEF RowsOf
<1>5. Readable(body[r].events[i])
  <2>1. body[r] # NoBody
    BY <1>2 DEF RowsOf
  <2>2. DOMAIN body[r].events = 1..Len(body[r].events)
    BY <2>1 DEF IntakeInv, Bodies
  <2> QED
    BY <1>3, <2>1, <2>2 DEF IntakeInv, Bodies
<1>6. RowSays(stored[r][i], body[r].events[i], body[r].cookies) /\ stored[r][i].agent = agent
  BY <1>4, <1>5, RowIsRight
<1> QED
  BY <1>4, <1>6

\* Every field of a stored row that has several sources comes from the one that
\* has precedence, whatever the contexts and their order (payload.py:609-632).
THEOREM RowsPrecede == Spec => []RowsFollowPrecedence
  BY IntakeInvInit, IntakeInvNext, StoredIsRight, PTL DEF Spec
=============================================================================
