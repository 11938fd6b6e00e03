-------------------------- MODULE BatchWorkerProofs --------------------------
(***************************************************************************)
(* Theorems about BatchWorker, for every value of its constants.           *)
(***************************************************************************)
EXTENDS BatchWorker, SequenceTheorems, FiniteSetTheorems, WellFoundedInduction,
        TLAPS

-----------------------------------------------------------------------------
(* Sums.  SumFunction is a fold over the subsets of a function's domain;   *)
(* what it gives is proved by induction on their size.  The library's      *)
(* induction theorems take an operator, so induction is derived here from  *)
(* the well-foundedness of < on Nat, as a statement about a set.           *)

\* A set of natural numbers has a least element.
LEMMA LeastNumber ==
  ASSUME NEW T \in SUBSET Nat, T # {}
  PROVE  \E m \in T : \A k \in T : m <= k
<1> DEFINE R == OpToRel(<, Nat)
<1>1. IsWellFoundedOn(R, Nat)
  BY NatLessThanWellFounded
<1>2. \A x, y \in Nat : x < y => <<x, y>> \in R
  BY DEF OpToRel
<1> HIDE DEF R
<1>3. \E m \in T : \A k \in T : <<k, m>> \notin R
  BY <1>1, WFMin
<1>4. PICK m \in T : \A k \in T : <<k, m>> \notin R
  BY <1>3
<1>5. \A k \in T : ~ (k < m)
  BY <1>2, <1>4
<1>6. \A k \in T : m <= k
  BY <1>5
<1> QED
  BY <1>6

\* Induction, for a set in place of a predicate.
LEMMA Induction ==
  ASSUME NEW T \in SUBSET Nat, 0 \in T, \A n \in T : n + 1 \in T
  PROVE  T = Nat
<1> DEFINE U == Nat \ T
<1> SUFFICES ASSUME U # {} PROVE FALSE
  OBVIOUS
<1>1. PICK m \in U : \A k \in U : m <= k
  BY LeastNumber
<1>2. m - 1 \in Nat /\ m - 1 \notin U
  BY <1>1
<1>3. (m - 1) + 1 \in T
  BY <1>2
<1> QED
  BY <1>1, <1>3

\* The recursion that SumFunction folds with: iter[s] is the sum over s.
Chosen(s) == CHOOSE x \in s : TRUE

SumsOver(f, iter) ==
  iter = [s \in SUBSET DOMAIN f |->
            IF s = {} THEN 0 ELSE f[Chosen(s)] + iter[s \ {Chosen(s)}]]

\* SumFunction is the last value of the recursion.
LEMMA SumUnfolds ==
  ASSUME NEW f
  PROVE  SumFunction(f) = (CHOOSE iter : SumsOver(f, iter))[DOMAIN f]
BY Zenon DEF SumFunction, SumFunctionOnSet, FoldFunctionOnSet, MapThenFoldSet,
             SumsOver, Chosen

\* One element less.
LEMMA ChosenOne ==
  ASSUME NEW Dom, IsFiniteSet(Dom), NEW s \in SUBSET Dom, s # {}
  PROVE  /\ Chosen(s) \in s
         /\ s \ {Chosen(s)} \in SUBSET Dom
         /\ Cardinality(s) \in Nat
         /\ Cardinality(s \ {Chosen(s)}) = Cardinality(s) - 1
<1>1. Chosen(s) \in s
  BY DEF Chosen
<1>2. IsFiniteSet(s)
  BY FS_Subset
<1> QED
  BY <1>1, <1>2, FS_RemoveElement, FS_CardinalityType

\* The recursion has a solution.
LEMMA SumsExist ==
  ASSUME NEW Dom, IsFiniteSet(Dom), NEW f \in [Dom -> Nat]
  PROVE  \E iter : SumsOver(f, iter)
<1> DEFINE Body(h, s) == IF s = {} THEN 0 ELSE f[Chosen(s)] + h[s \ {Chosen(s)}]
           UpTo(n, h) == \A s \in SUBSET Dom : Cardinality(s) <= n => h[s] = Body(h, s)
           T == {n \in Nat : \E h \in [SUBSET Dom -> Nat] : UpTo(n, h)}
<1>1. \A s \in SUBSET Dom : Cardinality(s) \in Nat /\ (Cardinality(s) = 0 <=> s = {})
  BY FS_Subset, FS_CardinalityType, FS_EmptySet
<1>2. 0 \in T
  <2> DEFINE h == [s \in SUBSET Dom |-> 0]
  <2>1. h \in [SUBSET Dom -> Nat]
    OBVIOUS
  <2>2. UpTo(0, h)
    <3> SUFFICES ASSUME NEW s \in SUBSET Dom, Cardinality(s) <= 0 PROVE h[s] = Body(h, s)
      OBVIOUS
    <3>1. s = {}
      BY <1>1
    <3> QED
      BY <3>1
  <2> QED
    BY <2>1, <2>2
<1>3. ASSUME NEW n \in T PROVE n + 1 \in T
  <2>1. n \in Nat /\ n + 1 \in Nat
    OBVIOUS
  <2>2. PICK h \in [SUBSET Dom -> Nat] : UpTo(n, h)
    OBVIOUS
  <2> DEFINE k == [s \in SUBSET Dom |-> Body(h, s)]
  <2>3. k \in [SUBSET Dom -> Nat]
    <3> SUFFICES ASSUME NEW s \in SUBSET Dom, s # {} PROVE f[Chosen(s)] + h[s \ {Chosen(s)}] \in Nat
      OBVIOUS
    <3>1. Chosen(s) \in Dom /\ s \ {Chosen(s)} \in SUBSET Dom
      BY ChosenOne
    <3> QED
      BY <3>1
  <2>4. UpTo(n + 1, k)
    <3> SUFFICES ASSUME NEW s \in SUBSET Dom, Cardinality(s) <= n + 1, s # {}
                 PROVE  k[s] = f[Chosen(s)] + k[s \ {Chosen(s)}]
      OBVIOUS
    <3>1. /\ s \ {Chosen(s)} \in SUBSET Dom
          /\ Cardinality(s \ {Chosen(s)}) <= n
      BY <2>1, ChosenOne
    <3>2. k[s \ {Chosen(s)}] = h[s \ {Chosen(s)}]
      BY <2>2, <3>1
    <3> QED
      BY <3>2
  <2> QED
    BY <2>1, <2>3, <2>4
<1> HIDE DEF T
<1>4. T = Nat
  BY <1>2, <1>3, Induction DEF T
<1>5. Cardinality(Dom) \in Nat /\ \A s \in SUBSET Dom : Cardinality(s) <= Cardinality(Dom)
  BY FS_Subset, FS_CardinalityType
<1>6. PICK h \in [SUBSET Dom -> Nat] : UpTo(Cardinality(Dom), h)
  BY <1>4, <1>5 DEF T
<1>7. \A s \in SUBSET Dom : h[s] = Body(h, s)
  BY <1>5, <1>6
<1>8. SumsOver(f, h)
  BY <1>7 DEF SumsOver
<1> QED
  BY <1>8

\* What the recursion says of a set and its first element.
LEMMA SumsStep ==
  ASSUME NEW Dom, IsFiniteSet(Dom), NEW f \in [Dom -> Nat], NEW iter, SumsOver(f, iter)
  PROVE  /\ iter[{}] = 0
         /\ \A s \in SUBSET Dom : s # {} => iter[s] = f[Chosen(s)] + iter[s \ {Chosen(s)}]
BY DEF SumsOver

\* The sums are natural numbers.
LEMMA SumsType ==
  ASSUME NEW Dom, IsFiniteSet(Dom), NEW f \in [Dom -> Nat], NEW iter, SumsOver(f, iter)
  PROVE  \A s \in SUBSET Dom : iter[s] \in Nat
<1> DEFINE T == {n \in Nat : \A s \in SUBSET Dom : Cardinality(s) <= n => iter[s] \in Nat}
<1>1. \A s \in SUBSET Dom : Cardinality(s) \in Nat /\ (Cardinality(s) = 0 <=> s = {})
  BY FS_Subset, FS_CardinalityType, FS_EmptySet
<1>2. iter[{}] = 0
  BY SumsStep
<1>3. 0 \in T
  BY <1>1, <1>2
<1>4. ASSUME NEW n \in T PROVE n + 1 \in T
  <2> SUFFICES ASSUME NEW s \in SUBSET Dom, Cardinality(s) <= n + 1, s # {}
               PROVE  iter[s] \in Nat
    BY <1>1, <1>2
  <2>1. /\ Chosen(s) \in Dom /\ s \ {Chosen(s)} \in SUBSET Dom
        /\ Cardinality(s \ {Chosen(s)}) <= n
    BY ChosenOne
  <2>2. iter[s] = f[Chosen(s)] + iter[s \ {Chosen(s)}]
    BY SumsStep
  <2> QED
    BY <2>1, <2>2
<1> HIDE DEF T
<1>5. T = Nat
  BY <1>3, <1>4, Induction DEF T
<1> QED
  BY <1>1, <1>5 DEF T

\* A sum of three in another order.
LEMMA Exchange ==
  ASSUME NEW a \in Nat, NEW b \in Nat, NEW c \in Nat
  PROVE  a + (b + c) = b + (a + c)
OBVIOUS

\* The order in which the elements are added does not matter.
LEMMA SumsAnyOrder ==
  ASSUME NEW Dom, IsFiniteSet(Dom), NEW f \in [Dom -> Nat], NEW iter, SumsOver(f, iter)
  PROVE  \A x \in Dom : iter[Dom] = f[x] + iter[Dom \ {x}]
<1> DEFINE T == {n \in Nat : \A s \in SUBSET Dom : Cardinality(s) <= n =>
                                 \A x \in s : iter[s] = f[x] + iter[s \ {x}]}
<1>1. \A s \in SUBSET Dom : Cardinality(s) \in Nat /\ (Cardinality(s) = 0 <=> s = {})
  BY FS_Subset, FS_CardinalityType, FS_EmptySet
<1>2. 0 \in T
  BY <1>1
<1>3. ASSUME NEW n \in T PROVE n + 1 \in T
  <2> SUFFICES ASSUME NEW s \in SUBSET Dom, Cardinality(s) <= n + 1, NEW x \in s
               PROVE  iter[s] = f[x] + iter[s \ {x}]
    BY <1>1
  <2> DEFINE c == Chosen(s)
  <2>1. c \in s /\ c \in Dom /\ s \ {c} \in SUBSET Dom /\ Cardinality(s \ {c}) <= n
    BY ChosenOne
  <2>2. iter[s] = f[c] + iter[s \ {c}]
    BY SumsStep
  <2>3. CASE x = c
    BY <2>2, <2>3
  <2>4. CASE x # c
    <3>1. x \in s \ {c} /\ c \in s \ {x} /\ x \in Dom
      BY <2>1, <2>4
    <3>2. iter[s \ {c}] = f[x] + iter[(s \ {c}) \ {x}]
      BY <2>1, <3>1
    <3>3. s \ {x} \in SUBSET Dom /\ Cardinality(s \ {x}) <= n
      <4>1. IsFiniteSet(s) /\ Cardinality(s) \in Nat
        BY FS_Subset, FS_CardinalityType
      <4>2. Cardinality(s \ {x}) = Cardinality(s) - 1
        BY <4>1, FS_RemoveElement
      <4> QED
        BY <4>1, <4>2
    <3>4. iter[s \ {x}] = f[c] + iter[(s \ {x}) \ {c}]
      BY <3>1, <3>3
    <3>5. (s \ {x}) \ {c} = (s \ {c}) \ {x}
      OBVIOUS
    <3>6. /\ f[x] \in Nat /\ f[c] \in Nat
          /\ iter[(s \ {c}) \ {x}] \in Nat
      BY <2>1, <3>1, SumsType
    <3>7. iter[s] = f[c] + (f[x] + iter[(s \ {c}) \ {x}])
      BY <2>2, <3>2
    <3>8. iter[s \ {x}] = f[c] + iter[(s \ {c}) \ {x}]
      BY <3>4, <3>5
    <3> QED
      BY <3>6, <3>7, <3>8, Exchange
  <2> QED
    BY <2>3, <2>4
<1> HIDE DEF T
<1>4. T = Nat
  BY <1>2, <1>3, Induction DEF T
<1>5. ASSUME NEW x \in Dom
      PROVE  iter[Dom] = f[x] + iter[Dom \ {x}]
  <2>1. Dom \in SUBSET Dom /\ Cardinality(Dom) \in T /\ Cardinality(Dom) <= Cardinality(Dom)
    BY <1>1, <1>4
  <2> QED
    BY <2>1 DEF T
<1> QED
  BY <1>5

\* A function that goes on has the same sums where the other ends.
LEMMA SumsAgree ==
  ASSUME NEW E, IsFiniteSet(E), NEW g \in [E -> Nat], NEW G, SumsOver(g, G),
         NEW Dom \in SUBSET E, NEW f, DOMAIN f = Dom, NEW F, SumsOver(f, F),
         \A x \in Dom : f[x] = g[x]
  PROVE  G[Dom] = F[Dom]
<1> DEFINE T == {n \in Nat : \A s \in SUBSET Dom : Cardinality(s) <= n => G[s] = F[s]}
<1>1. \A s \in SUBSET Dom : Cardinality(s) \in Nat /\ (Cardinality(s) = 0 <=> s = {})
  BY FS_Subset, FS_CardinalityType, FS_EmptySet
<1>2. F[{}] = G[{}]
  BY DEF SumsOver
<1>3. 0 \in T
  BY <1>1, <1>2
<1>4. ASSUME NEW n \in T PROVE n + 1 \in T
  <2> SUFFICES ASSUME NEW s \in SUBSET Dom, Cardinality(s) <= n + 1, s # {}
               PROVE  G[s] = F[s]
    BY <1>2
  <2>1. /\ Chosen(s) \in Dom /\ s \ {Chosen(s)} \in SUBSET Dom
        /\ Cardinality(s \ {Chosen(s)}) <= n
    BY ChosenOne
  <2>2. G[s] = g[Chosen(s)] + G[s \ {Chosen(s)}]
    BY SumsStep
  <2>3. F[s] = f[Chosen(s)] + F[s \ {Chosen(s)}]
    BY DEF SumsOver
  <2> QED
    BY <2>1, <2>2, <2>3
<1> HIDE DEF T
<1>5. T = Nat
  BY <1>3, <1>4, Induction DEF T
<1>6. Dom \in SUBSET Dom /\ Cardinality(Dom) \in T /\ Cardinality(Dom) <= Cardinality(Dom)
  BY <1>1, <1>5
<1> QED
  BY <1>6 DEF T

\* SumFunction of an empty function, and of a list that grows.
LEMMA SumOfNone == ASSUME NEW f \in [{} -> Nat] PROVE SumFunction(f) = 0
<1> DEFINE F == CHOOSE iter : SumsOver(f, iter)
<1>1. IsFiniteSet({}) /\ DOMAIN f = {}
  BY FS_EmptySet
<1>2. SumsOver(f, F)
  BY <1>1, SumsExist
<1>3. SumFunction(f) = F[{}]
  BY <1>1, SumUnfolds
<1> HIDE DEF F
<1> QED
  BY <1>1, <1>2, <1>3, SumsStep

LEMMA SumOfAppended ==
  ASSUME NEW n \in Nat, NEW f \in [1 .. n -> Nat], NEW g \in [1 .. n + 1 -> Nat],
         \A i \in 1 .. n : g[i] = f[i]
  PROVE  SumFunction(g) = SumFunction(f) + g[n + 1] /\ SumFunction(f) \in Nat
<1> DEFINE Dom == 1 .. n
           E == 1 .. n + 1
           F == CHOOSE iter : SumsOver(f, iter)
           G == CHOOSE iter : SumsOver(g, iter)
<1>1. IsFiniteSet(Dom) /\ IsFiniteSet(E)
  BY FS_Interval
<1>2. Dom \subseteq E /\ E \ {n + 1} = Dom /\ n + 1 \in E
  OBVIOUS
<1>3. f \in [Dom -> Nat] /\ g \in [E -> Nat] /\ DOMAIN f = Dom /\ DOMAIN g = E
      /\ \A x \in Dom : g[x] = f[x]
  OBVIOUS
<1> HIDE DEF Dom, E
<1>4. SumsOver(f, F)
  BY <1>1, <1>3, SumsExist
<1>5. SumsOver(g, G)
  BY <1>1, <1>3, SumsExist
<1>6. SumFunction(f) = F[Dom] /\ SumFunction(g) = G[E]
  BY <1>3, SumUnfolds
<1> HIDE DEF F, G
<1>7. G[E] = g[n + 1] + G[Dom]
  <2>1. G[E] = g[n + 1] + G[E \ {n + 1}]
    BY <1>1, <1>2, <1>3, <1>5, SumsAnyOrder
  <2> QED
    BY <1>2, <2>1
<1>8. G[Dom] = F[Dom]
  BY <1>1, <1>2, <1>3, <1>4, <1>5, SumsAgree
<1>9. F[Dom] \in Nat
  BY <1>1, <1>3, <1>4, SumsType
<1>10. g[n + 1] \in Nat
  BY <1>2, <1>3
<1> QED
  BY <1>6, <1>7, <1>8, <1>9, <1>10

USE BatchWorkerAssumption

-----------------------------------------------------------------------------
(* The types.  Head(work) is used at "insert" and "publish", where a slice  *)
(* is always left.                                                          *)

SliceLeft == pc \in {"insert", "publish"} => work # <<>>

TypeInv == TypeOK /\ SliceLeft

\* The messages of a list of deliveries are messages.
LEMMA MsgsOfType ==
  ASSUME NEW s \in Seq(Deliveries)
  PROVE  MsgsOf(s) \subseteq Messages
<1>1. \A i \in DOMAIN s : s[i] \in Deliveries
  OBVIOUS
<1> QED
  BY <1>1 DEF MsgsOf, Deliveries

\* The parts of a non-empty list of slices.
LEMMA SliceType ==
  ASSUME work \in Seq(Seq(Deliveries)), work # <<>>
  PROVE  /\ Head(work) \in Seq(Deliveries)
         /\ Tail(work) \in Seq(Seq(Deliveries))
         /\ MsgsOf(Head(work)) \subseteq Messages
BY MsgsOfType

\* Both halves of a slice are slices.
LEMMA HalvesType ==
  ASSUME NEW s \in Seq(Deliveries), Len(s) > 1
  PROVE  /\ Midpoint(s) \in 1 .. Len(s) - 1
         /\ SubSeq(s, 1, Midpoint(s)) \in Seq(Deliveries)
         /\ SubSeq(s, Midpoint(s) + 1, Len(s)) \in Seq(Deliveries)
<1>1. Len(s) \in Nat
  OBVIOUS
<1>2. Midpoint(s) \in 1 .. Len(s) - 1
  BY <1>1, SMT DEF Midpoint
<1> QED
  BY <1>1, <1>2, SubSeqProperties

\* What an abandoned flush leaves behind is well typed.
LEMMA RaiseType ==
  ASSUME TypeOK, Raise
  PROVE  /\ pc' \in {"unwind", "close"}
         /\ toFlush' \subseteq Groups
         /\ flushing' \subseteq Groups
         /\ work' \in Seq(Seq(Deliveries))
         /\ settling' \in Seq(Deliveries)
         /\ succeeded' = succeeded
         /\ verb' = verb
BY DEF TypeOK, Raise

\* An interrupted insert or publication adds messages only.
LEMMA CutShortType ==
  ASSUME TypeInv, CutShort
  PROVE  /\ stored \subseteq stored' /\ stored' \subseteq Messages
         /\ failed \subseteq failed' /\ failed' \subseteq Messages
<1>1. pc \in {"insert", "publish"} => MsgsOf(Head(work)) \subseteq Messages
  BY SliceType DEF TypeInv, TypeOK, SliceLeft
<1> QED
  BY <1>1 DEF TypeInv, TypeOK, CutShort, MayStore

LEMMA TypeInit == Init => TypeInv
BY DEF Init, TypeInv, TypeOK, SliceLeft, Deliveries

LEMMA TypeBroker == TypeInv /\ Broker => TypeInv'
<1> SUFFICES ASSUME TypeInv, Broker PROVE TypeInv'
  OBVIOUS
<1> USE DEF TypeInv, TypeOK, SliceLeft, sinkVars, fetchVars, batchVars,
            flushVars, backoffVars, brokerVars
<1>1. ASSUME NEW m \in Messages, Publish(m) PROVE TypeInv'
  BY <1>1 DEF Publish
<1>2. ASSUME NEW m \in Messages, Deliver(m) PROVE TypeInv'
  <2>1. [msg |-> m, epoch |-> epoch] \in Deliveries
    BY DEF Deliveries
  <2> QED
    BY <1>2, <2>1 DEF Deliver
<1>3. ASSUME NEW m \in Messages, ProcessAck(m) PROVE TypeInv'
  BY <1>3 DEF ProcessAck
<1>4. ASSUME NEW d \in buffer, CompleteTask(d) PROVE TypeInv'
  BY <1>4 DEF CompleteTask
<1> QED
  BY <1>1, <1>2, <1>3, <1>4 DEF Broker

LEMMA TypeLoop == TypeInv /\ Loop => TypeInv'
<1> SUFFICES ASSUME TypeInv, Loop PROVE TypeInv'
  OBVIOUS
<1> USE DEF TypeInv, TypeOK, SliceLeft, sinkVars, fetchVars, batchVars,
            flushVars, backoffVars, brokerVars
<1>1. CASE StartWait
  BY <1>1 DEF StartWait, FetchTask
<1>2. CASE StartBackoff
  BY <1>2 DEF StartBackoff
<1>3. CASE OverflowBackoff
  BY <1>3, RaiseType DEF OverflowBackoff
<1>4. CASE EndBackoff
  BY <1>4 DEF EndBackoff, FetchTask
<1>5. CASE TimeOut
  BY <1>5 DEF TimeOut, PendingGroups
<1>6. CASE FailIteration
  BY <1>6, RaiseType DEF FailIteration
<1>7. ASSUME NEW d \in fetched, DropMessage(d) PROVE TypeInv'
  <2>1. <<d>> \in Seq(Deliveries)
    OBVIOUS
  <2> QED
    BY <1>7, <2>1 DEF DropMessage, TakeMessage
<1>8. ASSUME NEW d \in fetched, BufferMessage(d) PROVE TypeInv'
  <2> DEFINE g == GroupOf[d.msg]
  <2>1. d.msg \in Messages /\ g \in Groups /\ RowsOf[d.msg] \in Nat
    BY DEF Deliveries
  <2>2. Append(pending[g], d) \in Seq(Deliveries)
    BY <2>1
  <2>3. pending' \in [Groups -> Seq(Deliveries)]
    BY <1>8, <2>1, <2>2 DEF BufferMessage
  <2>4. rowCount' \in [Groups -> Nat]
    BY <1>8, <2>1 DEF BufferMessage
  <2>5. toFlush' \subseteq Groups /\ pc' \in {"flush", "top"}
    BY <1>8, <2>1 DEF BufferMessage
  <2> QED
    BY <1>8, <2>3, <2>4, <2>5 DEF BufferMessage, TakeMessage
<1> QED
  BY <1>1, <1>2, <1>3, <1>4, <1>5, <1>6, <1>7, <1>8 DEF Loop

LEMMA TypeFlush == TypeInv /\ Flush => TypeInv'
<1> SUFFICES ASSUME TypeInv, Flush PROVE TypeInv'
  OBVIOUS
<1> USE DEF TypeInv, TypeOK, SliceLeft, sinkVars, fetchVars, batchVars,
            flushVars, backoffVars, brokerVars
<1>1. ASSUME NEW g \in Groups, FlushTableGroup(g) PROVE TypeInv'
  <2>1. <<pending[g]>> \in Seq(Seq(Deliveries)) /\ <<pending[g]>> # <<>>
    OBVIOUS
  <2>2. pending' \in [Groups -> Seq(Deliveries)] /\ rowCount' \in [Groups -> Nat]
    BY <1>1 DEF FlushTableGroup
  <2> QED
    BY <1>1, <2>1, <2>2 DEF FlushTableGroup
<1>2. ASSUME NEW g \in Groups, RecordFlush(g) PROVE TypeInv'
  BY <1>2 DEF RecordFlush
<1>3. CASE EndFlush
  BY <1>3 DEF EndFlush
<1>4. CASE InsertRows
  BY <1>4, SliceType DEF InsertRows, SettleSlice
<1>5. CASE SplitSlice
  <2> DEFINE s == Head(work)
  <2>1. work # <<>> /\ s \in Seq(Deliveries) /\ Tail(work) \in Seq(Seq(Deliveries))
    BY <1>5, SliceType DEF SplitSlice
  <2>2. /\ SubSeq(s, 1, Midpoint(s)) \in Seq(Deliveries)
        /\ SubSeq(s, Midpoint(s) + 1, Len(s)) \in Seq(Deliveries)
    BY <1>5, <2>1, HalvesType DEF SplitSlice
  <2> DEFINE halves == <<SubSeq(s, 1, Midpoint(s)),
                         SubSeq(s, Midpoint(s) + 1, Len(s))>>
  <2>3. halves \in Seq(Seq(Deliveries)) /\ Len(halves) = 2
    BY <2>2
  <2>4. halves \o Tail(work) \in Seq(Seq(Deliveries)) /\ halves \o Tail(work) # <<>>
    BY <2>1, <2>3, ConcatProperties, EmptySeq
  <2> QED
    BY <1>5, <2>4 DEF SplitSlice
<1>6. CASE IsolateMessage
  BY <1>6 DEF IsolateMessage
<1>7. CASE PublishFailedMessage
  BY <1>7, SliceType DEF PublishFailedMessage, SettleSlice
<1>8. CASE SendAck
  <2>1. Head(settling) \in Deliveries /\ Tail(settling) \in Seq(Deliveries)
    BY <1>8 DEF SendAck
  <2> QED
    BY <1>8, <2>1 DEF SendAck, Deliveries
<1>9. CASE SendNack
  <2>1. Head(settling) \in Deliveries /\ Tail(settling) \in Seq(Deliveries)
    BY <1>9 DEF SendNack
  <2> QED
    BY <1>9, <2>1 DEF SendNack, Deliveries
<1>10. CASE FailSettle
  BY <1>10, RaiseType DEF FailSettle
<1>11. CASE NextSlice
  BY <1>11 DEF NextSlice
<1>12. CASE EndDrop
  BY <1>12 DEF EndDrop
<1> QED
  BY <1>1, <1>2, <1>3, <1>4, <1>5, <1>6, <1>7, <1>8, <1>9, <1>10, <1>11, <1>12
  DEF Flush

LEMMA TypeStop == TypeInv /\ Stop => TypeInv'
<1> SUFFICES ASSUME TypeInv, Stop PROVE TypeInv'
  OBVIOUS
<1> USE DEF TypeInv, TypeOK, SliceLeft, sinkVars, fetchVars, batchVars,
            flushVars, backoffVars, brokerVars
<1>1. CASE CloseIterator
  <2>1. {d.msg : d \in {b \in buffer : Live(b)}} \subseteq Messages
    BY DEF Deliveries
  <2> QED
    BY <1>1, <2>1 DEF CloseIterator, PendingGroups
<1>2. CASE CloseChannel
  BY <1>2 DEF CloseChannel, ForgetMemory
<1> QED
  BY <1>1, <1>2 DEF Stop

LEMMA TypeEnvironment == TypeInv /\ Environment => TypeInv'
<1> SUFFICES ASSUME TypeInv, Environment PROVE TypeInv'
  OBVIOUS
<1> USE DEF TypeInv, TypeOK, SliceLeft, sinkVars, fetchVars, batchVars,
            flushVars, backoffVars, brokerVars, Fault
<1>1. CASE FailInsert
  <2>1. pc = "insert" /\ work # <<>>
    BY <1>1 DEF FailInsert
  <2>2. stored' \subseteq Messages
    BY <1>1, <2>1, SliceType DEF FailInsert, MayStore
  <2>3. faults' \in 0 .. MaxFaults
    BY <1>1 DEF FailInsert
  <2> QED
    BY <1>1, <2>1, <2>2, <2>3, SliceType DEF FailInsert, SettleSlice
<1>2. CASE FailPublish
  <2>1. pc = "publish" /\ work # <<>>
    BY <1>2 DEF FailPublish
  <2>2. failed' \subseteq Messages
    BY <1>2, <2>1, SliceType DEF FailPublish
  <2>3. faults' \in 0 .. MaxFaults
    BY <1>2 DEF FailPublish
  <2> QED
    BY <1>2, <2>1, <2>2, <2>3, SliceType DEF FailPublish, SettleSlice
<1>3. CASE StopIterator
  BY <1>3 DEF StopIterator
<1>4. CASE LoseConnection
  BY <1>4 DEF LoseConnection
<1>5. CASE Cancel
  BY <1>5, RaiseType, CutShortType DEF Cancel
<1>6. CASE Kill
  BY <1>6, CutShortType DEF Kill, ForgetMemory
<1>7. CASE Restart
  BY <1>7 DEF Restart
<1> QED
  BY <1>1, <1>2, <1>3, <1>4, <1>5, <1>6, <1>7 DEF Environment

\* Type correctness of the worker and of the broker beside it.
THEOREM TypeCorrect == Spec => []TypeOK
<1>1. Init => TypeInv
  BY TypeInit
<1>2. TypeInv /\ [Next]_vars => TypeInv'
  <2> SUFFICES ASSUME TypeInv, [Next]_vars PROVE TypeInv'
    OBVIOUS
  <2>1. CASE Next
    BY <2>1, TypeBroker, TypeLoop, TypeFlush, TypeStop, TypeEnvironment
    DEF Next, Worker
  <2>2. CASE UNCHANGED vars
    BY <2>2 DEF TypeInv, TypeOK, SliceLeft, vars, brokerVars, sinkVars,
                fetchVars, batchVars, flushVars, backoffVars
  <2> QED
    BY <2>1, <2>2
<1>3. TypeInv => TypeOK
  BY DEF TypeInv
<1> QED
  BY <1>1, <1>2, <1>3, PTL DEF Spec

-----------------------------------------------------------------------------
(* No loss.  NoLoss is not inductive: an ack is sent for whatever settling *)
(* holds, so the invariant adds that everything a worker is about to ack   *)
(* or to reject is resolved already.                                       *)

SettlingResolved ==
  pc = "settle" /\ verb # "nack" => MsgsOf(settling) \subseteq Resolved

NoLossInv == TypeInv /\ NoLoss /\ SettlingResolved

\* A step that keeps what the broker holds and what is durable, and acks
\* nothing, loses nothing.
LEMMA KeepsNoLoss ==
  ASSUME NoLoss,
         published' = published,
         ready \union unacked \subseteq ready' \union unacked',
         acking' \subseteq acking,
         stored \subseteq stored', failed \subseteq failed'
  PROVE  NoLoss'
BY DEF NoLoss, Resolved, Discardable, Empty

\* A settlement in progress stays justified while it goes on unchanged.
LEMMA KeepsSettling ==
  ASSUME SettlingResolved,
         pc' = pc, settling' = settling, verb' = verb,
         stored \subseteq stored', failed \subseteq failed'
  PROVE  SettlingResolved'
BY DEF SettlingResolved, Resolved, Discardable, Empty, MsgsOf

\* Nothing is being settled away from "settle".
LEMMA NotSettling ==
  ASSUME pc' # "settle"
  PROVE  SettlingResolved'
BY DEF SettlingResolved

\* The head and the rest of a list of deliveries.
LEMMA MsgsOfParts ==
  ASSUME NEW s \in Seq(Deliveries), s # <<>>
  PROVE  /\ Head(s).msg \in MsgsOf(s)
         /\ MsgsOf(Tail(s)) \subseteq MsgsOf(s)
<1>1. Len(s) \in Nat /\ Len(s) > 0 /\ DOMAIN s = 1 .. Len(s)
  OBVIOUS
<1>2. Head(s) = s[1] /\ 1 \in DOMAIN s
  BY <1>1
<1>3. \A i \in DOMAIN Tail(s) : i + 1 \in DOMAIN s /\ Tail(s)[i] = s[i + 1]
  BY <1>1
<1> QED
  BY <1>2, <1>3 DEF MsgsOf

LEMMA NoLossInit == Init => NoLossInv
BY TypeInit DEF Init, NoLossInv, NoLoss, SettlingResolved

LEMMA NoLossBroker == NoLossInv /\ Broker => NoLoss' /\ SettlingResolved'
<1> SUFFICES ASSUME NoLossInv, Broker PROVE NoLoss' /\ SettlingResolved'
  OBVIOUS
<1> USE DEF NoLossInv, sinkVars, fetchVars, batchVars, flushVars, backoffVars,
            brokerVars
<1>1. ASSUME NEW m \in Messages, Publish(m) PROVE NoLoss' /\ SettlingResolved'
  BY <1>1, KeepsSettling DEF Publish, NoLoss, Resolved, Discardable, Empty
<1>2. ASSUME NEW m \in Messages, Deliver(m) PROVE NoLoss' /\ SettlingResolved'
  BY <1>2, KeepsNoLoss, KeepsSettling DEF Deliver
<1>3. ASSUME NEW m \in Messages, ProcessAck(m)
      PROVE  NoLoss' /\ SettlingResolved'
  BY <1>3, KeepsSettling DEF ProcessAck, NoLoss, Resolved, Discardable, Empty
<1>4. ASSUME NEW d \in buffer, CompleteTask(d)
      PROVE  NoLoss' /\ SettlingResolved'
  BY <1>4, KeepsNoLoss, KeepsSettling DEF CompleteTask
<1> QED
  BY <1>1, <1>2, <1>3, <1>4 DEF Broker

LEMMA NoLossLoop == NoLossInv /\ Loop => NoLoss' /\ SettlingResolved'
<1> SUFFICES ASSUME NoLossInv, Loop PROVE NoLoss' /\ SettlingResolved'
  OBVIOUS
<1> USE DEF NoLossInv, sinkVars, fetchVars, batchVars, flushVars, backoffVars,
            brokerVars
<1>1. UNCHANGED <<brokerVars, sinkVars>>
  BY DEF Loop, StartWait, StartBackoff, OverflowBackoff, EndBackoff, TimeOut,
         FailIteration, DropMessage, BufferMessage, TakeMessage
<1>2. NoLoss'
  BY <1>1, KeepsNoLoss
<1>3. CASE StartWait \/ StartBackoff \/ EndBackoff \/ TimeOut
  BY <1>2, <1>3, NotSettling DEF StartWait, StartBackoff, EndBackoff, TimeOut
<1>4. CASE OverflowBackoff \/ FailIteration
  BY <1>2, <1>4, NotSettling DEF OverflowBackoff, FailIteration, Raise
<1>5. ASSUME NEW d \in fetched, DropMessage(d) PROVE SettlingResolved'
  <2>1. MsgsOf(settling') = {d.msg} /\ d.msg \in Discardable
    BY <1>5 DEF DropMessage, MsgsOf
  <2> QED
    BY <2>1 DEF SettlingResolved, Resolved, Discardable, Empty
<1>6. ASSUME NEW d \in fetched, BufferMessage(d) PROVE SettlingResolved'
  BY <1>6, NotSettling DEF BufferMessage
<1> QED
  BY <1>2, <1>3, <1>4, <1>5, <1>6 DEF Loop

LEMMA NoLossFlush == NoLossInv /\ Flush => NoLoss' /\ SettlingResolved'
<1> SUFFICES ASSUME NoLossInv, Flush PROVE NoLoss' /\ SettlingResolved'
  OBVIOUS
<1> USE DEF NoLossInv, sinkVars, fetchVars, batchVars, flushVars, backoffVars,
            brokerVars
<1>1. ASSUME NEW g \in Groups, FlushTableGroup(g) \/ RecordFlush(g)
      PROVE  NoLoss' /\ SettlingResolved'
  BY <1>1, KeepsNoLoss, NotSettling DEF FlushTableGroup, RecordFlush
<1>2. CASE EndFlush \/ IsolateMessage \/ NextSlice \/ EndDrop
  BY <1>2, KeepsNoLoss, NotSettling DEF EndFlush, IsolateMessage, NextSlice, EndDrop
<1>3. CASE SplitSlice
  BY <1>3, KeepsNoLoss, NotSettling DEF SplitSlice
<1>4. CASE FailSettle
  BY <1>4, KeepsNoLoss, NotSettling DEF FailSettle, Raise
<1>5. CASE InsertRows
  <2>1. NoLoss'
    BY <1>5, KeepsNoLoss DEF InsertRows
  <2>2. settling' = Head(work) /\ MsgsOf(Head(work)) \subseteq stored'
    BY <1>5 DEF InsertRows, SettleSlice
  <2> QED
    BY <2>1, <2>2 DEF SettlingResolved, Resolved, MsgsOf
<1>6. CASE PublishFailedMessage
  <2>1. NoLoss'
    BY <1>6, KeepsNoLoss DEF PublishFailedMessage
  <2>2. settling' = Head(work) /\ MsgsOf(Head(work)) \subseteq failed'
    BY <1>6 DEF PublishFailedMessage, SettleSlice
  <2> QED
    BY <2>1, <2>2 DEF SettlingResolved, Resolved, MsgsOf
<1>7. CASE SendAck
  <2>1. /\ Head(settling).msg \in MsgsOf(settling)
        /\ MsgsOf(Tail(settling)) \subseteq MsgsOf(settling)
    BY <1>7, MsgsOfParts DEF SendAck, TypeInv, TypeOK
  <2>2. MsgsOf(settling) \subseteq Resolved
    BY <1>7 DEF SendAck, SettlingResolved
  <2>3. Resolved' = Resolved
    BY <1>7 DEF SendAck, Resolved, Discardable, Empty
  <2>4. NoLoss'
    BY <1>7, <2>1, <2>2, <2>3 DEF SendAck, NoLoss
  <2>5. MsgsOf(settling)' = MsgsOf(Tail(settling))
    BY <1>7 DEF SendAck, MsgsOf
  <2> QED
    BY <2>1, <2>2, <2>3, <2>4, <2>5 DEF SettlingResolved
<1>8. CASE SendNack
  <2>1. NoLoss'
    BY <1>8, KeepsNoLoss DEF SendNack
  <2> QED
    BY <1>8, <2>1 DEF SendNack, SettlingResolved
<1> QED
  BY <1>1, <1>2, <1>3, <1>4, <1>5, <1>6, <1>7, <1>8 DEF Flush

LEMMA NoLossStop == NoLossInv /\ Stop => NoLoss' /\ SettlingResolved'
<1> SUFFICES ASSUME NoLossInv, Stop PROVE NoLoss' /\ SettlingResolved'
  OBVIOUS
<1> USE DEF NoLossInv, sinkVars, fetchVars, batchVars, flushVars, backoffVars,
            brokerVars
<1>1. CASE CloseIterator
  BY <1>1, KeepsNoLoss, NotSettling DEF CloseIterator
<1>2. CASE CloseChannel
  <2>1. NoLoss'
    BY <1>2 DEF CloseChannel, NoLoss, Resolved, Discardable, Empty
  <2> QED
    BY <1>2, <2>1, NotSettling DEF CloseChannel, ForgetMemory
<1> QED
  BY <1>1, <1>2 DEF Stop

LEMMA NoLossEnvironment ==
  NoLossInv /\ Environment => NoLoss' /\ SettlingResolved'
<1> SUFFICES ASSUME NoLossInv, Environment PROVE NoLoss' /\ SettlingResolved'
  OBVIOUS
<1> USE DEF NoLossInv, sinkVars, fetchVars, batchVars, flushVars, backoffVars,
            brokerVars
<1>1. CASE FailInsert
  <2>1. stored \subseteq stored' /\ verb' = "nack"
    BY <1>1 DEF FailInsert, SettleSlice
  <2> QED
    BY <1>1, <2>1, KeepsNoLoss DEF FailInsert, SettlingResolved
<1>2. CASE FailPublish
  <2>1. failed \subseteq failed' /\ verb' = "nack"
    BY <1>2 DEF FailPublish, SettleSlice
  <2> QED
    BY <1>2, <2>1, KeepsNoLoss DEF FailPublish, SettlingResolved
<1>3. CASE StopIterator
  BY <1>3, KeepsNoLoss, KeepsSettling DEF StopIterator
<1>4. CASE LoseConnection
  <2>1. NoLoss'
    BY <1>4, KeepsNoLoss DEF LoseConnection
  <2> QED
    BY <1>4, <2>1, KeepsSettling DEF LoseConnection
<1>5. CASE Cancel
  BY <1>5, CutShortType, KeepsNoLoss, NotSettling DEF Cancel, Raise
<1>6. CASE Kill
  BY <1>6, CutShortType, KeepsNoLoss, NotSettling DEF Kill, ForgetMemory
<1>7. CASE Restart
  BY <1>7, KeepsNoLoss, NotSettling DEF Restart
<1> QED
  BY <1>1, <1>2, <1>3, <1>4, <1>5, <1>6, <1>7 DEF Environment

LEMMA NoLossStep == NoLossInv /\ [Next]_vars => NoLossInv'
<1> SUFFICES ASSUME NoLossInv, [Next]_vars PROVE NoLossInv'
  OBVIOUS
<1>1. CASE Next
  <2>1. TypeInv'
    BY <1>1, TypeBroker, TypeLoop, TypeFlush, TypeStop, TypeEnvironment
    DEF Next, Worker, NoLossInv
  <2>2. NoLoss' /\ SettlingResolved'
    BY <1>1, NoLossBroker, NoLossLoop, NoLossFlush, NoLossStop,
       NoLossEnvironment
    DEF Next, Worker
  <2> QED
    BY <2>1, <2>2 DEF NoLossInv
<1>2. CASE UNCHANGED vars
  BY <1>2 DEF NoLossInv, TypeInv, TypeOK, SliceLeft, NoLoss, SettlingResolved,
              Resolved, Discardable, Empty, MsgsOf, vars, brokerVars,
              sinkVars, fetchVars, batchVars, flushVars, backoffVars
<1> QED
  BY <1>1, <1>2

\* No published message is ever lost, whatever the faults.
THEOREM NothingLost == Spec => []NoLoss
<1>1. Init => NoLossInv
  BY NoLossInit
<1>2. NoLossInv /\ [Next]_vars => NoLossInv'
  BY NoLossStep
<1>3. NoLossInv => NoLoss
  BY DEF NoLossInv
<1> QED
  BY <1>1, <1>2, <1>3, PTL DEF Spec

-----------------------------------------------------------------------------
(* Batches: their row counts, and which group may be flushed when.         *)

RowsIn(s) == SumFunction([i \in DOMAIN s |-> RowsOf[s[i].msg]])

\* An empty batch has no rows.
LEMMA RowsInNone == RowsIn(<<>>) = 0
<1> DEFINE f == [i \in DOMAIN <<>> |-> RowsOf[<<>>[i].msg]]
<1>1. f \in [{} -> Nat]
  OBVIOUS
<1> HIDE DEF f
<1>2. SumFunction(f) = 0
  BY <1>1, SumOfNone
<1> QED
  BY <1>2 DEF RowsIn, f

\* A message adds its rows to its batch.
LEMMA RowsInAppended ==
  ASSUME NEW s \in Seq(Deliveries), NEW d \in Deliveries
  PROVE  RowsIn(Append(s, d)) = RowsIn(s) + RowsOf[d.msg]
<1> DEFINE n == Len(s)
           t == Append(s, d)
           f == [i \in DOMAIN s |-> RowsOf[s[i].msg]]
           g == [i \in DOMAIN t |-> RowsOf[t[i].msg]]
<1>1. /\ n \in Nat /\ DOMAIN s = 1 .. n /\ DOMAIN t = 1 .. n + 1
      /\ t[n + 1] = d
  OBVIOUS
<1>2. \A i \in 1 .. n : t[i] = s[i] /\ s[i] \in Deliveries
  OBVIOUS
<1>3. \A e \in Deliveries : RowsOf[e.msg] \in Nat
  BY DEF Deliveries
<1> HIDE DEF n, t
<1>4. f \in [1 .. n -> Nat]
  BY <1>1, <1>2, <1>3
<1>5. \A i \in 1 .. n + 1 : i \in 1 .. n \/ i = n + 1
  BY <1>1
<1>6. g \in [1 .. n + 1 -> Nat]
  BY <1>1, <1>2, <1>3, <1>5
<1>7. \A i \in 1 .. n : g[i] = f[i]
  BY <1>1, <1>2
<1>8. g[n + 1] = RowsOf[d.msg]
  BY <1>1
<1> HIDE DEF f, g
<1>9. SumFunction(g) = SumFunction(f) + g[n + 1]
  BY <1>1, <1>4, <1>6, <1>7, SumOfAppended
<1> QED
  BY <1>8, <1>9 DEF RowsIn, f, g, t

\* Where the worker is in a flush: between two messages it has none in
\* progress, and the groups still to visit do not include the one in progress.
FlushPhase ==
  /\ pc \in {"insert", "publish"} => flushing # {}
  /\ pc \notin {"insert", "publish", "settle"} => flushing = {}
  /\ flushing = {} => work = <<>>
  /\ flushing \intersect toFlush = {}
  /\ mode = "stopping" => \/ pc \in {"flush", "insert", "publish", "close"}
                          \/ pc = "settle" /\ flushing # {}

\* The loop waits, and flushes, with every failure of these groups slept off.
SleptOff ==
  /\ \A g \in Groups : applied[g] <= failures[g]
  /\ mode = "running" /\ pc = "wait" =>
       \A g \in Groups : failures[g] = applied[g]
  /\ mode = "running" /\ pc \in {"flush", "insert", "publish", "settle"} =>
       \A g \in toFlush \union flushing : failures[g] = applied[g]

\* pending_row_counts counts the rows of pending_batches.
RowsCounted == \A g \in Groups : rowCount[g] = RowsIn(pending[g])

\* A full batch is one the flush in progress has still to visit.
FullIsFlushed ==
  mode = "running" =>
    \A g \in Groups : rowCount[g] >= BatchSize =>
      \/ pc \in {"flush", "insert", "publish"} /\ g \in toFlush
      \/ pc = "settle" /\ flushing # {} /\ g \in toFlush
      \/ pc = "unwind"

\* What holds of the control beside the types and the sums.
FlushControl == FlushPhase /\ SleptOff /\ FullIsFlushed

FlushInv == TypeInv /\ FlushControl /\ RowsCounted

LEMMA FlushInit == Init => FlushInv
<1> SUFFICES ASSUME Init PROVE FlushInv
  OBVIOUS
<1>1. RowsCounted
  BY RowsInNone DEF Init, RowsCounted
<1> QED
  BY <1>1, TypeInit
  DEF Init, FlushInv, FlushControl, FlushPhase, SleptOff, FullIsFlushed

\* A step that leaves the control of the flush alone.
LEMMA FlushFrame ==
  ASSUME FlushInv, UNCHANGED <<pc, mode, toFlush, flushing, work, rowCount, backoffVars>>
  PROVE  FlushControl'
BY DEF FlushInv, FlushControl, FlushPhase, SleptOff, FullIsFlushed, backoffVars

\* An abandoned flush.
LEMMA FlushRaise ==
  ASSUME FlushInv, Raise, UNCHANGED <<mode, batchVars, backoffVars>>
  PROVE  FlushControl'
BY DEF FlushInv, FlushControl, FlushPhase, SleptOff, FullIsFlushed, Raise,
       backoffVars, batchVars, TypeInv, TypeOK

\* A process that is gone has nothing to flush.
LEMMA FlushForget ==
  ASSUME ForgetMemory
  PROVE  FlushControl' /\ RowsCounted'
<1>1. RowsCounted'
  BY RowsInNone DEF ForgetMemory, RowsCounted
<1>2. FlushControl'
  BY DEF ForgetMemory, FlushControl, FlushPhase, SleptOff, FullIsFlushed
<1> QED
  BY <1>1, <1>2

\* Taking the first slice of work to be settled.
LEMMA FlushSettleSlice ==
  ASSUME FlushInv, pc \in {"insert", "publish"}, NEW v, SettleSlice(v),
         UNCHANGED <<mode, batchVars, backoffVars>>
  PROVE  FlushControl'
BY DEF FlushInv, FlushControl, FlushPhase, SleptOff, FullIsFlushed, SettleSlice,
       backoffVars, batchVars

LEMMA FlushControlLoop == FlushInv /\ Loop => FlushControl'
<1> SUFFICES ASSUME FlushInv, Loop PROVE FlushControl'
  OBVIOUS
<1> USE DEF sinkVars, fetchVars, batchVars, flushVars, backoffVars, brokerVars
<1>1. CASE StartWait
  BY <1>1 DEF StartWait, Unapplied, FlushInv, TypeInv, TypeOK, FlushControl,
              FlushPhase, SleptOff, FullIsFlushed
<1>2. CASE StartBackoff
  BY <1>2 DEF StartBackoff, FlushInv, FlushControl, FlushPhase, SleptOff,
              FullIsFlushed
<1>3. CASE OverflowBackoff \/ FailIteration
  BY <1>3, FlushRaise DEF OverflowBackoff, FailIteration
<1>4. CASE EndBackoff
  BY <1>4 DEF EndBackoff, FlushInv, TypeInv, TypeOK, FlushControl, FlushPhase,
              SleptOff, FullIsFlushed
<1>5. CASE TimeOut
  BY <1>5 DEF TimeOut, PendingGroups, FlushInv, TypeInv, TypeOK, FlushControl,
              FlushPhase, SleptOff, FullIsFlushed
<1>6. ASSUME NEW d \in fetched, DropMessage(d) PROVE FlushControl'
  BY <1>6 DEF DropMessage, TakeMessage, FlushInv, TypeInv, TypeOK, FlushControl,
              FlushPhase, SleptOff, FullIsFlushed
<1>7. ASSUME NEW d \in fetched, BufferMessage(d) PROVE FlushControl'
  <2> DEFINE g == GroupOf[d.msg]
  <2>1. g \in Groups /\ RowsOf[d.msg] \in Nat
    BY DEF FlushInv, TypeInv, TypeOK, Deliveries
  <2>2. /\ rowCount'[g] = rowCount[g] + RowsOf[d.msg]
        /\ \A h \in Groups : h # g => rowCount'[h] = rowCount[h]
    BY <1>7, <2>1 DEF BufferMessage, FlushInv, TypeInv, TypeOK
  <2>3. UNCHANGED <<mode, flushing, work, failures, applied>> /\ pc = "wait"
    BY <1>7 DEF BufferMessage, TakeMessage
  <2>4. \/ rowCount'[g] >= BatchSize /\ pc' = "flush" /\ toFlush' = {g}
        \/ rowCount'[g] < BatchSize /\ pc' = "top" /\ toFlush' = toFlush
    BY <1>7, <2>1, <2>2 DEF BufferMessage, FlushInv, TypeInv, TypeOK
  <2>5. FlushPhase' /\ SleptOff'
    BY <2>1, <2>3, <2>4 DEF FlushInv, FlushControl, FlushPhase, SleptOff
  <2>6. mode = "running" => \A h \in Groups : ~ (rowCount[h] >= BatchSize)
    BY <2>3 DEF FlushInv, FlushControl, FullIsFlushed
  <2>7. FullIsFlushed'
    BY <2>1, <2>2, <2>3, <2>4, <2>6 DEF FlushInv, TypeInv, TypeOK, FullIsFlushed
  <2> QED
    BY <2>5, <2>7 DEF FlushControl
<1> QED
  BY <1>1, <1>2, <1>3, <1>4, <1>5, <1>6, <1>7 DEF Loop

LEMMA FlushControlFlush == FlushInv /\ Flush => FlushControl'
<1> SUFFICES ASSUME FlushInv, Flush PROVE FlushControl'
  OBVIOUS
<1> USE DEF sinkVars, fetchVars, batchVars, flushVars, backoffVars, brokerVars
<1>1. ASSUME NEW g \in Groups, FlushTableGroup(g) PROVE FlushControl'
  BY <1>1 DEF FlushTableGroup, FlushInv, TypeInv, TypeOK, FlushControl,
              FlushPhase, SleptOff, FullIsFlushed
<1>2. ASSUME NEW g \in Groups, RecordFlush(g) PROVE FlushControl'
  BY <1>2 DEF RecordFlush, FlushInv, TypeInv, TypeOK, FlushControl, FlushPhase,
              SleptOff, FullIsFlushed
<1>3. CASE EndFlush \/ IsolateMessage \/ NextSlice \/ EndDrop
  BY <1>3 DEF EndFlush, IsolateMessage, NextSlice, EndDrop, FlushInv, TypeInv,
              TypeOK, FlushControl, FlushPhase, SleptOff, FullIsFlushed
<1>4. CASE InsertRows \/ PublishFailedMessage
  BY <1>4, FlushSettleSlice DEF InsertRows, PublishFailedMessage
<1>5. CASE SplitSlice
  BY <1>5 DEF SplitSlice, FlushInv, FlushControl, FlushPhase, SleptOff,
              FullIsFlushed
<1>6. CASE SendAck \/ SendNack
  BY <1>6, FlushFrame DEF SendAck, SendNack
<1>7. CASE FailSettle
  BY <1>7, FlushRaise DEF FailSettle
<1> QED
  BY <1>1, <1>2, <1>3, <1>4, <1>5, <1>6, <1>7 DEF Flush

LEMMA FlushControlRest ==
  FlushInv /\ (Broker \/ Stop \/ Environment) => FlushControl'
<1> SUFFICES ASSUME FlushInv, Broker \/ Stop \/ Environment PROVE FlushControl'
  OBVIOUS
<1> USE DEF sinkVars, fetchVars, batchVars, flushVars, backoffVars, brokerVars
<1>1. CASE Broker
  BY <1>1, FlushFrame DEF Broker, Publish, Deliver, ProcessAck, CompleteTask
<1>2. CASE CloseIterator
  BY <1>2 DEF CloseIterator, FlushInv, TypeInv, TypeOK, FlushControl,
              FlushPhase, SleptOff, FullIsFlushed
<1>3. CASE CloseChannel \/ Kill
  BY <1>3, FlushForget DEF CloseChannel, Kill
<1>4. CASE FailInsert \/ FailPublish
  BY <1>4, FlushSettleSlice DEF FailInsert, FailPublish
<1>5. CASE StopIterator \/ LoseConnection
  BY <1>5, FlushFrame DEF StopIterator, LoseConnection
<1>6. CASE Cancel
  BY <1>6, FlushRaise DEF Cancel
<1>7. CASE Restart
  BY <1>7 DEF Restart, FlushInv, FlushControl, FlushPhase, SleptOff,
              FullIsFlushed
<1> QED
  BY <1>1, <1>2, <1>3, <1>4, <1>5, <1>6, <1>7 DEF Stop, Environment

\* The counts follow the batches.
LEMMA RowsCountedStep == FlushInv /\ Next => RowsCounted'
<1> SUFFICES ASSUME FlushInv, Next PROVE RowsCounted'
  OBVIOUS
<1> USE DEF sinkVars, fetchVars, batchVars, flushVars, backoffVars, brokerVars
<1>1. ASSUME UNCHANGED batchVars PROVE RowsCounted'
  BY <1>1 DEF FlushInv, RowsCounted, RowsIn
<1>2. ASSUME NEW d \in fetched, BufferMessage(d) PROVE RowsCounted'
  <2> DEFINE g == GroupOf[d.msg]
  <2>1. d \in Deliveries /\ g \in Groups /\ pending[g] \in Seq(Deliveries)
    BY DEF FlushInv, TypeInv, TypeOK, Deliveries
  <2>2. /\ pending'[g] = Append(pending[g], d)
        /\ rowCount'[g] = rowCount[g] + RowsOf[d.msg]
        /\ \A h \in Groups : h # g =>
             pending'[h] = pending[h] /\ rowCount'[h] = rowCount[h]
    BY <1>2, <2>1 DEF BufferMessage, FlushInv, TypeInv, TypeOK
  <2>3. RowsIn(pending'[g]) = RowsIn(pending[g]) + RowsOf[d.msg]
    BY <2>1, <2>2, RowsInAppended
  <2> HIDE DEF g
  <2> QED
    BY <2>1, <2>2, <2>3 DEF FlushInv, RowsCounted, RowsIn
<1>3. ASSUME NEW g \in Groups, FlushTableGroup(g) PROVE RowsCounted'
  <2>1. /\ pending'[g] = <<>> /\ rowCount'[g] = 0
        /\ \A h \in Groups : h # g =>
             pending'[h] = pending[h] /\ rowCount'[h] = rowCount[h]
    BY <1>3 DEF FlushTableGroup, FlushInv, TypeInv, TypeOK
  <2> QED
    BY <2>1, RowsInNone DEF FlushInv, RowsCounted
<1>4. CASE CloseChannel \/ Kill
  BY <1>4, FlushForget DEF CloseChannel, Kill
<1>5. CASE Broker
  BY <1>1, <1>5 DEF Broker, Publish, Deliver, ProcessAck, CompleteTask
<1>6. CASE Loop
  BY <1>1, <1>2, <1>6 DEF Loop, StartWait, StartBackoff, OverflowBackoff,
     EndBackoff, TimeOut, FailIteration, DropMessage
<1>7. CASE Flush
  BY <1>1, <1>3, <1>7 DEF Flush, RecordFlush, EndFlush, InsertRows, SplitSlice,
     IsolateMessage, PublishFailedMessage, SendAck, SendNack, FailSettle,
     NextSlice, EndDrop
<1>8. CASE CloseIterator
  BY <1>1, <1>8 DEF CloseIterator
<1>9. CASE Environment
  BY <1>1, <1>4, <1>9 DEF Environment, FailInsert, FailPublish, StopIterator,
     LoseConnection, Cancel, Restart
<1> QED
  BY <1>4, <1>5, <1>6, <1>7, <1>8, <1>9 DEF Next, Worker, Stop

LEMMA FlushStep == FlushInv /\ [Next]_vars => FlushInv'
<1> SUFFICES ASSUME FlushInv, [Next]_vars PROVE FlushInv'
  OBVIOUS
<1>1. CASE Next
  <2>1. TypeInv'
    BY <1>1, TypeBroker, TypeLoop, TypeFlush, TypeStop, TypeEnvironment
    DEF Next, Worker, FlushInv
  <2>2. FlushControl'
    BY <1>1, FlushControlLoop, FlushControlFlush, FlushControlRest
    DEF Next, Worker
  <2>3. RowsCounted'
    BY <1>1, RowsCountedStep
  <2> QED
    BY <2>1, <2>2, <2>3 DEF FlushInv
<1>2. CASE UNCHANGED vars
  <2>1. TypeInv'
    BY <1>2 DEF FlushInv, TypeInv, TypeOK, SliceLeft, vars, brokerVars, sinkVars,
                fetchVars, batchVars, flushVars, backoffVars
  <2>2. FlushControl'
    BY <1>2, FlushFrame DEF vars, batchVars, flushVars
  <2>3. RowsCounted'
    BY <1>2 DEF vars, batchVars, FlushInv, RowsCounted, RowsIn
  <2> QED
    BY <2>1, <2>2, <2>3 DEF FlushInv
<1> QED
  BY <1>1, <1>2

\* No group is tried again before its failure has been slept off, whatever the
\* other groups and the faults did.
THEOREM NothingRetriedHot == Spec => []NoHotRetry
<1>1. FlushInv => NoHotRetry
  BY DEF FlushInv, FlushControl, SleptOff, NoHotRetry
<1> QED
  BY <1>1, FlushInit, FlushStep, PTL DEF Spec

\* The loop never waits with a full batch, and its row counts are the rows of
\* the batches, however many messages a batch holds.
THEOREM FullBatchesFlushed == Spec => []NoFullBatchWaits
<1>1. FlushInv => NoFullBatchWaits
  <2> SUFFICES ASSUME FlushInv PROVE NoFullBatchWaits
    OBVIOUS
  <2>1. \A g \in Groups :
          rowCount[g] = SumFunction([i \in DOMAIN pending[g] |->
                                       RowsOf[pending[g][i].msg]])
    BY DEF FlushInv, RowsCounted, RowsIn
  <2>2. pc \in {"top", "sleep", "wait"} => mode = "running"
    BY DEF FlushInv, FlushControl, FlushPhase, TypeInv, TypeOK
  <2>3. pc \in {"top", "sleep", "wait"} => \A g \in Groups : rowCount[g] < BatchSize
    BY <2>2 DEF FlushInv, TypeInv, TypeOK, FlushControl, FullIsFlushed
  <2> QED
    BY <2>1, <2>3 DEF NoFullBatchWaits
<1> QED
  BY <1>1, FlushInit, FlushStep, PTL DEF Spec

=============================================================================
