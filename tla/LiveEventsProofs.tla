--------------------------- MODULE LiveEventsProofs -------------------------
(***************************************************************************)
(* The live log is the newest entries in request order, for every size of  *)
(* the log and every number of requests: proofs about LiveEvents.  The     *)
(* invariant adds what the promise chain keeps in order.                   *)
(***************************************************************************)
EXTENDS LiveEvents, TLAPS

\* The chain holds requests in the order they were made, all of them later
\* than whatever is in the log.
ChainInOrder ==
  /\ clearedAt <= nextId
  /\ \A i, j \in 1 .. Len(chain) : i < j => chain[i] < chain[j]
  /\ \A i \in 1 .. Len(chain) : chain[i] <= made
  /\ \A i \in 1 .. Len(logs) : logs[i].request <= made
  /\ \A i \in 1 .. Len(logs), j \in 1 .. Len(chain) : logs[i].request < chain[j]

LogInv == TypeOK /\ ChainInOrder /\ NewestInRequestOrder

\* What push makes of the log: a new first entry, then the newest of the old.
LEMMA Prepended ==
  ASSUME NEW S, NEW e \in S, NEW s \in Seq(S), NEW k \in 0 .. Len(s)
  PROVE  LET t == <<e>> \o SubSeq(s, 1, k)
         IN  /\ t \in Seq(S)
             /\ Len(t) = k + 1
             /\ t[1] = e
             /\ \A i \in 2 .. k + 1 : t[i] = s[i - 1]
<1> DEFINE u == SubSeq(s, 1, k)
           t == <<e>> \o u
<1>1. u \in Seq(S) /\ Len(u) = k /\ \A i \in 1 .. k : u[i] = s[i]
  OBVIOUS
<1>2. /\ <<e>> \in Seq(S)
      /\ Len(<<e>>) = 1
      /\ <<e>>[1] = e
  OBVIOUS
<1> HIDE DEF u
<1>3. t \in Seq(S) /\ Len(t) = k + 1
  BY <1>1, <1>2
<1>4. t[1] = e
  BY <1>1, <1>2
<1>5. ASSUME NEW i \in 2 .. k + 1 PROVE t[i] = s[i - 1]
  BY <1>1, <1>2
<1> QED
  BY <1>3, <1>4, <1>5 DEF u

LEMMA LogInvInit == Init => LogInv
<1> SUFFICES ASSUME Init PROVE LogInv
  OBVIOUS
<1>1. paused \in BOOLEAN
  BY DEF Init
<1>2. /\ logs = <<>> /\ chain = <<>>
      /\ nextId = 1 /\ clearedAt = 1 /\ made = 0 /\ settled = {}
  BY DEF Init
<1>3. TypeOK
  BY <1>1, <1>2, LiveEventsAssumption DEF TypeOK
<1>4. ChainInOrder
  BY <1>2 DEF ChainInOrder
<1>5. NewestInRequestOrder
  BY <1>2, LiveEventsAssumption DEF NewestInRequestOrder
<1> QED
  BY <1>3, <1>4, <1>5 DEF LogInv

LEMMA LogInvStep == LogInv /\ [Next]_vars => LogInv'
<1> SUFFICES ASSUME LogInv, [Next]_vars
             PROVE  LogInv'
  OBVIOUS
<1> USE LiveEventsAssumption
<1>0. /\ TypeOK
      /\ ChainInOrder
      /\ NewestInRequestOrder
  BY DEF LogInv
<1>r. \A i \in 1 .. Len(logs) : logs[i] \in Entries /\ logs[i].request \in Nat
  <2>1. logs \in Seq(Entries)
    BY <1>0 DEF TypeOK
  <2>2. \A x \in Entries : x.request \in Nat
    BY DEF Entries, Requests
  <2> QED
    BY <2>1, <2>2
<1>n. \A i \in 1 .. Len(logs) : logs[i].id = nextId - i
  BY <1>0 DEF TypeOK, NewestInRequestOrder
<1>1. CASE LogRequest
  <2>1. UNCHANGED <<paused, logs, nextId, settled, clearedAt>>
    BY <1>1 DEF LogRequest
  <2>2. made' = made + 1 /\ made' \in 0 .. MaxRequests /\ made \in Nat
    BY <1>0, <1>1 DEF LogRequest, TypeOK
  <2>3. CASE paused
    <3>1. chain' = chain
      BY <1>1, <2>3 DEF LogRequest
    <3>2. TypeOK'
      BY <1>0, <2>1, <2>2, <3>1 DEF TypeOK
    <3>3. \A i \in 1 .. Len(chain) : chain[i] \in Nat
      BY <1>0 DEF TypeOK, Requests
    <3>4. ChainInOrder'
      BY <1>0, <1>r, <2>1, <2>2, <3>1, <3>3 DEF ChainInOrder
    <3>5. NewestInRequestOrder'
      BY <1>0, <2>1 DEF NewestInRequestOrder
    <3> QED
      BY <3>2, <3>4, <3>5 DEF LogInv
  <2>4. CASE ~paused
    <3>1. chain' = Append(chain, made + 1)
      BY <1>1, <2>4 DEF LogRequest
    <3>2. /\ chain' \in Seq(Requests)
          /\ Len(chain') = Len(chain) + 1
          /\ chain'[Len(chain) + 1] = made + 1
          /\ \A i \in 1 .. Len(chain) : chain'[i] = chain[i]
      BY <1>0, <2>2, <3>1 DEF TypeOK, Requests
    <3>3. TypeOK'
      BY <1>0, <2>1, <2>2, <3>2 DEF TypeOK
    <3>4. Len(chain) \in Nat /\ \A i \in 1 .. Len(chain) : chain[i] \in Nat
      BY <1>0 DEF TypeOK, Requests
    <3>5. ChainInOrder'
      <4>1. \A i \in 1 .. Len(chain') : i \in 1 .. Len(chain) \/ i = Len(chain) + 1
        BY <3>2, <3>4
      <4>2. clearedAt' <= nextId'
        BY <1>0, <2>1 DEF ChainInOrder
      <4>3. \A i \in 1 .. Len(chain) : chain'[i] = chain[i] /\ chain[i] <= made
        BY <1>0, <3>2 DEF ChainInOrder
      <4>4. \A i \in 1 .. Len(chain') : chain'[i] <= made'
        BY <2>2, <3>2, <3>4, <4>1, <4>3
      <4>5. \A i, j \in 1 .. Len(chain') : i < j => chain'[i] < chain'[j]
        <5> SUFFICES ASSUME NEW i \in 1 .. Len(chain'), NEW j \in 1 .. Len(chain'), i < j
                     PROVE  chain'[i] < chain'[j]
          OBVIOUS
        <5>1. i \in 1 .. Len(chain)
          BY <3>2, <3>4, <4>1
        <5>2. CASE j \in 1 .. Len(chain)
          <6>1. chain[i] < chain[j]
            BY <1>0, <5>1, <5>2 DEF ChainInOrder
          <6> QED
            BY <4>3, <5>1, <5>2, <6>1
        <5>3. CASE j = Len(chain) + 1
          <6>1. chain'[i] <= made /\ chain'[i] \in Nat
            BY <3>4, <4>3, <5>1
          <6> QED
            BY <2>2, <3>2, <5>3, <6>1
        <5> QED
          BY <4>1, <5>2, <5>3
      <4>6. \A i \in 1 .. Len(logs) : logs[i].request <= made
        BY <1>0 DEF ChainInOrder
      <4>7. \A i \in 1 .. Len(logs') : logs'[i].request <= made'
        BY <1>r, <2>1, <2>2, <4>6
      <4>8. \A i \in 1 .. Len(logs'), j \in 1 .. Len(chain') :
              logs'[i].request < chain'[j]
        BY <1>0, <1>r, <2>1, <2>2, <3>2, <4>1, <4>6 DEF ChainInOrder
      <4> QED
        BY <4>2, <4>4, <4>5, <4>7, <4>8 DEF ChainInOrder
    <3>6. NewestInRequestOrder'
      BY <1>0, <2>1 DEF NewestInRequestOrder
    <3> QED
      BY <3>3, <3>5, <3>6 DEF LogInv
  <2> QED
    BY <1>0, <2>3, <2>4 DEF TypeOK
<1>2. CASE Push
  <2> DEFINE r == Head(chain)
  <2>1. /\ chain # <<>>
        /\ chain' = Tail(chain)
        /\ settled' = settled \ {r}
        /\ UNCHANGED <<paused, made, clearedAt>>
    BY <1>2 DEF Push
  <2>2. /\ chain' \in Seq(Requests)
        /\ Len(chain) \in Nat \ {0}
        /\ Len(chain') = Len(chain) - 1
        /\ \A i \in 1 .. Len(chain') : chain'[i] = chain[i + 1]
        /\ r = chain[1]
        /\ r \in Requests
    BY <1>0, <2>1 DEF TypeOK
  <2>3. \A i \in 1 .. Len(chain') : r < chain'[i]
    BY <1>0, <2>2 DEF ChainInOrder
  <2>4. r <= made
    BY <1>0, <2>2 DEF ChainInOrder
  <2>5. \A i \in 1 .. Len(logs) : logs[i].request < r
    BY <1>0, <2>2 DEF ChainInOrder
  <2>6. /\ \A i, j \in 1 .. Len(chain') : i < j => chain'[i] < chain'[j]
        /\ \A i \in 1 .. Len(chain') : chain'[i] <= made
        /\ \A i \in 1 .. Len(logs), j \in 1 .. Len(chain') : logs[i].request < chain'[j]
    BY <1>0, <2>2 DEF ChainInOrder
  <2> HIDE DEF r
  <2>7. CASE paused
    <3>1. UNCHANGED <<logs, nextId>>
      BY <1>2, <2>7 DEF Push
    <3>2. TypeOK'
      BY <1>0, <2>1, <2>2, <3>1 DEF TypeOK
    <3>3. ChainInOrder'
      BY <1>0, <2>1, <2>6, <3>1 DEF ChainInOrder
    <3>4. NewestInRequestOrder'
      BY <1>0, <2>1, <3>1 DEF NewestInRequestOrder
    <3> QED
      BY <3>2, <3>3, <3>4 DEF LogInv
  <2>8. CASE ~paused
    <3> DEFINE e == [id |-> nextId, request |-> r]
    <3>1. /\ logs' = <<e>> \o SubSeq(logs, 1, Kept)
          /\ nextId' = nextId + 1
      BY <1>2, <2>8 DEF Push, r
    <3>2. logs \in Seq(Entries) /\ Len(logs) \in Nat /\ nextId \in Nat \ {0}
      BY <1>0 DEF TypeOK
    <3>3. Kept \in 0 .. Len(logs) /\ Kept < MaxLogs
      BY <3>2 DEF Kept
    <3>4. e \in Entries /\ e.id = nextId /\ e.request = r
      BY <2>2, <3>2 DEF Entries
    <3> HIDE DEF e
    <3>5. /\ logs' \in Seq(Entries)
          /\ Len(logs') = Kept + 1
          /\ logs'[1] = e
          /\ \A i \in 2 .. Kept + 1 : logs'[i] = logs[i - 1]
      BY <3>1, <3>2, <3>3, <3>4, Prepended
    <3>6. TypeOK'
      BY <1>0, <2>1, <2>2, <3>1, <3>5 DEF TypeOK
    <3>7. \A i \in 1 .. Len(logs) : logs[i].request \in Nat
      BY <1>r
    <3>8. r \in Nat /\ made \in Nat /\ \A i \in 1 .. Len(chain') : chain'[i] \in Nat
      BY <1>0, <2>2 DEF TypeOK, Requests
    <3>9. \A i \in 1 .. Len(logs') : logs'[i].request <= made
      BY <1>0, <2>4, <3>3, <3>4, <3>5 DEF ChainInOrder
    <3>10. \A i \in 1 .. Len(logs'), j \in 1 .. Len(chain') : logs'[i].request < chain'[j]
      BY <2>3, <2>6, <3>3, <3>4, <3>5
    <3>11. ChainInOrder'
      <4>1. clearedAt' <= nextId'
        BY <1>0, <2>1, <3>1 DEF TypeOK, ChainInOrder
      <4> QED
        BY <2>1, <2>6, <3>9, <3>10, <4>1 DEF ChainInOrder
    <3>12. Len(logs') = IF nextId' - clearedAt' < MaxLogs THEN nextId' - clearedAt'
                                                          ELSE MaxLogs
      BY <1>0, <2>1, <3>1, <3>2, <3>5
      DEF TypeOK, ChainInOrder, NewestInRequestOrder, Kept
    <3>13. \A i \in 1 .. Len(logs') : logs'[i].id = nextId' - i
      <4> SUFFICES ASSUME NEW i \in 1 .. Len(logs') PROVE logs'[i].id = nextId' - i
        OBVIOUS
      <4>1. CASE i = 1
        BY <3>1, <3>2, <3>4, <3>5, <4>1
      <4>2. CASE i # 1
        <5>1. i - 1 \in 1 .. Len(logs) /\ logs'[i] = logs[i - 1]
          BY <3>2, <3>3, <3>5, <4>2
        <5>2. logs[i - 1].id = nextId - (i - 1)
          BY <1>n, <5>1
        <5>3. i \in Int /\ nextId \in Int /\ nextId' = nextId + 1
          BY <3>1, <3>2
        <5>4. nextId - (i - 1) = nextId' - i
          BY <5>3
        <5> QED
          BY <5>1, <5>2, <5>4
      <4> QED
        BY <4>1, <4>2
    <3>14. ASSUME NEW i \in 1 .. Len(logs'), NEW j \in 1 .. Len(logs'), i < j
           PROVE  logs'[i].request > logs'[j].request
      <4>1. j - 1 \in 1 .. Len(logs) /\ logs'[j] = logs[j - 1]
        BY <3>3, <3>5, <3>14
      <4>2. CASE i = 1
        BY <2>5, <3>4, <3>5, <3>7, <3>8, <4>1, <4>2
      <4>3. CASE i # 1
        <5>1. i - 1 \in 1 .. Len(logs) /\ logs'[i] = logs[i - 1] /\ i - 1 < j - 1
          BY <3>3, <3>5, <3>14, <4>3
        <5> QED
          BY <1>0, <3>2, <4>1, <5>1 DEF NewestInRequestOrder
      <4> QED
        BY <4>2, <4>3
    <3>15. NewestInRequestOrder'
      BY <3>5, <3>12, <3>13, <3>14 DEF NewestInRequestOrder
    <3> QED
      BY <3>6, <3>11, <3>15 DEF LogInv
  <2> QED
    BY <1>0, <2>7, <2>8 DEF TypeOK
<1>3. CASE Clear
  BY <1>0, <1>3
  DEF Clear, LogInv, TypeOK, ChainInOrder, NewestInRequestOrder, Entries, Requests
<1>4. CASE TogglePaused
  <2>1. paused' \in BOOLEAN
    BY <1>0, <1>4 DEF TogglePaused, TypeOK
  <2>2. UNCHANGED <<logs, nextId, made, chain, settled, clearedAt>>
    BY <1>4 DEF TogglePaused
  <2> QED
    BY <1>0, <2>1, <2>2
    DEF LogInv, TypeOK, ChainInOrder, NewestInRequestOrder
<1>5. ASSUME NEW r \in Requests, ReadBody(r) PROVE LogInv'
  BY <1>0, <1>5
  DEF ReadBody, LogInv, TypeOK, ChainInOrder, NewestInRequestOrder
<1>6. CASE UNCHANGED vars
  BY <1>0, <1>6 DEF vars, LogInv, TypeOK, ChainInOrder, NewestInRequestOrder
<1> QED
  BY <1>1, <1>2, <1>3, <1>4, <1>5, <1>6 DEF Next

\* Whatever the size of the log, and whatever is paused, cleared and read when,
\* the log is the newest entries in the order the requests were made.
THEOREM LogInOrder == Spec => [](TypeOK /\ NewestInRequestOrder)
<1>1. LogInv => TypeOK /\ NewestInRequestOrder
  BY DEF LogInv
<1> QED
  BY <1>1, LogInvInit, LogInvStep, PTL DEF Spec
=============================================================================
