------------------------ MODULE WorkerHeartbeatProofs -----------------------
(***************************************************************************)
(* The liveness contract of the worker for every heartbeat, stale age,     *)
(* grace and insert timeout: proofs about WorkerHeartbeat.                 *)
(*                                                                         *)
(* None of the properties is inductive.  What they rest on is how the      *)
(* clocks run together: ClocksAgree says what busy is made of in each      *)
(* phase, NotMarkedLater that the file is at least as old as the stall,    *)
(* Withheld why it is older than one heartbeat, and LostOnly how old       *)
(* failed writes alone can make it.                                        *)
(***************************************************************************)
EXTENDS WorkerHeartbeat, TLAPS

\* The step clock is off outside steps, and in a step it adds up the insert in
\* progress and what was done outside inserts since it was last restarted.
ClocksAgree ==
  /\ HasHeartbeat /\ ~Busy => busy = 0 /\ other = 0
  /\ phase = "step" => busy = other
  /\ phase = "insert" => busy = other + insertFor
  /\ HasHeartbeat => busy <= longest

\* The file was last written no later than when the step passed the threshold.
NotMarkedLater == HasHeartbeat => busy <= StallThreshold + age

\* A file older than the current heartbeat, with no write lost, means that the
\* last heartbeat was withheld: the step is still the one that stalled, or its
\* clock was restarted since.
Withheld ==
  HasHeartbeat /\ marked /\ lost = 0 /\ age > Heartbeat - wake =>
    /\ longest > StallThreshold + age + wake - 2 * Heartbeat
    /\ \/ busy <= Heartbeat - wake
       \/ busy > StallThreshold + age - Heartbeat

\* Without a stall, only lost writes make the file older than a heartbeat.
LostOnly ==
  HasHeartbeat /\ marked /\ longest <= StallThreshold =>
    age + wake <= lost * Heartbeat + Heartbeat

HeartbeatInv ==
  /\ TypeOK
  /\ ClocksAgree
  /\ NotMarkedLater
  /\ Withheld
  /\ LostOnly

LEMMA HeartbeatInvInit == Init => HeartbeatInv
<1> SUFFICES ASSUME Init PROVE HeartbeatInv
  OBVIOUS
<1>1. TypeOK
  <2>1. marked \in BOOLEAN
    BY DEF Init
  <2>2. /\ phase = "down"
        /\ busy = 0 /\ insertFor = 0 /\ slept = 0 /\ wake = 0
        /\ age = Stale + 1
        /\ lost = 0 /\ longest = 0 /\ other = 0
    BY DEF Init
  <2> QED
    BY <2>1, <2>2, WorkerHeartbeatAssumption DEF TypeOK
<1>2. ~HasHeartbeat /\ ~Busy
  BY DEF Init, HasHeartbeat, Busy
<1>3. phase \notin {"step", "insert"}
  BY DEF Init
<1> QED
  BY <1>1, <1>2, <1>3
  DEF HeartbeatInv, ClocksAgree, NotMarkedLater, Withheld, LostOnly

\* One heartbeat more is one write lost more.
LEMMA OneMoreLost ==
  ASSUME NEW n \in Nat, NEW h \in Nat
  PROVE  /\ n * h \in Nat
         /\ (n + 1) * h = n * h + h
BY Z3

LEMMA HeartbeatInvStep == HeartbeatInv /\ [Next]_vars => HeartbeatInv'
<1> SUFFICES ASSUME HeartbeatInv, [Next]_vars
             PROVE  HeartbeatInv'
  OBVIOUS
<1> USE WorkerHeartbeatAssumption DEF StallThreshold
<1> DEFINE Age == lost * Heartbeat
<1>0. /\ Age \in Nat
      /\ (lost + 1) * Heartbeat = Age + Heartbeat
      /\ lost = 0 => Age = 0
      /\ 0 * Heartbeat = 0
  BY OneMoreLost DEF HeartbeatInv, TypeOK
<1>1. CASE Start
  <2>1. marked' \in BOOLEAN /\ ~marked'
    BY <1>1 DEF Start
  <2>2. /\ phase' = "idle"
        /\ busy' = 0 /\ insertFor' = 0 /\ slept' = 0 /\ wake' = 0
        /\ age' = age
        /\ lost' = 0 /\ longest' = 0 /\ other' = 0
    BY <1>1 DEF Start, RestartClock
  <2> QED
    BY <2>1, <2>2 DEF HeartbeatInv, TypeOK, ClocksAgree, NotMarkedLater,
       Withheld, LostOnly, HasHeartbeat, Busy
<1>2. CASE Beat
  <2>1. CASE busy <= StallThreshold /\ MarkAlive
    BY <1>0, <1>2, <2>1 DEF Beat, MarkAlive, loopVars, HeartbeatInv, TypeOK,
       ClocksAgree, NotMarkedLater, Withheld, LostOnly, HasHeartbeat, Busy
  <2>2. CASE busy <= StallThreshold /\ lost' = lost + 1 /\ UNCHANGED <<age, marked>>
    BY <1>0, <1>2, <2>2 DEF Beat, loopVars, HeartbeatInv, TypeOK, ClocksAgree,
       NotMarkedLater, Withheld, LostOnly, HasHeartbeat, Busy
  <2>3. CASE busy > StallThreshold /\ UNCHANGED fileVars
    BY <1>0, <1>2, <2>3 DEF Beat, loopVars, fileVars, HeartbeatInv, TypeOK,
       ClocksAgree, NotMarkedLater, Withheld, LostOnly, HasHeartbeat, Busy
  <2> QED
    BY <1>2, <2>1, <2>2, <2>3 DEF Beat, HeartbeatInv, TypeOK
<1>3. CASE BeginStep
  BY <1>0, <1>3 DEF BeginStep, RestartClock, fileVars, HeartbeatInv, TypeOK,
     ClocksAgree, NotMarkedLater, Withheld, LostOnly, HasHeartbeat, Busy
<1>4. CASE BeginInsert
  BY <1>0, <1>4 DEF BeginInsert, fileVars, HeartbeatInv, TypeOK, ClocksAgree,
     NotMarkedLater, Withheld, LostOnly, HasHeartbeat, Busy
<1>5. CASE EndInsert
  BY <1>0, <1>5 DEF EndInsert, RestartClock, fileVars, HeartbeatInv, TypeOK,
     ClocksAgree, NotMarkedLater, Withheld, LostOnly, HasHeartbeat, Busy
<1>6. CASE EndStep
  BY <1>0, <1>6 DEF EndStep, RestartClock, fileVars, HeartbeatInv, TypeOK,
     ClocksAgree, NotMarkedLater, Withheld, LostOnly, HasHeartbeat, Busy
<1>7. CASE EndBackoff
  <2>1. CASE MarkAlive
    BY <1>0, <1>7, <2>1 DEF EndBackoff, MarkAlive, HeartbeatInv, TypeOK,
       ClocksAgree, NotMarkedLater, Withheld, LostOnly, HasHeartbeat, Busy
  <2>2. CASE UNCHANGED fileVars
    BY <1>0, <1>7, <2>2 DEF EndBackoff, fileVars, HeartbeatInv, TypeOK,
       ClocksAgree, NotMarkedLater, Withheld, LostOnly, HasHeartbeat, Busy
  <2> QED
    BY <1>7, <2>1, <2>2 DEF EndBackoff
<1>8. CASE Stop
  BY <1>8 DEF Stop, fileVars, HeartbeatInv, TypeOK, ClocksAgree,
     NotMarkedLater, Withheld, LostOnly, HasHeartbeat, Busy
<1>9. CASE Exit
  BY <1>9 DEF Exit, fileVars, HeartbeatInv, TypeOK, ClocksAgree,
     NotMarkedLater, Withheld, LostOnly, HasHeartbeat, Busy
<1>10. CASE Tick
  <2>1. TypeOK'
    BY <1>10 DEF Tick, HeartbeatInv, TypeOK, HasHeartbeat, Busy
  <2>2. ClocksAgree'
    BY <1>10 DEF Tick, HeartbeatInv, TypeOK, ClocksAgree, HasHeartbeat, Busy
  <2>3. NotMarkedLater'
    BY <1>10 DEF Tick, HeartbeatInv, TypeOK, NotMarkedLater, HasHeartbeat, Busy
  <2>4. Withheld'
    BY <1>10 DEF Tick, HeartbeatInv, TypeOK, ClocksAgree, Withheld,
       HasHeartbeat, Busy
  <2>5. LostOnly'
    BY <1>0, <1>10 DEF Tick, HeartbeatInv, TypeOK, LostOnly, HasHeartbeat, Busy
  <2> QED
    BY <2>1, <2>2, <2>3, <2>4, <2>5 DEF HeartbeatInv
<1>11. CASE UNCHANGED vars
  BY <1>11 DEF vars, loopVars, fileVars, HeartbeatInv, TypeOK, ClocksAgree,
     NotMarkedLater, Withheld, LostOnly, HasHeartbeat, Busy
<1> QED
  BY <1>1, <1>2, <1>3, <1>4, <1>5, <1>6, <1>7, <1>8, <1>9, <1>10, <1>11
  DEF Next

\* The strengthened invariant holds of every state of the worker and the file.
THEOREM ClocksRunTogether == Spec => []HeartbeatInv
BY HeartbeatInvInit, HeartbeatInvStep, PTL DEF Spec

\* The loop's clock, the file's marks and the counters keep their types.
THEOREM TypeCorrect == Spec => []TypeOK
<1>1. HeartbeatInv => TypeOK
  BY DEF HeartbeatInv
<1> QED
  BY <1>1, ClocksRunTogether, PTL

\* A step that never ends is always found out by the healthcheck.
THEOREM StallsAreDetected == Spec => []StallDetected
<1>1. HeartbeatInv => StallDetected
  BY WorkerHeartbeatAssumption DEF HeartbeatInv, TypeOK, NotMarkedLater,
     StallDetected, StallThreshold, Alive
<1> QED
  BY <1>1, ClocksRunTogether, PTL

\* No worker is reported dead before one of its steps has really stalled.
THEOREM NoFalseAlarms == Spec => []NoFalseAlarm
<1>1. HeartbeatInv => NoFalseAlarm
  BY WorkerHeartbeatAssumption DEF HeartbeatInv, TypeOK, Withheld,
     NoFalseAlarm, StallThreshold, Alive
<1> QED
  BY <1>1, ClocksRunTogether, PTL

\* However many inserts a step makes, it stalls only by what it does between
\* them.
THEOREM SplitsAreNoStalls == Spec => []StallMeansSlowSettling
<1>1. HeartbeatInv => StallMeansSlowSettling
  BY WorkerHeartbeatAssumption DEF HeartbeatInv, TypeOK, ClocksAgree,
     StallMeansSlowSettling, StallThreshold, HasHeartbeat, Busy
<1> QED
  BY <1>1, ClocksRunTogether, PTL

\* Failed writes age the file by one heartbeat each.
THEOREM LostWritesBounded == Spec => []LostWritesTolerated
<1>1. HeartbeatInv => LostWritesTolerated
  <2> SUFFICES ASSUME HeartbeatInv, HasHeartbeat, marked, longest <= StallThreshold
               PROVE  age <= (lost + 1) * Heartbeat
    BY DEF LostWritesTolerated
  <2>1. (lost + 1) * Heartbeat = lost * Heartbeat + Heartbeat
    BY OneMoreLost, WorkerHeartbeatAssumption DEF HeartbeatInv, TypeOK
  <2>2. lost * Heartbeat \in Nat
    BY OneMoreLost, WorkerHeartbeatAssumption DEF HeartbeatInv, TypeOK
  <2> QED
    BY <2>1, <2>2, WorkerHeartbeatAssumption
    DEF HeartbeatInv, TypeOK, LostOnly
<1> QED
  BY <1>1, ClocksRunTogether, PTL
=============================================================================
