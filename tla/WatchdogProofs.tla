--------------------------- MODULE WatchdogProofs ---------------------------
(***************************************************************************)
(* For any number of runs: at most one progress line of a run follows its  *)
(* outcome.  A told run is stopped, so a thread that sent a late line can  *)
(* only find the event set when it wakes.                                  *)
(***************************************************************************)
EXTENDS Watchdog, TLAPS

\* Where the dispatcher stands in the stop of its run.
StopOK ==
  /\ stopped \subseteq 1 .. run /\ told \subseteq stopped
  /\ pc = "settle" => run \in stopped /\ run \in Run

\* A late line is the last one: its thread has only the stop left to see.
LateOK ==
  \A r \in Run :
    late[r] = 0 \/ (late[r] = 1 /\ r \in told /\ dog[r] \in {"waiting", "done"})

IInv == TypeOK /\ StopOK /\ LateOK /\ (pc # "idle" => run \in Run)

LEMMA InitIInv == Init => IInv
  BY WatchdogAssumption DEF Init, IInv, TypeOK, StopOK, LateOK, Run

\* The steps of the dispatcher leave the lines alone and only add to told.
LEMMA DispatcherStep == IInv /\ Dispatcher => IInv'
<1> SUFFICES ASSUME IInv, Dispatcher PROVE IInv'
  OBVIOUS
<1> USE WatchdogAssumption DEF IInv, Run
<1>1. CASE StartWatchdog
  <2>1. run + 1 \in Run /\ run + 1 \notin told
    BY <1>1 DEF StartWatchdog, TypeOK, StopOK
  <2>2. TypeOK'
    BY <1>1, <2>1 DEF StartWatchdog, TypeOK
  <2>3. StopOK'
    BY <1>1, <2>1 DEF StartWatchdog, StopOK, TypeOK
  <2>4. LateOK'
    BY <1>1, <2>1 DEF StartWatchdog, LateOK, TypeOK
  <2> QED
    BY <1>1, <2>1, <2>2, <2>3, <2>4 DEF StartWatchdog
<1>2. CASE PopStop
  BY <1>2 DEF PopStop, TypeOK, StopOK, LateOK
<1>3. CASE SetStop
  BY <1>3 DEF SetStop, TypeOK, StopOK, LateOK
<1>4. CASE TellOutcome
  BY <1>4 DEF TellOutcome, TypeOK, StopOK, LateOK
<1> QED
  BY <1>1, <1>2, <1>3, <1>4 DEF Dispatcher

\* The steps of the thread of run r.
LEMMA DogStep == ASSUME NEW r \in Run, IInv, Dog(r) PROVE IInv'
<1> USE DEF IInv
<1>1. CASE Wake(r)
  <2>1. TypeOK'
    BY <1>1 DEF Wake, Becomes, TypeOK
  <2>2. LateOK'
    BY <1>1 DEF Wake, Becomes, TypeOK, StopOK, LateOK
  <2> QED
    BY <1>1, <2>1, <2>2 DEF Wake, StopOK
<1>2. CASE CheckRegistered(r)
  <2>1. TypeOK'
    BY <1>2 DEF CheckRegistered, Becomes, TypeOK
  <2>2. LateOK'
    BY <1>2 DEF CheckRegistered, Becomes, TypeOK, LateOK
  <2> QED
    BY <1>2, <2>1, <2>2 DEF CheckRegistered, StopOK
<1>3. CASE CollectFacts(r)
  <2>1. TypeOK'
    BY <1>3 DEF CollectFacts, Becomes, TypeOK
  <2>2. LateOK'
    BY <1>3 DEF CollectFacts, Becomes, TypeOK, LateOK
  <2> QED
    BY <1>3, <2>1, <2>2 DEF CollectFacts, StopOK
<1>4. CASE SendLine(r)
  <2>1. late[r] = 0
    BY <1>4 DEF SendLine, LateOK
  <2>2. TypeOK'
    BY <1>4 DEF SendLine, Becomes, Count, TypeOK
  <2>3. LateOK'
    BY <1>4, <2>1 DEF SendLine, Becomes, Count, TypeOK, LateOK
  <2> QED
    BY <1>4, <2>2, <2>3 DEF SendLine, StopOK
<1> QED
  BY <1>1, <1>2, <1>3, <1>4 DEF Dog

\* However the check of a watchdog and the stop of its run interleave, at most
\* one progress line of a run follows its outcome.
THEOREM OneLateLineHolds == Spec => []OneLateLine
<1>1. IInv /\ [Next]_vars => IInv'
  <2> SUFFICES ASSUME IInv, [Next]_vars PROVE IInv'
    OBVIOUS
  <2>1. CASE UNCHANGED vars
    BY <2>1 DEF vars, IInv, TypeOK, StopOK, LateOK, Run
  <2> QED
    BY <2>1, DispatcherStep, DogStep DEF Next
<1>2. IInv => OneLateLine
  BY DEF IInv, LateOK, OneLateLine
<1> QED
  BY InitIInv, <1>1, <1>2, PTL DEF Spec
=============================================================================
