--------------------------- MODULE DataRepertoryProofs -------------------------
(***************************************************************************)
(* For any number of threads and of calls of push(): nothing is taken from *)
(* an empty list, and while there are items some thread is awake.          *)
(***************************************************************************)
EXTENDS DataRepertory, TLAPS

\* The inductive invariant.
IInv == TypeOK /\ NotAllAsleep

LEMMA InitIInv == Init => IInv
  BY RepertoryAssumption DEF Init, IInv, TypeOK, NotAllAsleep, Calls

LEMMA StepIInv == ASSUME IInv, [Next]_vars PROVE IInv'
<1>. USE RepertoryAssumption DEF IInv, TypeOK
<1>1. CASE Push
  <2>1. TypeOK'
    BY <1>1 DEF Push, ThreadGoes
  <2>2. \E t \in Threads : thread'[t] # "waiting"
    <3>1. CASE \E t \in Threads : ThreadGoes(t, "waiting", "woken")
      BY <3>1 DEF ThreadGoes
    <3>2. CASE (\A t \in Threads : thread[t] # "waiting") /\ UNCHANGED thread
      BY <3>2
    <3>. QED
      BY <1>1, <3>1, <3>2 DEF Push
  <2>. QED
    BY <2>1, <2>2 DEF NotAllAsleep
<1>2. ASSUME NEW t \in Threads, NEW f \in Calls, Take(t, f)
      PROVE  IInv'
  <2>1. TypeOK' /\ thread' = [thread EXCEPT ![t] = "idle"]
    BY <1>2 DEF Take, ThreadGoes
  <2>. QED
    BY <2>1 DEF NotAllAsleep
<1>3. ASSUME NEW t \in Threads, NEW f \in Calls, Wait(t, f)
      PROVE  IInv'
  BY <1>3 DEF Wait, ThreadGoes, NotAllAsleep
<1>4. ASSUME NEW t \in Threads, Miss(t)
      PROVE  IInv'
  BY <1>4 DEF Miss, ThreadGoes, NotAllAsleep
<1>5. ASSUME NEW t \in Threads, WakeSpuriously(t)
      PROVE  IInv'
  BY <1>5 DEF WakeSpuriously, ThreadGoes, NotAllAsleep
<1>6. CASE UNCHANGED vars
  BY <1>6 DEF vars, NotAllAsleep
<1>. QED
  BY <1>1, <1>2, <1>3, <1>4, <1>5, <1>6 DEF Next, ThreadStep

LEMMA Invariance == Spec => []IInv
<1>1. IInv /\ [Next]_vars => IInv'
  BY StepIInv
<1>. QED
  BY InitIInv, <1>1, PTL DEF Spec

\* Nothing is taken from an empty list (test_thread_waitcond.cpp:30-38, 50-53).
THEOREM TypeCorrect == Spec => []TypeOK
  BY Invariance, PTL DEF IInv

\* One signal for four items leaves no item among sleepers (lines 75-79).
THEOREM SomeoneAwake == Spec => []NotAllAsleep
  BY Invariance, PTL DEF IInv
===============================================================================
