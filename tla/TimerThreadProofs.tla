-------------------------- MODULE TimerThreadProofs --------------------------
(***************************************************************************)
(* What holds of the timer thread for every length of the 10 ms and of the  *)
(* 10 hours: its types, and that setTimeout between the copy of the         *)
(* deadline and the lock is the only way to sleep past a deadline to come.  *)
(***************************************************************************)
EXTENDS TimerThread, TLAPS

-----------------------------------------------------------------------------
\* Before its lock run() holds the deadline that is set, unless setTimeout came.
CopyIsFresh == tpc = "lock" /\ ~stale => wait_time_point = m_nextAlarmTimepoint

\* It need not be asleep yet: the wait that was computed is right from the lock
\* on, and setTimeout cannot come before the thread waits.
WaitIsShort ==
    tpc \in {"locked", "waiting"} /\ ~stale /\ m_nextAlarmTimepoint > 0
        => left <= m_nextAlarmTimepoint

WaitInv == CopyIsFresh /\ WaitIsShort

-----------------------------------------------------------------------------
\* The wait run() computes: the time to a deadline to come, and never longer
\* than the 10 hours.
LEMMA DurationInRange ==
  ASSUME NEW wp \in Deadline
  PROVE  Duration(wp) \in 0 .. Far /\ (wp > 0 => Duration(wp) = wp)
BY GraceAssumption, FarAssumption DEF Deadline, Duration

\* The types after a step of the timer thread.
LEMMA ThreadStepTypes ==
  ASSUME TypeOK, ThreadStep \/ SpuriousWake
  PROVE  TypeOK'
<1>1. CASE ThreadStart
  BY <1>1 DEF TypeOK, ThreadStart
<1>2. CASE ThreadCheck
  BY <1>2 DEF TypeOK, ThreadCheck, Goto
<1>3. CASE GetWaitDuration
  BY <1>3 DEF TypeOK, GetWaitDuration
<1>4. CASE ThreadLock
  <2>1. left' \in 0 .. Far
    BY <1>4, DurationInRange DEF TypeOK, ThreadLock
  <2>2. QED
    BY <1>4, <2>1 DEF TypeOK, ThreadLock
<1>5. CASE ThreadWait
  BY <1>5 DEF TypeOK, ThreadWait, Goto
<1>6. CASE Timeout \/ SpuriousWake
  BY <1>6 DEF TypeOK, Timeout, SpuriousWake, Goto
<1>7. CASE ThreadRelock
  BY <1>7 DEF TypeOK, ThreadRelock, Goto
<1>8. CASE ThreadRecheck
  BY <1>8 DEF TypeOK, ThreadRecheck, Goto
<1>9. CASE ThreadPost
  BY <1>9, MaxEventsAssumption DEF TypeOK, ThreadPost
<1>10. QED
  BY <1>1, <1>2, <1>3, <1>4, <1>5, <1>6, <1>7, <1>8, <1>9 DEF ThreadStep

\* The types after a step of the loop thread, and as time passes.
LEMMA LoopStepTypes ==
  ASSUME TypeOK, LoopStep
  PROVE  TypeOK'
<1>1. ASSUME NEW d \in Deadline, SetTimeout(d)
      PROVE  TypeOK'
  BY <1>1 DEF TypeOK, SetTimeout, NotifyAll
<1>2. CASE \E d \in Deadline : ConnectTo(d) \/ OperatorReturn(d)
  BY <1>1, <1>2 DEF ConnectTo, OperatorReturn
<1>3. CASE HandleTimerEvent
  BY <1>3, MaxEventsAssumption DEF TypeOK, HandleTimerEvent, threadVars
<1>4. CASE LastTimerRemoved
  BY <1>4 DEF TypeOK, LastTimerRemoved, threadVars
<1>5. CASE Stop
  BY <1>5 DEF TypeOK, Stop, threadVars
<1>6. CASE StopNotify
  BY <1>6 DEF TypeOK, StopNotify, NotifyAll
<1>7. CASE StopReturn
  BY <1>7 DEF TypeOK, StopReturn, threadVars
<1>8. QED
  BY <1>2, <1>3, <1>4, <1>5, <1>6, <1>7 DEF LoopStep

LEMMA TickTypes ==
  ASSUME TypeOK, Tick
  PROVE  TypeOK'
BY GraceAssumption, FarAssumption DEF TypeOK, Tick, Deadline

LEMMA TypeStep == TypeOK /\ [Next]_vars => TypeOK'
<1> SUFFICES ASSUME TypeOK, [Next]_vars
             PROVE  TypeOK'
  OBVIOUS
<1>1. CASE UNCHANGED vars
  BY <1>1 DEF TypeOK, vars, threadVars
<1>2. QED
  BY <1>1, ThreadStepTypes, LoopStepTypes, TickTypes DEF Next

-----------------------------------------------------------------------------
\* The wait stays right while the thread goes from the copy to its sleep.
LEMMA WaitStep == TypeOK /\ WaitInv /\ [Next]_vars => WaitInv'
<1> SUFFICES ASSUME TypeOK, WaitInv, [Next]_vars
             PROVE  WaitInv'
  OBVIOUS
<1>1. CASE ThreadStart
  BY <1>1 DEF WaitInv, CopyIsFresh, WaitIsShort, ThreadStart
<1>2. CASE ThreadCheck \/ Timeout \/ SpuriousWake \/ ThreadRelock \/ ThreadRecheck
  BY <1>2 DEF WaitInv, CopyIsFresh, WaitIsShort, ThreadCheck, Timeout, SpuriousWake,
              ThreadRelock, ThreadRecheck, Goto
<1>3. CASE GetWaitDuration
  BY <1>3 DEF WaitInv, CopyIsFresh, WaitIsShort, GetWaitDuration
<1>4. CASE ThreadLock
  <2>1. CopyIsFresh'
    BY <1>4 DEF CopyIsFresh, ThreadLock
  <2>2. ASSUME ~stale, m_nextAlarmTimepoint > 0
        PROVE  left' = m_nextAlarmTimepoint
    <3>1. wait_time_point = m_nextAlarmTimepoint
      BY <1>4, <2>2 DEF WaitInv, CopyIsFresh, ThreadLock
    <3>2. Duration(wait_time_point) = wait_time_point
      BY <2>2, <3>1, DurationInRange DEF TypeOK
    <3>3. QED
      BY <1>4, <3>1, <3>2 DEF ThreadLock
  <2>3. WaitIsShort'
    BY <1>4, <2>2 DEF WaitIsShort, ThreadLock, TypeOK, Deadline
  <2>4. QED
    BY <2>1, <2>3 DEF WaitInv
<1>5. CASE ThreadWait
  BY <1>5 DEF WaitInv, CopyIsFresh, WaitIsShort, ThreadWait, Goto
<1>6. CASE ThreadPost
  BY <1>6 DEF WaitInv, CopyIsFresh, WaitIsShort, ThreadPost
<1>7. ASSUME NEW d \in Deadline, SetTimeout(d)
      PROVE  WaitInv'
  BY <1>7 DEF WaitInv, CopyIsFresh, WaitIsShort, SetTimeout, NotifyAll, MutexHeld, TypeOK
<1>8. CASE \E d \in Deadline : ConnectTo(d) \/ OperatorReturn(d)
  BY <1>7, <1>8 DEF ConnectTo, OperatorReturn
<1>9. CASE HandleTimerEvent \/ LastTimerRemoved \/ Stop \/ StopReturn \/ UNCHANGED vars
  BY <1>9 DEF WaitInv, CopyIsFresh, WaitIsShort, HandleTimerEvent, LastTimerRemoved, Stop,
              StopReturn, threadVars, vars
<1>10. CASE StopNotify
  BY <1>10 DEF WaitInv, CopyIsFresh, WaitIsShort, StopNotify, NotifyAll
<1>11. CASE Tick
  <2>1. CopyIsFresh'
    BY <1>11 DEF WaitInv, CopyIsFresh, Tick
  <2>2. WaitIsShort'
    BY <1>11, GraceAssumption, FarAssumption DEF WaitInv, WaitIsShort, Tick, TypeOK, Deadline
  <2>3. QED
    BY <2>1, <2>2 DEF WaitInv
<1>12. QED
  BY <1>1, <1>2, <1>3, <1>4, <1>5, <1>6, <1>8, <1>9, <1>10, <1>11 DEF Next, ThreadStep, LoopStep

LEMMA InitHolds == Init => TypeOK /\ WaitInv
<1>1. Init => TypeOK
  <2>1. Far \in Deadline /\ 0 \in 0 .. Far /\ 0 \in 0 .. MaxEvents
    BY GraceAssumption, FarAssumption, MaxEventsAssumption DEF Deadline
  <2>2. QED
    BY <2>1 DEF Init, TypeOK
<1>2. Init => WaitInv
  BY DEF Init, WaitInv, CopyIsFresh, WaitIsShort
<1>3. QED
  BY <1>1, <1>2

\* TimerImpl::run loses a notification in one window only
\* (src/Zhen/PageManager.cpp:26-120), however long the waits.
THEOREM OnlyOneWindow == Spec => []TimerThreadInv
<1>1. TypeOK /\ WaitInv => TimerThreadInv
  BY DEF TimerThreadInv, OnlyWindowOversleeps, WaitInv, WaitIsShort
<1>2. QED
  BY <1>1, InitHolds, TypeStep, WaitStep, PTL DEF Spec
=============================================================================
