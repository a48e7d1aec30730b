---------------------------- MODULE TimerThread ----------------------------
(***************************************************************************)
(* The timer thread of Zhen (struct TimerImpl, src/Zhen/PageManager.cpp):   *)
(* TimerImpl::run on its own thread; setTimeout and stop are called by the  *)
(* loop thread.  m_mutex and m_condition join them.                         *)
(*                                                                         *)
(* Time is relative: every deadline is the time left until it, a Tick ages  *)
(* all of them, and a deadline that is Grace (10 ms) or more in the past    *)
(* stays at -Grace, since run() does not tell such deadlines apart.  Far    *)
(* stands for the two waits that outlast every timer of an application, the *)
(* 10 hours of run() and UINT_MAX milliseconds.  Nobody is ever prompt: any *)
(* number of Ticks may fall between two steps of a thread.                  *)
(***************************************************************************)
EXTENDS Integers

CONSTANTS
    Grace,       \* 10 milliseconds
    Far,         \* 10 hours
    MaxEvents    \* bound of the model: timer events counted in the queue

ASSUME GraceAssumption == Grace \in Nat \ {0}
ASSUME FarAssumption == Far \in Nat /\ Far > Grace
ASSUME MaxEventsAssumption == MaxEvents \in Nat \ {0}

VARIABLES
    m_nextAlarmTimepoint,
    m_running_flag,
    m_stopFuture,      \* whether run() has made it valid
    tpc,               \* where the timer thread is in run()
    wait_time_point,   \* run()'s copy of the deadline
    left,              \* time until `duration` has passed since `start`
    events,            \* timer events posted to PageManager, not yet handled
    lpc,               \* where the loop thread is
    armed,             \* whether the last deadline set stands for a timer
    stale              \* history: a deadline was set after run() copied it

threadVars == <<tpc, wait_time_point, left>>
vars == <<m_nextAlarmTimepoint, m_running_flag, m_stopFuture, threadVars, events,
          lpc, armed, stale>>

Deadline == -Grace .. Far

TypeOK ==
    /\ m_nextAlarmTimepoint \in Deadline
    /\ m_running_flag \in BOOLEAN
    /\ m_stopFuture \in BOOLEAN
    /\ tpc \in {"init", "check", "read", "lock", "locked", "waiting", "woken",
                "recheck", "post", "done"}
    /\ wait_time_point \in Deadline
    /\ left \in 0 .. Far
    /\ events \in 0 .. MaxEvents
    /\ lpc \in {"idle", "handling", "notify", "join", "returned"}
    /\ armed \in BOOLEAN
    /\ stale \in BOOLEAN

Init ==
    /\ m_nextAlarmTimepoint = Far
    /\ m_running_flag = TRUE
    /\ m_stopFuture = FALSE
    /\ tpc = "init"
    /\ wait_time_point = Far
    /\ left = 0
    /\ events = 0
    /\ lpc = "idle"
    /\ armed = FALSE
    /\ stale = FALSE

\* run() holds m_mutex from its lock to the end of the iteration, except
\* inside wait_for; the sections of the other functions are single steps.
MutexHeld == tpc \in {"locked", "recheck", "post"}

Goto(place) ==
    /\ tpc' = place
    /\ UNCHANGED <<m_nextAlarmTimepoint, m_running_flag, m_stopFuture,
                   wait_time_point, left, events, lpc, armed, stale>>

NotifyAll == tpc' = IF tpc = "waiting" THEN "woken" ELSE tpc

(***************************************************************************)
(* TimerImpl::run                                                          *)
(***************************************************************************)
ThreadStart ==
    /\ tpc = "init"
    /\ m_stopFuture' = TRUE
    /\ tpc' = "check"
    /\ UNCHANGED <<m_nextAlarmTimepoint, m_running_flag, wait_time_point, left,
                   events, lpc, armed, stale>>

\* A slip: the thread does not look at m_running_flag.
ThreadCheckNothing ==
    /\ tpc = "check"
    /\ Goto("read")

ThreadCheck ==
    /\ tpc = "check"
    /\ Goto(IF m_running_flag THEN "read" ELSE "done")

\* getWaitDuration locks, copies and unlocks
GetWaitDuration ==
    /\ tpc = "read"
    /\ wait_time_point' = m_nextAlarmTimepoint
    /\ stale' = FALSE
    /\ tpc' = "lock"
    /\ UNCHANGED <<m_nextAlarmTimepoint, m_running_flag, m_stopFuture, left,
                   events, lpc, armed>>

\* A deadline in the future is waited for; one less than 10 ms in the past is
\* waited for as long again; any older one counts as "nothing to wait for".
Duration(wp) ==
    IF wp > 0 THEN wp
    ELSE IF -wp < Grace THEN -wp
    ELSE Far

ThreadLock ==
    /\ tpc = "lock"
    /\ left' = Duration(wait_time_point)
    /\ tpc' = "locked"
    /\ UNCHANGED <<m_nextAlarmTimepoint, m_running_flag, m_stopFuture,
                   wait_time_point, events, lpc, armed, stale>>

ThreadWait ==
    /\ tpc = "locked"
    /\ Goto("waiting")

Timeout ==
    /\ tpc = "waiting"
    /\ left = 0
    /\ Goto("woken")

SpuriousWake ==
    /\ tpc = "waiting"
    /\ left > 0
    /\ Goto("woken")

\* wait_for has the mutex again and returns
ThreadRelock ==
    /\ tpc = "woken"
    /\ Goto("recheck")

\* A slip: <= for <.
ThreadRecheckEqual ==
    /\ tpc = "recheck"
    /\ Goto(IF left >= 0 THEN "check" ELSE "post")

ThreadRecheck ==
    /\ tpc = "recheck"
    /\ Goto(IF left > 0 THEN "check" ELSE "post")

\* PostEvent of Timer::operator(); the count stops at MaxEvents
ThreadPost ==
    /\ tpc = "post"
    /\ events' = IF events < MaxEvents THEN events + 1 ELSE events
    /\ tpc' = "check"
    /\ UNCHANGED <<m_nextAlarmTimepoint, m_running_flag, m_stopFuture,
                   wait_time_point, left, lpc, armed, stale>>

\* A slip: setTimeout does not notify.
SetTimeoutSilently(d) ==
    /\ ~MutexHeld
    /\ m_nextAlarmTimepoint' = d
    /\ armed' = (d # Far)
    /\ stale' = (tpc = "lock" \/ stale)
    /\ lpc' = "idle"
    /\ UNCHANGED <<m_running_flag, m_stopFuture, threadVars, events>>

(***************************************************************************)
(* The loop thread: setTimeout, from Timer::connectTo or at the end of      *)
(* Timer::operator(), and stop, at the end of PageManager::run.             *)
(***************************************************************************)
SetTimeout(d) ==
    /\ ~MutexHeld
    /\ m_nextAlarmTimepoint' = d
    /\ armed' = (d # Far)
    /\ stale' = (tpc = "lock" \/ stale)
    /\ lpc' = "idle"
    /\ NotifyAll
    /\ UNCHANGED <<m_running_flag, m_stopFuture, wait_time_point, left, events>>

\* connectTo sets a deadline for the first timer, or one that comes before all
\* others
ConnectTo(d) ==
    /\ lpc = "idle"
    /\ d >= 0
    /\ armed => d < m_nextAlarmTimepoint
    /\ SetTimeout(d)

\* operator() has run the timers that were due and sets the next deadline,
\* which may have passed while it ran; UINT_MAX when there was no timer
OperatorReturn(d) ==
    /\ lpc = "handling"
    /\ SetTimeout(d)

HandleTimerEvent ==
    /\ lpc = "idle"
    /\ events > 0
    /\ events' = events - 1
    /\ lpc' = "handling"
    /\ UNCHANGED <<m_nextAlarmTimepoint, m_running_flag, m_stopFuture, threadVars,
                   armed, stale>>

\* operator() removed the last timer: the old deadline is left in place
LastTimerRemoved ==
    /\ lpc = "handling"
    /\ lpc' = "idle"
    /\ armed' = FALSE
    /\ UNCHANGED <<m_nextAlarmTimepoint, m_running_flag, m_stopFuture, threadVars,
                   events, stale>>

Stop ==
    /\ lpc = "idle"
    /\ m_running_flag' = FALSE
    /\ lpc' = "notify"
    /\ UNCHANGED <<m_nextAlarmTimepoint, m_stopFuture, threadVars, events, armed,
                   stale>>

StopNotify ==
    /\ lpc = "notify"
    /\ NotifyAll
    /\ lpc' = IF m_stopFuture THEN "join" ELSE "returned"
    /\ UNCHANGED <<m_nextAlarmTimepoint, m_running_flag, m_stopFuture,
                   wait_time_point, left, events, armed, stale>>

StopReturn ==
    /\ lpc = "join"
    /\ tpc = "done"
    /\ lpc' = "returned"
    /\ UNCHANGED <<m_nextAlarmTimepoint, m_running_flag, m_stopFuture, threadVars,
                   events, armed, stale>>

Tick ==
    /\ m_nextAlarmTimepoint' =
          IF m_nextAlarmTimepoint > -Grace THEN m_nextAlarmTimepoint - 1 ELSE -Grace
    /\ wait_time_point' =
          IF wait_time_point > -Grace THEN wait_time_point - 1 ELSE -Grace
    /\ left' = IF left > 0 THEN left - 1 ELSE 0
    /\ UNCHANGED <<m_running_flag, m_stopFuture, tpc, events, lpc, armed, stale>>

ThreadStep ==
    \/ ThreadStart \/ ThreadCheck \/ GetWaitDuration \/ ThreadLock \/ ThreadWait
    \/ Timeout \/ ThreadRelock \/ ThreadRecheck \/ ThreadPost

LoopStep ==
    \/ \E d \in Deadline : ConnectTo(d) \/ OperatorReturn(d)
    \/ HandleTimerEvent \/ LastTimerRemoved
    \/ Stop \/ StopNotify \/ StopReturn

Next == ThreadStep \/ LoopStep \/ SpuriousWake \/ Tick

Spec == Init /\ [][Next]_vars

\* Time passes and the timer thread runs; the loop thread finishes a stop()
\* it has begun.  Spurious wake-ups are not for ever: each of them restarts
\* the 10 hours of an overdue deadline.
Fairness ==
    /\ WF_vars(Tick)
    /\ WF_vars(ThreadStep)
    /\ WF_vars(StopNotify \/ StopReturn)
    /\ <>[][~SpuriousWake]_vars

FairSpec == Spec /\ Fairness

-----------------------------------------------------------------------------
\* A notification is lost in one place only: setTimeout between the copy in
\* getWaitDuration and the lock that follows it.  Otherwise the thread never
\* sleeps past a deadline that is still to come.
OnlyWindowOversleeps ==
    tpc = "waiting" /\ ~stale /\ m_nextAlarmTimepoint > 0
        => left <= m_nextAlarmTimepoint

\* Types, and the one place where the thread may oversleep.
TimerThreadInv == TypeOK /\ OnlyWindowOversleeps

\* Late as it may be, a timer that is due is announced to the loop in the end,
\* unless it is replaced first or the thread is stopped.
DueIsPosted ==
    (armed /\ m_nextAlarmTimepoint <= 0)
        ~> (events > 0 \/ ~armed \/ m_nextAlarmTimepoint > 0 \/ ~m_running_flag)

\* stop() returns although its store and its notification do not take m_mutex:
\* a notification that comes too early costs a wait, never the join.
StopTerminates == (lpc = "notify") ~> (lpc = "returned")

\* "It then creates another marked event to trip at the necessary time"
\* (src/Zhen/GeneralTimer.cpp:154): a thread asleep while a timer is armed and
\* no event is under way wakes up by the deadline.
TripsAtNecessaryTime ==
    tpc = "waiting" /\ armed /\ m_nextAlarmTimepoint > 0
        => left <= m_nextAlarmTimepoint

\* The same for a deadline that has passed before run() looked at it.
TripsWhenOverdue ==
    tpc = "waiting" /\ armed /\ m_nextAlarmTimepoint <= 0 /\ ~stale
        /\ events = 0 /\ lpc = "idle"
        => left < Grace

=============================================================================
