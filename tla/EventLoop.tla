----------------------------- MODULE EventLoop -----------------------------
(***************************************************************************)
(* The event loop of Zhen (src/Zhen/PageManager.cpp): PageManager::run on   *)
(* the loop thread, PageManager::PostEvent on any thread, and               *)
(* PageManager::quit, over one mutex and one condition variable.            *)
(* A mutex acquisition, the atomic release of condition_variable::wait and  *)
(* a notification are steps of their own, so every interleaving of the loop *)
(* with the posting threads (keyboard reader, timer thread, callbacks of    *)
(* the Bluetooth stack) is a behaviour.                                     *)
(*                                                                         *)
(* An event is a shared_ptr created for one PostEvent, so an identity in    *)
(* Events is posted at most once.                                           *)
(***************************************************************************)
EXTENDS Naturals, Sequences

CONSTANTS
    Posters,      \* threads other than the loop thread that call PostEvent
    Loop,         \* the thread that calls PageManager::run
    Free,         \* value of the mutex when nobody holds it
    Events,       \* identities of the events
    QuitEvents,   \* events whose handler calls PageManager::quit (menu.cpp)
    QuitCallers   \* other threads that call quit; the repository has none

Threads == Posters \cup {Loop}

ASSUME ThreadsAssumption ==
    /\ Loop \notin Posters
    /\ Free \notin Threads

ASSUME QuitAssumption ==
    /\ QuitEvents \subseteq Events
    /\ QuitCallers \subseteq Posters

VARIABLES
    m_messages,      \* events posted and not yet taken by the loop
    msgs,            \* rest of the batch that run() is handling
    m_running,
    m_messageMutex,  \* the thread that holds the mutex, or Free
    pc,              \* where the loop thread is in run()
    post,            \* where a thread is in PostEvent
    posting,         \* the event a thread is posting
    posted,          \* history: events in the order of push_back
    handled          \* history: events given to HandleEvent, in order

queueVars == <<m_messages, posted>>
postVars  == <<post, posting>>
vars == <<m_messages, msgs, m_running, m_messageMutex, pc, post, posting,
          posted, handled>>

LoopPc == {"start", "check", "locked", "block", "waiting", "woken", "batch",
           "handling", "returned"}

TypeOK ==
    /\ m_messages \in Seq(Events)
    /\ msgs \in Seq(Events)
    /\ m_running \in BOOLEAN
    /\ m_messageMutex \in Threads \cup {Free}
    /\ pc \in LoopPc
    /\ post \in [Threads -> {"idle", "lock", "locked", "notify"}]
    /\ posting \in [Threads -> Events \cup {Free}]
    /\ posted \in Seq(Events)
    /\ handled \in Seq(Events)

Init ==
    /\ m_messages = <<>>
    /\ msgs = <<>>
    /\ m_running = FALSE
    /\ m_messageMutex = Free
    /\ pc = "start"
    /\ post = [t \in Threads |-> "idle"]
    /\ posting = [t \in Threads |-> Free]
    /\ posted = <<>>
    /\ handled = <<>>

(***************************************************************************)
(* notify_all of m_notifyCondition: only the loop ever waits on it.         *)
(***************************************************************************)
NotifyAll == pc' = IF pc = "waiting" THEN "woken" ELSE pc

(***************************************************************************)
(* PostEvent.  The loop thread posts from inside a handler only.            *)
(***************************************************************************)
Fresh(e) ==
    /\ \A i \in DOMAIN posted : posted[i] # e
    /\ \A t \in Threads : posting[t] # e

PostEvent(t, e) ==
    /\ post[t] = "idle"
    /\ t = Loop => pc = "handling"
    /\ Fresh(e)
    /\ post' = [post EXCEPT ![t] = "lock"]
    /\ posting' = [posting EXCEPT ![t] = e]
    /\ UNCHANGED <<queueVars, msgs, m_running, m_messageMutex, pc, handled>>

PostLock(t) ==
    /\ post[t] = "lock"
    /\ m_messageMutex = Free
    /\ m_messageMutex' = t
    /\ post' = [post EXCEPT ![t] = "locked"]
    /\ UNCHANGED <<queueVars, msgs, m_running, pc, posting, handled>>

\* push_back, then the lock_guard leaves its scope
PostPush(t) ==
    /\ post[t] = "locked"
    /\ m_messages' = Append(m_messages, posting[t])
    /\ posted' = Append(posted, posting[t])
    /\ m_messageMutex' = Free
    /\ post' = [post EXCEPT ![t] = "notify"]
    /\ UNCHANGED <<msgs, m_running, pc, posting, handled>>

\* A slip: nobody is notified.
PostNotifyNobody(t) ==
    /\ post[t] = "notify"
    /\ post' = [post EXCEPT ![t] = "idle"]
    /\ posting' = [posting EXCEPT ![t] = Free]
    /\ UNCHANGED <<queueVars, msgs, m_running, m_messageMutex, pc, handled>>

PostNotify(t) ==
    /\ post[t] = "notify"
    /\ NotifyAll
    /\ post' = [post EXCEPT ![t] = "idle"]
    /\ posting' = [posting EXCEPT ![t] = Free]
    /\ UNCHANGED <<queueVars, msgs, m_running, m_messageMutex, handled>>

(***************************************************************************)
(* quit: clears the flag and notifies, without the mutex.                   *)
(***************************************************************************)
Quit ==
    /\ m_running' = FALSE
    /\ NotifyAll
    /\ UNCHANGED <<queueVars, msgs, m_messageMutex, postVars, handled>>

QuitFromThread(t) ==
    /\ t \in QuitCallers
    /\ post[t] = "idle"
    /\ Quit

HandlerQuit ==
    /\ pc = "handling"
    /\ post[Loop] = "idle"
    /\ handled[Len(handled)] \in QuitEvents
    /\ Quit

(***************************************************************************)
(* run                                                                     *)
(***************************************************************************)
Goto(place) ==
    /\ pc' = place
    /\ UNCHANGED <<queueVars, msgs, m_running, m_messageMutex, postVars, handled>>

Acquire ==
    /\ m_messageMutex = Free
    /\ m_messageMutex' = Loop
    /\ pc' = "locked"
    /\ UNCHANGED <<queueVars, msgs, m_running, postVars, handled>>

RunStart ==
    /\ pc = "start"
    /\ m_running' = TRUE
    /\ pc' = "check"
    /\ UNCHANGED <<queueVars, msgs, m_messageMutex, postVars, handled>>

\* A slip: the loop does not look at m_running.
RunLockAlways ==
    /\ pc = "check"
    /\ Acquire

RunLock ==
    /\ pc = "check"
    /\ m_running
    /\ Acquire

RunReturn ==
    /\ pc = "check"
    /\ ~m_running
    /\ Goto("returned")

\* A slip: wait without the predicate.
RunBlockAlways ==
    /\ pc = "locked"
    /\ Goto("block")

\* wait(locker, pred): the predicate is false ...
RunFoundEmpty ==
    /\ pc = "locked"
    /\ m_messages = <<>>
    /\ Goto("block")

\* ... so release the mutex and block, in one step
RunWait ==
    /\ pc = "block"
    /\ m_messageMutex' = Free
    /\ pc' = "waiting"
    /\ UNCHANGED <<queueVars, msgs, m_running, postVars, handled>>

SpuriousWake ==
    /\ pc = "waiting"
    /\ Goto("woken")

RunRelock ==
    /\ pc = "woken"
    /\ Acquire

\* A slip: the queue is copied, not moved.
RunCopyBatch ==
    /\ pc = "locked"
    /\ m_messages # <<>>
    /\ msgs' = m_messages
    /\ m_messageMutex' = Free
    /\ pc' = "batch"
    /\ UNCHANGED <<queueVars, m_running, postVars, handled>>

RunTakeBatch ==
    /\ pc = "locked"
    /\ m_messages # <<>>
    /\ msgs' = m_messages
    /\ m_messages' = <<>>
    /\ m_messageMutex' = Free
    /\ pc' = "batch"
    /\ UNCHANGED <<posted, m_running, postVars, handled>>

\* A slip: the batch is handled from its end.
RunHandleLast ==
    /\ pc = "batch"
    /\ msgs # <<>>
    /\ handled' = Append(handled, msgs[Len(msgs)])
    /\ msgs' = SubSeq(msgs, 1, Len(msgs) - 1)
    /\ pc' = "handling"
    /\ UNCHANGED <<queueVars, m_running, m_messageMutex, postVars>>

RunHandle ==
    /\ pc = "batch"
    /\ msgs # <<>>
    /\ handled' = Append(handled, Head(msgs))
    /\ msgs' = Tail(msgs)
    /\ pc' = "handling"
    /\ UNCHANGED <<queueVars, m_running, m_messageMutex, postVars>>

HandlerReturn ==
    /\ pc = "handling"
    /\ post[Loop] = "idle"
    /\ handled[Len(handled)] \in QuitEvents => ~m_running
    /\ Goto("batch")

RunBatchDone ==
    /\ pc = "batch"
    /\ msgs = <<>>
    /\ Goto("check")

RunStep ==
    \/ RunStart \/ RunLock \/ RunReturn \/ RunFoundEmpty \/ RunWait
    \/ RunRelock \/ RunTakeBatch \/ RunHandle \/ HandlerReturn \/ RunBatchDone
    \/ HandlerQuit

PostStep(t) == PostLock(t) \/ PostPush(t) \/ PostNotify(t)

Next ==
    \/ RunStep
    \/ SpuriousWake
    \/ \E t \in Threads : PostStep(t)
    \/ \E t \in Threads, e \in Events : PostEvent(t, e)
    \/ \E t \in Posters : QuitFromThread(t)

Spec == Init /\ [][Next]_vars

\* The threads run: a started PostEvent finishes, the loop takes its steps.
\* A mutex that is released again and again is acquired in the end.
\* Nothing forces anybody to post, and no spurious wake-up is ever owed.
Fairness ==
    /\ SF_vars(RunStep)
    /\ \A t \in Threads : SF_vars(PostStep(t))

FairSpec == Spec /\ Fairness

-----------------------------------------------------------------------------
\* Nothing that was posted is lost, duplicated or reordered: what was handled,
\* the rest of the batch and the queue are together exactly what was posted
\* (run's move of m_messages into msgs; src/Zhen/PageManager.cpp:159).
FifoNoLoss == posted = handled \o msgs \o m_messages

\* The loop never sleeps on a queue that holds an event unless a poster still
\* owes it the notification (predicate of wait, notify_all after the unlock).
NoLostWakeup ==
    pc = "waiting" /\ m_messages # <<>> => \E t \in Threads : post[t] = "notify"

\* A loop that is told to quit while it has a batch finishes that batch and
\* never goes back to the queue: no event still in m_messages, or posted later,
\* is handled any more.  (A loop that a foreign thread tells to quit while it
\* waits takes one more batch.)
QuitEndsIntake ==
    [][~m_running /\ pc \in {"check", "batch", "handling"}
          => /\ ~m_running' /\ pc' \in {"check", "batch", "handling", "returned"}
             /\ handled' \o msgs' = handled \o msgs]_vars

\* Every posted event is handled in the end, unless run() has returned.
PostedIsHandled ==
    \A e \in Events :
        (\E i \in DOMAIN posted : posted[i] = e)
            ~> (pc = "returned" \/ \E i \in DOMAIN handled : handled[i] = e)

\* A handler that calls quit makes run() return: it never waits again.  A quit
\* from another thread wakes nobody up, as wait's predicate looks at the queue
\* only; it still ends the loop as soon as another event is posted.
QuitIsSeen ==
    /\ (pc = "handling" /\ ~m_running) ~> (pc = "returned")
    /\ (~m_running /\ pc # "start" /\ m_messages # <<>>) ~> (pc = "returned")

\* The loop and the posters together are a FIFO service that delivers every
\* event once, until it closes: the abstract queue is the batch, then
\* m_messages, and it is closed when run() has returned.
Queue == INSTANCE EventQueue
             WITH pending <- msgs \o m_messages, closed <- (pc = "returned")

ImplementsEventQueue == Queue!FairSpec

=============================================================================
