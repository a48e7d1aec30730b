-------------------------- MODULE EventLoopProofs --------------------------
(***************************************************************************)
(* What holds of the event loop for every set of threads and events.        *)
(* The inductive invariant adds to the two properties the facts about the   *)
(* mutex and about run()'s local batch that make them inductive.            *)
(***************************************************************************)
EXTENDS EventLoop, SequenceTheorems, TLAPS

-----------------------------------------------------------------------------
(* Sequences: moving the head of a queue behind what precedes it.           *)

\* Handing the first element of b over to the end of a keeps a \o b: what
\* RunHandle does with the batch.
LEMMA MoveHead ==
  ASSUME NEW S, NEW a \in Seq(S), NEW b \in Seq(S), b # <<>>
  PROVE  Append(a, Head(b)) \o Tail(b) = a \o b
<1>1. /\ Head(b) \in S /\ Tail(b) \in Seq(S)
      /\ Len(Tail(b)) = Len(b) - 1
      /\ \A i \in 1 .. Len(Tail(b)) : Tail(b)[i] = b[i+1]
  BY HeadTailProperties
<1>2. Len(a) \in Nat /\ Len(b) \in Nat /\ Len(b) > 0 /\ Head(b) = b[1]
  BY EmptySeq, LenProperties
<1> DEFINE c == Append(a, Head(b))
<1>3. c \in Seq(S) /\ Len(c) = Len(a) + 1
      /\ \A i \in 1 .. Len(c) : c[i] = IF i <= Len(a) THEN a[i] ELSE b[1]
  BY <1>1, <1>2
<1>4. /\ c \o Tail(b) \in Seq(S)
      /\ Len(c \o Tail(b)) = Len(c) + Len(Tail(b))
      /\ \A i \in 1 .. Len(c) + Len(Tail(b)) :
            (c \o Tail(b))[i] = IF i <= Len(c) THEN c[i] ELSE Tail(b)[i - Len(c)]
  BY <1>1, <1>3, ConcatProperties
<1>5. /\ a \o b \in Seq(S)
      /\ Len(a \o b) = Len(a) + Len(b)
      /\ \A i \in 1 .. Len(a) + Len(b) :
            (a \o b)[i] = IF i <= Len(a) THEN a[i] ELSE b[i - Len(a)]
  BY ConcatProperties
<1> DEFINE p == c \o Tail(b)
           q == a \o b
<1> HIDE DEF c, p, q
<1>6. p \in Seq(S) /\ q \in Seq(S) /\ Len(p) = Len(q)
      /\ Len(q) = Len(a) + Len(b) /\ Len(c) = Len(a) + 1
  BY <1>1, <1>2, <1>3, <1>4, <1>5 DEF p, q
<1>7. ASSUME NEW i \in 1 .. Len(p)
      PROVE  p[i] = q[i]
  <2>1. i \in 1 .. Len(a) + Len(b) /\ i \in Nat /\ Len(c) + Len(Tail(b)) = Len(a) + Len(b)
    BY <1>1, <1>2, <1>6
  <2>2. p[i] = IF i <= Len(c) THEN c[i] ELSE Tail(b)[i - Len(c)]
    BY <1>4, <2>1 DEF p
  <2>3. q[i] = IF i <= Len(a) THEN a[i] ELSE b[i - Len(a)]
    BY <1>5, <2>1 DEF q
  <2>4. CASE i <= Len(c)
    BY <2>1, <2>2, <2>3, <2>4, <1>2, <1>3
  <2>5. CASE i > Len(c)
    <3>1. i - Len(c) \in 1 .. Len(Tail(b)) /\ (i - Len(c)) + 1 = i - Len(a)
      BY <2>1, <2>5, <1>1, <1>2, <1>3
    <3>2. Tail(b)[i - Len(c)] = b[(i - Len(c)) + 1]
      BY <3>1, <1>1
    <3>3. QED
      BY <3>1, <3>2, <2>1, <2>2, <2>3, <2>5, <1>2, <1>6
  <2>6. QED
    BY <2>1, <2>4, <2>5, <1>2, <1>6
<1>8. p = q
  BY <1>6, <1>7, SeqEqual
<1>9. QED
  BY <1>8 DEF c, p, q

-----------------------------------------------------------------------------
(* The inductive invariant.                                                 *)

\* run()'s local batch is empty except while it is being handled.
BatchOnlyInBatch == pc \notin {"batch", "handling"} => msgs = <<>>

\* The loop thread posts from inside a handler only.
LoopPostsInHandler == pc # "handling" => post[Loop] = "idle"

\* Whoever is in a critical section owns m_messageMutex.
OwnsMutex ==
    /\ pc \in {"locked", "block"} => m_messageMutex = Loop
    /\ \A t \in Threads : post[t] = "locked" => m_messageMutex = t

PostingIsEvent == \A t \in Threads : post[t] # "idle" => posting[t] \in Events

\* Between the predicate and the release the queue stays empty.
BlockOnEmpty == pc = "block" => m_messages = <<>>

IInv ==
    /\ TypeOK
    /\ BatchOnlyInBatch
    /\ LoopPostsInHandler
    /\ OwnsMutex
    /\ PostingIsEvent
    /\ BlockOnEmpty
    /\ FifoNoLoss
    /\ NoLostWakeup

LEMMA InitIInv == Init => IInv
<1> SUFFICES ASSUME Init PROVE IInv
  OBVIOUS
<1>1. TypeOK
  BY EmptySeq DEF Init, TypeOK, LoopPc
<1>2. FifoNoLoss
  BY DEF Init, FifoNoLoss
<1>3. QED
  BY <1>1, <1>2, ThreadsAssumption DEF Init, IInv, BatchOnlyInBatch, LoopPostsInHandler, OwnsMutex,
     PostingIsEvent, BlockOnEmpty, NoLostWakeup, Threads

\* One step of any thread keeps the types.
LEMMA TypeStep == TypeOK /\ BatchOnlyInBatch /\ PostingIsEvent /\ [Next]_vars => TypeOK'
<1> SUFFICES ASSUME TypeOK, BatchOnlyInBatch, PostingIsEvent, [Next]_vars PROVE TypeOK'
  OBVIOUS
<1> USE DEF TypeOK, LoopPc, queueVars, postVars, Goto, Acquire
<1>1. CASE RunStep
  <2>1. CASE RunHandle
    BY <2>1, HeadTailProperties DEF RunHandle
  <2>2. CASE RunTakeBatch
    BY <2>2 DEF RunTakeBatch
  <2>3. CASE RunLock \/ RunReturn \/ RunFoundEmpty \/ RunStart
    BY <2>3 DEF RunStart, RunLock, RunReturn, RunFoundEmpty, Threads
  <2>4. CASE RunWait \/ RunRelock \/ HandlerReturn \/ RunBatchDone \/ HandlerQuit
    BY <2>4 DEF RunWait, RunRelock, HandlerReturn, RunBatchDone, HandlerQuit, Quit,
       NotifyAll, Threads
  <2>5. QED
    BY <1>1, <2>1, <2>2, <2>3, <2>4 DEF RunStep
<1>2. CASE SpuriousWake
  BY <1>2 DEF SpuriousWake
<1>3. ASSUME NEW t \in Threads, PostStep(t) PROVE TypeOK'
  <2>1. CASE PostLock(t)
    BY <2>1 DEF PostLock
  <2>2. CASE PostPush(t)
    BY <2>2 DEF PostPush, PostingIsEvent
  <2>3. CASE PostNotify(t)
    BY <2>3 DEF PostNotify, NotifyAll
  <2>4. QED
    BY <1>3, <2>1, <2>2, <2>3 DEF PostStep
<1>4. ASSUME NEW t \in Threads, NEW e \in Events, PostEvent(t, e) PROVE TypeOK'
  BY <1>4 DEF PostEvent
<1>5. ASSUME NEW t \in Posters, QuitFromThread(t) PROVE TypeOK'
  BY <1>5 DEF QuitFromThread, Quit, NotifyAll
<1>6. CASE UNCHANGED vars
  BY <1>6 DEF vars
<1>7. QED
  BY <1>1, <1>2, <1>3, <1>4, <1>5, <1>6 DEF Next

\* The facts about the mutex, the batch and the pending notifications.
ControlInv ==
    /\ BatchOnlyInBatch
    /\ LoopPostsInHandler
    /\ OwnsMutex
    /\ PostingIsEvent
    /\ BlockOnEmpty
    /\ NoLostWakeup

LEMMA ControlStep == TypeOK /\ ControlInv /\ [Next]_vars => ControlInv'
<1> SUFFICES ASSUME TypeOK, ControlInv, [Next]_vars PROVE ControlInv'
  OBVIOUS
<1> USE ThreadsAssumption DEF ControlInv, BatchOnlyInBatch, LoopPostsInHandler, OwnsMutex,
     PostingIsEvent, BlockOnEmpty, NoLostWakeup, queueVars, postVars, TypeOK, LoopPc, Threads, Goto, Acquire
<1>1. CASE RunStep
  <2>1. CASE RunHandle \/ RunTakeBatch
    BY <2>1 DEF RunHandle, RunTakeBatch
  <2>2. CASE RunStart \/ RunLock \/ RunReturn
    BY <2>2 DEF RunStart, RunLock, RunReturn
  <2>3. CASE RunFoundEmpty \/ RunWait \/ RunRelock
    BY <2>3 DEF RunFoundEmpty, RunWait, RunRelock
  <2>4. CASE HandlerReturn \/ RunBatchDone \/ HandlerQuit
    BY <2>4 DEF HandlerReturn, RunBatchDone, HandlerQuit, Quit, NotifyAll
  <2>5. QED
    BY <1>1, <2>1, <2>2, <2>3, <2>4 DEF RunStep
<1>2. CASE SpuriousWake
  BY <1>2 DEF SpuriousWake
<1>3. ASSUME NEW t \in Threads, PostStep(t) PROVE ControlInv'
  <2>1. CASE PostLock(t)
    BY <2>1 DEF PostLock
  <2>2. CASE PostPush(t)
    BY <2>2 DEF PostPush
  <2>3. CASE PostNotify(t)
    BY <2>3 DEF PostNotify, NotifyAll
  <2>4. QED
    BY <1>3, <2>1, <2>2, <2>3 DEF PostStep
<1>4. ASSUME NEW t \in Threads, NEW e \in Events, PostEvent(t, e) PROVE ControlInv'
  BY <1>4 DEF PostEvent
<1>5. ASSUME NEW t \in Posters, QuitFromThread(t) PROVE ControlInv'
  BY <1>5 DEF QuitFromThread, Quit, NotifyAll
<1>6. CASE UNCHANGED vars
  BY <1>6 DEF vars
<1>7. QED
  BY <1>1, <1>2, <1>3, <1>4, <1>5, <1>6 DEF Next

\* Every step appends to what was posted, moves it along, or leaves it alone.
LEMMA FifoStep == IInv /\ [Next]_vars => FifoNoLoss'
<1> SUFFICES ASSUME IInv, [Next]_vars PROVE FifoNoLoss'
  OBVIOUS
<1> USE DEF IInv, FifoNoLoss, queueVars, postVars, Goto, Acquire
<1>1. CASE RunTakeBatch
  <2>1. msgs = <<>>
    BY <1>1 DEF RunTakeBatch, BatchOnlyInBatch
  <2>2. posted = handled \o m_messages
    BY <2>1, ConcatEmptySeq DEF TypeOK
  <2>3. (handled \o m_messages) \o <<>> = handled \o m_messages
    BY ConcatProperties, ConcatEmptySeq DEF TypeOK
  <2>4. QED
    BY <1>1, <2>2, <2>3 DEF RunTakeBatch
<1>2. CASE RunHandle
  <2>1. Append(handled, Head(msgs)) \o Tail(msgs) = handled \o msgs
    BY <1>2, MoveHead DEF RunHandle, TypeOK
  <2>2. QED
    BY <1>2, <2>1 DEF RunHandle
<1>3. ASSUME NEW t \in Threads, PostPush(t) PROVE FifoNoLoss'
  <2>1. posting[t] \in Events
    BY <1>3 DEF PostPush, PostingIsEvent
  <2> DEFINE h == handled \o msgs
  <2>2. h \in Seq(Events) /\ m_messages \in Seq(Events)
    BY ConcatProperties DEF TypeOK
  <2> HIDE DEF h, TypeOK, FifoNoLoss, IInv
  <2>3. Append(h \o m_messages, posting[t]) = h \o Append(m_messages, posting[t])
    <3>1. /\ h \o m_messages \in Seq(Events)
          /\ <<posting[t]>> \in Seq(Events)
      BY <2>1, <2>2, ConcatProperties
    <3>2. Append(m_messages, posting[t]) = m_messages \o <<posting[t]>>
      BY <2>1, <2>2, AppendIsConcat
    <3>3. Append(h \o m_messages, posting[t]) = (h \o m_messages) \o <<posting[t]>>
      BY <2>1, <3>1, AppendIsConcat
    <3>4. (h \o m_messages) \o <<posting[t]>> = h \o (m_messages \o <<posting[t]>>)
      BY <2>2, <3>1, ConcatAssociative
    <3>5. QED
      BY <3>2, <3>3, <3>4
  <2>4. posted = h \o m_messages
    BY DEF IInv, FifoNoLoss, h
  <2>5. posted' = (handled \o msgs) \o m_messages'
    BY <1>3, <2>3, <2>4 DEF PostPush, h
  <2>6. QED
    BY <1>3, <2>5 DEF PostPush, FifoNoLoss
<1>4. CASE UNCHANGED <<posted, handled, msgs, m_messages>>
  BY <1>4
<1>5. QED
  BY <1>1, <1>2, <1>3, <1>4 DEF Next, vars, RunStep, RunStart, RunLock, RunReturn,
     RunFoundEmpty, RunWait, RunRelock, HandlerReturn, RunBatchDone, HandlerQuit, Quit,
     SpuriousWake, PostStep, PostLock, PostNotify, PostEvent, QuitFromThread

LEMMA IInvStep == IInv /\ [Next]_vars => IInv'
BY TypeStep, ControlStep, FifoStep DEF IInv, ControlInv

THEOREM InductiveInvariant == Spec => []IInv
BY InitIInv, IInvStep, PTL DEF Spec

\* The types of PostEvent's and run()'s state.
THEOREM TypeCorrect == Spec => []TypeOK
<1>1. IInv => TypeOK
  BY DEF IInv
<1>2. QED
  BY <1>1, InductiveInvariant, PTL

\* No event that was posted is lost, duplicated or reordered, whatever the
\* interleaving of run(), PostEvent and quit.
THEOREM NothingLost == Spec => []FifoNoLoss
<1>1. IInv => FifoNoLoss
  BY DEF IInv
<1>2. QED
  BY <1>1, InductiveInvariant, PTL

\* The loop thread does not sleep on a non-empty queue that nobody will
\* announce.
THEOREM WakeupNotLost == Spec => []NoLostWakeup
<1>1. IInv => NoLostWakeup
  BY DEF IInv
<1>2. QED
  BY <1>1, InductiveInvariant, PTL

-----------------------------------------------------------------------------
(* Quit, and the abstract queue.                                            *)

LEMMA QuitStep ==
  IInv /\ [Next]_vars =>
    [~m_running /\ pc \in {"check", "batch", "handling"}
        => /\ ~m_running' /\ pc' \in {"check", "batch", "handling", "returned"}
           /\ handled' \o msgs' = handled \o msgs]_vars
<1> DEFINE InBatch == {"check", "batch", "handling"}
<1> SUFFICES ASSUME IInv, Next, ~m_running, pc \in InBatch
             PROVE  /\ ~m_running' /\ pc' \in InBatch \cup {"returned"}
                    /\ handled' \o msgs' = handled \o msgs
  OBVIOUS
<1> USE DEF queueVars, postVars, Goto, Acquire
<1>1. CASE RunHandle
  <2>1. handled \in Seq(Events) /\ msgs \in Seq(Events) /\ msgs # <<>>
    BY <1>1 DEF RunHandle, IInv, TypeOK
  <2>2. Append(handled, Head(msgs)) \o Tail(msgs) = handled \o msgs
    BY <2>1, MoveHead
  <2>3. QED
    BY <1>1, <2>2 DEF RunHandle
<1>2. CASE UNCHANGED <<handled, msgs>> /\ ~m_running' /\ pc' \in InBatch \cup {"returned"}
  BY <1>2
<1>3. CASE RunStart \/ RunLock \/ RunReturn \/ RunFoundEmpty \/ RunWait
  BY <1>3 DEF RunStart, RunLock, RunReturn, RunFoundEmpty, RunWait
<1>4. CASE RunRelock \/ RunTakeBatch \/ HandlerReturn \/ RunBatchDone \/ SpuriousWake
  BY <1>4 DEF RunRelock, RunTakeBatch, HandlerReturn, RunBatchDone, SpuriousWake
<1>5. CASE HandlerQuit \/ \E t \in Posters : QuitFromThread(t)
  BY <1>5 DEF HandlerQuit, QuitFromThread, Quit, NotifyAll
<1>6. ASSUME NEW t \in Threads,
             PostStep(t) \/ \E e \in Events : PostEvent(t, e)
      PROVE  UNCHANGED <<handled, msgs, m_running, pc>>
  BY <1>6 DEF PostStep, PostLock, PostPush, PostNotify, NotifyAll, PostEvent
<1>7. QED
  BY <1>1, <1>2, <1>3, <1>4, <1>5, <1>6 DEF Next, RunStep

\* After a quit inside a batch, what run() has taken is all it ever handles.
THEOREM QuitIsFinal == Spec => QuitEndsIntake
BY InductiveInvariant, QuitStep, PTL DEF Spec, QuitEndsIntake

\* Taking the head of a concatenation takes the head of its first part.
LEMMA HeadTailOfConcat ==
  ASSUME NEW S, NEW a \in Seq(S), NEW b \in Seq(S), a # <<>>
  PROVE  /\ a \o b # <<>>
         /\ Head(a \o b) = Head(a)
         /\ Tail(a \o b) = Tail(a) \o b
<1> DEFINE p == Tail(a \o b)
           q == Tail(a) \o b
<1>1. /\ Tail(a) \in Seq(S)
      /\ Len(Tail(a)) = Len(a) - 1
      /\ \A i \in 1 .. Len(Tail(a)) : Tail(a)[i] = a[i+1]
  BY HeadTailProperties
<1>2. Len(a) \in Nat /\ Len(b) \in Nat /\ Len(a) > 0 /\ Head(a) = a[1]
  BY EmptySeq, LenProperties
<1>3. /\ a \o b \in Seq(S)
      /\ Len(a \o b) = Len(a) + Len(b)
      /\ \A i \in 1 .. Len(a) + Len(b) :
            (a \o b)[i] = IF i <= Len(a) THEN a[i] ELSE b[i - Len(a)]
  BY ConcatProperties
<1>4. a \o b # <<>>
  BY <1>2, <1>3, EmptySeq
<1>5. Head(a \o b) = Head(a)
  BY <1>2, <1>3, <1>4
<1>6. /\ p \in Seq(S)
      /\ Len(p) = Len(a) + Len(b) - 1
      /\ \A i \in 1 .. Len(p) : p[i] = (a \o b)[i+1]
  BY <1>2, <1>3, <1>4, HeadTailProperties
<1>7. /\ q \in Seq(S)
      /\ Len(q) = Len(Tail(a)) + Len(b)
      /\ \A i \in 1 .. Len(Tail(a)) + Len(b) :
            q[i] = IF i <= Len(Tail(a)) THEN Tail(a)[i] ELSE b[i - Len(Tail(a))]
  BY <1>1, ConcatProperties
<1> HIDE DEF p, q
<1>8. Len(p) = Len(q)
  BY <1>1, <1>2, <1>6, <1>7
<1>9. ASSUME NEW i \in 1 .. Len(p)
      PROVE  p[i] = q[i]
  <2>1. /\ i \in Nat /\ i + 1 \in 1 .. Len(a) + Len(b)
        /\ i \in 1 .. Len(Tail(a)) + Len(b)
    BY <1>1, <1>2, <1>6
  <2>2. p[i] = IF i + 1 <= Len(a) THEN a[i+1] ELSE b[(i+1) - Len(a)]
    BY <1>3, <1>6, <2>1
  <2>3. q[i] = IF i <= Len(Tail(a)) THEN Tail(a)[i] ELSE b[i - Len(Tail(a))]
    BY <1>7, <2>1
  <2>4. CASE i <= Len(Tail(a))
    <3>1. Tail(a)[i] = a[i+1]
      BY <1>1, <1>2, <2>1, <2>4
    <3>2. QED
      BY <3>1, <2>1, <2>2, <2>3, <2>4, <1>1, <1>2
  <2>5. CASE i > Len(Tail(a))
    <3>1. (i + 1) - Len(a) = i - Len(Tail(a))
      BY <1>1, <1>2, <2>1
    <3>2. QED
      BY <3>1, <2>1, <2>2, <2>3, <2>5, <1>1, <1>2
  <2>6. QED
    BY <2>1, <2>4, <2>5, <1>1, <1>2
<1>10. p = q
  BY <1>6, <1>7, <1>8, <1>9, SeqEqual
<1>11. QED
  BY <1>4, <1>5, <1>10 DEF p, q

LEMMA RefineInit == Init => Queue!Init
<1> SUFFICES ASSUME Init PROVE Queue!Init
  OBVIOUS
<1>1. msgs \o m_messages = <<>>
  BY ConcatEmptySeq, EmptySeq DEF Init
<1>2. QED
  BY <1>1 DEF Init, Queue!Init

\* Every step of the threads is a step of the abstract queue or leaves it
\* alone: push_back is Post, HandleEvent is Deliver, the return is Close.
LEMMA RefineStep == IInv /\ [Next]_vars => [Queue!Next]_(Queue!vars)
<1> SUFFICES ASSUME IInv, [Next]_vars PROVE [Queue!Next]_(Queue!vars)
  OBVIOUS
<1> USE DEF queueVars, postVars, Goto, Acquire
<1>0. msgs \in Seq(Events) /\ m_messages \in Seq(Events)
  BY DEF IInv, TypeOK
<1>1. CASE RunTakeBatch
  <2>1. msgs \o m_messages = m_messages
    BY <1>0, <1>1, ConcatEmptySeq DEF RunTakeBatch, IInv, BatchOnlyInBatch
  <2>2. msgs' \o m_messages' = m_messages
    BY <1>0, <1>1, ConcatEmptySeq DEF RunTakeBatch
  <2>3. QED
    BY <1>1, <2>1, <2>2 DEF RunTakeBatch, Queue!vars
<1>2. CASE RunHandle
  <2>1. /\ msgs \o m_messages # <<>>
        /\ Head(msgs \o m_messages) = Head(msgs)
        /\ Tail(msgs \o m_messages) = Tail(msgs) \o m_messages
    BY <1>0, <1>2, HeadTailOfConcat DEF RunHandle
  <2>2. Queue!Deliver
    BY <1>2, <2>1 DEF RunHandle, Queue!Deliver
  <2>3. QED
    BY <2>2 DEF Queue!Next
<1>3. CASE RunReturn
  <2>1. Queue!Close
    BY <1>3 DEF RunReturn, Queue!Close
  <2>2. QED
    BY <2>1 DEF Queue!Next
<1>4. ASSUME NEW t \in Threads, PostPush(t) PROVE [Queue!Next]_(Queue!vars)
  <2>1. posting[t] \in Events
    BY <1>4 DEF PostPush, IInv, PostingIsEvent
  <2>2. Append(msgs \o m_messages, posting[t]) = msgs \o Append(m_messages, posting[t])
    <3>1. /\ msgs \o m_messages \in Seq(Events)
          /\ <<posting[t]>> \in Seq(Events)
      BY <2>1, <1>0, ConcatProperties
    <3>2. Append(m_messages, posting[t]) = m_messages \o <<posting[t]>>
      BY <2>1, <1>0, AppendIsConcat
    <3>3. Append(msgs \o m_messages, posting[t]) = (msgs \o m_messages) \o <<posting[t]>>
      BY <2>1, <3>1, AppendIsConcat
    <3>4. (msgs \o m_messages) \o <<posting[t]>> = msgs \o (m_messages \o <<posting[t]>>)
      BY <1>0, <3>1, ConcatAssociative
    <3>5. QED
      BY <3>2, <3>3, <3>4
  <2>3. Queue!Post(posting[t])
    BY <1>4, <2>2 DEF PostPush, Queue!Post
  <2>4. QED
    BY <2>1, <2>3 DEF Queue!Next
<1>5. CASE UNCHANGED <<handled, msgs, m_messages>> /\ (pc' = "returned" <=> pc = "returned")
  BY <1>5 DEF Queue!vars
<1>6. QED
  BY <1>1, <1>2, <1>3, <1>4, <1>5 DEF Next, vars, RunStep, RunStart, RunLock,
     RunFoundEmpty, RunWait, RunRelock, HandlerReturn, RunBatchDone, HandlerQuit, Quit,
     NotifyAll, SpuriousWake, PostStep, PostLock, PostNotify, PostEvent, QuitFromThread

\* PageManager's threads implement the abstract FIFO service (its safety part;
\* the fairness part of ImplementsEventQueue is for the model checker).
THEOREM LoopImplementsQueue == Spec => Queue!Spec
BY RefineInit, RefineStep, InductiveInvariant, PTL DEF Spec, Queue!Spec

=============================================================================
