---------------------------- MODULE StateMachine ----------------------------
(***************************************************************************)
(* The hierarchical state machine of src/BluetoothApplication/BT/           *)
(* StateMachine.h, which no project file builds yet.  One thread handles    *)
(* the messages, one call of user code (processMessage, enter, exit) is one *)
(* step; meanwhile any thread may send.  The text is half translated from   *)
(* Java: StateInfo is read as the reference the method bodies take it for.  *)
(***************************************************************************)
EXTENDS Integers, Sequences, FiniteSets, SequencesExt

CONSTANTS
    States,        \* the states added before start
    mHaltingState,
    mQuittingState,
    NoState,       \* null
    Parent,        \* the parent of each added state, or NoState
    mInitialState,
    mMaxSize,      \* of the log
    MaxMsgs,       \* bound of the model: messages sent
    MaxDefers,     \* bound of the model: how often user code defers
    MaxHops        \* bound of the model: transitions asked for in enter()

SM_QUIT_CMD == -1
SM_INIT_CMD == -2
AllStates == States \cup {mHaltingState, mQuittingState}

ASSUME StateMachineAssumption ==
    /\ mHaltingState \notin States /\ mQuittingState \notin States
    /\ mHaltingState # mQuittingState
    /\ NoState \notin AllStates
    /\ Parent \in [States -> States \cup {NoState}]
    /\ mInitialState \in States
    /\ mMaxSize \in Nat \ {0}
\* From every state getParent leads to a root: the states added make a tree.
ASSUME StateTreeAssumption ==
    \A T \in SUBSET States : T # {} => \E s \in T : Parent[s] \notin T
ASSUME StateMachineBounds == MaxMsgs \in Nat /\ MaxDefers \in Nat /\ MaxHops \in Nat

VARIABLES
    pc,                    \* where handleMessage is
    queue,                 \* the queue of the Looper
    mMsg,
    mDeferredMessages,
    mStateStack,           \* up to mStateStackTopIndex
    active,                \* the states whose StateInfo is active
    mDestState,
    destState,             \* performTransitions' local
    common,                \* commonStateInfo
    at,                    \* the state that processes, or the index that is entered
    enteringIndex,
    mTransitionInProgress,
    mIsConstructionCompleted,
    mHasQuit,
    log,                   \* mLogRecords: [vec, oldest]
    sent,                  \* history: messages sent so far, named 1 .. sent
    urgent,                \* history: those sent at the front
    finished,              \* history: processed or removed
    quitting,              \* history: quit or quitNow was called
    defers, hops           \* counters of the bounds

senders == <<sent, urgent>>
transition == <<mStateStack, active, mDestState, destState, common, at, enteringIndex,
                mTransitionInProgress>>
bounds == <<defers, hops>>
smVars == <<pc, queue, mMsg, mDeferredMessages, transition, mIsConstructionCompleted,
          mHasQuit, log, senders, finished, quitting, bounds>>

Msgs == 1 .. MaxMsgs
AllMsgs == Msgs \cup {SM_QUIT_CMD, SM_INIT_CMD}

SmTypeOK ==
    /\ pc \in {"new", "idle", "process", "transit", "setup", "exit", "enter"}
    /\ queue \in Seq(AllMsgs) /\ mMsg \in AllMsgs
    /\ mDeferredMessages \in Seq(Msgs)
    /\ mStateStack \in Seq(AllStates) /\ active \subseteq AllStates
    /\ {mDestState, destState, common} \subseteq AllStates \cup {NoState}
    /\ at \in AllStates \cup {NoState} /\ enteringIndex \in Nat \X Nat
    /\ {mTransitionInProgress, mIsConstructionCompleted, mHasQuit, quitting} \subseteq BOOLEAN
    /\ log \in [vec : Seq(Msgs), oldest : 0 .. mMaxSize - 1]
    /\ sent \in 0 .. MaxMsgs /\ urgent \subseteq Msgs /\ finished \subseteq Msgs
    /\ defers \in 0 .. MaxDefers /\ hops \in 0 .. MaxHops

\* getParent, with the two states the machine adds itself
ParentOf(s) == IF s \in States THEN Parent[s] ELSE NoState

\* s, its parent, and so on up to the root
PathUp[s \in AllStates] ==
    IF ParentOf(s) = NoState THEN <<s>> ELSE <<s>> \o PathUp[ParentOf(s)]

\* setupInitialStateStack and moveTempStateStackToStateStack
InitialStack == Reverse(PathUp[mInitialState])

SmInit ==
    /\ pc = "new" /\ queue = <<>> /\ mMsg = SM_INIT_CMD /\ mDeferredMessages = <<>>
    /\ mStateStack = <<>> /\ active = {}
    /\ mDestState = NoState /\ destState = NoState /\ common = NoState
    /\ at = NoState /\ enteringIndex = <<0, 0>>
    /\ mTransitionInProgress = FALSE /\ mIsConstructionCompleted = FALSE
    /\ mHasQuit = FALSE /\ log = [vec |-> <<>>, oldest |-> 0]
    /\ sent = 0 /\ urgent = {} /\ finished = {} /\ quitting = FALSE
    /\ defers = 0 /\ hops = 0

\* start: completeConstruction
Start ==
    /\ pc = "new"
    /\ pc' = "idle"
    /\ mStateStack' = InitialStack
    /\ queue' = <<SM_INIT_CMD>> \o queue
    /\ UNCHANGED <<mMsg, mDeferredMessages, active, mDestState, destState, common, at,
                   enteringIndex, mTransitionInProgress, mIsConstructionCompleted, mHasQuit,
                   log, senders, finished, quitting, bounds>>

-----------------------------------------------------------------------------
(* What any thread may call.  After the machine has quit mSmHandler is null *)
(* and every call returns at once.                                          *)

Others == <<pc, mMsg, transition, mIsConstructionCompleted, mHasQuit, log, bounds>>

\* sendMessage and, when its time has come, sendMessageDelayed
SendMessage ==
    /\ sent < MaxMsgs /\ ~mHasQuit
    /\ sent' = sent + 1
    /\ queue' = Append(queue, sent')
    /\ UNCHANGED <<Others, mDeferredMessages, urgent, finished, quitting>>

SendMessageAtFrontOfQueue ==
    /\ sent < MaxMsgs /\ ~mHasQuit /\ mIsConstructionCompleted
    /\ sent' = sent + 1
    /\ urgent' = urgent \cup {sent'}
    /\ queue' = <<sent'>> \o queue
    /\ UNCHANGED <<Others, mDeferredMessages, finished, quitting>>

\* Every message has a name of its own: one of them goes.
RemoveMessages(m) ==
    /\ m \in Range(queue)
    /\ queue' = RemoveFirst(queue, m)
    /\ finished' = finished \cup {m}
    /\ UNCHANGED <<Others, mDeferredMessages, senders, quitting>>

RemoveDeferredMessages(m) ==
    /\ m \in Range(mDeferredMessages)
    /\ mDeferredMessages' = RemoveFirst(mDeferredMessages, m)
    /\ finished' = finished \cup {m}
    /\ UNCHANGED <<Others, queue, senders, quitting>>

\* quit, or quitNow, once
Quit ==
    /\ pc # "new" /\ ~quitting
    /\ quitting' = TRUE
    /\ queue' \in {Append(queue, SM_QUIT_CMD), <<SM_QUIT_CMD>> \o queue}
    /\ UNCHANGED <<Others, mDeferredMessages, senders, finished>>

-----------------------------------------------------------------------------
(* handleMessage                                                            *)

HandleMessage ==
    /\ pc = "idle" /\ queue # <<>> /\ ~mHasQuit
    /\ mMsg' = Head(queue)
    /\ queue' = Tail(queue)
    /\ \/ /\ mMsg' = SM_QUIT_CMD      \* processMsg, isQuit
          /\ mDestState' = mQuittingState
          /\ pc' = "transit"
          /\ UNCHANGED <<at, enteringIndex, mIsConstructionCompleted>>
       \/ /\ mMsg' \in Msgs /\ mIsConstructionCompleted
          /\ at' = Last(mStateStack)
          /\ pc' = "process"
          /\ UNCHANGED <<mDestState, enteringIndex, mIsConstructionCompleted>>
       \/ /\ mMsg' = SM_INIT_CMD /\ ~mIsConstructionCompleted
          /\ mIsConstructionCompleted' = TRUE
          /\ enteringIndex' = <<1, 1>>
          /\ pc' = "enter"
          /\ UNCHANGED <<mDestState, at>>
    /\ UNCHANGED <<mDeferredMessages, mStateStack, active, destState, common,
                   mTransitionInProgress, mHasQuit, log, senders, finished, quitting, bounds>>

\* transitionTo, by user code that asks for one state or for none
TransitionTo(s) ==
    mDestState' = IF s = NoState THEN mDestState ELSE s

DeferMessage == mDeferredMessages' = Append(mDeferredMessages, mMsg)

\* One state's processMessage: it may defer, ask for a transition, and handle
\* the message or leave it to its parent.
ProcessMessage ==
    /\ pc = "process" /\ at \in States
    /\ \E handled \in BOOLEAN, s \in States \cup {mHaltingState, NoState} :
          /\ TransitionTo(s)
          /\ IF handled \/ ParentOf(at) = NoState
             THEN pc' = "transit" /\ UNCHANGED at
             ELSE at' = ParentOf(at) /\ UNCHANGED pc
    /\ \/ /\ defers < MaxDefers /\ mMsg \notin Range(mDeferredMessages)
          /\ defers' = defers + 1
          /\ DeferMessage
       \/ UNCHANGED <<defers, mDeferredMessages>>
    /\ UNCHANGED <<queue, mMsg, mStateStack, active, destState, common, enteringIndex,
                   mTransitionInProgress, mIsConstructionCompleted, mHasQuit, log, senders,
                   finished, quitting, hops>>

HaltedProcessMessage ==
    /\ pc = "process" /\ at = mHaltingState
    /\ pc' = "transit"
    /\ UNCHANGED <<queue, mMsg, mDeferredMessages, transition, mIsConstructionCompleted,
                   mHasQuit, log, senders, finished, quitting, bounds>>

\* LogRecords::add: a record of a full log is copied before it is updated.
AddLogRec(m) ==
    log' = IF Len(log.vec) < mMaxSize THEN [log EXCEPT !.vec = Append(@, m)]
           ELSE [log EXCEPT !.oldest = (@ + 1) % mMaxSize]

-----------------------------------------------------------------------------
(* performTransitions                                                       *)

\* The record of the message, and whether there is anything to do.
PerformTransitions ==
    /\ pc = "transit"
    /\ IF mMsg \in Msgs THEN AddLogRec(mMsg) ELSE UNCHANGED log
    /\ finished' = finished \cup ({mMsg} \cap (Msgs \ Range(mDeferredMessages)))
    /\ destState' = mDestState
    /\ pc' = IF mDestState = NoState THEN "idle" ELSE "setup"
    /\ UNCHANGED <<queue, mMsg, mDeferredMessages, mStateStack, active, mDestState, common,
                   at, enteringIndex, mTransitionInProgress, mIsConstructionCompleted,
                   mHasQuit, senders, quitting, bounds>>

\* setupTempStateStackWithStatesToEnter: s itself, and those of its ancestors
\* that are below the first active one
StatesToEnter(s) ==
    LET path == PathUp[s]
        stops == {i \in 2 .. Len(path) : path[i] \in active}
    IN  IF stops = {} THEN path ELSE SubSeq(path, 1, Min(stops) - 1)

SetupTransition ==
    /\ pc = "setup"
    /\ common' = ParentOf(Last(StatesToEnter(destState)))
    /\ mTransitionInProgress' = TRUE
    /\ pc' = "exit"
    /\ UNCHANGED <<queue, mMsg, mDeferredMessages, mStateStack, active, mDestState, destState,
                   at, enteringIndex, mIsConstructionCompleted, mHasQuit, log, senders,
                   finished, quitting, bounds>>

\* The loop condition of invokeExitMethods
LeftAll == IF mStateStack = <<>> THEN TRUE ELSE Last(mStateStack) = common

\* A slip: the state stays active.
ExitKeepsActive ==
    /\ pc = "exit" /\ ~LeftAll
    /\ mStateStack' = Front(mStateStack)
    /\ UNCHANGED <<pc, queue, mMsg, mDeferredMessages, active, mDestState, destState, common, at,
                   enteringIndex, mTransitionInProgress, mIsConstructionCompleted, mHasQuit,
                   log, senders, finished, quitting, bounds>>

\* invokeExitMethods, one exit() a step
Exit ==
    /\ pc = "exit" /\ ~LeftAll
    /\ active' = active \ {Last(mStateStack)}
    /\ mStateStack' = Front(mStateStack)
    /\ UNCHANGED <<pc, queue, mMsg, mDeferredMessages, mDestState, destState, common, at,
                   enteringIndex, mTransitionInProgress, mIsConstructionCompleted, mHasQuit,
                   log, senders, finished, quitting, bounds>>

\* moveTempStateStackToStateStack
MoveTempStateStack ==
    /\ pc = "exit" /\ LeftAll
    /\ mStateStack' = mStateStack \o Reverse(StatesToEnter(destState))
    /\ enteringIndex' = <<Len(mStateStack) + 1, Len(mStateStack) + 1>>
    /\ pc' = "enter"
    /\ UNCHANGED <<queue, mMsg, mDeferredMessages, active, mDestState, destState, common, at,
                   mTransitionInProgress, mIsConstructionCompleted, mHasQuit, log, senders,
                   finished, quitting, bounds>>

\* invokeEnterMethods, one enter() a step; the last one may ask for the next
\* transition.
Enter ==
    /\ pc = "enter" /\ enteringIndex[2] <= Len(mStateStack)
    /\ mTransitionInProgress' =
           (mTransitionInProgress /\ enteringIndex[1] # Len(mStateStack))
    /\ active' = active \cup {mStateStack[enteringIndex[2]]}
    /\ enteringIndex' = [enteringIndex EXCEPT ![2] = @ + 1]
    /\ \/ /\ enteringIndex[2] = Len(mStateStack) /\ Last(mStateStack) \in States
          /\ hops < MaxHops
          /\ hops' = hops + 1
          /\ \E s \in States \cup {mHaltingState} : TransitionTo(s)
       \/ UNCHANGED <<mDestState, hops>>
    /\ UNCHANGED <<pc, queue, mMsg, mDeferredMessages, mStateStack, destState, common, at,
                   mIsConstructionCompleted, mHasQuit, log, senders, finished, quitting, defers>>

\* After the enter methods of SM_INIT_CMD: performTransitions is called next.
EnteredInitial ==
    /\ pc = "enter" /\ enteringIndex[2] > Len(mStateStack) /\ destState = NoState
    /\ mTransitionInProgress' = FALSE
    /\ pc' = "transit"
    /\ UNCHANGED <<queue, mMsg, mDeferredMessages, mStateStack, active, mDestState, destState,
                   common, at, enteringIndex, mIsConstructionCompleted, mHasQuit, log,
                   senders, finished, quitting, bounds>>

\* A slip: the deferred list is cleared and not moved.
MoveNothing == queue' = queue

MoveDeferredMessageAtFrontOfQueue == queue' = mDeferredMessages \o queue

\* A slip: the machine has quit only if no other message waits.
CleanupIfIdle == mHasQuit' = (queue = <<>>)

\* cleanupAfterQuitting
CleanupAfterQuitting == mHasQuit' = TRUE

\* After the enter methods of a transition: the deferred messages return, and
\* the loop goes round if enter() asked for another state.
EnteredDest ==
    /\ pc = "enter" /\ enteringIndex[2] > Len(mStateStack) /\ destState # NoState
    /\ mTransitionInProgress' = FALSE
    /\ MoveDeferredMessageAtFrontOfQueue
    /\ mDeferredMessages' = <<>>
    /\ \/ /\ destState # mDestState
          /\ destState' = mDestState
          /\ pc' = "setup"
          /\ UNCHANGED <<mDestState, mHasQuit>>
       \/ /\ destState = mDestState
          /\ mDestState' = NoState /\ destState' = NoState
          /\ pc' = "idle"
          /\ IF destState = mQuittingState THEN CleanupAfterQuitting ELSE UNCHANGED mHasQuit
    /\ UNCHANGED <<mMsg, mStateStack, active, common, at, enteringIndex,
                   mIsConstructionCompleted, log, senders, finished, quitting, bounds>>

Handle ==
    \/ HandleMessage \/ ProcessMessage \/ HaltedProcessMessage \/ PerformTransitions
    \/ SetupTransition \/ Exit \/ MoveTempStateStack \/ Enter \/ EnteredInitial \/ EnteredDest

SmNext ==
    \/ Start \/ SendMessage \/ SendMessageAtFrontOfQueue \/ Quit
    \/ \E m \in Msgs : RemoveMessages(m) \/ RemoveDeferredMessages(m)
    \/ Handle

SmSpec == SmInit /\ [][SmNext]_smVars

\* The thread of the Looper runs and user code returns.
SmFairness == WF_smVars(Handle)

-----------------------------------------------------------------------------
\* Between two messages the states that have been entered and not left are
\* those on the stack, a path from a root to the current state.
ActiveIsPath ==
    pc = "idle" /\ mIsConstructionCompleted =>
        /\ active = Range(mStateStack)
        /\ mStateStack # <<>>
        /\ ParentOf(mStateStack[1]) = NoState
        /\ \A i \in 2 .. Len(mStateStack) : ParentOf(mStateStack[i]) = mStateStack[i-1]

Waiting == mDeferredMessages
           \o (IF pc = "process" /\ mMsg \notin Range(mDeferredMessages) THEN <<mMsg>> ELSE <<>>)
           \o queue

\* Deferring a message, however often, never lets a later one overtake it.
WaitInOrder ==
    \A i, j \in DOMAIN Waiting :
        i < j /\ {Waiting[i], Waiting[j]} \subseteq Msgs \ urgent => Waiting[i] < Waiting[j]

\* Until the machine has quit a message is processed, removed, or waits.
NoMessageLost ==
    ~mHasQuit =>
        \A m \in 1 .. sent :
            m \in finished \/ m \in Range(Waiting) \/ (pc = "transit" /\ m = mMsg)

\* No message is lost by deferring, removing, transiting and quitting, and
\* none overtakes another.
MessagesKept == NoMessageLost /\ WaitInOrder

\* quit ends the machine, whatever is queued, deferred or being entered.
QuitEnds == quitting ~> mHasQuit
=============================================================================
