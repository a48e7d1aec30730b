----------------------------- MODULE PageAppleANCS -----------------------------
(***************************************************************************)
(* The client of Apple's notification service (PageAppleANCS.cpp): one     *)
(* client registered with the GATT stack, the queue of commands it writes  *)
(* to the telephone, one at a time, and the notifications it has got.      *)
(*                                                                         *)
(* A queued command captures the page, not its handles: what it writes     *)
(* goes to the connection there is when it runs.  The telephone, the stack *)
(* and the user are external.  The dialog of "Connect" is in ProfilePages. *)
(* One application sends every notification, and a telephone searched for  *)
(* the service has it.                                                     *)
(***************************************************************************)
EXTENDS Naturals, Sequences, FiniteSets, SequencesExt

CONSTANTS
  AncsUids,      \* the identities of the telephone's notifications
  MaxLinks,      \* bound: connections made
  MaxNotices,    \* bound: notifications the telephone announces
  MaxByHand,     \* bound: uses of the option "Register Notification"
  MaxAncsQueue   \* bound: announcements and drawings wait for a queue shorter than this

ASSUME AncsAssumption ==
  /\ IsFiniteSet(AncsUids)
  /\ {MaxLinks, MaxNotices, MaxByHand, MaxAncsQueue} \subseteq Nat

VARIABLES
  m_interfaceNumber,     \* 0 until the stack has registered the client
  ancsLink,              \* [id |-> m_connectionID, up |-> m_connectStatus is connected]
  gatt,                  \* the queue of commands and what it has done, a record (GattStart)
  discoveries,           \* one-shots of 3000 ms that will search the service
  searches, reads,       \* the stack's: searches and descriptor reads of this link to answer
  asked,                 \* the telephone's: the details and the name it was asked for
  m_detailMessages,      \* the uids of the notifications got, in the order of their arrival
  m_currentNotifyIndex,
  offered,               \* the visible ones of the actions "next" and "previous"
  named,                 \* m_appNames has the application's name
  ancsFresh,             \* the page waits to be drawn
  notices, byHand        \* counters of the bounds

ancsVars == <<m_interfaceNumber, ancsLink, gatt, discoveries, searches, reads, asked,
              m_detailMessages, m_currentNotifyIndex, offered, named, ancsFresh, notices, byHand>>
ancsPageVars == <<m_detailMessages, m_currentNotifyIndex, offered, named>>
ancsStackVars == <<m_interfaceNumber, ancsLink, discoveries, searches, reads>>

Configs  == {"notify", "data"}           \* the two client configurations to write
Commands == Configs \cup {"byHand", "detail", "name"}
-----------------------------------------------------------------------------
(* The command queue.  gatt.writes are the writes the stack has not        *)
(* answered; overtaken: m_cmdExecuting was cleared by something else while *)
(* this one was under way.  gatt.configured are the configurations written *)
(* on the present link; handles: m_notifyConfigHandle and                  *)
(* m_DataSourceConfigHandle have been found.                               *)
GattStart == [queue |-> <<>>, executing |-> FALSE, registered |-> FALSE, timer |-> TRUE,
              writes |-> <<>>, configured |-> {}, handles |-> FALSE]

\* WriteCharacteristic: a write without a connection is never answered.
Write(g, cmd) ==
  IF ~ancsLink.up THEN g
  ELSE [g EXCEPT !.writes = Append(@, [what |-> cmd, overtaken |-> FALSE]),
                 !.configured = IF g.handles THEN @ \cup (CASE cmd = "byHand" -> {"notify"}
                                                                [] OTHER -> {cmd} \cap Configs)
                                ELSE @]

\* HandelNextGattCommand with a command waiting and none under way.
RunFront(g) ==
  Write([g EXCEPT !.queue = Tail(@), !.executing = TRUE,
                  !.registered = @ \/ Head(g.queue) = "notify"],
        Head(g.queue))

\* A slip: the next command does not wait for the answer of the last.
NextGattCommandAtOnce(g) ==
  IF g.queue = <<>> THEN [g EXCEPT !.timer = FALSE] ELSE RunFront(g)

HandelNextGattCommand(g) ==
  IF g.queue = <<>> THEN [g EXCEPT !.timer = FALSE]
  ELSE IF g.executing THEN g ELSE RunFront(g)

EnqueueCommandTask(g, cmd, postToLast) ==
  LET q == [g EXCEPT !.timer = TRUE,
                     !.queue = IF postToLast THEN Append(@, cmd) ELSE <<cmd>> \o @]
  IN  IF q.registered /\ ~q.executing THEN HandelNextGattCommand(q) ELSE q

\* m_cmdExecuting = false, whatever asked for it.
Overtake(g) ==
  [g EXCEPT !.executing = FALSE,
            !.writes = [i \in DOMAIN @ |-> [@[i] EXCEPT !.overtaken = TRUE]]]
-----------------------------------------------------------------------------
AncsInit ==
  /\ m_interfaceNumber = 0
  /\ ancsLink = [id |-> 0, up |-> FALSE]
  /\ gatt = GattStart
  /\ discoveries = 0 /\ searches = 0 /\ reads = 0
  /\ asked = {}
  /\ m_detailMessages = <<>> /\ m_currentNotifyIndex = 0
  /\ offered = {} /\ named = FALSE /\ ancsFresh = FALSE
  /\ notices = 0 /\ byHand = 0

\* The stack has registered the client.
HandleClientRegistered ==
  /\ m_interfaceNumber = 0
  /\ m_interfaceNumber' = 1
  /\ UNCHANGED <<ancsLink, gatt, discoveries, searches, reads, asked, ancsPageVars,
                 ancsFresh, notices, byHand>>

\* HandleANCSConnectionStatusChanged: a new connection.  The answers of an
\* earlier one, still to come, are told apart by their connection and ignored.
AncsConnected ==
  /\ m_interfaceNumber # 0 /\ ~ancsLink.up /\ ancsLink.id < MaxLinks
  /\ ancsLink' = [id |-> ancsLink.id + 1, up |-> TRUE]
  /\ gatt' = [gatt EXCEPT !.configured = {}]
  /\ discoveries' = discoveries + 1
  /\ searches' = 0 /\ reads' = 0
  /\ ancsFresh' = TRUE
  /\ UNCHANGED <<m_interfaceNumber, asked, ancsPageVars, notices, byHand>>

\* The same handler: the connection is lost.  The queue and m_cmdExecuting
\* stay; what the stack was asked is answered late or not at all.
AncsDisconnected ==
  /\ ancsLink.up
  /\ ancsLink' = [ancsLink EXCEPT !.up = FALSE]
  /\ \/ UNCHANGED <<gatt, searches, reads>>
     \/ gatt' = [gatt EXCEPT !.writes = <<>>] /\ searches' = 0 /\ reads' = 0
  /\ asked' = {}
  /\ ancsFresh' = TRUE
  /\ UNCHANGED <<m_interfaceNumber, discoveries, ancsPageVars, notices, byHand>>

\* The one-shot: the connection of this moment is searched.
HandleDiscoveryANCSService ==
  /\ discoveries > 0
  /\ discoveries' = discoveries - 1
  /\ searches' = IF ancsLink.up THEN searches + 1 ELSE searches
  /\ UNCHANGED <<m_interfaceNumber, ancsLink, gatt, reads, asked, ancsPageVars, ancsFresh,
                 notices, byHand>>

\* The service's attributes: the descriptors are read without the queue, and
\* each configuration is put in front of what waits.
HandleServiceDetailSearched ==
  /\ searches > 0
  /\ searches' = searches - 1
  /\ reads' = IF ancsLink.up THEN reads + 2 ELSE reads
  /\ gatt' = EnqueueCommandTask(EnqueueCommandTask([gatt EXCEPT !.handles = TRUE], "notify", FALSE),
                             "data", FALSE)
  /\ ancsFresh' = TRUE
  /\ UNCHANGED <<m_interfaceNumber, ancsLink, discoveries, asked, ancsPageVars, notices, byHand>>

\* A slip: the answer to a descriptor's read is only logged.
DescriptorReadLogged ==
  /\ reads > 0
  /\ reads' = reads - 1
  /\ UNCHANGED <<m_interfaceNumber, ancsLink, gatt, discoveries, searches, asked, ancsPageVars,
                 ancsFresh, notices, byHand>>

HandleDescriptorReadCompleted ==
  /\ reads > 0
  /\ reads' = reads - 1
  /\ gatt' = Overtake(gatt)
  /\ UNCHANGED <<m_interfaceNumber, ancsLink, discoveries, searches, asked, ancsPageVars,
                 ancsFresh, notices, byHand>>

\* The oldest write is answered; its connection is not looked at.  The others
\* under way, if any, are no longer waited for either.
HandleCharacteristicWriteCompleted ==
  /\ gatt.writes # <<>>
  /\ gatt' = Overtake([gatt EXCEPT !.writes = Tail(@)])
  /\ asked' = IF ancsLink.up THEN asked \cup ({Head(gatt.writes).what} \ (Configs \cup {"byHand"}))
              ELSE asked
  /\ UNCHANGED <<ancsStackVars, ancsPageVars, ancsFresh, notices, byHand>>

\* The same is reported among the stack's messages too, before the answer or,
\* when the next write is under way already, after it.
HandleClientCallbackMessage ==
  /\ gatt.writes # <<>> /\ ~Head(gatt.writes).overtaken
  /\ gatt' = Overtake(gatt)
  /\ UNCHANGED <<ancsStackVars, asked, ancsPageVars, ancsFresh, notices, byHand>>

\* What runs next is the configuration whose writing has the page drawn.
NotifyIsNext == gatt.queue # <<>> /\ ~gatt.executing /\ Head(gatt.queue) = "notify"

\* The page's timer.
TimerTick ==
  /\ gatt.timer
  /\ gatt' = HandelNextGattCommand(gatt)
  /\ ancsFresh' = (ancsFresh \/ NotifyIsNext)
  /\ UNCHANGED <<m_interfaceNumber, ancsLink, discoveries, searches, reads, asked, ancsPageVars,
                 notices, byHand>>

\* The option "Register Notification": perhaps before the handles are known.
ConfigureANCSNotification ==
  /\ byHand < MaxByHand /\ byHand' = byHand + 1
  /\ ancsLink.up
  /\ LET g == EnqueueCommandTask(EnqueueCommandTask(gatt, "byHand", FALSE), "data", FALSE)
     IN  gatt' = [g EXCEPT !.registered = TRUE]
  /\ ancsFresh' = TRUE
  /\ UNCHANGED <<m_interfaceNumber, ancsLink, discoveries, searches, reads, asked, ancsPageVars, notices>>

\* The telephone announces a notification: its details are asked for.
RetrieveDetailMassge ==
  /\ notices < MaxNotices /\ notices' = notices + 1
  /\ ancsLink.up /\ "notify" \in gatt.configured
  /\ Len(gatt.queue) < MaxAncsQueue
  /\ gatt' = EnqueueCommandTask(gatt, "detail", TRUE)
  /\ ancsFresh' = (ancsFresh \/ (gatt.registered /\ NotifyIsNext))
  /\ UNCHANGED <<m_interfaceNumber, ancsLink, discoveries, searches, reads, asked, ancsPageVars, byHand>>

\* The actions offered with n messages and the i-th on display.
UpdateNextPreActionVisiable(n, i) ==
  IF n <= 1 THEN {}
  ELSE IF i + 1 = n THEN {"previous"}
  ELSE IF i = 0 THEN {"next"}
  ELSE {"next", "previous"}

\* The details of a notification arrive.
Listed(uid) == IF uid \in ToSet(m_detailMessages) THEN m_detailMessages
               ELSE Append(m_detailMessages, uid)

ParseDataSource(uid) ==
  /\ "detail" \in asked
  /\ m_detailMessages' = Listed(uid)
  /\ offered' = UpdateNextPreActionVisiable(Len(m_detailMessages'), m_currentNotifyIndex)
  /\ ancsFresh' = TRUE
  /\ asked' = asked \ {"detail"}
  /\ UNCHANGED <<ancsStackVars, gatt, m_currentNotifyIndex, named, notices, byHand>>

\* The application's name arrives.
ParseApplicationAttribute ==
  /\ "name" \in asked
  /\ named' = TRUE
  /\ asked' = asked \ {"name"}
  /\ UNCHANGED <<ancsStackVars, gatt, m_detailMessages, m_currentNotifyIndex, offered, ancsFresh,
                 notices, byHand>>

\* The action "Next" or "Previous".
Turn(action) ==
  /\ action \in offered
  /\ m_currentNotifyIndex' =
       IF action = "previous" THEN (IF m_currentNotifyIndex > 0 THEN m_currentNotifyIndex - 1 ELSE 0)
       ELSE IF m_currentNotifyIndex + 1 < Len(m_detailMessages) THEN m_currentNotifyIndex + 1
       ELSE m_currentNotifyIndex
  /\ offered' = UpdateNextPreActionVisiable(Len(m_detailMessages), m_currentNotifyIndex')
  /\ ancsFresh' = TRUE
  /\ UNCHANGED <<ancsStackVars, gatt, asked, m_detailMessages, named, notices, byHand>>

\* UpdateStatusContent, as the page is drawn; the mark of a waiting drawing is
\* taken away last, with what was asked for meanwhile.  A notification on
\* display whose application has no name has it asked for, at every drawing.
UpdateStatusContent ==
  /\ ancsFresh /\ ancsFresh' = FALSE
  /\ Len(gatt.queue) < MaxAncsQueue
  /\ gatt' = IF m_detailMessages # <<>> /\ ~named THEN EnqueueCommandTask(gatt, "name", TRUE) ELSE gatt
  /\ UNCHANGED <<m_interfaceNumber, ancsLink, discoveries, searches, reads, asked, ancsPageVars,
                 notices, byHand>>

AncsNext ==
  \/ HandleClientRegistered
  \/ AncsConnected \/ AncsDisconnected
  \/ HandleDiscoveryANCSService \/ HandleServiceDetailSearched
  \/ HandleDescriptorReadCompleted \/ HandleCharacteristicWriteCompleted
  \/ HandleClientCallbackMessage \/ TimerTick
  \/ ConfigureANCSNotification \/ RetrieveDetailMassge
  \/ \E uid \in AncsUids : ParseDataSource(uid)
  \/ ParseApplicationAttribute
  \/ \E action \in {"next", "previous"} : Turn(action)
  \/ UpdateStatusContent

AncsSpec == AncsInit /\ [][AncsNext]_ancsVars

\* The stack answers what it was asked on a connection that lasts.
StackAnswers ==
  /\ WF_ancsVars(HandleDiscoveryANCSService)
  /\ WF_ancsVars(HandleServiceDetailSearched)
  /\ WF_ancsVars(HandleDescriptorReadCompleted)
  /\ WF_ancsVars(HandleCharacteristicWriteCompleted)

-----------------------------------------------------------------------------
\* Every variable keeps its type, and a command that waits has a timer that
\* will run it (EnqueueCommandTask, HandelNextGattCommand).
AncsTypeOK ==
  /\ m_interfaceNumber \in {0, 1}
  /\ ancsLink \in [id : 0..MaxLinks, up : BOOLEAN]
  /\ gatt.queue \in Seq(Commands) /\ gatt.configured \subseteq Configs
  /\ \A f \in {"executing", "registered", "timer", "handles"} : gatt[f] \in BOOLEAN
  /\ gatt.writes \in Seq([what : Commands, overtaken : BOOLEAN])
  /\ gatt.queue # <<>> => gatt.timer
  /\ discoveries \in 0..MaxLinks /\ searches \in 0..MaxLinks /\ reads \in 0..2 * MaxLinks
  /\ asked \subseteq {"detail", "name"}
  /\ {named, ancsFresh} \subseteq BOOLEAN
  /\ m_detailMessages \in Seq(AncsUids)
  /\ m_currentNotifyIndex \in Nat
  /\ m_detailMessages # <<>> => m_currentNotifyIndex < Len(m_detailMessages)

\* A command is written only when the one before it has been answered, unless
\* an answer to something else cleared m_cmdExecuting in between
\* (m_cmdExecuting; lines 264-269, 760-783).
CommandsOneByOne ==
  \A i, j \in DOMAIN gatt.writes :
    ~gatt.writes[i].overtaken /\ ~gatt.writes[j].overtaken => i = j /\ gatt.executing

\* A notification modified or asked for twice is listed once (ParseDataSource).
UidListedOnce == IsInjective(m_detailMessages)

\* The menu offers "Next" and "Previous" when there is one to turn to
\* (UpdateNextPreActionVisiable and its callers).
TurnsAreOffered ==
  /\ "next" \in offered <=> m_currentNotifyIndex + 1 < Len(m_detailMessages)
  /\ "previous" \in offered <=> m_currentNotifyIndex > 0

\* On a connection that lasts, the details of every announced notification are
\* asked for at last, whatever an earlier connection left under way: it is the
\* answers to the descriptors' reads that clear a flag left set
\* (HandleANCSConnectionStatusChanged leaves the queue and m_cmdExecuting).
DetailsAreAskedFor ==
  <>[](ancsLink.up) => []<>("detail" \notin ToSet(gatt.queue))

\* On a connection that lasts, both configurations are written for it, also
\* when an earlier connection had them written (m_notifyRegisteredRemote,
\* m_hasANCSService are never reset).
NotificationsGetConfigured ==
  <>[](ancsLink.up) => <>[](gatt.configured = Configs)
=============================================================================
