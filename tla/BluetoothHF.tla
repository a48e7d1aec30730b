---------------------------- MODULE BluetoothHF ----------------------------
(***************************************************************************)
(* The hands-free unit: what BT/BluetoothHF.cpp keeps of the phone's calls, *)
(* the timer that asks for the call list a bounded number of times after    *)
(* every change, and the pages PageHandfree and PageHandfreeStatus.         *)
(*                                                                         *)
(* The phone and the link are external: indicators and the answers to a     *)
(* call-list query arrive in the order the phone sends them, one query may  *)
(* stand for several, and what is under way is lost with the link.  The     *)
(* handlers run on the loop thread.  A call is its index and state; volume, *)
(* battery, operator and numbers are only copied and printed.               *)
(***************************************************************************)
EXTENDS StrandCommandScheduler, FiniteSets

CONSTANTS
    Phones, NoPhone,
    MaxPaired,         \* bound of the model: paired devices
    CallIndexes,
    m_maxQueryTimes,   \* 5 in the code
    MaxUnderWay        \* bound of the model: messages from the phone

ASSUME NoPhoneAssumption == NoPhone \notin Phones
ASSUME PairedAssumption == MaxPaired \in Nat
ASSUME CallIndexAssumption == CallIndexes \subseteq Nat /\ IsFiniteSet(CallIndexes)
ASSUME QueryAssumption == m_maxQueryTimes \in Nat /\ MaxUnderWay \in Nat

VARIABLES
    m_status, m_address,
    m_callSessions,      \* vector of [index, state]
    queryTimer,          \* whether m_queryCallListConnection is connected
    queryAddress,        \* the address its slot was bound to
    m_queryCallListTime,
    phoneCalls,          \* external: index -> state of the phone's calls
    queried,             \* external: a query has reached the phone
    underWay,            \* external: messages from the phone
    hfPage,              \* the page on top: PageHandfree or its status page
    m_connectedDevice,   \* the page's copy of the address
    hfFreshEvent,        \* a refresh of the page is in the queue
    statusContent,       \* what the status page shows
    hfScheduler,
    queriesSince         \* history: queries since StartQueryCallList

callVars == <<m_callSessions>>
queryVars == <<queryTimer, queryAddress, m_queryCallListTime, queriesSince>>
phoneVars == <<phoneCalls, queried, underWay>>
pageVars == <<hfPage, m_connectedDevice, hfFreshEvent, statusContent>>
linkVars == <<m_status, m_address>>
hfVars == <<linkVars, callVars, queryVars, phoneVars, pageVars, hfScheduler>>

ConnectionStatus == {"Disconnected", "Connecting", "Connected"}
CallState == {"INCOMING", "ACTIVE"}
Session == [index : CallIndexes, state : CallState]
NoCall == "none"
Message == [type : {"setup", "progress"}, on : BOOLEAN] \cup [type : {"call"}, call : Session]

HfTypeOK ==
    /\ m_status \in ConnectionStatus /\ m_address \in Phones \cup {NoPhone}
    /\ m_callSessions \in Seq(Session)
    /\ queryTimer \in BOOLEAN /\ queryAddress \in Phones \cup {NoPhone}
    /\ m_queryCallListTime \in 0 .. m_maxQueryTimes
    /\ phoneCalls \in [CallIndexes -> CallState \cup {NoCall}]
    /\ queried \in BOOLEAN /\ underWay \in Seq(Message)
    /\ hfPage \in {"handsfree", "status"} /\ m_connectedDevice \in Phones \cup {NoPhone}
    /\ hfFreshEvent \in BOOLEAN
    /\ statusContent \in Seq(Session)
    /\ hfScheduler \in SchedulerTypes({"connect", "dial", "split"}, 0 .. MaxPaired + 1)
    /\ queriesSince \in Nat

HfInit ==
    /\ m_status = "Disconnected" /\ m_address = NoPhone
    /\ m_callSessions = <<>>
    /\ queryTimer = FALSE /\ queryAddress = NoPhone /\ m_queryCallListTime = 0
    /\ phoneCalls = [i \in CallIndexes |-> NoCall] /\ queried = FALSE /\ underWay = <<>>
    /\ hfPage = "handsfree" /\ m_connectedDevice = NoPhone
    /\ hfFreshEvent = FALSE /\ statusContent = <<>>
    /\ hfScheduler = Idle /\ queriesSince = 0

(***************************************************************************)
(* The pages: both listen to the connection and to the call list            *)
(***************************************************************************)
\* RefreshHandfreeStatus prints the calls only when connected
StatusString(status, sessions) == IF status = "Connected" THEN sessions ELSE <<>>

\* m_connectionStatusChangedSignal and m_calllistChangedSignal
Signal(status, sessions) ==
    /\ hfFreshEvent' = TRUE
    /\ statusContent' = IF hfPage = "status" THEN StatusString(status, sessions)
                        ELSE statusContent
    /\ UNCHANGED <<hfPage, m_connectedDevice>>

\* UpdateStatusContent at every drawing
HfFreshPage ==
    /\ hfFreshEvent
    /\ hfFreshEvent' = FALSE
    /\ m_connectedDevice' = IF hfPage = "handsfree" THEN m_address ELSE m_connectedDevice
    /\ UNCHANGED <<linkVars, callVars, queryVars, phoneVars, hfPage, statusContent, hfScheduler>>

HandleShowStatusPage ==
    /\ hfPage = "handsfree" /\ hfScheduler = Idle
    /\ hfPage' = "status"
    /\ statusContent' = StatusString(m_status, m_callSessions)
    /\ UNCHANGED <<linkVars, callVars, queryVars, phoneVars, m_connectedDevice, hfFreshEvent,
                   hfScheduler>>

\* the status page is popped and destroyed, the page below drawn
HfBack ==
    /\ hfPage = "status"
    /\ hfPage' = "handsfree"
    /\ m_connectedDevice' = m_address
    /\ statusContent' = <<>>
    /\ UNCHANGED <<linkVars, callVars, queryVars, phoneVars, hfFreshEvent, hfScheduler>>

(***************************************************************************)
(* The query timer                                                          *)
(***************************************************************************)
\* A slip: only a new connection starts to count from the beginning.
StartQueryOnce(address) ==
    /\ queryTimer' = TRUE
    /\ queryAddress' = IF queryTimer THEN queryAddress ELSE address
    /\ UNCHANGED m_queryCallListTime
    /\ queriesSince' = 0

\* the timer that runs keeps the address it was bound to
StartQueryCallList(address) ==
    /\ queryTimer' = TRUE
    /\ queryAddress' = IF queryTimer THEN queryAddress ELSE address
    /\ m_queryCallListTime' = 0
    /\ queriesSince' = 0

\* A query reaches the phone it is meant for if that is connected.
QueryCallList ==
    /\ queryTimer
    /\ queried' = (queried \/ (queryAddress = m_address /\ m_status = "Connected"))
    /\ IF m_queryCallListTime + 1 > m_maxQueryTimes
       THEN m_queryCallListTime' = 0 /\ queryTimer' = FALSE
       ELSE m_queryCallListTime' = m_queryCallListTime + 1 /\ UNCHANGED queryTimer
    /\ queriesSince' = queriesSince + 1
    /\ UNCHANGED <<linkVars, callVars, queryAddress, phoneCalls, underWay, pageVars, hfScheduler>>

(***************************************************************************)
(* Callbacks of the stack                                                   *)
(***************************************************************************)
\* the phone, when this is news of the link: its calls are those of a new one
LinkIsNew(status) ==
    /\ phoneCalls' \in [CallIndexes -> IF status = "Connected" THEN CallState \cup {NoCall}
                                       ELSE {NoCall}]
    /\ underWay' = <<>>
    /\ queried' = FALSE

\* the stack may report what it has reported before
HandleConnectionStatusChanged(phone, status) ==
    /\ m_address' = phone
    /\ m_status' = status
    /\ Signal(status, m_callSessions)
    /\ IF status = "Connected" THEN StartQueryCallList(phone) ELSE UNCHANGED queryVars
    /\ IF <<phone, status>> = <<m_address, m_status>> THEN UNCHANGED phoneVars ELSE LinkIsNew(status)
    /\ UNCHANGED <<callVars, hfScheduler>>

\* A slip: the list is forgotten and not asked for.
CallSetupForgets ==
    /\ m_callSessions' = <<>>
    /\ Signal(m_status, <<>>)
    /\ UNCHANGED queryVars

\* the list is forgotten and asked for again
HandleCallSetupChanged ==
    /\ m_callSessions' = <<>>
    /\ Signal(m_status, <<>>)
    /\ StartQueryCallList(m_address)

HandleCallProgressChanged ==
    /\ StartQueryCallList(m_address)
    /\ UNCHANGED <<callVars, pageVars>>

SameCall(a, b) == a.index = b.index

\* a call is replaced in place if it changed, or appended
HandleCallListChanged(session) ==
    LET found == {i \in DOMAIN m_callSessions : SameCall(m_callSessions[i], session)}
    IN  /\ m_callSessions' = IF found = {} THEN Append(m_callSessions, session)
                             ELSE [i \in DOMAIN m_callSessions |->
                                      IF i \in found THEN session ELSE m_callSessions[i]]
        /\ IF m_callSessions' # m_callSessions THEN Signal(m_status, m_callSessions')
           ELSE UNCHANGED pageVars
        /\ UNCHANGED queryVars

Deliver ==
    /\ underWay # <<>>
    /\ LET m == Head(underWay)
       IN  \/ m.type = "setup" /\ HandleCallSetupChanged
           \/ m.type = "progress" /\ HandleCallProgressChanged
           \/ m.type = "call" /\ HandleCallListChanged(m.call)
    /\ underWay' = Tail(underWay)
    /\ UNCHANGED <<linkVars, phoneCalls, queried, hfScheduler>>

(***************************************************************************)
(* The phone                                                                *)
(***************************************************************************)
Send(messages) ==
    /\ Len(underWay) + Len(messages) <= MaxUnderWay
    /\ underWay' = underWay \o messages

Setup(on) == [type |-> "setup", on |-> on]
Progress(on) == [type |-> "progress", on |-> on]

PhoneRings(i) ==
    /\ phoneCalls[i] = NoCall
    /\ phoneCalls' = [phoneCalls EXCEPT ![i] = "INCOMING"]
    /\ Send(<<Setup(TRUE)>>)

PhoneAnswers(i) ==
    /\ phoneCalls[i] = "INCOMING"
    /\ phoneCalls' = [phoneCalls EXCEPT ![i] = "ACTIVE"]
    /\ Send(<<Progress(TRUE), Setup(FALSE)>>)

PhoneHangsUp(i) ==
    /\ phoneCalls[i] # NoCall
    /\ phoneCalls' = [phoneCalls EXCEPT ![i] = NoCall]
    /\ Send(IF phoneCalls[i] = "ACTIVE" THEN <<Progress(FALSE)>> ELSE <<Setup(FALSE)>>)

PhoneStep ==
    /\ m_status = "Connected"
    /\ \E i \in CallIndexes : PhoneRings(i) \/ PhoneAnswers(i) \/ PhoneHangsUp(i)
    /\ UNCHANGED <<linkVars, callVars, queryVars, queried, pageVars, hfScheduler>>

Calling == {i \in CallIndexes : phoneCalls[i] # NoCall}

\* every call, in the order of their indexes
PhoneListsCalls ==
    /\ queried
    /\ queried' = FALSE
    /\ \E list \in [1 .. Cardinality(Calling) -> Calling] :
          /\ \A m, n \in DOMAIN list : m < n => list[m] < list[n]
          /\ Send([n \in DOMAIN list |->
                      [type |-> "call",
                       call |-> [index |-> list[n], state |-> phoneCalls[list[n]]]]])
    /\ UNCHANGED <<linkVars, callVars, queryVars, phoneCalls, pageVars, hfScheduler>>

(***************************************************************************)
(* The user's dialogs                                                       *)
(***************************************************************************)
\* Adaptor::GetPairedDevices, of the moment: it may have changed since the
\* page printed its numbers
PairedLists == {l \in UNION {[1 .. n -> Phones] : n \in 0 .. MaxPaired} : IsInjective(l)}

HandleConnectRequest(s, answer, paired) ==
    IF s.step = 0
    THEN IF paired = <<>> THEN Done(s, NoRequest) ELSE Again(Asking(s, 1))
    ELSE IF answer \in 1 .. Len(paired)
         THEN Done(Asking(AddParameter(s, answer), 2), <<"connect", paired[answer]>>)
         ELSE Again(Asking(RemoveLastParameter(AddParameter(s, answer)), 1))

HandleDialNumber(s, answer) ==
    IF m_status # "Connected" THEN Done(Idle, NoRequest)
    ELSE IF s.step = 0 THEN Again(Asking(s, 1))
    ELSE Done(Asking(AddParameter(s, answer), 2), <<"dial", m_address>>)

\* a number that is none ends the dialog too; the request swaps the calls
HandleSplitCall(s, answer) ==
    IF s.step = 0 THEN Again(Asking(s, 1))
    ELSE Done(Idle, IF answer = NotANumber THEN NoRequest ELSE <<"swap", m_connectedDevice>>)

HfExecute(s, answer, paired) ==
    CASE s.executor = "connect" -> HandleConnectRequest(s, answer, paired)
      [] s.executor = "dial" -> HandleDialNumber(s, answer)
      [] s.executor = "split" -> HandleSplitCall(s, answer)

\* every call of the dial's executor asks for the address, which the stack's
\* interface writes into m_connectedDevice, connected or not
HfFinish(executor, result) ==
    /\ hfScheduler' = AfterRun(result)
    /\ m_connectedDevice' = IF executor = "dial" THEN m_address ELSE m_connectedDevice
    /\ UNCHANGED <<linkVars, callVars, queryVars, phoneVars, hfPage, hfFreshEvent, statusContent>>

HfStartDialog(executor) ==
    /\ hfPage = "handsfree" /\ hfScheduler = Idle
    /\ \E paired \in PairedLists :
          HfFinish(executor, HfExecute([hfScheduler EXCEPT !.executor = executor], Prompt, paired))

HfUserAnswers(answer) ==
    /\ hfPage = "handsfree" /\ hfScheduler # Idle
    /\ IF TriedTooOften(hfScheduler) THEN HfFinish(NoExecutor, Done(hfScheduler, NoRequest))
       ELSE \E paired \in PairedLists :
               HfFinish(hfScheduler.executor, HfExecute(Trying(hfScheduler), answer, paired))

\* "Disconnect" and "Answer Incoming Call" ask for the address first
GetConnectionStatus ==
    /\ hfPage = "handsfree" /\ hfScheduler = Idle
    /\ m_connectedDevice' = m_address
    /\ UNCHANGED <<linkVars, callVars, queryVars, phoneVars, hfPage, hfFreshEvent, statusContent,
                   hfScheduler>>

HfNext ==
    \/ \E p \in Phones, s \in ConnectionStatus : HandleConnectionStatusChanged(p, s)
    \/ Deliver \/ PhoneStep \/ PhoneListsCalls
    \/ QueryCallList
    \/ HfFreshPage \/ HandleShowStatusPage \/ HfBack \/ GetConnectionStatus
    \/ \E e \in {"connect", "dial", "split"} : HfStartDialog(e)
    \/ \E a \in 0 .. MaxPaired + 1 : HfUserAnswers(a)

HfSpec == HfInit /\ [][HfNext]_hfVars

\* Timers are called again (GeneralTimer), the link and the phone answer.
HfFairness == WF_hfVars(QueryCallList) /\ WF_hfVars(Deliver) /\ WF_hfVars(PhoneListsCalls)

-----------------------------------------------------------------------------
\* The phone's answers to any number of queries, late or twice, list a call once.
CallListedOnce ==
    \A i, j \in DOMAIN m_callSessions :
        m_callSessions[i].index = m_callSessions[j].index => i = j

\* After the last change the list is asked for as often as promised, never
\* less: a change while the timer runs starts the count again.
EveryChangeIsQueried ==
    [][queryTimer /\ ~queryTimer' => queriesSince' = m_maxQueryTimes + 1]_hfVars

\* The queries end, although every change starts them again.
QueriesEnd ==
    <>[][queriesSince' # 0]_hfVars => <>[]~queryTimer

Quiet == UNCHANGED <<linkVars, phoneCalls>>

\* When the phone and the link keep quiet, every call it has is in the list,
\* in its state - unless the timer kept asking another phone, the one it was
\* started for.  A call that ended may stay in the list.
CallsGetListed ==
    <>[][Quiet]_hfVars =>
        <>[](m_status = "Connected" /\ queryAddress = m_address =>
                \A i \in CallIndexes : phoneCalls[i] # NoCall =>
                    [index |-> i, state |-> phoneCalls[i]] \in Range(m_callSessions))

\* The status page shows the calls as they are, whatever came since it was
\* opened.
StatusPageIsCurrent ==
    hfPage = "status" => statusContent = StatusString(m_status, m_callSessions)

\* The options without a dialog (reject, hold, swap, join) use the address the
\* page saw last: it is the connected one unless a drawing is under way.
PageKnowsDevice ==
    hfPage = "handsfree" /\ m_connectedDevice # m_address => hfFreshEvent

=============================================================================
