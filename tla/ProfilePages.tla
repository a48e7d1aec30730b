---------------------------- MODULE ProfilePages ----------------------------
(***************************************************************************)
(* The pages of the profiles that only ask the stack to connect and show    *)
(* what it reports: PageMedia (A2DP sink), PageA2dpSource, PageHandfreeAg,   *)
(* PageHidHost, PagePan, PageRfcomm and PageL2CAP, the modules behind them   *)
(* (BT/BluetoothA2DPSink, ...), PageGatt with the Connect options of its     *)
(* PageAppleANCS and PageKanbanClient, and the home page that opens them.    *)
(*                                                                         *)
(* The stack's callbacks and the user's lines come one at a time on the      *)
(* loop thread; the list of paired devices (PageDeviceList) may change and   *)
(* a pairing dialog may cover the page between any two of them.  The home    *)
(* page keeps every page it made, and with it a half-finished dialog.        *)
(***************************************************************************)
EXTENDS StrandCommandScheduler, FiniteSets

CONSTANTS
    PpDevices, PpNoDevice,
    LoadedModules    \* the modules LoadBluetoothModules creates

Linked == {"sink", "source", "ag", "hid"}
GattPage == {"ancs", "kanbanclient"}
ProfilePage == Linked \cup {"pan", "rfcomm", "l2cap"} \cup GattPage

\* the page an option of which opens a page, and that Back returns to
Opener(page) == IF page \in GattPage THEN "gatt" ELSE "home"

ASSUME PpDevicesAssumption == IsFiniteSet(PpDevices)
ASSUME PpNoDeviceAssumption == PpNoDevice \notin PpDevices
ASSUME LoadedModulesAssumption == LoadedModules \subseteq ProfilePage

VARIABLES
    modulesInited,    \* ModuleManager::Init has run
    link,             \* per module: the status and address reported last
    audioConfig,      \* the sink's m_sampleRate and m_channelCount
    pairedList,       \* Adaptor::GetPairedDevices
    printedList,      \* the numbered list the open dialog printed
    topPage,          \* the home page or the page opened from it; "crashed"
    covered,          \* a pairing dialog lies over it
    shownStatus,      \* m_statusContent as it was drawn last
    freshRequested,   \* pages with a refresh in the queue
    scheduler,        \* m_commandScheduler of every page
    m_try_to_connect_br,
    lineParity,       \* history: of the lines the open dialog has read
    moduleRequest     \* the request of the last step, if any

stackVars == <<modulesInited, link, audioConfig, pairedList>>
screenVars == <<topPage, covered, shownStatus, freshRequested>>
askVars == <<printedList, scheduler, m_try_to_connect_br, lineParity>>
ppVars == <<stackVars, screenVars, askVars, moduleRequest>>

LinkStatus == {"Disconnected", "Connecting", "Connected", "Disconnecting"}
PpAnswers == 0 .. Cardinality(PpDevices) + 1
YesNo == 1 .. 2    \* the answers Y and N of the audio focus dialog
Unknown == <<"unknown">>
Blank == <<>>
PpExecutors == {"connect", "focus", "split"}

PpTypeOK ==
    /\ modulesInited \in BOOLEAN
    /\ link \in [Linked -> [status : LinkStatus, address : PpDevices \cup {PpNoDevice}]]
    /\ audioConfig \in 0 .. 1
    /\ pairedList \in BoundedSeq(PpDevices, Cardinality(PpDevices)) /\ IsInjective(pairedList)
    /\ printedList \in BoundedSeq(PpDevices, Cardinality(PpDevices))
    /\ topPage \in ProfilePage \cup {"home", "gatt", "crashed"} /\ covered \in BOOLEAN
    /\ freshRequested \subseteq Linked
    /\ scheduler \in [ProfilePage -> SchedulerTypes(PpExecutors, PpAnswers)]
    /\ m_try_to_connect_br \in BOOLEAN /\ lineParity \in 0 .. 1
    /\ moduleRequest = NoRequest \/ moduleRequest[1] \in ProfilePage

PpInit ==
    /\ modulesInited = FALSE
    /\ link = [m \in Linked |-> [status |-> "Disconnected", address |-> PpNoDevice]]
    /\ audioConfig = 0
    /\ pairedList = <<>> /\ printedList = <<>>
    /\ topPage = "home" /\ covered = FALSE /\ shownStatus = Blank /\ freshRequested = {}
    /\ scheduler = [p \in ProfilePage |-> Idle]
    /\ m_try_to_connect_br = FALSE /\ lineParity = 0
    /\ moduleRequest = NoRequest

(***************************************************************************)
(* What a page shows                                                        *)
(***************************************************************************)
\* PageMedia: before Init, status is read although nothing wrote it
MediaStatus ==
    IF ~modulesInited THEN Unknown
    ELSE IF link["sink"].status = "Connected"
         THEN <<"Connected", link["sink"].address, audioConfig>>
         ELSE <<link["sink"].status>>

SourceStatus == <<link["source"].status, link["source"].address>>

\* PageHandfreeAg shows no address but the one it never sets
GatewayStatus == <<link["ag"].status>>

HidStatus ==
    IF link["hid"].status = "Connected" THEN <<"Connected", link["hid"].address>>
    ELSE <<link["hid"].status>>

StatusOf(page) ==
    CASE page = "sink" -> MediaStatus
      [] page = "source" -> SourceStatus
      [] page = "ag" -> GatewayStatus
      [] page = "hid" -> HidStatus
      [] OTHER -> Blank

\* PushPage and PopPage draw the page that comes to the top
ShowPage(page) ==
    /\ topPage' = page
    /\ shownStatus' = StatusOf(page)
    /\ moduleRequest' = NoRequest
    /\ UNCHANGED <<stackVars, covered, freshRequested, askVars>>

(***************************************************************************)
(* Reports of the stack                                                     *)
(***************************************************************************)
\* the modules exist from the start, what Init makes of them is there after
\* the adaptor was enabled for the first time
InitModules ==
    /\ ~modulesInited
    /\ modulesInited' = TRUE
    /\ moduleRequest' = NoRequest
    /\ UNCHANGED <<link, audioConfig, pairedList, screenVars, askVars>>

\* PageNeedFresh of the pages whose signal is connected
SignalPage(module) ==
    freshRequested' = IF module = "ag" THEN freshRequested ELSE freshRequested \cup {module}

SinkStatusChanged(address, status) ==
    /\ link' = [link EXCEPT !["sink"] = [status |-> status, address |-> address]]
    /\ SignalPage("sink")

SourceStatusChanged(address, status) ==
    /\ link' = [link EXCEPT !["source"] = [status |-> status, address |-> address]]
    /\ SignalPage("source")

\* PhoneStateChange tells a new peer that there is no call
GatewayStatusChanged(address, status) ==
    /\ link' = [link EXCEPT !["ag"] = [status |-> status, address |-> address]]
    /\ SignalPage("ag")

HidStatusChanged(address, status) ==
    /\ link' = [link EXCEPT !["hid"] = [status |-> status, address |-> address]]
    /\ SignalPage("hid")

LinkChanges(address, status) ==
    /\ modulesInited
    /\ \/ SinkStatusChanged(address, status)
       \/ SourceStatusChanged(address, status)
       \/ GatewayStatusChanged(address, status)
       \/ HidStatusChanged(address, status)
    /\ moduleRequest' = NoRequest
    /\ UNCHANGED <<modulesInited, audioConfig, pairedList, topPage, covered, shownStatus, askVars>>

AudioConfigChanged(config) ==
    /\ modulesInited
    /\ audioConfig' = config
    /\ SignalPage("sink")
    /\ moduleRequest' = NoRequest
    /\ UNCHANGED <<modulesInited, link, pairedList, topPage, covered, shownStatus, askVars>>

\* pairing and deleting: Adaptor::OnBondStateChanged, which erases the one entry
\* of the device
PairedListChanges(device) ==
    /\ pairedList' = IF device \in Range(pairedList)
                     THEN RemoveFirst(pairedList, device)
                     ELSE Append(pairedList, device)
    /\ moduleRequest' = NoRequest
    /\ UNCHANGED <<modulesInited, link, audioConfig, screenVars, askVars>>

\* a pairing dialog is pushed over the page, and popped
CoverPage ==
    /\ ~covered /\ topPage # "home"
    /\ covered' = TRUE
    /\ moduleRequest' = NoRequest
    /\ UNCHANGED <<stackVars, topPage, shownStatus, freshRequested, askVars>>

UncoverPage ==
    /\ covered
    /\ covered' = FALSE
    /\ shownStatus' = StatusOf(topPage)
    /\ moduleRequest' = NoRequest
    /\ UNCHANGED <<stackVars, topPage, freshRequested, askVars>>

\* the posted refresh draws its page if that is on the screen
FreshRequested(page) ==
    /\ page \in freshRequested
    /\ freshRequested' = freshRequested \ {page}
    /\ shownStatus' = IF page = topPage /\ ~covered THEN StatusOf(page) ELSE shownStatus
    /\ moduleRequest' = NoRequest
    /\ UNCHANGED <<stackVars, topPage, covered, askVars>>

(***************************************************************************)
(* The home page's options and Back                                         *)
(***************************************************************************)
\* the pages of three modules are offered only if these are loaded; the one
\* of the A2DP source dereferences what Init has not made yet
OpenProfilePage(page) ==
    /\ topPage = Opener(page) /\ ~covered
    /\ page \in {"sink", "source", "ag"} => page \in LoadedModules
    /\ ShowPage(IF page = "source" /\ ~modulesInited THEN "crashed" ELSE page)

OpenGattPage == topPage = "home" /\ ~covered /\ ShowPage("gatt")

\* PageKanbanClient::OnEvent is the one that never asks its scheduler
HearsDialog(page) == page # "kanbanclient"

\* a line goes to the dialog first, so Back leaves only a page without one
LeaveProfilePage ==
    /\ topPage \in ProfilePage /\ ~covered
    /\ HearsDialog(topPage) => scheduler[topPage] = Idle
    /\ ShowPage(Opener(topPage))

LeaveGattPage == topPage = "gatt" /\ ~covered /\ ShowPage("home")

(***************************************************************************)
(* The dialogs                                                              *)
(***************************************************************************)
\* A slip: the list that was printed, paired still or not.
ChosenPrinted(number) ==
    IF number \in DOMAIN printedList THEN printedList[number] ELSE PpNoDevice

\* the number means a device of the list as it is
ChosenPaired(number) ==
    IF number \in DOMAIN pairedList THEN pairedList[number] ELSE PpNoDevice

\* the two steps of every HandleConnectRequest: print the list, take a number
AskForPaired(s, answer, page) ==
    IF s.step = 0
    THEN IF pairedList = <<>> THEN Done(s, NoRequest) ELSE Again(Asking(s, 1))
    ELSE LET given == Asking(AddParameter(s, answer), 2)
         IN  IF ChosenPaired(answer) = PpNoDevice
             THEN Again(Asking(RemoveLastParameter(given), 1))
             ELSE Done(given, <<page, "connect", ChosenPaired(answer)>>)

\* these pages also put the scheduler back to its beginning
ThenBackToBeginning(result) ==
    IF result.done /\ result.request # NoRequest
    THEN Done(BackToBeginning(result.scheduler), result.request) ELSE result

MediaConnectRequest(s, answer) == ThenBackToBeginning(AskForPaired(s, answer, "sink"))
SourceConnectRequest(s, answer) == AskForPaired(s, answer, "source")
GatewayConnectRequest(s, answer) == AskForPaired(s, answer, "ag")
HidConnectRequest(s, answer) == ThenBackToBeginning(AskForPaired(s, answer, "hid"))
PanConnectRequest(s, answer) == ThenBackToBeginning(AskForPaired(s, answer, "pan"))
RfcommConnectRequest(s, answer) == AskForPaired(s, answer, "rfcomm")
AncsConnectRequest(s, answer) == AskForPaired(s, answer, "ancs")

\* the call of Connect is commented out
KanbanClientConnectRequest(s, answer) ==
    [AskForPaired(s, answer, "kanbanclient") EXCEPT !.request = NoRequest]

\* Connect takes the PSM of the option chosen last
L2capConnectRequest(s, answer) ==
    LET result == AskForPaired(s, answer, "l2cap")
    IN  IF result.request = NoRequest THEN result
        ELSE Done(result.scheduler,
                  Append(result.request, IF m_try_to_connect_br THEN "br" ELSE "le"))

\* asked before every step; neither Y nor N is asked for again
HandleAudioFocusRequest(s, answer) ==
    IF link["sink"].status # "Connected" THEN Done(s, NoRequest)
    ELSE IF s.step = 0 THEN Again(Asking(s, 1))
    ELSE LET given == Asking(AddParameter(s, answer), 2)
         IN  IF answer \in YesNo THEN Done(given, <<"sink", "focus", answer>>)
             ELSE Again(RemoveLastParameter(Asking(given, 1)))

\* the gateway asks for a number to split and does nothing with it
GatewaySplitCall(s, answer) ==
    IF s.step = 0 THEN Again(Asking(s, 1)) ELSE Done(Cleared(AddParameter(s, answer)), NoRequest)

PpExecute(page, s, answer) ==
    IF s.executor = "focus" THEN HandleAudioFocusRequest(s, answer)
    ELSE IF s.executor = "split" THEN GatewaySplitCall(s, answer)
    ELSE
    CASE page = "sink" -> MediaConnectRequest(s, answer)
      [] page = "source" -> SourceConnectRequest(s, answer)
      [] page = "ag" -> GatewayConnectRequest(s, answer)
      [] page = "hid" -> HidConnectRequest(s, answer)
      [] page = "pan" -> PanConnectRequest(s, answer)
      [] page = "rfcomm" -> RfcommConnectRequest(s, answer)
      [] page = "l2cap" -> L2capConnectRequest(s, answer)
      [] page = "ancs" -> AncsConnectRequest(s, answer)
      [] page = "kanbanclient" -> KanbanClientConnectRequest(s, answer)

Offers(page) ==
    {"connect"} \cup (IF page = "sink" THEN {"focus"} ELSE {})
                \cup (IF page = "ag" THEN {"split"} ELSE {})

OnScreen(page) == topPage = page /\ ~covered

\* on the page whose lines never reach its dialog the option can come again:
\* the prompt is then taken for an answer
StartPageDialog(page, executor) ==
    LET result == PpExecute(page, [scheduler[page] EXCEPT !.executor = executor], Prompt)
    IN  /\ OnScreen(page) /\ executor \in Offers(page)
        /\ HearsDialog(page) => scheduler[page] = Idle
        /\ scheduler' = [scheduler EXCEPT ![page] = AfterRun(result)]
        /\ printedList' = IF executor = "connect" THEN pairedList ELSE printedList
        /\ m_try_to_connect_br' \in IF page = "l2cap" THEN BOOLEAN ELSE {m_try_to_connect_br}
        /\ moduleRequest' = result.request
        /\ UNCHANGED <<stackVars, screenVars, lineParity>>

PpUserAnswers(page, answer) ==
    LET s == scheduler[page]
        result == IF TriedTooOften(s) THEN Done(s, NoRequest)
                  ELSE PpExecute(page, Trying(s), answer)
    IN  /\ OnScreen(page) /\ HearsDialog(page) /\ s # Idle
        /\ scheduler' = [scheduler EXCEPT ![page] = AfterRun(result)]
        /\ moduleRequest' = result.request
        /\ printedList' = IF scheduler'[page] = Idle THEN <<>> ELSE printedList
        /\ lineParity' = IF scheduler'[page] = Idle THEN 0 ELSE 1 - lineParity
        /\ UNCHANGED <<stackVars, screenVars, m_try_to_connect_br>>

(***************************************************************************)
(* Options that ask the module at once                                      *)
(***************************************************************************)
LinkedDevice(page) == link[page].address

MediaDisconnect ==
    IF link["sink"].status = "Connected" THEN <<"sink", "disconnect", LinkedDevice("sink")>>
    ELSE NoRequest

\* connected or not
SourceDisconnect == <<"source", "disconnect", LinkedDevice("source")>>
HidDisconnect == <<"hid", "disconnect", LinkedDevice("hid")>>
HidGetReport == <<"hid", "report", LinkedDevice("hid")>>

SetActiveDevice ==
    IF link["source"].status = "Connected" THEN <<"source", "active", LinkedDevice("source")>>
    ELSE NoRequest

SetSilenceDevice ==
    IF link["source"].status = "Connected" THEN <<"source", "silence", LinkedDevice("source")>>
    ELSE NoRequest

\* The gateway's status is a local constant, the list of PAN devices is
\* empty: Disconnect, Dial and Answer never ask for anything.
GatewayDisconnect == NoRequest
GatewayDial == NoRequest
GatewayAnswer == NoRequest
PanDisconnect == NoRequest

L2capListen == <<"l2cap", "listen", PpNoDevice>>
RfcommCustomTest == <<"rfcomm", "custom", PpNoDevice>>

RequestsOf(page) ==
    CASE page = "sink" -> {MediaDisconnect}
      [] page = "source" -> {SourceDisconnect, SetActiveDevice, SetSilenceDevice}
      [] page = "ag" -> {GatewayDisconnect, GatewayDial, GatewayAnswer}
      [] page = "hid" -> {HidDisconnect, HidGetReport}
      [] page = "pan" -> {PanDisconnect}
      [] page = "rfcomm" -> {RfcommCustomTest}
      [] page = "l2cap" -> {L2capListen}
      [] page \in GattPage -> {}

ChooseOption(page) ==
    /\ OnScreen(page) /\ scheduler[page] = Idle
    /\ moduleRequest' \in RequestsOf(page)
    /\ UNCHANGED <<stackVars, screenVars, askVars>>

PpNext ==
    \/ InitModules
    \/ \E d \in PpDevices, s \in LinkStatus : LinkChanges(d, s)
    \/ \E c \in 0 .. 1 : AudioConfigChanged(c)
    \/ \E d \in PpDevices : PairedListChanges(d)
    \/ CoverPage \/ UncoverPage \/ LeaveProfilePage \/ OpenGattPage \/ LeaveGattPage
    \/ \E p \in ProfilePage : \/ OpenProfilePage(p) \/ FreshRequested(p) \/ ChooseOption(p)
                              \/ \E e \in PpExecutors : StartPageDialog(p, e)
                              \/ \E a \in PpAnswers : PpUserAnswers(p, a)

PpSpec == PpInit /\ [][PpNext]_ppVars
-----------------------------------------------------------------------------
\* A page on the screen shows the link as it is, or its refresh is in the
\* queue - also when the report came while a dialog lay over it.  The gateway's
\* page, which listens to nothing, and a drawing from before Init are left out.
ShownStatusIsCurrent ==
    \A p \in {"sink", "source", "hid"} :
        OnScreen(p) /\ shownStatus \notin {StatusOf(p), Unknown} => p \in freshRequested

\* A connection is asked for only to a device that is paired at that moment,
\* although the number was chosen from a list printed some answers ago.
RequestedIsPaired ==
    [][moduleRequest' # NoRequest /\ moduleRequest'[2] = "connect"
          => moduleRequest'[3] \in Range(pairedList)]_ppVars

\* The audio focus is not given for a link that broke in the middle of the
\* dialog.
FocusOnlyConnected ==
    [][moduleRequest' # NoRequest /\ moduleRequest'[2] = "focus"
          => link["sink"].status = "Connected"]_ppVars

\* What the dialogs ask for is right when it is asked for
\* (HandleConnectRequest, HandleAudioFocusRequest).
RequestsAreRight == RequestedIsPaired /\ FocusOnlyConnected

\* A user who keeps answering gets out of every dialog, also when the list
\* became empty under it and no number is right any more.
DialogEnds ==
    []<><<\E p \in ProfilePage, a \in PpAnswers : PpUserAnswers(p, a)>>_ppVars =>
        []<>(\A p \in ProfilePage : HearsDialog(p) => scheduler[p] = Idle)

=============================================================================
