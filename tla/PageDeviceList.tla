--------------------------- MODULE PageDeviceList ---------------------------
(***************************************************************************)
(* Discovery and pairing: the lists and the bonding state the Adaptor keeps *)
(* (src/BluetoothApplication/BT/Adaptor.cpp), the page that shows them and  *)
(* asks the user for a number (PageDeviceList.cpp), and the dialog that     *)
(* confirms an incoming pairing request.                                    *)
(*                                                                         *)
(* The Bluetooth stack calls the On... handlers on the loop thread; its     *)
(* answers may come in any order.  A device is its address: names are left  *)
(* out, a request's passkey and method are named by its address, and the    *)
(* discovery state is only printed.  The dialog's countdown is the one of   *)
(* ConfirmPage: here it may be up at any time.                              *)
(***************************************************************************)
EXTENDS StrandCommandScheduler, FiniteSets

CONSTANTS
    Devices,      \* addresses
    NoDevice,
    MaxDialogs    \* bound of the model: copies of the dialog on the stack

ASSUME NoDeviceAssumption == NoDevice \notin Devices
ASSUME DevicesAssumption == IsFiniteSet(Devices)
ASSUME MaxDialogsAssumption == MaxDialogs \in Nat \ {0}

VARIABLES
    m_foundDevices, m_pairedDevices, m_bondState, m_pairingData,
    pdlPages,           \* the page stack: "home", "list" and "confirm"
    confirmEnabled,     \* m_enable of the dialog
    slotAddress,        \* the address its Yes and No slots captured
    confirmTimer,       \* whether its timeout timer is connected
    pdlScheduler,       \* m_commandScheduler of the page
    printedFound, printedPaired,  \* the numbered lists as they were drawn last
    foundEvent,         \* an event HanldeNewDeviceFound is in the queue
    freshEvent,         \* a refresh of the page is in the queue
    stackRequest,       \* the request to the stack the last step made, if any
    replies,            \* history: replies since the newest pairing request
    overlapped          \* history: a request came while the dialog was open

listVars == <<m_foundDevices, m_pairedDevices>>
dialogVars == <<confirmEnabled, slotAddress, confirmTimer>>
printedVars == <<printedFound, printedPaired>>
eventVars == <<foundEvent, freshEvent>>
historyVars == <<replies, overlapped>>
pdlVars == <<listVars, m_bondState, m_pairingData, pdlPages, dialogVars,
             pdlScheduler, printedVars, eventVars, stackRequest, historyVars>>

BondState == {"NoneBond", "Bonding", "BondCompleted"}
Answers == 0 .. Cardinality(Devices) + 1
DeviceList == BoundedSeq(Devices, Cardinality(Devices))

PdlTypeOK ==
    /\ m_foundDevices \in DeviceList /\ m_pairedDevices \in DeviceList
    /\ m_bondState \in BondState
    /\ m_pairingData \in Devices \cup {NoDevice}
    /\ pdlPages \in BoundedSeq({"home", "list", "confirm"}, 2 + MaxDialogs)
    /\ confirmEnabled \in BOOLEAN /\ confirmTimer \in BOOLEAN
    /\ slotAddress \in Devices \cup {NoDevice}
    /\ pdlScheduler \in SchedulerTypes({"pair", "delete"}, Answers)
    /\ printedFound \in DeviceList /\ printedPaired \in DeviceList
    /\ foundEvent \in BOOLEAN /\ freshEvent \in BOOLEAN
    /\ stackRequest \in {NoRequest}
           \cup ({"pair", "delete", "pincode"} \X Devices)
           \cup ({"accept", "refuse"} \X Devices \X (Devices \cup {NoDevice}))
    /\ replies \in Nat /\ overlapped \in BOOLEAN

PdlInit ==
    /\ m_foundDevices = <<>> /\ m_pairedDevices = <<>>
    /\ m_bondState = "NoneBond"
    /\ m_pairingData = NoDevice
    /\ pdlPages = <<"home", "list">>
    /\ confirmEnabled = FALSE /\ slotAddress = NoDevice /\ confirmTimer = FALSE
    /\ pdlScheduler = Idle
    /\ printedFound = <<>> /\ printedPaired = <<>>
    /\ foundEvent = FALSE /\ freshEvent = FALSE
    /\ stackRequest = NoRequest
    /\ replies = 0 /\ overlapped = FALSE

(***************************************************************************)
(* The page on the screen                                                   *)
(***************************************************************************)
Top(pages) == Last(pages)
Dialogs(pages) == {i \in DOMAIN pages : pages[i] = "confirm"}

\* PageManager::PopPage of a page that may be on the stack several times
Popped(pages, page) == IF Len(pages) > 1 THEN RemoveFirst(pages, page) ELSE pages

\* GetPrintableString rebuilds both numbered lists
Draw(paired) ==
    IF Top(pdlPages') = "list"
    THEN printedFound' = m_foundDevices /\ printedPaired' = paired
    ELSE UNCHANGED printedVars

\* every PushPage and PopPage draws the page that is on top then
SetPages(pages) ==
    /\ pdlPages' = pages
    /\ overlapped' = (overlapped /\ Dialogs(pages) # {})
    /\ Draw(m_pairedDevices)

(***************************************************************************)
(* Discovery                                                                *)
(***************************************************************************)
\* the signals post or ask for a refresh
OnDeviceFound(d) ==
    /\ IF d \in Range(m_pairedDevices)
       THEN freshEvent' = TRUE /\ UNCHANGED <<m_foundDevices, foundEvent>>
       ELSE /\ m_foundDevices' = IF d \in Range(m_foundDevices) THEN m_foundDevices
                                 ELSE Append(m_foundDevices, d)
            /\ foundEvent' = TRUE
            /\ UNCHANGED freshEvent
    /\ UNCHANGED <<m_pairedDevices, m_bondState, m_pairingData, pdlPages,
                   dialogVars, pdlScheduler, printedVars, historyVars>>
    /\ stackRequest' = NoRequest

HanldeNewDeviceFound ==
    /\ foundEvent
    /\ foundEvent' = FALSE
    /\ freshEvent' = TRUE
    /\ UNCHANGED <<listVars, m_bondState, m_pairingData, pdlPages, dialogVars,
                   pdlScheduler, printedVars, historyVars>>
    /\ stackRequest' = NoRequest

\* the posted refresh: it draws only the page on top
FreshPage ==
    /\ freshEvent
    /\ freshEvent' = FALSE
    /\ UNCHANGED <<listVars, pdlPages>>
    /\ Draw(m_pairedDevices)
    /\ UNCHANGED <<m_bondState, m_pairingData, dialogVars, pdlScheduler,
                   foundEvent, historyVars>>
    /\ stackRequest' = NoRequest

OnPairedDeviceReceived(d) ==
    /\ m_foundDevices' = RemoveFirst(m_foundDevices, d)
    /\ m_pairedDevices' = IF d \in Range(m_pairedDevices) THEN m_pairedDevices
                          ELSE Append(m_pairedDevices, d)
    /\ freshEvent' = TRUE
    /\ UNCHANGED <<m_bondState, m_pairingData, pdlPages, dialogVars,
                   pdlScheduler, printedVars, foundEvent, historyVars>>
    /\ stackRequest' = NoRequest

\* UpdateStatusContent: unless a bonding is under way the dialog is popped,
\* neither answered nor disabled, and its timer is left running
UpdateStatusContent(bondState, paired) ==
    /\ IF bondState = "Bonding" \/ m_pairingData = NoDevice
       THEN UNCHANGED <<pdlPages, printedVars, overlapped>>
       ELSE /\ pdlPages' = Popped(pdlPages, "confirm")
            /\ overlapped' = (overlapped /\ Dialogs(pdlPages') # {})
            /\ Draw(paired)
    /\ freshEvent' = TRUE

OnDiscoveryStateChanged ==
    /\ UNCHANGED listVars
    /\ UpdateStatusContent(m_bondState, m_pairedDevices)
    /\ UNCHANGED <<m_bondState, m_pairingData, dialogVars, pdlScheduler, foundEvent, replies>>
    /\ stackRequest' = NoRequest

(***************************************************************************)
(* Bonding                                                                  *)
(***************************************************************************)

\* the device leaves the list, where it is once (DevicesListedOnce), and comes
\* back at its end; m_foundDevices keeps it
PairedAfter(paired, state, d) ==
    IF state = "BondCompleted" THEN Append(RemoveFirst(paired, d), d) ELSE RemoveFirst(paired, d)

\* the page is told while the device is out of the list, and again at the end
OnBondStateChanged(state, d) ==
    /\ m_pairedDevices' = PairedAfter(m_pairedDevices, state, d)
    /\ m_bondState' = state
    /\ UNCHANGED m_foundDevices
    /\ IF m_bondState # state
       THEN UpdateStatusContent(state, RemoveFirst(m_pairedDevices, d))
       ELSE UNCHANGED <<pdlPages, printedVars, overlapped>> /\ freshEvent' = TRUE
    /\ UNCHANGED <<m_pairingData, dialogVars, pdlScheduler, foundEvent, replies>>
    /\ stackRequest' = NoRequest

\* the pincode 0000 is sent at once
OnPincodeRequest(d) ==
    /\ stackRequest' = <<"pincode", d>>
    /\ UNCHANGED <<listVars, m_bondState, m_pairingData, pdlPages, dialogVars,
                   pdlScheduler, printedVars, eventVars, historyVars>>

\* A slip: an open dialog keeps its slots.
SlotOfFirst(d) == IF confirmEnabled THEN slotAddress ELSE d

\* ConnectToYesChoosed and ConnectToNoChoosed replace what was connected
SlotOf(d) == d

\* A slip: no default is set.
ArmTimerNot == UNCHANGED confirmTimer

\* SetDefaultOption
ArmTimer == confirmTimer' = TRUE

\* HandleIncomingSspRequest: the one dialog is pushed, whether it is there or not
OnSppPairingConfRequest(d) ==
    /\ Cardinality(Dialogs(pdlPages)) < MaxDialogs
    /\ m_pairingData' = d
    /\ confirmEnabled' = TRUE
    /\ slotAddress' = SlotOf(d)
    /\ ArmTimer
    /\ UNCHANGED listVars
    /\ pdlPages' = Append(pdlPages, "confirm")
    /\ overlapped' = (Dialogs(pdlPages) # {})
    /\ Draw(m_pairedDevices)
    /\ replies' = 0
    /\ UNCHANGED <<m_bondState, pdlScheduler, eventVars>>
    /\ stackRequest' = NoRequest

\* A slip: the dialog stays enabled.
ReplyEnabled(accept) ==
    /\ stackRequest' = <<accept, slotAddress, m_pairingData>>
    /\ replies' = replies + 1
    /\ SetPages(Popped(pdlPages, "confirm"))
    /\ UNCHANGED confirmEnabled

\* The slots: disable, pop, and SspPairingReply, which takes the address from
\* the slot and the passkey from m_pairingData.
Reply(accept) ==
    /\ stackRequest' = <<accept, slotAddress, m_pairingData>>
    /\ replies' = replies + 1
    /\ SetPages(Popped(pdlPages, "confirm"))
    /\ confirmEnabled' = FALSE

UserReplies(accept) ==
    /\ Top(pdlPages) = "confirm"
    /\ confirmEnabled
    /\ UNCHANGED listVars
    /\ Reply(accept)
    /\ UNCHANGED <<m_bondState, m_pairingData, slotAddress, confirmTimer,
                   pdlScheduler, eventVars>>

\* the countdown is up: Yes, if the dialog is enabled, on the screen or not
ConfirmTimeout ==
    /\ confirmTimer
    /\ confirmTimer' = FALSE
    /\ UNCHANGED listVars
    /\ IF confirmEnabled THEN Reply("accept")
       ELSE /\ stackRequest' = NoRequest
            /\ UNCHANGED <<pdlPages, printedVars, confirmEnabled, historyVars>>
    /\ UNCHANGED <<m_bondState, m_pairingData, slotAddress, pdlScheduler,
                   eventVars>>

(***************************************************************************)
(* The user                                                                 *)
(***************************************************************************)
\* Back, which a page's scheduler would swallow
UserBack ==
    /\ Len(pdlPages) > 1
    /\ Top(pdlPages) = "list" => pdlScheduler = Idle
    /\ UNCHANGED listVars
    /\ SetPages(Popped(pdlPages, Top(pdlPages)))
    /\ UNCHANGED <<m_bondState, m_pairingData, dialogVars, pdlScheduler,
                   eventVars, replies>>
    /\ stackRequest' = NoRequest

UserOpensList ==
    /\ Top(pdlPages) = "home"
    /\ UNCHANGED listVars
    /\ SetPages(Append(pdlPages, "list"))
    /\ UNCHANGED <<m_bondState, m_pairingData, dialogVars, pdlScheduler,
                   eventVars, replies>>
    /\ stackRequest' = NoRequest

\* A slip: numbers count from 0.
ChosenFromZero(devices, number) ==
    devices[IF number < Len(devices) THEN number + 1 ELSE 1]

Chosen(devices, number) == devices[number]

\* steps common to both dialogs: first the prompt, then a number of the list
AskForNumber(s, devices, what, answer) ==
    IF s.step = 0 THEN Again(Asking(s, 1))
    ELSE LET given == AddParameter(s, answer)
         IN  IF answer \in 1 .. Len(devices)
             THEN Done(given, <<what, Chosen(devices, answer)>>)
             ELSE Again(RemoveLastParameter(given))

\* asks whether anything is printed, and takes the number from the list as it is
HanldePairWithRemoteDevice(s, answer) ==
    IF printedFound = <<>> THEN Done(s, NoRequest)
    ELSE AskForNumber(s, m_foundDevices, "pair", answer)

HanldeDeletePairedDevice(s, answer) ==
    IF m_pairedDevices = <<>> THEN Done(s, NoRequest)
    ELSE AskForNumber(s, m_pairedDevices, "delete", answer)

Execute(s, answer) ==
    IF s.executor = "pair" THEN HanldePairWithRemoteDevice(s, answer)
    ELSE HanldeDeletePairedDevice(s, answer)

Finish(result) ==
    /\ pdlScheduler' = AfterRun(result)
    /\ stackRequest' = result.request
    /\ UNCHANGED <<listVars, m_bondState, m_pairingData, pdlPages, dialogVars,
                   printedVars, eventVars, historyVars>>

\* the options "Pair with discovered device" and "Delete paired device"
StartDialog(executor) ==
    /\ Top(pdlPages) = "list"
    /\ pdlScheduler.executor = NoExecutor
    /\ Finish(Execute(Executing(executor), Prompt))

UserAnswers(answer) ==
    /\ Top(pdlPages) = "list"
    /\ pdlScheduler.executor # NoExecutor
    /\ Finish(IF TriedTooOften(pdlScheduler) THEN Done(pdlScheduler, NoRequest)
              ELSE Execute(Trying(pdlScheduler), answer))

StackStep ==
    \/ \E d \in Devices : \/ OnDeviceFound(d) \/ OnPairedDeviceReceived(d)
                          \/ OnPincodeRequest(d) \/ OnSppPairingConfRequest(d)
                          \/ \E s \in BondState : OnBondStateChanged(s, d)
    \/ OnDiscoveryStateChanged

LoopStep == HanldeNewDeviceFound \/ FreshPage

UserStep ==
    \/ \E accept \in {"accept", "refuse"} : UserReplies(accept)
    \/ UserBack \/ UserOpensList
    \/ \E executor \in {"pair", "delete"} : StartDialog(executor)
    \/ \E answer \in Answers : UserAnswers(answer)

PdlNext == StackStep \/ LoopStep \/ UserStep \/ ConfirmTimeout

PdlSpec == PdlInit /\ [][PdlNext]_pdlVars

-----------------------------------------------------------------------------
\* A reply that goes to the stack names one request: the address its slot
\* captured and the passkey m_pairingData keeps are of the same request,
\* however many requests came meanwhile.
ReplyIsOfOneRequest ==
    stackRequest # NoRequest /\ stackRequest[1] \in {"accept", "refuse"}
        => stackRequest[2] = stackRequest[3]

\* One request, at most one reply: a refusal is never followed by the timer's
\* acceptance, whether the dialog was answered, popped or left with Back.
RepliedOnce == replies <= 1

\* An answered dialog stays on the screen, deaf to everything but Back, only
\* when another request pushed it a second time.
DeafDialogWasPushedTwice ==
    Dialogs(pdlPages) # {} /\ ~confirmEnabled => overlapped

\* No address is twice in a list, whatever the order of the stack's reports:
\* its number would be ambiguous.
DevicesListedOnce ==
    IsInjective(m_foundDevices) /\ IsInjective(m_pairedDevices)

\* While the page on the screen shows an older list, an event that redraws it
\* is in the queue.
OldListIsRedrawn ==
    Top(pdlPages) = "list" /\ <<m_foundDevices, m_pairedDevices>> # <<printedFound, printedPaired>>
        => foundEvent \/ freshEvent

\* A number typed while nothing waits to be drawn means the device that is
\* printed at it, although the code looks it up in the list as it is.
NumberMeansPrintedDevice ==
    [][\A n \in Answers :
          UserAnswers(n) /\ ~foundEvent /\ ~freshEvent /\ stackRequest' # NoRequest
              => stackRequest' \in {<<"pair", printedFound[i]>> : i \in DOMAIN printedFound \cap {n}}
                    \cup {<<"delete", printedPaired[i]>> : i \in DOMAIN printedPaired \cap {n}}]_pdlVars

\* A dialog that has ended leaves nothing behind for the next one, and six
\* answers are the most it takes.
DialogStartsClean ==
    /\ pdlScheduler.executor = NoExecutor => pdlScheduler = Idle
    /\ pdlScheduler.executor # NoExecutor => pdlScheduler.parameters = <<>>

\* The newest pairing request is answered in the end, also when its dialog is
\* gone from the screen.
RequestIsAnswered ==
    <>[][~\E d \in Devices : OnSppPairingConfRequest(d)]_pdlVars => <>[]~confirmEnabled

=============================================================================
