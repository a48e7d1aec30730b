--------------------------- MODULE DeviceSettings ---------------------------
(***************************************************************************)
(* The local device: its power, its visibility and its name, as the page    *)
(* PageBluetoothDeviceSetting asks for them, the Adaptor passes them to the *)
(* Bluetooth stack, and the stack's reports bring them back.  An option of  *)
(* the page changes one setting, but the request carries all three: the     *)
(* other two are read from the copy the last reports left.                  *)
(***************************************************************************)
EXTENDS StrandCommandScheduler

CONSTANTS
    MaxReports,   \* bound of the model: reports under way
    Names         \* what a user may type: numbers, as every answer here

ASSUME MaxReportsAssumption == MaxReports \in Nat \ {0}
ASSUME NamesAssumption == Names \subseteq Nat \ {0}

VARIABLES
    m_enableState,
    powerAsked,      \* Enable requests the stack has not answered
    modulesStarted,  \* whether ModuleManager::Init has been called
    m_localDevice,   \* the copy: pairable, discoverable, connectable
    stackSettings,   \* what the stack has really set
    settingReports,  \* reports under way: of the scan mode or of pairable
    localName,       \* the copy of the name
    nameReports,
    dsScheduler      \* m_commandScheduler of the page

powerVars == <<m_enableState, powerAsked, modulesStarted>>
settingVars == <<m_localDevice, stackSettings, settingReports>>
nameVars == <<localName, nameReports, dsScheduler>>
dsVars == <<powerVars, settingVars, nameVars>>

AdaptorEnableState == {"Disabled", "Enabling", "Enabled", "Disabling"}
Settings == [pairable : BOOLEAN, discoverable : BOOLEAN, connectable : BOOLEAN]

Options == {"pairable", "discoverable", "connectable"}

ScanReport(s) == [of |-> "scan", discoverable |-> s.discoverable, connectable |-> s.connectable]
PairableReport(s) == [of |-> "pairable", pairable |-> s.pairable]

DsTypeOK ==
    /\ m_enableState \in AdaptorEnableState
    /\ powerAsked \in Nat /\ modulesStarted \in BOOLEAN
    /\ m_localDevice \in Settings /\ stackSettings \in Settings
    /\ settingReports \in BoundedSeq({ScanReport(s) : s \in Settings}
                              \cup {PairableReport(s) : s \in Settings}, 2 * MaxReports)
    /\ localName \in Names \cup {0}
    /\ nameReports \in BoundedSeq(Names, MaxReports)
    /\ dsScheduler \in SchedulerTypes({"name"}, Names)

Off == [pairable |-> FALSE, discoverable |-> FALSE, connectable |-> FALSE]

DsInit ==
    /\ m_enableState = "Disabled" /\ powerAsked = 0 /\ modulesStarted = FALSE
    /\ m_localDevice = Off /\ stackSettings = Off /\ settingReports = <<>>
    /\ localName = 0 /\ nameReports = <<>> /\ dsScheduler = Idle

(***************************************************************************)
(* Power                                                                    *)
(***************************************************************************)

\* "Power On"
Enable ==
    /\ dsScheduler = Idle
    /\ m_enableState = "Disabled"
    /\ m_enableState' = "Enabling"
    /\ powerAsked' = powerAsked + 1
    /\ UNCHANGED <<modulesStarted, settingVars, nameVars>>

\* "Power Off": deinit asks m_initialized, which nothing sets
PowerOff ==
    /\ dsScheduler = Idle
    /\ UNCHANGED dsVars

\* the stack's answer, or its loss of the controller at any time
AdapterStateChanged(isOn) ==
    /\ IF isOn THEN powerAsked > 0 ELSE m_enableState # "Disabled"
    /\ modulesStarted' = (isOn \/ modulesStarted)
    /\ m_enableState' = IF isOn THEN "Enabled" ELSE "Disabled"
    /\ powerAsked' = 0
    /\ UNCHANGED <<settingVars, nameVars>>

(***************************************************************************)
(* Visibility                                                               *)
(***************************************************************************)
\* A slip: the settings that are not changed are switched off.
ChangedAlone(s, option, on) == [Off EXCEPT ![option] = on]

\* GetLocalDeviceSettings, one value replaced; "Set Discoverable" also makes
\* the device connectable
Changed(s, option, on) ==
    IF option = "discoverable" /\ on
    THEN [s EXCEPT !.discoverable = TRUE, !.connectable = TRUE]
    ELSE [s EXCEPT ![option] = on]

\* the result says whether the stack took it, and nobody asks
SetLocalDeviceSettings(option, on) ==
    /\ dsScheduler = Idle
    /\ \/ /\ Len(settingReports) <= 2 * (MaxReports - 1)
          /\ stackSettings' = Changed(m_localDevice, option, on)
          /\ settingReports' = settingReports \o
                 <<ScanReport(stackSettings'), PairableReport(stackSettings')>>
       \/ UNCHANGED <<stackSettings, settingReports>>
    /\ UNCHANGED <<m_localDevice, powerVars, nameVars>>

OnLocalSettingsChanged(s, r) ==
    [s EXCEPT !.discoverable = r.discoverable, !.connectable = r.connectable]

OnPairableChanged(s, r) == [s EXCEPT !.pairable = r.pairable]

SettingReported ==
    /\ settingReports # <<>>
    /\ LET r == Head(settingReports)
       IN  m_localDevice' = IF r.of = "scan" THEN OnLocalSettingsChanged(m_localDevice, r)
                            ELSE OnPairableChanged(m_localDevice, r)
    /\ settingReports' = Tail(settingReports)
    /\ UNCHANGED <<stackSettings, powerVars, nameVars>>

(***************************************************************************)
(* The name: a prompt, then whatever the user types                         *)
(***************************************************************************)

HandleSetLocalDeviceName(s, answer) ==
    IF s.step = 0 THEN Again(Asking(s, 1))
    ELSE Done(AddParameter(s, answer), <<"name", answer>>)

SetLocalName(result) ==
    /\ dsScheduler' = AfterRun(result)
    /\ nameReports' = IF result.request = NoRequest THEN nameReports
                      ELSE Append(nameReports, result.request[2])
    /\ UNCHANGED <<localName, powerVars, settingVars>>

\* the option does not clear the scheduler first
AskForName ==
    /\ dsScheduler = Idle
    /\ Len(nameReports) < MaxReports
    /\ SetLocalName(HandleSetLocalDeviceName([dsScheduler EXCEPT !.executor = "name"], Prompt))

GiveName(name) ==
    /\ dsScheduler.executor = "name"
    /\ SetLocalName(IF TriedTooOften(dsScheduler) THEN Done(dsScheduler, NoRequest)
                    ELSE HandleSetLocalDeviceName(Trying(dsScheduler), name))

OnLocalNameChanged ==
    /\ nameReports # <<>>
    /\ localName' = Head(nameReports)
    /\ nameReports' = Tail(nameReports)
    /\ UNCHANGED <<dsScheduler, powerVars, settingVars>>

Reports == SettingReported \/ OnLocalNameChanged

DsNext ==
    \/ Enable \/ PowerOff \/ \E isOn \in BOOLEAN : AdapterStateChanged(isOn)
    \/ \E option \in Options, on \in BOOLEAN :
           SetLocalDeviceSettings(option, on)
    \/ AskForName \/ \E name \in Names : GiveName(name)
    \/ Reports

DsSpec == DsInit /\ [][DsNext]_dsVars

\* the stack answers what it was asked
DsFairness == WF_dsVars(SettingReported) /\ WF_dsVars(\E isOn \in BOOLEAN : AdapterStateChanged(isOn))

-----------------------------------------------------------------------------
\* The stack is asked to power on once at a time, whatever the user presses.
PowerAskedWhileEnabling ==
    powerAsked = IF m_enableState = "Enabling" THEN 1 ELSE 0

\* The profiles have been started whenever the adaptor says it is on, also
\* after the controller was lost and came back.
EnabledHasModules == m_enableState = "Enabled" => modulesStarted

\* the report that brings a setting back
ReportOf(setting) == IF setting = "pairable" THEN "pairable" ELSE "scan"

\* An option changes its own setting (and "Set Discoverable" the connectable
\* one) and leaves every other as the stack really has it, unless a report that
\* brings that very setting is under way: then the copy is old, and the request
\* takes an earlier change back.
OptionKeepsOtherSettings ==
    [][\A option \in Options, on \in BOOLEAN : \A other \in Options \ {option} :
          /\ SetLocalDeviceSettings(option, on) /\ stackSettings' # stackSettings
          /\ ~(option = "discoverable" /\ on /\ other = "connectable")
          /\ \A i \in DOMAIN settingReports : settingReports[i].of # ReportOf(other)
          => stackSettings'[other] = stackSettings[other]]_dsVars

\* Once the user leaves the settings alone, the copy agrees with the stack for
\* good.
SettingsAgree ==
    <>[][stackSettings' = stackSettings]_dsVars => <>[](m_localDevice = stackSettings)

=============================================================================
