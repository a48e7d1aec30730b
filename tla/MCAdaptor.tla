----------------------------- MODULE MCAdaptor -----------------------------
(* The adaptor with its two pages, and the hands-free unit with its two, for *)
(* TLC.  They share no variable and every property is about one of them, so  *)
(* one moves in each behaviour: part says which, and where a whole one would *)
(* be too large, which half of its events comes.                             *)
EXTENDS PageDeviceList, DeviceSettings, BluetoothHF

CONSTANTS d1, d2, p1, p2

VARIABLE part

(* The device list: numbers are typed while two devices and bonds come and   *)
(* go, or while pairing requests for one device do, or requests overlap.     *)
ListParts == {"lists", "typing", "pairing"}
ListBounds ==
    /\ part = "lists" => Dialogs(pdlPages') = {}
    /\ part = "typing" => /\ {m_foundDevices', m_pairedDevices'} \subseteq {<<>>, <<d1>>}
                          /\ Cardinality(Dialogs(pdlPages')) <= 1
                          /\ slotAddress' \in {NoDevice, d1}
    /\ part = "pairing" => pdlScheduler' = Idle /\ m_foundDevices' = <<>>

(* The hands-free unit: two calls of one phone come and go, or one of       *)
(* either phone, or numbers are typed.                                      *)
PhoneParts == {"calls", "phones", "dialogs"}
PhoneBounds ==
    /\ part = "calls" => hfScheduler' = Idle /\ m_address' # p2
    /\ part = "phones" => hfScheduler' = Idle /\ phoneCalls'[2] = NoCall
    /\ part = "dialogs" => underWay' = <<>> /\ \A i \in CallIndexes : phoneCalls'[i] = NoCall

AdaptorInit ==
    /\ part \in ListParts \cup PhoneParts \cup {"settings"}
    /\ PdlInit /\ DsInit /\ HfInit

AdaptorNext ==
    /\ UNCHANGED part
    /\ \/ part \in ListParts /\ PdlNext /\ ListBounds /\ UNCHANGED <<dsVars, hfVars>>
       \/ part = "settings" /\ DsNext /\ UNCHANGED <<pdlVars, hfVars>>
       \/ part \in PhoneParts /\ HfNext /\ PhoneBounds /\ UNCHANGED <<pdlVars, dsVars>>

(* Before a part has moved none of these actions is enabled, so fairness    *)
(* binds only the part that moves.  The dialog's timer is called            *)
(* (ConfirmPage, GeneralTimer).                                             *)
AdaptorSpec ==
    /\ AdaptorInit /\ [][AdaptorNext]_<<part, pdlVars, dsVars, hfVars>>
    /\ WF_pdlVars(ConfirmTimeout) /\ DsFairness /\ HfFairness
-----------------------------------------------------------------------------
\* The invariants of the parts.  Device list: one request gets at most one
\* reply, a deaf dialog was pushed twice, no device is listed twice, a redraw
\* is queued while the list on the screen is old, a dialog starts clean.
\* Adaptor: power is asked for once, and an enabled adaptor has its modules.
\* Hands-free: a call is listed once and both pages follow the module.
AdaptorInv ==
    /\ PdlTypeOK /\ RepliedOnce /\ DeafDialogWasPushedTwice /\ DevicesListedOnce
    /\ OldListIsRedrawn /\ DialogStartsClean
    /\ DsTypeOK /\ PowerAskedWhileEnabling /\ EnabledHasModules
    /\ HfTypeOK /\ CallListedOnce /\ StatusPageIsCurrent /\ PageKnowsDevice

\* A change of one setting keeps the others, and the copy agrees with the
\* stack in the end (PageBluetoothDeviceSetting, Adaptor).
SettingsKept == OptionKeepsOtherSettings /\ SettingsAgree

\* The call list is asked for until the promised number of queries has been
\* made since the last change, no longer, and shows every call that is there
\* (BluetoothHF::QueryCallList).
CallsAreQueried == QueriesEnd /\ CallsGetListed
=============================================================================
