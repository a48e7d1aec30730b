--------------------------- MODULE AdaptorProofs ---------------------------
(***************************************************************************)
(* Proofs about the adaptor: the device list with its pairing dialog, the   *)
(* settings of the local device, and the hands-free unit.  Each is a        *)
(* specification of its own; they share no variable.                        *)
(***************************************************************************)
EXTENDS MCAdaptor, SequenceLemmas, FiniteSetTheorems

(* The device list: what is on the screen and which lists it shows.         *)

PageNames == {"home", "list", "confirm"}

\* Home is at the bottom of the stack and nowhere else.
PagesInv ==
    /\ pdlPages \in Seq(PageNames)
    /\ Len(pdlPages) >= 1
    /\ \A i \in 1 .. Len(pdlPages) : pdlPages[i] = "home" <=> i = 1

ListsInv ==
    /\ m_foundDevices \in Seq(Devices) /\ m_pairedDevices \in Seq(Devices)
    /\ DevicesListedOnce

PrintedInv ==
    /\ foundEvent \in BOOLEAN /\ freshEvent \in BOOLEAN
    /\ OldListIsRedrawn

\* While no request overlapped another, one dialog at most is on the stack.
RequestInv ==
    /\ confirmEnabled \in BOOLEAN /\ overlapped \in BOOLEAN
    /\ replies \in {0, 1} /\ (confirmEnabled => replies = 0)
    /\ slotAddress = m_pairingData
    /\ ReplyIsOfOneRequest /\ RepliedOnce
    /\ ~overlapped => \A i, j \in Dialogs(pdlPages) : i = j
    /\ DeafDialogWasPushedTwice

PdlIInv == PagesInv /\ ListsInv /\ PrintedInv /\ RequestInv

LEMMA DialogPlaces ==
  ASSUME NEW s \in Seq(PageNames)
  PROVE  /\ Len(s) \in Nat /\ DOMAIN s = 1 .. Len(s)
         /\ Dialogs(s) = {i \in 1 .. Len(s) : s[i] = "confirm"}
BY LenProperties DEF Dialogs

\* A pop takes one page away, never the bottom one; of two dialogs one stays.
LEMMA PopKeepsPages ==
  ASSUME PagesInv, NEW page \in {"list", "confirm"}
  PROVE  LET q == Popped(pdlPages, page)
         IN  /\ q \in Seq(PageNames) /\ Len(q) >= 1
             /\ \A i \in 1 .. Len(q) : q[i] = "home" <=> i = 1
             /\ (\A i, j \in Dialogs(pdlPages) : i = j) =>
                   /\ \A i, j \in Dialogs(q) : i = j
                   /\ page = "confirm" => Dialogs(q) = {}
             /\ Dialogs(pdlPages) = {} => Dialogs(q) = {}
<1> DEFINE s == pdlPages
           n == Len(pdlPages)
           q == Popped(pdlPages, page)
<1>1. /\ s \in Seq(PageNames) /\ n \in Nat /\ n >= 1 /\ DOMAIN s = 1 .. n
      /\ \A i \in 1 .. n : s[i] = "home" <=> i = 1
      /\ Dialogs(s) = {i \in 1 .. n : s[i] = "confirm"}
  BY DialogPlaces DEF PagesInv
<1>2. CASE q = s
  <2>1. page = "confirm" => Dialogs(q) = {} \/ n > 1
    <3>1. n = 1 => \A i \in 1 .. n : s[i] = "home"
      BY <1>1
    <3>2. QED
      BY <1>1, <1>2, <3>1
  <2>2. page = "confirm" /\ n > 1 => Dialogs(q) = {}
    <3> SUFFICES ASSUME page = "confirm", n > 1, NEW i \in Dialogs(s)
                 PROVE  FALSE
      BY <1>2
    <3>1. RemoveFirst(s, page) = s
      BY <1>2 DEF Popped
    <3>2. page \in Range(s)
      BY <1>1 DEF Range
    <3>3. PICK k \in 1 .. n : RemoveFirst(s, page) = RemoveAt(s, k)
      BY <1>1, <3>2, RemoveFirstPlace
    <3>4. Len(RemoveAt(s, k)) = n - 1
      BY <1>1, RemoveKeepsList
    <3>5. QED
      BY <1>1, <3>1, <3>3, <3>4
  <2>3. QED
    BY <1>1, <1>2, <2>1, <2>2
<1>3. CASE q # s
  <2>1. q = RemoveFirst(s, page)
    BY <1>3 DEF Popped
  <2>2. page \in Range(s)
    BY <1>1, <1>3, <2>1, RemoveFirstPlace
  <2>3. PICK k \in 1 .. n : s[k] = page /\ q = RemoveAt(s, k)
    BY <1>1, <2>1, <2>2, RemoveFirstPlace
  <2>4. k # 1
    BY <1>1, <2>3
  <2>5. /\ q \in Seq(PageNames) /\ Len(q) = n - 1
        /\ \A j \in 1 .. n - 1 : q[j] = IF j < k THEN s[j] ELSE s[j + 1]
    <3>1. /\ RemoveAt(s, k) \in Seq(PageNames) /\ Len(RemoveAt(s, k)) = n - 1
          /\ \A j \in 1 .. n - 1 : RemoveAt(s, k)[j] = IF j < k THEN s[j] ELSE s[j + 1]
      BY <1>1, RemoveKeepsList
    <3>2. QED
      BY <2>3, <3>1
  <2> HIDE DEF q, s
  <2>6. Dialogs(q) = {i \in 1 .. n - 1 : q[i] = "confirm"}
    BY <2>5, DialogPlaces
  <2>7. Len(q) >= 1
    BY <1>1, <2>4, <2>5
  <2> DEFINE old(j) == IF j < k THEN j ELSE j + 1
  <2>8. \A j \in 1 .. n - 1 : /\ old(j) \in 1 .. n /\ q[j] = s[old(j)] /\ old(j) # k
                              /\ old(j) = 1 <=> j = 1
    BY <1>1, <2>4, <2>5
  <2>9. \A i, j \in 1 .. n - 1 : old(i) = old(j) => i = j
    BY <1>1
  <2> HIDE DEF old, n
  <2>10. \A i \in 1 .. Len(q) : q[i] = "home" <=> i = 1
    BY <1>1, <2>5, <2>8
  <2>11. \A i \in Dialogs(q) : old(i) \in Dialogs(s) /\ old(i) # k /\ i \in 1 .. n - 1
    BY <1>1, <2>6, <2>8
  <2>12. page = "confirm" => k \in Dialogs(s)
    BY <1>1, <2>3
  <2>13. QED
    BY <2>5, <2>7, <2>9, <2>10, <2>11, <2>12 DEF q, s
<1>4. QED
  BY <1>2, <1>3

LEMMA PushKeepsPages ==
  ASSUME PagesInv, NEW page \in {"list", "confirm"}
  PROVE  LET q == Append(pdlPages, page)
         IN  /\ q \in Seq(PageNames) /\ Len(q) >= 1 /\ Top(q) = page
             /\ \A i \in 1 .. Len(q) : q[i] = "home" <=> i = 1
             /\ \A i \in Dialogs(q) : i \in Dialogs(pdlPages) \/ (page = "confirm" /\ i = Len(q))
<1> DEFINE n == Len(pdlPages)
           q == Append(pdlPages, page)
<1>1. /\ pdlPages \in Seq(PageNames) /\ n \in Nat /\ n >= 1
      /\ \A i \in 1 .. n : pdlPages[i] = "home" <=> i = 1
      /\ Dialogs(pdlPages) = {i \in 1 .. n : pdlPages[i] = "confirm"}
  BY DialogPlaces DEF PagesInv
<1>2. page \in PageNames
  BY DEF PageNames
<1>3. /\ q \in Seq(PageNames) /\ Len(q) = n + 1 /\ q[n + 1] = page
      /\ \A i \in 1 .. n : q[i] = pdlPages[i]
  BY <1>1, <1>2, AppendProperties
<1> HIDE DEF q
<1>4. \A i \in 1 .. Len(q) : i \in 1 .. n \/ i = n + 1
  BY <1>1, <1>3
<1>5. Dialogs(q) = {i \in 1 .. Len(q) : q[i] = "confirm"}
  BY <1>3, DialogPlaces
<1>6. \A i \in 1 .. Len(q) : q[i] = "home" <=> i = 1
  BY <1>1, <1>3, <1>4
<1>7. \A i \in Dialogs(q) : i \in Dialogs(pdlPages) \/ (page = "confirm" /\ i = Len(q))
  BY <1>1, <1>3, <1>4, <1>5
<1>8. QED
  BY <1>1, <1>3, <1>6, <1>7 DEF q, Top, Last

LEMMA PdlStart == PdlInit => PdlIInv
<1> SUFFICES ASSUME PdlInit
             PROVE  PdlIInv
  OBVIOUS
<1>1. ListsInv
  BY DEF PdlInit, ListsInv, DevicesListedOnce, IsInjective
<1>2. PagesInv
  BY DEF PdlInit, PagesInv, PageNames
<1>3. Dialogs(pdlPages) = {}
  BY DEF PdlInit, Dialogs
<1>4. PrintedInv
  BY DEF PdlInit, PrintedInv, OldListIsRedrawn
<1>5. RequestInv
  <2>1. ReplyIsOfOneRequest
    BY DEF PdlInit, ReplyIsOfOneRequest
  <2>2. RepliedOnce
    BY DEF PdlInit, RepliedOnce
  <2>3. DeafDialogWasPushedTwice
    BY <1>3 DEF DeafDialogWasPushedTwice
  <2>4. QED
    BY <1>3, <2>1, <2>2, <2>3 DEF PdlInit, RequestInv
<1>6. QED
  BY <1>1, <1>2, <1>4, <1>5 DEF PdlIInv

\* What the lists keep.
LEMMA ListsKept ==
  ASSUME NEW s \in Seq(Devices), IsInjective(s), NEW d \in Devices
  PROVE  /\ RemoveFirst(s, d) \in Seq(Devices) /\ IsInjective(RemoveFirst(s, d))
         /\ LET q == Append(RemoveFirst(s, d), d) IN q \in Seq(Devices) /\ IsInjective(q)
         /\ LET q == IF d \in Range(s) THEN s ELSE Append(s, d)
            IN  q \in Seq(Devices) /\ IsInjective(q)
<1> DEFINE r == RemoveFirst(s, d)
<1>1. r \in Seq(Devices) /\ IsInjective(r) /\ d \notin Range(r)
  <2>1. CASE d \in Range(s)
    <3>1. PICK k \in 1 .. Len(s) : s[k] = d /\ r = RemoveAt(s, k)
      BY <2>1, RemoveFirstPlace
    <3>2. RemoveAt(s, k) \in Seq(Devices)
      BY RemoveKeepsList
    <3>3. IsInjective(RemoveAt(s, k)) /\ Range(RemoveAt(s, k)) = Range(s) \ {d}
      BY <3>1, RemoveKeepsOnce
    <3>4. QED
      BY <3>1, <3>2, <3>3
  <2>2. CASE d \notin Range(s)
    BY <2>2, RemoveFirstPlace
  <2>3. QED
    BY <2>1, <2>2
<1> HIDE DEF r
<1>2. Append(r, d) \in Seq(Devices) /\ IsInjective(Append(r, d))
  BY <1>1, AppendKeepsOnce
<1>3. d \notin Range(s) => Append(s, d) \in Seq(Devices) /\ IsInjective(Append(s, d))
  BY AppendKeepsOnce
<1>4. QED
  BY <1>1, <1>2, <1>3 DEF r

\* What a pop of the dialog keeps, alone or with the answer.
LEMMA DialogPopped ==
  ASSUME PdlIInv, pdlPages' = Popped(pdlPages, "confirm"),
         overlapped' = (overlapped /\ Dialogs(pdlPages') # {})
  PROVE  /\ PagesInv' /\ overlapped' \in BOOLEAN
         /\ ~overlapped' => \A i, j \in Dialogs(pdlPages') : i = j
         /\ ~overlapped => Dialogs(pdlPages') = {}
         /\ Dialogs(pdlPages') # {} /\ ~confirmEnabled => overlapped'
<1>1. /\ pdlPages' \in Seq(PageNames) /\ Len(pdlPages') >= 1
      /\ \A i \in 1 .. Len(pdlPages') : pdlPages'[i] = "home" <=> i = 1
      /\ (\A i, j \in Dialogs(pdlPages) : i = j) => Dialogs(pdlPages') = {}
      /\ Dialogs(pdlPages) = {} => Dialogs(pdlPages') = {}
  BY PopKeepsPages DEF PdlIInv
<1>2. PagesInv'
  BY <1>1 DEF PagesInv
<1>3. QED
  BY <1>1, <1>2 DEF PdlIInv, RequestInv, DeafDialogWasPushedTwice

LEMMA PdlStep ==
  ASSUME PdlIInv, [PdlNext]_pdlVars
  PROVE  PdlIInv'
<1> USE DEF PdlIInv
<1>1. ASSUME NEW d \in Devices, OnDeviceFound(d)
      PROVE  PdlIInv'
  <2>1. PagesInv' /\ RequestInv'
    BY <1>1 DEF OnDeviceFound, PagesInv, RequestInv, dialogVars, historyVars, ReplyIsOfOneRequest,
                RepliedOnce, DeafDialogWasPushedTwice
  <2>2. PrintedInv'
    BY <1>1 DEF OnDeviceFound, PrintedInv, OldListIsRedrawn
  <2>3. /\ m_pairedDevices' = m_pairedDevices
        /\ m_foundDevices' \in {m_foundDevices, IF d \in Range(m_foundDevices) THEN m_foundDevices
                                                ELSE Append(m_foundDevices, d)}
    BY <1>1 DEF OnDeviceFound
  <2>4. ListsInv'
    BY <2>3, ListsKept DEF ListsInv, DevicesListedOnce
  <2>5. QED
    BY <2>1, <2>2, <2>4
<1>2. CASE HanldeNewDeviceFound
  <2>1. PagesInv' /\ RequestInv' /\ ListsInv'
    BY <1>2 DEF HanldeNewDeviceFound, PagesInv, RequestInv, ListsInv, dialogVars, historyVars,
                listVars, ReplyIsOfOneRequest, RepliedOnce, DeafDialogWasPushedTwice,
                DevicesListedOnce
  <2>2. PrintedInv'
    BY <1>2 DEF HanldeNewDeviceFound, PrintedInv, OldListIsRedrawn
  <2>3. QED
    BY <2>1, <2>2
<1>3. CASE FreshPage
  <2>1. PagesInv' /\ RequestInv' /\ ListsInv'
    BY <1>3 DEF FreshPage, PagesInv, RequestInv, ListsInv, dialogVars, historyVars,
                listVars, ReplyIsOfOneRequest, RepliedOnce, DeafDialogWasPushedTwice,
                DevicesListedOnce
  <2>2. PrintedInv'
    BY <1>3 DEF FreshPage, PrintedInv, OldListIsRedrawn, Draw, listVars
  <2>3. QED
    BY <2>1, <2>2
<1>4. ASSUME NEW d \in Devices, OnPairedDeviceReceived(d)
      PROVE  PdlIInv'
  <2>1. PagesInv' /\ RequestInv'
    BY <1>4 DEF OnPairedDeviceReceived, PagesInv, RequestInv, dialogVars, historyVars,
                ReplyIsOfOneRequest, RepliedOnce, DeafDialogWasPushedTwice
  <2>2. PrintedInv'
    BY <1>4 DEF OnPairedDeviceReceived, PrintedInv, OldListIsRedrawn
  <2>3. /\ m_foundDevices' = RemoveFirst(m_foundDevices, d)
        /\ m_pairedDevices' = IF d \in Range(m_pairedDevices) THEN m_pairedDevices
                              ELSE Append(m_pairedDevices, d)
    BY <1>4 DEF OnPairedDeviceReceived
  <2>4. ListsInv'
    BY <2>3, ListsKept DEF ListsInv, DevicesListedOnce
  <2>5. QED
    BY <2>1, <2>2, <2>4
<1>5. CASE OnDiscoveryStateChanged
  <2>1. PrintedInv' /\ ListsInv'
    BY <1>5 DEF OnDiscoveryStateChanged, PrintedInv, ListsInv, OldListIsRedrawn, listVars,
                DevicesListedOnce, UpdateStatusContent
  <2>2. PagesInv' /\ RequestInv'
    BY <1>5, DialogPopped DEF OnDiscoveryStateChanged, UpdateStatusContent, PagesInv, RequestInv,
                dialogVars, ReplyIsOfOneRequest, RepliedOnce, DeafDialogWasPushedTwice
  <2>3. QED
    BY <2>1, <2>2
<1>6. ASSUME NEW s \in BondState, NEW d \in Devices, OnBondStateChanged(s, d)
      PROVE  PdlIInv'
  <2>1. PrintedInv'
    BY <1>6 DEF OnBondStateChanged, UpdateStatusContent, PrintedInv, OldListIsRedrawn
  <2>2. PagesInv' /\ RequestInv'
    BY <1>6, DialogPopped DEF OnBondStateChanged, UpdateStatusContent, PagesInv, RequestInv,
                dialogVars, ReplyIsOfOneRequest, RepliedOnce, DeafDialogWasPushedTwice
  <2>3. ListsInv'
    BY <1>6, ListsKept DEF OnBondStateChanged, PairedAfter, ListsInv, DevicesListedOnce
  <2>4. QED
    BY <2>1, <2>2, <2>3
<1>7. ASSUME NEW d \in Devices, OnPincodeRequest(d)
      PROVE  PdlIInv'
  <2>1. PagesInv' /\ PrintedInv' /\ ListsInv'
    BY <1>7 DEF OnPincodeRequest, PagesInv, PrintedInv, ListsInv, OldListIsRedrawn, listVars,
                eventVars, printedVars, DevicesListedOnce
  <2>2. RequestInv'
    BY <1>7 DEF OnPincodeRequest, RequestInv, dialogVars, historyVars, ReplyIsOfOneRequest,
                RepliedOnce, DeafDialogWasPushedTwice
  <2>3. QED
    BY <2>1, <2>2
<1>8. ASSUME NEW d \in Devices, OnSppPairingConfRequest(d)
      PROVE  PdlIInv'
  <2>1. /\ pdlPages' = Append(pdlPages, "confirm") /\ Draw(m_pairedDevices)
        /\ UNCHANGED <<listVars, eventVars>>
        /\ overlapped' = (Dialogs(pdlPages) # {}) /\ replies' = 0 /\ confirmEnabled' = TRUE
        /\ m_pairingData' = d /\ slotAddress' = d /\ stackRequest' = NoRequest
    BY <1>8 DEF OnSppPairingConfRequest, SlotOf
  <2>2. /\ pdlPages' \in Seq(PageNames) /\ Len(pdlPages') >= 1 /\ Top(pdlPages') = "confirm"
        /\ \A i \in 1 .. Len(pdlPages') : pdlPages'[i] = "home" <=> i = 1
        /\ \A i \in Dialogs(pdlPages') : i \in Dialogs(pdlPages) \/ i = Len(pdlPages')
    BY <2>1, PushKeepsPages
  <2>3. PagesInv'
    BY <2>2 DEF PagesInv
  <2>4. ListsInv'
    BY <2>1 DEF ListsInv, listVars, DevicesListedOnce
  <2>5. PrintedInv'
    BY <2>1, <2>2 DEF PrintedInv, OldListIsRedrawn, eventVars
  <2>6. RequestInv'
    BY <2>1, <2>2 DEF RequestInv, ReplyIsOfOneRequest, RepliedOnce, DeafDialogWasPushedTwice
  <2>7. QED
    BY <2>3, <2>4, <2>5, <2>6
<1>9. ASSUME NEW accept \in {"accept", "refuse"}, Reply(accept), confirmEnabled,
             UNCHANGED <<listVars, m_pairingData, slotAddress, eventVars>>
      PROVE  PdlIInv'
  <2>1. /\ stackRequest' = <<accept, slotAddress, m_pairingData>> /\ replies' = replies + 1
        /\ pdlPages' = Popped(pdlPages, "confirm") /\ Draw(m_pairedDevices)
        /\ overlapped' = (overlapped /\ Dialogs(pdlPages') # {}) /\ confirmEnabled' = FALSE
    BY <1>9 DEF Reply, SetPages
  <2>2. /\ PagesInv' /\ overlapped' \in BOOLEAN
        /\ ~overlapped' => \A i, j \in Dialogs(pdlPages') : i = j
        /\ ~overlapped => Dialogs(pdlPages') = {}
    BY <2>1, DialogPopped
  <2>3. ListsInv' /\ PrintedInv'
    BY <1>9, <2>1 DEF ListsInv, PrintedInv, listVars, eventVars, DevicesListedOnce,
                      OldListIsRedrawn, Draw
  <2>4. replies = 0
    BY <1>9 DEF RequestInv
  <2>5. slotAddress' = m_pairingData' /\ stackRequest'[2] = stackRequest'[3]
    BY <1>9, <2>1 DEF RequestInv
  <2>6. RequestInv'
    <3>1. ReplyIsOfOneRequest'
      BY <2>5 DEF ReplyIsOfOneRequest
    <3>2. replies' = 1 /\ RepliedOnce'
      BY <2>1, <2>4 DEF RepliedOnce
    <3>3. DeafDialogWasPushedTwice'
      BY <2>1, <2>2 DEF DeafDialogWasPushedTwice, RequestInv
    <3>4. QED
      BY <2>1, <2>2, <2>5, <3>1, <3>2, <3>3 DEF RequestInv
  <2>7. QED
    BY <2>2, <2>3, <2>6
<1>10. ASSUME NEW accept \in {"accept", "refuse"}, UserReplies(accept)
       PROVE  PdlIInv'
  BY <1>9, <1>10 DEF UserReplies
<1>11. CASE ConfirmTimeout
  <2>1. CASE confirmEnabled
    BY <1>9, <1>11, <2>1 DEF ConfirmTimeout
  <2>2. CASE ~confirmEnabled
    <3>1. PagesInv' /\ PrintedInv' /\ ListsInv'
      BY <1>11, <2>2 DEF ConfirmTimeout, PagesInv, PrintedInv, ListsInv, OldListIsRedrawn,
                         listVars, eventVars, printedVars, DevicesListedOnce
    <3>2. RequestInv'
      BY <1>11, <2>2 DEF ConfirmTimeout, RequestInv, historyVars, ReplyIsOfOneRequest,
                         RepliedOnce, DeafDialogWasPushedTwice
    <3>3. QED
      BY <3>1, <3>2
  <2>3. QED
    BY <2>1, <2>2
<1>12. CASE UserBack
  <2>1. /\ pdlPages' = Popped(pdlPages, Top(pdlPages)) /\ Draw(m_pairedDevices)
        /\ overlapped' = (overlapped /\ Dialogs(pdlPages') # {}) /\ Len(pdlPages) > 1
        /\ UNCHANGED <<listVars, m_pairingData, dialogVars, eventVars, replies>>
        /\ stackRequest' = NoRequest
    BY <1>12 DEF UserBack, SetPages
  <2>2. Top(pdlPages) \in {"list", "confirm"}
    <3>1. pdlPages[Len(pdlPages)] \in PageNames /\ Len(pdlPages) \in 1 .. Len(pdlPages)
      BY <2>1, ElementOfSeq, LenProperties DEF PagesInv
    <3>2. QED
      BY <2>1, <3>1 DEF Top, Last, PagesInv, PageNames
  <2>3. /\ pdlPages' \in Seq(PageNames) /\ Len(pdlPages') >= 1
        /\ \A i \in 1 .. Len(pdlPages') : pdlPages'[i] = "home" <=> i = 1
        /\ (\A i, j \in Dialogs(pdlPages) : i = j) => \A i, j \in Dialogs(pdlPages') : i = j
        /\ Dialogs(pdlPages) = {} => Dialogs(pdlPages') = {}
    BY <2>1, <2>2, PopKeepsPages
  <2>4. PagesInv'
    BY <2>3 DEF PagesInv
  <2>5. ListsInv' /\ PrintedInv'
    BY <2>1 DEF ListsInv, PrintedInv, listVars, eventVars, DevicesListedOnce, OldListIsRedrawn, Draw
  <2>6. RequestInv'
    BY <2>1, <2>3 DEF RequestInv, dialogVars, ReplyIsOfOneRequest, RepliedOnce,
                      DeafDialogWasPushedTwice
  <2>7. QED
    BY <2>4, <2>5, <2>6
<1>13. CASE UserOpensList
  <2>1. /\ pdlPages' = Append(pdlPages, "list") /\ Draw(m_pairedDevices)
        /\ overlapped' = (overlapped /\ Dialogs(pdlPages') # {})
        /\ UNCHANGED <<listVars, m_pairingData, dialogVars, eventVars, replies>>
        /\ stackRequest' = NoRequest
    BY <1>13 DEF UserOpensList, SetPages
  <2>2. /\ pdlPages' \in Seq(PageNames) /\ Len(pdlPages') >= 1
        /\ \A i \in 1 .. Len(pdlPages') : pdlPages'[i] = "home" <=> i = 1
        /\ \A i \in Dialogs(pdlPages') : i \in Dialogs(pdlPages)
    BY <2>1, PushKeepsPages
  <2>3. PagesInv'
    BY <2>2 DEF PagesInv
  <2>4. ListsInv' /\ PrintedInv'
    BY <2>1 DEF ListsInv, PrintedInv, listVars, eventVars, DevicesListedOnce, OldListIsRedrawn, Draw
  <2>5. RequestInv'
    BY <2>1, <2>2 DEF RequestInv, dialogVars, ReplyIsOfOneRequest, RepliedOnce,
                      DeafDialogWasPushedTwice
  <2>6. QED
    BY <2>3, <2>4, <2>5
<1>14. ASSUME NEW result, Finish(result),
              result.request # NoRequest => result.request[1] \notin {"accept", "refuse"}
       PROVE  PdlIInv'
  <2>1. PagesInv' /\ PrintedInv' /\ ListsInv'
    BY <1>14 DEF Finish, PagesInv, PrintedInv, ListsInv, OldListIsRedrawn, listVars,
                 eventVars, printedVars, DevicesListedOnce
  <2>2. RequestInv'
    BY <1>14 DEF Finish, RequestInv, dialogVars, historyVars, ReplyIsOfOneRequest,
                 RepliedOnce, DeafDialogWasPushedTwice
  <2>3. QED
    BY <2>1, <2>2
<1>15. ASSUME NEW executor \in {"pair", "delete"}, StartDialog(executor)
       PROVE  PdlIInv'
  BY <1>14, <1>15 DEF StartDialog, Execute, HanldePairWithRemoteDevice, HanldeDeletePairedDevice,
                      AskForNumber, Again, Done
<1>16. ASSUME NEW answer \in Answers, UserAnswers(answer)
       PROVE  PdlIInv'
  BY <1>14, <1>16 DEF UserAnswers, Execute, HanldePairWithRemoteDevice, HanldeDeletePairedDevice,
                      AskForNumber, Again, Done
<1>17. CASE UNCHANGED pdlVars
  <2>1. PagesInv' /\ PrintedInv' /\ ListsInv'
    BY <1>17 DEF pdlVars, PagesInv, PrintedInv, ListsInv, OldListIsRedrawn, listVars,
                 eventVars, printedVars, DevicesListedOnce
  <2>2. RequestInv'
    BY <1>17 DEF pdlVars, RequestInv, dialogVars, historyVars, ReplyIsOfOneRequest,
                 RepliedOnce, DeafDialogWasPushedTwice
  <2>3. QED
    BY <2>1, <2>2
<1>18. QED
  BY <1>1, <1>2, <1>3, <1>4, <1>5, <1>6, <1>7, <1>8, <1>10, <1>11, <1>12, <1>13, <1>15, <1>16,
     <1>17 DEF PdlNext, StackStep, LoopStep, UserStep

LEMMA PdlHolds == PdlSpec => []PdlIInv
<1>1. PdlInit => PdlIInv
  BY PdlStart
<1>2. PdlIInv /\ [PdlNext]_pdlVars => PdlIInv'
  BY PdlStep
<1>3. QED
  BY <1>1, <1>2, PTL DEF PdlSpec

\* Every reply that goes to the stack carries the address and the passkey of
\* one request, however many requests came while the dialog was open
\* (HandleIncomingSspRequest, SspPairingReply).
THEOREM OneReplyNamesOneRequest == PdlSpec => []ReplyIsOfOneRequest
<1>1. PdlIInv => ReplyIsOfOneRequest
  BY DEF PdlIInv, RequestInv
<1>2. QED
  BY PdlHolds, <1>1, PTL

\* A request gets one reply at most, from the user or from the countdown, and
\* a dialog that hears nothing was pushed twice.
THEOREM OneRequestOneReply == PdlSpec => [](RepliedOnce /\ DeafDialogWasPushedTwice)
<1>1. PdlIInv => RepliedOnce /\ DeafDialogWasPushedTwice
  BY DEF PdlIInv, RequestInv
<1>2. QED
  BY PdlHolds, <1>1, PTL

\* No device is listed twice, in whatever order the stack reports it found,
\* paired and bonded, and an old list on the screen is about to be redrawn.
THEOREM ListsAreShown == PdlSpec => [](DevicesListedOnce /\ OldListIsRedrawn)
<1>1. PdlIInv => DevicesListedOnce /\ OldListIsRedrawn
  BY DEF PdlIInv, ListsInv, PrintedInv
<1>2. QED
  BY PdlHolds, <1>1, PTL

\* A number typed while nothing waits to be drawn means the device printed at
\* it, although the code looks it up in the list as it is by then
\* (HanldePairWithRemoteDevice, HanldeDeletePairedDevice).
THEOREM NumberIsOfPrinted == PdlSpec => NumberMeansPrintedDevice
<1> DEFINE Meant(n) ==
       {<<"pair", printedFound[i]>> : i \in DOMAIN printedFound \cap {n}}
          \cup {<<"delete", printedPaired[i]>> : i \in DOMAIN printedPaired \cap {n}}
<1>1. ASSUME PdlIInv, NEW n \in Answers, UserAnswers(n), ~foundEvent, ~freshEvent,
             stackRequest' # NoRequest
      PROVE  stackRequest' \in Meant(n)
  <2>1. /\ printedFound = m_foundDevices /\ printedPaired = m_pairedDevices
        /\ m_foundDevices \in Seq(Devices) /\ m_pairedDevices \in Seq(Devices)
    BY <1>1 DEF UserAnswers, PdlIInv, ListsInv, PrintedInv, OldListIsRedrawn
  <2>2. /\ DOMAIN printedFound = 1 .. Len(m_foundDevices)
        /\ DOMAIN printedPaired = 1 .. Len(m_pairedDevices)
    BY <2>1, LenProperties
  <2>3. stackRequest' \in
           {IF TriedTooOften(pdlScheduler) THEN NoRequest ELSE Execute(Trying(pdlScheduler), n).request}
    BY <1>1 DEF UserAnswers, Finish, Done
  <2>4. stackRequest' = Execute(Trying(pdlScheduler), n).request
    BY <1>1, <2>3
  <2>5. \A s, devices, what :
           AskForNumber(s, devices, what, n).request # NoRequest
             => n \in 1 .. Len(devices)
                /\ AskForNumber(s, devices, what, n).request = <<what, devices[n]>>
    BY DEF AskForNumber, Again, Done, Chosen
  <2>6. CASE stackRequest' = HanldePairWithRemoteDevice(Trying(pdlScheduler), n).request
    <3>1. stackRequest' = AskForNumber(Trying(pdlScheduler), m_foundDevices, "pair", n).request
      BY <1>1, <2>6 DEF HanldePairWithRemoteDevice, Done
    <3>2. n \in 1 .. Len(m_foundDevices) /\ stackRequest' = <<"pair", m_foundDevices[n]>>
      BY <1>1, <2>5, <3>1
    <3>3. QED
      BY <2>1, <2>2, <3>2
  <2>7. CASE stackRequest' = HanldeDeletePairedDevice(Trying(pdlScheduler), n).request
    <3>1. stackRequest' = AskForNumber(Trying(pdlScheduler), m_pairedDevices, "delete", n).request
      BY <1>1, <2>7 DEF HanldeDeletePairedDevice, Done
    <3>2. n \in 1 .. Len(m_pairedDevices) /\ stackRequest' = <<"delete", m_pairedDevices[n]>>
      BY <1>1, <2>5, <3>1
    <3>3. QED
      BY <2>1, <2>2, <3>2
  <2>8. QED
    BY <2>4, <2>6, <2>7 DEF Execute
<1>2. PdlIInv /\ [PdlNext]_pdlVars =>
        [\A n \in Answers :
            UserAnswers(n) /\ ~foundEvent /\ ~freshEvent /\ stackRequest' # NoRequest
               => stackRequest' \in Meant(n)]_pdlVars
  <2> HIDE DEF Meant
  <2>1. QED
    BY <1>1
<1>3. QED
  BY PdlHolds, <1>2, PTL DEF PdlSpec, NumberMeansPrintedDevice

-----------------------------------------------------------------------------
(* The dialogs that ask for a number.                                       *)

CleanInv ==
    /\ pdlScheduler \in [executor : {NoExecutor, "pair", "delete"}, parameters : Seq(Nat),
                         step : 0 .. 3, tries : 0 .. m_maxExecutionTimes + 1]
    /\ DialogStartsClean

\* A dialog that has ended leaves its scheduler as it was before.
LEMMA ClearedIsIdle ==
  ASSUME NEW E, NEW s \in [executor : E, parameters : Seq(Nat), step : Nat, tries : Nat]
  PROVE  Cleared(s) = Idle
<1> DEFINE S == [executor : E \cup {NoExecutor}, parameters : Seq(Nat), step : Nat, tries : Nat]
<1>1. <<>> \in Seq(Nat)
  OBVIOUS
<1>2. /\ Cleared(s) \in S /\ Cleared(s).executor = NoExecutor
      /\ Cleared(s).parameters = <<>> /\ Cleared(s).step = 0 /\ Cleared(s).tries = 0
  BY <1>1 DEF Cleared, BackToBeginning
<1>3. /\ Idle \in S /\ Idle.executor = NoExecutor
      /\ Idle.parameters = <<>> /\ Idle.step = 0 /\ Idle.tries = 0
  BY <1>1 DEF Idle
<1>4. \A a, b \in S :
         a.executor = b.executor /\ a.parameters = b.parameters /\ a.step = b.step
             /\ a.tries = b.tries => a = b
  OBVIOUS
<1>5. QED
  BY <1>2, <1>3, <1>4

LEMMA PdlSchedulerHolds == PdlSpec => []CleanInv
<1> DEFINE Schedulers == [executor : {NoExecutor, "pair", "delete"}, parameters : Seq(Nat),
                          step : 0 .. 3, tries : 0 .. m_maxExecutionTimes + 1]
           Clean(s) == s \in Schedulers /\ s.executor # NoExecutor /\ s.parameters = <<>>
           Result(r) == \/ r.done /\ r.scheduler \in Schedulers
                        \/ ~r.done /\ Clean(r.scheduler)
<1>0. m_maxExecutionTimes \in Nat /\ 0 \in 0 .. m_maxExecutionTimes + 1
  BY MaxExecutionTimesAssumption
<1>1. PdlInit => CleanInv
  BY <1>0 DEF PdlInit, CleanInv, DialogStartsClean, Idle, NoExecutor
<1>2. ASSUME NEW s, Clean(s), NEW answer \in Nat, NEW devices, NEW what
      PROVE  Result(AskForNumber(s, devices, what, answer))
  <2> DEFINE given == AddParameter(s, answer)
             back == RemoveLastParameter(given)
  <2>1. CASE s.step = 0
    <3>1. Clean(Asking(s, 1))
      BY <1>2 DEF Asking
    <3>2. QED
      BY <2>1, <3>1 DEF AskForNumber, Again
  <2>2. given \in Schedulers /\ given.parameters = Append(<<>>, answer) /\ given.executor = s.executor
    BY <1>2, AnswerTakenBack DEF AddParameter
  <2>3. Clean(back)
    <3>1. Front(given.parameters) = <<>> /\ <<>> \in Seq(Nat)
      BY <2>2, AnswerTakenBack
    <3> HIDE DEF given
    <3>2. QED
      BY <1>2, <2>2, <3>1 DEF RemoveLastParameter
  <2> HIDE DEF given, back, Clean, Schedulers
  <2>4. CASE s.step # 0
    <3>1. \/ AskForNumber(s, devices, what, answer) = Again(back)
          \/ AskForNumber(s, devices, what, answer) = Done(given, <<what, Chosen(devices, answer)>>)
      BY <2>4 DEF AskForNumber, given, back
    <3>2. QED
      BY <2>2, <2>3, <3>1 DEF Again, Done
  <2>5. QED
    BY <2>1, <2>4
<1>3. ASSUME NEW s, Clean(s), NEW answer \in Nat
      PROVE  Result(Execute(s, answer))
  <2>1. Result(Done(s, NoRequest))
    BY <1>3 DEF Done
  <2>2. QED
    BY <1>2, <1>3, <2>1 DEF Execute, HanldePairWithRemoteDevice, HanldeDeletePairedDevice
<1>4. ASSUME NEW r, Result(r), Finish(r)
      PROVE  CleanInv'
  <2>1. \A s \in Schedulers : Cleared(s) = Idle
    <3>1. \A s \in Schedulers : s \in [executor : {NoExecutor, "pair", "delete"}, parameters : Seq(Nat),
                                       step : Nat, tries : Nat]
      BY <1>0
    <3>2. QED
      BY <3>1, ClearedIsIdle
  <2>2. Idle \in Schedulers
    <3>1. <<>> \in Seq(Nat)
      OBVIOUS
    <3>2. QED
      BY <1>0, <3>1 DEF Idle
  <2>3. pdlScheduler' = Idle \/ Clean(pdlScheduler')
    BY <1>4, <2>1 DEF Finish, AfterRun
  <2>4. Idle.executor = NoExecutor
    BY DEF Idle
  <2>5. QED
    BY <2>2, <2>3, <2>4 DEF CleanInv, DialogStartsClean
<1>5. ASSUME NEW executor \in {"pair", "delete"}, StartDialog(executor)
      PROVE  CleanInv'
  <2>1. Executing(executor) =
           [executor |-> executor, parameters |-> <<>>, step |-> 0, tries |-> 0]
    BY DEF Executing, Idle
  <2>2. <<>> \in Seq(Nat) /\ executor # NoExecutor /\ Prompt \in Nat
    BY DEF NoExecutor, Prompt
  <2>3. Clean(Executing(executor))
    BY <1>0, <2>1, <2>2
  <2>4. QED
    BY <1>3, <1>4, <1>5, <2>2, <2>3 DEF StartDialog
<1>6. ASSUME CleanInv, NEW answer \in Answers, UserAnswers(answer)
      PROVE  CleanInv'
  <2>1. Clean(pdlScheduler)
    BY <1>6 DEF UserAnswers, CleanInv, DialogStartsClean
  <2>5. ~TriedTooOften(pdlScheduler) => Clean(Trying(pdlScheduler))
    BY <1>0, <2>1 DEF TriedTooOften, Trying
  <2>2. answer \in Nat
    BY DEF Answers
  <2>3. Result(Done(pdlScheduler, NoRequest))
    BY <2>1 DEF Done
  <2>4. QED
    BY <1>3, <1>4, <1>6, <2>2, <2>3, <2>5 DEF UserAnswers
<1>7. CleanInv /\ UNCHANGED pdlScheduler => CleanInv'
  BY DEF CleanInv, DialogStartsClean
<1>8. CleanInv /\ [PdlNext]_pdlVars => CleanInv'
  <2> SUFFICES ASSUME CleanInv, [PdlNext]_pdlVars
               PROVE  CleanInv'
    OBVIOUS
  <2>1. ASSUME StackStep \/ LoopStep \/ ConfirmTimeout
        PROVE  UNCHANGED pdlScheduler
    BY <2>1 DEF StackStep, LoopStep, ConfirmTimeout, OnDeviceFound, OnPairedDeviceReceived,
                OnPincodeRequest, OnSppPairingConfRequest, OnBondStateChanged,
                OnDiscoveryStateChanged, HanldeNewDeviceFound, FreshPage
  <2>2. CASE UserStep
    BY <1>5, <1>6, <1>7, <2>2 DEF UserStep, UserReplies, UserBack, UserOpensList
  <2>3. QED
    BY <1>7, <2>1, <2>2 DEF PdlNext, pdlVars
<1>9. QED
  BY <1>1, <1>8, PTL DEF PdlSpec

\* A dialog that has ended leaves nothing behind for the next one
\* (StrandCommandScheduler, PageDeviceList).
THEOREM DialogsStartClean == PdlSpec => []DialogStartsClean
<1>1. CleanInv => DialogStartsClean
  BY DEF CleanInv
<1>2. QED
  BY PdlSchedulerHolds, <1>1, PTL

-----------------------------------------------------------------------------
(* The settings.  For each kind of report, the newest one under way says     *)
(* what the stack has set; if none is under way the copy does.              *)

Report(kind, s) == IF kind = "scan" THEN ScanReport(s) ELSE PairableReport(s)

Agrees(kind) == Report(kind, m_localDevice) = Report(kind, stackSettings)

NewestReport(kind, i) ==
    /\ settingReports[i] = Report(kind, stackSettings)
    /\ \A j \in i + 1 .. Len(settingReports) : settingReports[j].of # kind

UpToDate(kind) ==
    \/ Agrees(kind) /\ \A i \in 1 .. Len(settingReports) : settingReports[i].of # kind
    \/ \E i \in 1 .. Len(settingReports) : NewestReport(kind, i)

AnyReport == {ScanReport(s) : s \in Settings} \cup {PairableReport(s) : s \in Settings}

SettingsInv ==
    /\ m_localDevice \in Settings /\ stackSettings \in Settings
    /\ settingReports \in Seq(AnyReport)
    /\ UpToDate("scan") /\ UpToDate("pairable")

PowerInv == powerAsked \in Nat /\ PowerAskedWhileEnabling /\ EnabledHasModules

LEMMA ReportsTell ==
  ASSUME NEW s \in Settings, NEW r \in AnyReport
  PROVE  /\ Report("scan", s) = ScanReport(s) /\ Report("pairable", s) = PairableReport(s)
         /\ r.of \in {"scan", "pairable"}
         /\ ScanReport(s).of = "scan" /\ PairableReport(s).of = "pairable"
         /\ LET l == IF r.of = "scan" THEN OnLocalSettingsChanged(s, r) ELSE OnPairableChanged(s, r)
            IN  /\ l \in Settings
                /\ \A kind \in {"scan", "pairable"} :
                      /\ r.of = kind => Report(kind, l) = r
                      /\ r.of # kind => Report(kind, l) = Report(kind, s)
<1>1. ASSUME NEW u \in Settings, r = ScanReport(u)
      PROVE  /\ r.of = "scan" /\ OnLocalSettingsChanged(s, r) \in Settings
             /\ ScanReport(OnLocalSettingsChanged(s, r)) = r
             /\ PairableReport(OnLocalSettingsChanged(s, r)) = PairableReport(s)
  BY <1>1 DEF ScanReport, PairableReport, OnLocalSettingsChanged, Settings
<1>2. ASSUME NEW u \in Settings, r = PairableReport(u)
      PROVE  /\ r.of = "pairable" /\ OnPairableChanged(s, r) \in Settings
             /\ PairableReport(OnPairableChanged(s, r)) = r
             /\ ScanReport(OnPairableChanged(s, r)) = ScanReport(s)
  BY <1>2 DEF ScanReport, PairableReport, OnPairableChanged, Settings
<1>3. Report("scan", s) = ScanReport(s) /\ Report("pairable", s) = PairableReport(s)
  BY DEF Report
<1>4. ScanReport(s).of = "scan" /\ PairableReport(s).of = "pairable"
  BY DEF ScanReport, PairableReport
<1>5. PICK u \in Settings : r = ScanReport(u) \/ r = PairableReport(u)
  BY DEF AnyReport
<1>6. QED
  BY <1>1, <1>2, <1>3, <1>4, <1>5 DEF Report

\* A change of the settings is reported twice.
LEMMA ChangeIsReported ==
  ASSUME SettingsInv, stackSettings' \in Settings, UNCHANGED m_localDevice,
         settingReports' = settingReports \o
             <<ScanReport(stackSettings'), PairableReport(stackSettings')>>
  PROVE  SettingsInv'
<1> DEFINE two == <<ScanReport(stackSettings'), PairableReport(stackSettings')>>
<1>1. two \in Seq(AnyReport) /\ Len(two) = 2
  BY DEF AnyReport
<1>2. two[1] = ScanReport(stackSettings') /\ two[2] = PairableReport(stackSettings')
  OBVIOUS
<1>3. settingReports \in Seq(AnyReport) /\ Len(settingReports) \in Nat
  BY LenProperties DEF SettingsInv
<1> HIDE DEF two
<1>n. PICK n \in Nat : n = Len(settingReports)
  BY <1>3
<1>4. /\ settingReports' \in Seq(AnyReport) /\ Len(settingReports') = n + 2
      /\ \A i \in 1 .. n + 2 : settingReports'[i] = IF i <= n THEN settingReports[i] ELSE two[i - n]
  <2>1. settingReports' = settingReports \o two
    BY DEF two
  <2>2. QED
    <3>1. /\ settingReports \o two \in Seq(AnyReport)
          /\ Len(settingReports \o two) = Len(settingReports) + Len(two)
          /\ \A i \in 1 .. Len(settingReports) + Len(two) :
                (settingReports \o two)[i] =
                    IF i <= Len(settingReports) THEN settingReports[i]
                    ELSE two[i - Len(settingReports)]
      BY <1>1, <1>3, ConcatProperties
    <3>2. QED
      BY <1>1, <1>n, <2>1, <3>1
<1>5. /\ n + 1 \in 1 .. n + 2 /\ ~ (n + 1 <= n) /\ (n + 1) - n = 1
      /\ n + 2 \in 1 .. n + 2 /\ ~ (n + 2 <= n) /\ (n + 2) - n = 2
  BY <1>3
<1>6. /\ settingReports'[n + 1] = ScanReport(stackSettings')
      /\ settingReports'[n + 2] = PairableReport(stackSettings')
  BY <1>2, <1>4, <1>5
<1>7. PairableReport(stackSettings').of # "scan"
  BY DEF PairableReport
<1>8. NewestReport("scan", n + 1)'
  <2>1. \A j \in (n + 1) + 1 .. n + 2 : j = n + 2
    BY <1>3
  <2>2. QED
    BY <1>4, <1>6, <1>7, <2>1 DEF NewestReport, Report
<1>9. NewestReport("pairable", n + 2)'
  <2>1. (n + 2) + 1 .. n + 2 = {}
    BY <1>3
  <2>2. QED
    BY <1>4, <1>6, <2>1 DEF NewestReport, Report
<1>10. QED
  BY <1>4, <1>5, <1>8, <1>9 DEF SettingsInv, UpToDate

\* The oldest report arrives.
LEMMA ReportArrives ==
  ASSUME SettingsInv, SettingReported
  PROVE  SettingsInv'
<1> DEFINE r == Head(settingReports)
           n == Len(settingReports)
<1>1. /\ settingReports \in Seq(AnyReport) /\ settingReports # <<>>
      /\ settingReports' = Tail(settingReports) /\ stackSettings' = stackSettings
      /\ m_localDevice \in Settings /\ stackSettings \in Settings
      /\ m_localDevice' = IF r.of = "scan" THEN OnLocalSettingsChanged(m_localDevice, r)
                          ELSE OnPairableChanged(m_localDevice, r)
  BY DEF SettingReported, SettingsInv
<1>2. /\ n \in Nat /\ n # 0 /\ r = settingReports[1] /\ r \in AnyReport
      /\ settingReports' \in Seq(AnyReport) /\ Len(settingReports') = n - 1
      /\ \A i \in 1 .. n - 1 : settingReports'[i] = settingReports[i + 1]
  BY <1>1, HeadTailProperties, EmptySeq, LenProperties
<1> HIDE DEF r, n
<1>3. /\ m_localDevice' \in Settings
      /\ \A kind \in {"scan", "pairable"} :
            /\ r.of = kind => Report(kind, m_localDevice') = r
            /\ r.of # kind => Report(kind, m_localDevice') = Report(kind, m_localDevice)
  BY <1>1, <1>2, ReportsTell
<1>4. ASSUME NEW kind \in {"scan", "pairable"}, UpToDate(kind)
      PROVE  UpToDate(kind)'
  <2>1. \A i \in 1 .. n - 1 : i + 1 \in 1 .. n /\ settingReports'[i] = settingReports[i + 1]
    BY <1>2
  <2>2. 1 \in 1 .. n
    BY <1>2
  <2>3. CASE Agrees(kind) /\ \A i \in 1 .. n : settingReports[i].of # kind
    <3>1. r.of # kind
      BY <1>2, <2>2, <2>3
    <3>2. Agrees(kind)'
      BY <1>1, <1>3, <2>3, <3>1 DEF Agrees
    <3>3. QED
      BY <1>2, <2>1, <2>3, <3>2 DEF UpToDate
  <2>4. ASSUME NEW i \in 1 .. n, NewestReport(kind, i)
        PROVE  UpToDate(kind)'
    <3>1. \A j \in 1 .. n - 1 : j + 1 > i => settingReports'[j].of # kind
      BY <1>2, <2>1, <2>4 DEF NewestReport, n
    <3>2. CASE i = 1
      <4>1. r = Report(kind, stackSettings) /\ r.of = kind
        BY <1>1, <1>2, <2>4, <3>2, ReportsTell DEF NewestReport, Report
      <4>2. Agrees(kind)'
        BY <1>1, <1>3, <4>1 DEF Agrees
      <4>3. \A j \in 1 .. n - 1 : settingReports'[j].of # kind
        BY <1>2, <3>1, <3>2
      <4>4. QED
        BY <1>2, <4>2, <4>3 DEF UpToDate
    <3>3. CASE i # 1
      <4>1. i - 1 \in 1 .. n - 1 /\ (i - 1) + 1 = i
        BY <1>2, <3>3
      <4>2. settingReports'[i - 1] = Report(kind, stackSettings)
        BY <2>1, <2>4, <4>1 DEF NewestReport
      <4>3. \A j \in (i - 1) + 1 .. n - 1 : settingReports'[j].of # kind
        <5>1. \A j \in (i - 1) + 1 .. n - 1 : j \in 1 .. n - 1 /\ j + 1 > i
          BY <1>2, <4>1
        <5>2. QED
          BY <3>1, <5>1
      <4>4. NewestReport(kind, i - 1)'
        BY <1>1, <1>2, <4>2, <4>3 DEF NewestReport
      <4>5. QED
        BY <1>2, <4>1, <4>4 DEF UpToDate
    <3>4. QED
      BY <3>2, <3>3
  <2>5. QED
    BY <1>4, <2>3, <2>4 DEF UpToDate, n
<1>5. QED
  BY <1>1, <1>2, <1>3, <1>4 DEF SettingsInv

LEMMA DsStep ==
  ASSUME SettingsInv /\ PowerInv, [DsNext]_dsVars
  PROVE  (SettingsInv /\ PowerInv)'
<1>1. UNCHANGED settingVars => SettingsInv'
  BY DEF settingVars, SettingsInv, UpToDate, Agrees, NewestReport
<1>2. UNCHANGED powerVars => PowerInv'
  BY DEF powerVars, PowerInv, PowerAskedWhileEnabling, EnabledHasModules
<1> USE DEF PowerInv, PowerAskedWhileEnabling, EnabledHasModules
<1>3. CASE Enable
  BY <1>1, <1>3 DEF Enable
<1>4. CASE PowerOff
  BY <1>1, <1>2, <1>4 DEF PowerOff, dsVars
<1>5. ASSUME NEW isOn \in BOOLEAN, AdapterStateChanged(isOn)
      PROVE  (SettingsInv /\ PowerInv)'
  BY <1>1, <1>5 DEF AdapterStateChanged
<1>6. ASSUME NEW option \in {"pairable", "discoverable", "connectable"}, NEW on \in BOOLEAN,
             SetLocalDeviceSettings(option, on)
      PROVE  (SettingsInv /\ PowerInv)'
  <2>1. Changed(m_localDevice, option, on) \in Settings
    BY DEF SettingsInv, Changed, Settings
  <2>2. CASE UNCHANGED <<stackSettings, settingReports>>
    BY <1>1, <1>2, <1>6, <2>2 DEF SetLocalDeviceSettings, settingVars
  <2>3. CASE /\ stackSettings' = Changed(m_localDevice, option, on)
             /\ settingReports' = settingReports \o
                    <<ScanReport(stackSettings'), PairableReport(stackSettings')>>
    BY <1>2, <1>6, <2>1, <2>3, ChangeIsReported DEF SetLocalDeviceSettings
  <2>4. QED
    BY <1>6, <2>2, <2>3 DEF SetLocalDeviceSettings
<1>7. CASE AskForName
  BY <1>1, <1>2, <1>7 DEF AskForName, SetLocalName
<1>8. ASSUME NEW name \in Names, GiveName(name)
      PROVE  (SettingsInv /\ PowerInv)'
  BY <1>1, <1>2, <1>8 DEF GiveName, SetLocalName
<1>9. CASE SettingReported
  BY <1>2, <1>9, ReportArrives DEF SettingReported
<1>10. CASE OnLocalNameChanged
  BY <1>1, <1>2, <1>10 DEF OnLocalNameChanged
<1>11. CASE UNCHANGED dsVars
  BY <1>1, <1>2, <1>11 DEF dsVars
<1>12. QED
  BY <1>3, <1>4, <1>5, <1>6, <1>7, <1>8, <1>9, <1>10, <1>11 DEF DsNext, Reports, Options

LEMMA DsHolds == DsSpec => [](SettingsInv /\ PowerInv)
<1>1. DsInit => SettingsInv /\ PowerInv
  <2> SUFFICES ASSUME DsInit
               PROVE  SettingsInv /\ PowerInv
    OBVIOUS
  <2>1. <<>> \in Seq(AnyReport) /\ Len(<<>>) = 0 /\ Off \in Settings
    BY DEF Off, Settings
  <2>2. SettingsInv
    BY <2>1 DEF DsInit, SettingsInv, UpToDate, Agrees
  <2>3. PowerInv
    BY DEF DsInit, PowerInv, PowerAskedWhileEnabling, EnabledHasModules
  <2>4. QED
    BY <2>2, <2>3
<1>2. (SettingsInv /\ PowerInv) /\ [DsNext]_dsVars => (SettingsInv /\ PowerInv)'
  BY DsStep
<1>3. QED
  BY <1>1, <1>2, PTL DEF DsSpec

\* The stack is asked to power on once at a time, and an enabled adaptor has
\* had its profiles started (Enable, AdapterStateChanged).
THEOREM PowerIsAskedOnce == DsSpec => [](PowerAskedWhileEnabling /\ EnabledHasModules)
<1>1. SettingsInv /\ PowerInv => PowerAskedWhileEnabling /\ EnabledHasModules
  BY DEF PowerInv
<1>2. QED
  BY DsHolds, <1>1, PTL

\* An option leaves every other setting as the stack has it, unless a report
\* that brings that setting is under way, although the request carries the copy
\* of all three (GetLocalDeviceSettings, SetLocalDeviceSettings).
THEOREM OptionsKeepOthers == DsSpec => OptionKeepsOtherSettings
<1> DEFINE Silent(other) == \A i \in DOMAIN settingReports : settingReports[i].of # ReportOf(other)
           Kept == \A option \in Options, on \in BOOLEAN : \A other \in Options \ {option} :
                      /\ SetLocalDeviceSettings(option, on) /\ stackSettings' # stackSettings
                      /\ ~(option = "discoverable" /\ on /\ other = "connectable")
                      /\ Silent(other)
                      => stackSettings'[other] = stackSettings[other]
<1>1. ASSUME SettingsInv, NEW option \in Options, NEW on \in BOOLEAN, NEW other \in Options \ {option},
             SetLocalDeviceSettings(option, on), stackSettings' # stackSettings,
             ~(option = "discoverable" /\ on /\ other = "connectable"), Silent(other)
      PROVE  stackSettings'[other] = stackSettings[other]
  <2> DEFINE kind == ReportOf(other)
  <2>1. kind \in {"scan", "pairable"} /\ UpToDate(kind)
    BY <1>1 DEF SettingsInv, ReportOf
  <2>2. DOMAIN settingReports = 1 .. Len(settingReports)
    BY <1>1, LenProperties DEF SettingsInv
  <2>3. \A i \in 1 .. Len(settingReports) : ~NewestReport(kind, i)
    <3> SUFFICES ASSUME NEW i \in 1 .. Len(settingReports), NewestReport(kind, i)
                 PROVE  FALSE
      OBVIOUS
    <3>1. settingReports[i] = Report(kind, stackSettings)
      BY DEF NewestReport
    <3>2. Report(kind, stackSettings).of = kind
      BY <2>1 DEF Report, ScanReport, PairableReport
    <3>3. settingReports[i].of # kind
      BY <1>1, <2>2
    <3> HIDE DEF kind
    <3>4. QED
      BY <3>1, <3>2, <3>3
  <2>4. Agrees(kind)
    BY <2>1, <2>3 DEF UpToDate
  <2>5. m_localDevice[other] = stackSettings[other]
    <3>1. CASE other = "pairable"
      BY <2>4, <3>1 DEF ReportOf, Agrees, Report, PairableReport
    <3>2. CASE other \in {"discoverable", "connectable"}
      <4>1. ScanReport(m_localDevice) = ScanReport(stackSettings)
        BY <2>4, <3>2 DEF ReportOf, Agrees, Report
      <4>2. /\ m_localDevice.discoverable = stackSettings.discoverable
            /\ m_localDevice.connectable = stackSettings.connectable
        BY <4>1 DEF ScanReport
      <4>3. QED
        BY <3>2, <4>2
    <3>3. QED
      BY <3>1, <3>2 DEF Options
  <2>6. stackSettings' = Changed(m_localDevice, option, on)
    BY <1>1 DEF SetLocalDeviceSettings
  <2>7. Changed(m_localDevice, option, on)[other] = m_localDevice[other]
    <3>1. DOMAIN m_localDevice = Options
      BY <1>1 DEF SettingsInv, Settings, Options
    <3>2. CASE option = "discoverable" /\ on
      <4>1. other = "pairable"
        BY <1>1, <3>2 DEF Options
      <4>2. Changed(m_localDevice, option, on) =
               [m_localDevice EXCEPT !.discoverable = TRUE, !.connectable = TRUE]
        BY <3>2 DEF Changed
      <4>3. QED
        BY <3>1, <4>1, <4>2 DEF Options
    <3>3. CASE ~(option = "discoverable" /\ on)
      <4>1. Changed(m_localDevice, option, on) = [m_localDevice EXCEPT ![option] = on]
        BY <3>3 DEF Changed
      <4>2. other # option /\ other \in DOMAIN m_localDevice
        BY <3>1
      <4>3. QED
        BY <4>1, <4>2
    <3>4. QED
      BY <3>2, <3>3
  <2>8. QED
    BY <2>5, <2>6, <2>7
<1>2. SettingsInv => Kept
  <2> HIDE DEF Silent
  <2>1. QED
    BY <1>1
<1> HIDE DEF Kept
<1>3. SettingsInv /\ PowerInv /\ [DsNext]_dsVars => [Kept]_dsVars
  BY <1>2
<1> USE DEF Kept
<1>4. QED
  BY DsHolds, <1>3, PTL DEF DsSpec, OptionKeepsOtherSettings

-----------------------------------------------------------------------------
(* The hands-free unit.                                                     *)

QueryInv ==
    /\ queryTimer \in BOOLEAN /\ m_queryCallListTime \in 0 .. m_maxQueryTimes
    /\ queryTimer => queriesSince = m_queryCallListTime

CallsInv ==
    /\ m_callSessions \in Seq(Session) /\ CallListedOnce
    /\ underWay \in Seq(Message)
    /\ phoneCalls \in [CallIndexes -> CallState \cup {NoCall}]

ScreenInv == hfFreshEvent \in BOOLEAN /\ StatusPageIsCurrent /\ PageKnowsDevice

HfIInv == QueryInv /\ CallsInv /\ ScreenInv

LEMMA QuerySteps ==
  ASSUME QueryInv
  PROVE  /\ UNCHANGED queryVars => QueryInv'
         /\ \A p : StartQueryCallList(p) => QueryInv'
         /\ QueryCallList => QueryInv' /\ (queryTimer /\ ~queryTimer' =>
                                             queriesSince' = m_maxQueryTimes + 1)
<1>1. m_maxQueryTimes \in Nat /\ 0 \in 0 .. m_maxQueryTimes
  BY QueryAssumption
<1>2. UNCHANGED queryVars => QueryInv'
  BY DEF queryVars, QueryInv
<1>3. \A p : StartQueryCallList(p) => QueryInv'
  BY <1>1 DEF StartQueryCallList, QueryInv
<1>4. ASSUME QueryCallList
      PROVE  QueryInv' /\ (queryTimer /\ ~queryTimer' => queriesSince' = m_maxQueryTimes + 1)
  <2>1. queriesSince = m_queryCallListTime /\ m_queryCallListTime \in 0 .. m_maxQueryTimes
    BY <1>4 DEF QueryInv, QueryCallList
  <2>2. CASE m_queryCallListTime + 1 > m_maxQueryTimes
    <3>1. m_queryCallListTime = m_maxQueryTimes
      BY <1>1, <2>1, <2>2
    <3>2. m_queryCallListTime' = 0 /\ queryTimer' = FALSE /\ queriesSince' = queriesSince + 1
      BY <1>4, <2>2 DEF QueryCallList
    <3>3. QED
      BY <1>1, <2>1, <3>1, <3>2 DEF QueryInv
  <2>3. CASE ~ (m_queryCallListTime + 1 > m_maxQueryTimes)
    BY <1>1, <1>4, <2>1, <2>3 DEF QueryInv, QueryCallList
  <2>4. QED
    BY <2>2, <2>3
<1>5. QED
  BY <1>2, <1>3, <1>4

\* Where a query begins, goes on and ends.
LEMMA QueryStep ==
  ASSUME QueryInv, [HfNext]_hfVars
  PROVE  QueryInv' /\ (queryTimer /\ ~queryTimer' => queriesSince' = m_maxQueryTimes + 1)
<1>1. ASSUME UNCHANGED queryVars
      PROVE  QueryInv' /\ (queryTimer /\ ~queryTimer' => queriesSince' = m_maxQueryTimes + 1)
  BY <1>1, QuerySteps DEF queryVars
<1>2. ASSUME NEW p, StartQueryCallList(p)
      PROVE  QueryInv' /\ (queryTimer /\ ~queryTimer' => queriesSince' = m_maxQueryTimes + 1)
  BY <1>2, QuerySteps DEF StartQueryCallList
<1>3. ASSUME NEW p \in Phones, NEW s \in ConnectionStatus, HandleConnectionStatusChanged(p, s)
      PROVE  QueryInv' /\ (queryTimer /\ ~queryTimer' => queriesSince' = m_maxQueryTimes + 1)
  BY <1>1, <1>2, <1>3 DEF HandleConnectionStatusChanged
<1>4. ASSUME Deliver
      PROVE  UNCHANGED queryVars \/ StartQueryCallList(m_address)
  BY <1>4 DEF Deliver, HandleCallSetupChanged, HandleCallProgressChanged, HandleCallListChanged
<1>5. ASSUME \/ PhoneStep \/ PhoneListsCalls \/ HfFreshPage \/ HandleShowStatusPage \/ HfBack
             \/ GetConnectionStatus \/ UNCHANGED hfVars
             \/ \E e \in {"connect", "dial", "split"} : HfStartDialog(e)
             \/ \E a \in 0 .. MaxPaired + 1 : HfUserAnswers(a)
      PROVE  UNCHANGED queryVars
  BY <1>5 DEF PhoneStep, PhoneListsCalls, HfFreshPage, HandleShowStatusPage, HfBack,
              GetConnectionStatus, hfVars, HfStartDialog, HfUserAnswers, HfFinish
<1>6. QED
  BY <1>1, <1>2, <1>3, <1>4, <1>5, QuerySteps DEF HfNext

\* An answer of the phone leaves the list with each call once.
LEMMA CallIsListed ==
  ASSUME NEW s \in Session, m_callSessions \in Seq(Session), CallListedOnce,
         HandleCallListChanged(s)
  PROVE  m_callSessions' \in Seq(Session) /\ CallListedOnce'
<1> DEFINE c == m_callSessions
           found == {i \in DOMAIN c : SameCall(c[i], s)}
<1>1. /\ Len(c) \in Nat /\ DOMAIN c = 1 .. Len(c) /\ \A i \in 1 .. Len(c) : c[i] \in Session
      /\ \A i, j \in 1 .. Len(c) : c[i].index = c[j].index => i = j
  BY LenProperties, ElementOfSeq DEF CallListedOnce
<1>2. CASE found = {}
  <2>1. c' = Append(c, s)
    BY <1>2 DEF HandleCallListChanged
  <2>2. /\ Append(c, s) \in Seq(Session) /\ Len(Append(c, s)) = Len(c) + 1
        /\ Append(c, s)[Len(c) + 1] = s /\ \A i \in 1 .. Len(c) : Append(c, s)[i] = c[i]
    BY AppendProperties
  <2>3. DOMAIN Append(c, s) = 1 .. Len(c) + 1
    BY <2>2, LenProperties
  <2>4. \A i \in 1 .. Len(c) : c[i].index # s.index
    BY <1>1, <1>2 DEF SameCall
  <2>5. \A i \in 1 .. Len(c) + 1 : i \in 1 .. Len(c) \/ i = Len(c) + 1
    BY <1>1
  <2>6. \A i, j \in DOMAIN Append(c, s) :
           Append(c, s)[i].index = Append(c, s)[j].index => i = j
    BY <1>1, <2>2, <2>3, <2>4, <2>5
  <2>7. QED
    BY <2>1, <2>2, <2>6 DEF CallListedOnce
<1>3. CASE found # {}
  <2> DEFINE r == [i \in DOMAIN c |-> IF i \in found THEN s ELSE c[i]]
  <2>1. c' = r
    BY <1>3 DEF HandleCallListChanged
  <2>2. r \in Seq(Session)
    BY <1>1, FunctionIsList
  <2>3. DOMAIN r = 1 .. Len(c) /\ \A i \in 1 .. Len(c) : r[i].index = c[i].index
    BY <1>1 DEF SameCall
  <2>4. QED
    BY <1>1, <2>1, <2>2, <2>3 DEF CallListedOnce
<1>4. QED
  BY <1>2, <1>3

LEMMA SendKeepsType ==
  ASSUME underWay \in Seq(Message), NEW messages \in Seq(Message), Send(messages)
  PROVE  underWay' \in Seq(Message)
BY ConcatProperties DEF Send

LEMMA CallsStep ==
  ASSUME CallsInv, [HfNext]_hfVars
  PROVE  CallsInv'
<1>1. UNCHANGED <<callVars, phoneVars>> => CallsInv'
  BY DEF callVars, phoneVars, CallsInv, CallListedOnce
<1>2. ASSUME NEW p \in Phones, NEW s \in ConnectionStatus, HandleConnectionStatusChanged(p, s)
      PROVE  CallsInv'
  <2>0. LinkIsNew(s) \/ UNCHANGED phoneVars
    BY <1>2 DEF HandleConnectionStatusChanged
  <2>1. phoneCalls' \in [CallIndexes -> CallState \cup {NoCall}]
    BY <2>0 DEF LinkIsNew, phoneVars, CallsInv
  <2>2. underWay' \in Seq(Message) /\ UNCHANGED m_callSessions
    <3>1. underWay' = <<>> \/ underWay' = underWay
      BY <2>0 DEF LinkIsNew, phoneVars
    <3>2. <<>> \in Seq(Message) /\ underWay \in Seq(Message)
      BY DEF CallsInv
    <3>3. UNCHANGED m_callSessions
      BY <1>2 DEF HandleConnectionStatusChanged, callVars
    <3>4. QED
      BY <3>1, <3>2, <3>3
  <2>3. QED
    BY <2>1, <2>2 DEF CallsInv, CallListedOnce
<1>3. CASE Deliver
  <2> DEFINE m == Head(underWay)
  <2>1. m \in Message /\ underWay' \in Seq(Message) /\ UNCHANGED phoneCalls
    BY <1>3, HeadTailProperties DEF Deliver, CallsInv
  <2>2. CASE HandleCallSetupChanged \/ HandleCallProgressChanged
    <3>1. m_callSessions' \in {<<>>, m_callSessions}
      BY <2>2 DEF HandleCallSetupChanged, HandleCallProgressChanged, callVars
    <3>2. <<>> \in Seq(Session) /\ DOMAIN <<>> = {}
      OBVIOUS
    <3>3. m_callSessions' \in Seq(Session) /\ CallListedOnce'
      BY <3>1, <3>2 DEF CallsInv, CallListedOnce
    <3>4. QED
      BY <2>1, <3>3 DEF CallsInv
  <2>3. CASE m.type = "call" /\ HandleCallListChanged(m.call)
    <3>1. m.call \in Session
      BY <2>1, <2>3 DEF Message
    <3>2. m_callSessions' \in Seq(Session) /\ CallListedOnce'
      BY <2>3, <3>1, CallIsListed DEF CallsInv
    <3>3. QED
      BY <2>1, <3>2 DEF CallsInv
  <2>4. QED
    BY <1>3, <2>2, <2>3 DEF Deliver
<1>4. CASE PhoneStep
  <2>1. UNCHANGED m_callSessions
    BY <1>4 DEF PhoneStep, callVars
  <2>2. PICK i \in CallIndexes : PhoneRings(i) \/ PhoneAnswers(i) \/ PhoneHangsUp(i)
    BY <1>4 DEF PhoneStep
  <2>3. phoneCalls' \in [CallIndexes -> CallState \cup {NoCall}]
    BY <2>2 DEF PhoneRings, PhoneAnswers, PhoneHangsUp, CallsInv, CallState
  <2>4. \A on \in BOOLEAN : Setup(on) \in Message /\ Progress(on) \in Message
    BY DEF Setup, Progress, Message
  <2>5. \E messages \in Seq(Message) : Send(messages)
    <3>1. /\ <<Setup(TRUE)>> \in Seq(Message) /\ <<Progress(TRUE), Setup(FALSE)>> \in Seq(Message)
          /\ <<Progress(FALSE)>> \in Seq(Message) /\ <<Setup(FALSE)>> \in Seq(Message)
      <4>1. \A m, n \in Message : <<m>> \in Seq(Message) /\ <<m, n>> \in Seq(Message)
        OBVIOUS
      <4>2. QED
        BY <2>4, <4>1
    <3>2. QED
      BY <2>2, <3>1 DEF PhoneRings, PhoneAnswers, PhoneHangsUp
  <2>6. underWay' \in Seq(Message)
    BY <2>5, SendKeepsType DEF CallsInv
  <2>7. QED
    BY <2>1, <2>3, <2>6 DEF CallsInv, CallListedOnce
<1>5. CASE PhoneListsCalls
  <2> DEFINE Told(list) == [n \in DOMAIN list |->
                              [type |-> "call",
                               call |-> [index |-> list[n], state |-> phoneCalls[list[n]]]]]
  <2>1. PICK list \in [1 .. Cardinality(Calling) -> Calling] : Send(Told(list))
    BY <1>5 DEF PhoneListsCalls
  <2>2. Cardinality(Calling) \in Nat
    <3>1. IsFiniteSet(Calling)
      BY CallIndexAssumption, FS_Subset DEF Calling
    <3>2. QED
      BY <3>1, FS_CardinalityType
  <2>3. \A n \in DOMAIN list : Told(list)[n] \in Message
    <3> SUFFICES ASSUME NEW n \in DOMAIN list
                 PROVE  [type |-> "call", call |-> [index |-> list[n], state |-> phoneCalls[list[n]]]]
                           \in Message
      OBVIOUS
    <3>1. list[n] \in CallIndexes /\ phoneCalls[list[n]] # NoCall
      BY DEF Calling
    <3>2. phoneCalls[list[n]] \in CallState
      BY <3>1 DEF CallsInv
    <3>3. [index |-> list[n], state |-> phoneCalls[list[n]]] \in Session
      BY <3>1, <3>2 DEF Session
    <3>4. QED
      BY <3>3 DEF Message
  <2>4. Told(list) \in [1 .. Cardinality(Calling) -> Message]
    BY <2>3
  <2>5. Told(list) \in Seq(Message)
    BY <2>2, <2>4, FunctionIsList
  <2> HIDE DEF Told
  <2>6. underWay' \in Seq(Message)
    BY <2>1, <2>5, SendKeepsType DEF CallsInv
  <2>7. QED
    BY <1>5, <2>6 DEF PhoneListsCalls, CallsInv, CallListedOnce, callVars
<1>6. ASSUME \/ QueryCallList
             \/ HfFreshPage \/ HandleShowStatusPage \/ HfBack \/ GetConnectionStatus
             \/ UNCHANGED hfVars \/ \E e \in {"connect", "dial", "split"} : HfStartDialog(e)
             \/ \E a \in 0 .. MaxPaired + 1 : HfUserAnswers(a)
      PROVE  UNCHANGED <<m_callSessions, phoneCalls, underWay>>
  BY <1>6 DEF QueryCallList, HfFreshPage, HandleShowStatusPage, HfBack, GetConnectionStatus, hfVars,
              HfStartDialog, HfUserAnswers, HfFinish, callVars, phoneVars
<1>7. UNCHANGED <<m_callSessions, phoneCalls, underWay>> => CallsInv'
  BY DEF CallsInv, CallListedOnce
<1>8. QED
  BY <1>2, <1>3, <1>4, <1>5, <1>6, <1>7 DEF HfNext

\* The screen follows the module.
LEMMA ScreenStep ==
  ASSUME ScreenInv, [HfNext]_hfVars
  PROVE  ScreenInv'
<1> USE DEF ScreenInv, StatusPageIsCurrent, PageKnowsDevice
<1>1. ASSUME Signal(m_status', m_callSessions')
      PROVE  ScreenInv'
  BY <1>1 DEF Signal
<1>2. ASSUME UNCHANGED <<linkVars, callVars, pageVars>>
      PROVE  ScreenInv'
  BY <1>2 DEF linkVars, callVars, pageVars
<1>3. ASSUME NEW p \in Phones, NEW s \in ConnectionStatus, HandleConnectionStatusChanged(p, s)
      PROVE  ScreenInv'
  BY <1>1, <1>3 DEF HandleConnectionStatusChanged, callVars
<1>4. CASE Deliver
  <2>1. UNCHANGED linkVars
    BY <1>4 DEF Deliver
  <2>2. CASE HandleCallSetupChanged
    BY <1>1, <2>1, <2>2 DEF HandleCallSetupChanged, linkVars
  <2>3. CASE HandleCallProgressChanged
    BY <1>2, <2>1, <2>3 DEF HandleCallProgressChanged
  <2>4. ASSUME NEW s, HandleCallListChanged(s)
        PROVE  ScreenInv'
    <3>1. \/ Signal(m_status, m_callSessions')
          \/ m_callSessions' = m_callSessions /\ UNCHANGED pageVars
      BY <2>4 DEF HandleCallListChanged
    <3>2. QED
      BY <1>1, <1>2, <2>1, <3>1 DEF linkVars, callVars
  <2>5. QED
    BY <1>4, <2>2, <2>3, <2>4 DEF Deliver
<1>5. CASE PhoneStep \/ PhoneListsCalls \/ QueryCallList \/ UNCHANGED hfVars
  BY <1>2, <1>5 DEF PhoneStep, PhoneListsCalls, QueryCallList, hfVars
<1>6. CASE HfFreshPage
  BY <1>6 DEF HfFreshPage, linkVars, callVars
<1>7. CASE HandleShowStatusPage
  BY <1>7 DEF HandleShowStatusPage, linkVars, callVars
<1>8. CASE HfBack
  BY <1>8 DEF HfBack, linkVars, callVars
<1>9. CASE GetConnectionStatus
  BY <1>9 DEF GetConnectionStatus, linkVars, callVars
<1>10. ASSUME NEW e, NEW result, HfFinish(e, result)
       PROVE  ScreenInv'
  BY <1>10 DEF HfFinish, linkVars, callVars
<1>11. QED
  BY <1>3, <1>4, <1>5, <1>6, <1>7, <1>8, <1>9, <1>10 DEF HfNext, HfStartDialog, HfUserAnswers

LEMMA HfStart == HfInit => HfIInv
<1> SUFFICES ASSUME HfInit
             PROVE  HfIInv
  OBVIOUS
<1>1. QueryInv
  <2>1. 0 \in 0 .. m_maxQueryTimes
    BY QueryAssumption
  <2>2. QED
    BY <2>1 DEF HfInit, QueryInv
<1>2. CallsInv
  BY DEF HfInit, CallsInv, CallListedOnce
<1>3. ScreenInv
  BY DEF HfInit, ScreenInv, StatusPageIsCurrent, PageKnowsDevice
<1>4. QED
  BY <1>1, <1>2, <1>3 DEF HfIInv

LEMMA HfHolds == HfSpec => []HfIInv
<1>1. HfIInv /\ [HfNext]_hfVars => HfIInv'
  BY QueryStep, CallsStep, ScreenStep DEF HfIInv
<1>2. QED
  BY HfStart, <1>1, PTL DEF HfSpec

\* The query timer stops only after the promised number of queries since the
\* last change: a change while it runs starts the count again
\* (StartQueryCallList, QueryCallList).
THEOREM EveryChangeQueried == HfSpec => EveryChangeIsQueried
<1>1. HfIInv /\ [HfNext]_hfVars =>
        [queryTimer /\ ~queryTimer' => queriesSince' = m_maxQueryTimes + 1]_hfVars
  BY QueryStep DEF HfIInv
<1>2. QED
  BY HfHolds, <1>1, PTL DEF HfSpec, EveryChangeIsQueried

\* Whatever the phone answers, late or twice, a call is listed once
\* (HandleCallListChanged), the open status page shows the list as it is, and
\* the page's address is the link's or a drawing is under way.
THEOREM CallsAreShown == HfSpec => [](CallListedOnce /\ StatusPageIsCurrent /\ PageKnowsDevice)
<1>1. HfIInv => CallListedOnce /\ StatusPageIsCurrent /\ PageKnowsDevice
  BY DEF HfIInv, CallsInv, ScreenInv
<1>2. QED
  BY HfHolds, <1>1, PTL

-----------------------------------------------------------------------------
(* The types of the three parts, and with them the invariant of the whole.  *)

\* A list that names no device twice is no longer than there are devices.
LEMMA ListIsBounded ==
  ASSUME NEW s \in Seq(Devices), IsInjective(s)
  PROVE  s \in DeviceList
BY DevicesAssumption, OnceIsBounded DEF DeviceList

\* The list page is right above Home, every page above it is the dialog.
ShapeInv ==
    /\ Len(pdlPages) <= 2 + MaxDialogs
    /\ \A i \in 1 .. Len(pdlPages) : pdlPages[i] = "list" => i = 2

Requests ==
    {NoRequest} \cup ({"pair", "delete", "pincode"} \X Devices)
        \cup ({"accept", "refuse"} \X Devices \X (Devices \cup {NoDevice}))

DrawnInv == printedFound \in DeviceList /\ printedPaired \in DeviceList

PdlTypes ==
    /\ ShapeInv /\ DrawnInv
    /\ m_bondState \in BondState /\ m_pairingData \in Devices \cup {NoDevice}
    /\ confirmTimer \in BOOLEAN /\ stackRequest \in Requests
    /\ confirmEnabled => slotAddress \in Devices

LEMMA PopKeepsShape ==
  ASSUME PagesInv, ShapeInv, NEW page \in {"list", "confirm"},
         pdlPages' = Popped(pdlPages, page)
  PROVE  ShapeInv'
<1> DEFINE s == pdlPages
           n == Len(pdlPages)
           q == Popped(pdlPages, page)
<1>1. /\ s \in Seq(PageNames) /\ n \in Nat /\ n >= 1 /\ DOMAIN s = 1 .. n
      /\ \A i \in 1 .. n : s[i] = "home" <=> i = 1
      /\ n <= 2 + MaxDialogs /\ \A i \in 1 .. n : s[i] = "list" => i = 2
  BY DialogPlaces DEF PagesInv, ShapeInv
<1>2. CASE q = s
  BY <1>2 DEF ShapeInv
<1>3. CASE q # s
  <2>1. q = RemoveFirst(s, page)
    BY <1>3 DEF Popped
  <2>2. page \in Range(s)
    BY <1>1, <1>3, <2>1, RemoveFirstPlace
  <2>3. PICK k \in 1 .. n : s[k] = page /\ q = RemoveAt(s, k)
    BY <1>1, <2>1, <2>2, RemoveFirstPlace
  <2>4. k # 1
    BY <1>1, <2>3
  <2>5. /\ Len(q) = n - 1
        /\ \A j \in 1 .. n - 1 : q[j] = IF j < k THEN s[j] ELSE s[j + 1]
    <3>1. /\ Len(RemoveAt(s, k)) = n - 1
          /\ \A j \in 1 .. n - 1 : RemoveAt(s, k)[j] = IF j < k THEN s[j] ELSE s[j + 1]
      BY <1>1, RemoveKeepsList
    <3>2. QED
      BY <2>3, <3>1
  <2> HIDE DEF q, s, n
  <2>6. ASSUME NEW j \in 1 .. n - 1, q[j] = "list"
        PROVE  j = 2
    <3>1. CASE j < k
      <4>1. j \in 1 .. n /\ s[j] = "list"
        BY <1>1, <2>5, <2>6, <3>1
      <4>2. QED
        BY <1>1, <4>1
    <3>2. CASE ~(j < k)
      <4>1. j + 1 \in 1 .. n /\ s[j + 1] = "list"
        BY <1>1, <2>5, <2>6, <3>2
      <4>2. j + 1 = 2 /\ k \in 1 .. n
        BY <1>1, <4>1
      <4>3. QED
        BY <1>1, <2>4, <3>2, <4>2
    <3>3. QED
      BY <3>1, <3>2
  <2>7. pdlPages' = q /\ n - 1 <= 2 + MaxDialogs
    BY <1>1, MaxDialogsAssumption DEF q
  <2>8. QED
    BY <2>5, <2>6, <2>7 DEF ShapeInv
<1>4. QED
  BY <1>2, <1>3

LEMMA PushKeepsShape ==
  ASSUME PagesInv, ShapeInv, NEW page \in {"list", "confirm"},
         pdlPages' = Append(pdlPages, page),
         page = "list" => Top(pdlPages) = "home",
         page = "confirm" => Cardinality(Dialogs(pdlPages)) < MaxDialogs
  PROVE  ShapeInv'
<1> DEFINE s == pdlPages
           n == Len(pdlPages)
           q == Append(pdlPages, page)
<1>1. /\ s \in Seq(PageNames) /\ n \in Nat /\ n >= 1 /\ DOMAIN s = 1 .. n
      /\ \A i \in 1 .. n : s[i] = "home" <=> i = 1
      /\ Dialogs(s) = {i \in 1 .. n : s[i] = "confirm"}
      /\ n <= 2 + MaxDialogs /\ \A i \in 1 .. n : s[i] = "list" => i = 2
  BY DialogPlaces DEF PagesInv, ShapeInv
<1>2. page \in PageNames
  BY DEF PageNames
<1>3. /\ Len(q) = n + 1 /\ q[n + 1] = page /\ \A i \in 1 .. n : q[i] = s[i]
  BY <1>1, <1>2, AppendProperties
<1>4. MaxDialogs \in Nat /\ MaxDialogs >= 1
  BY MaxDialogsAssumption
<1>5. page = "list" => n = 1
  <2>1. n \in 1 .. n /\ (page = "list" => s[n] = "home")
    BY <1>1 DEF Top, Last
  <2>2. QED
    BY <1>1, <2>1
<1>6. n + 1 <= 2 + MaxDialogs
  <2>1. CASE page = "list"
    BY <1>4, <1>5, <2>1
  <2>2. CASE page = "confirm"
    <3>1. IsFiniteSet(1 .. n)
      BY <1>1, FS_Interval
    <3>2. IsFiniteSet(Dialogs(s)) /\ Cardinality(Dialogs(s)) \in Nat
      <4>1. Dialogs(s) \in SUBSET (1 .. n)
        BY <1>1
      <4>2. IsFiniteSet(Dialogs(s))
        BY <3>1, <4>1, FS_Subset
      <4>3. QED
        BY <4>2, FS_CardinalityType
    <3>3. 3 .. n \in SUBSET Dialogs(s)
      <4>1. ASSUME NEW i \in 3 .. n
            PROVE  i \in Dialogs(s)
        <5>1. i \in 1 .. n /\ i # 1 /\ i # 2
          BY <1>1
        <5>2. s[i] \in PageNames
          BY <1>1, <5>1, ElementOfSeq
        <5>3. s[i] = "confirm"
          BY <1>1, <5>1, <5>2 DEF PageNames
        <5>4. QED
          BY <1>1, <5>1, <5>3
      <4>2. QED
        BY <4>1
    <3>4. Cardinality(3 .. n) <= Cardinality(Dialogs(s))
      BY <3>2, <3>3, FS_Subset
    <3>5. Cardinality(3 .. n) = IF 3 > n THEN 0 ELSE n - 3 + 1
      BY <1>1, FS_Interval
    <3>6. Cardinality(Dialogs(s)) < MaxDialogs
      BY <2>2
    <3> HIDE DEF s, n
    <3>7. QED
      BY <1>1, <1>4, <3>2, <3>4, <3>5, <3>6
  <2>3. QED
    BY <2>1, <2>2
<1>7. ASSUME NEW i \in 1 .. n + 1, q[i] = "list"
      PROVE  i = 2
  <2>1. CASE i \in 1 .. n
    BY <1>1, <1>3, <1>7, <2>1
  <2>2. CASE i = n + 1
    BY <1>3, <1>5, <1>7, <2>2
  <2>3. QED
    BY <1>1, <2>1, <2>2
<1>8. QED
  BY <1>3, <1>6, <1>7 DEF ShapeInv

\* What is drawn are the lists, or one of them without a device.
LEMMA DrawnLists ==
  ASSUME ListsInv, ListsInv', DrawnInv, NEW paired \in DeviceList,
         Draw(paired) \/ UNCHANGED printedVars
  PROVE  DrawnInv'
<1>1. m_foundDevices \in DeviceList
  BY ListIsBounded DEF ListsInv, DevicesListedOnce
<1>2. QED
  BY <1>1 DEF Draw, DrawnInv, printedVars

LEMMA StatusKeepsTypes ==
  ASSUME PdlIInv, ListsInv', PdlTypes, NEW bondState, NEW paired \in DeviceList,
         UpdateStatusContent(bondState, paired)
  PROVE  ShapeInv' /\ DrawnInv'
<1>1. CASE UNCHANGED <<pdlPages, printedVars, overlapped>>
  BY <1>1 DEF PdlTypes, ShapeInv, DrawnInv, printedVars
<1>2. CASE pdlPages' = Popped(pdlPages, "confirm") /\ Draw(paired)
  BY <1>2, PopKeepsShape, DrawnLists DEF PdlTypes, PdlIInv
<1>3. QED
  BY <1>1, <1>2 DEF UpdateStatusContent

LEMMA PdlTypesStep ==
  ASSUME PdlIInv, PdlTypes, [PdlNext]_pdlVars
  PROVE  PdlTypes'
<1>1. PdlIInv' /\ ListsInv' /\ ListsInv /\ PagesInv /\ ShapeInv /\ DrawnInv
  BY PdlStep DEF PdlIInv, PdlTypes
<1>2. /\ m_foundDevices \in DeviceList /\ m_pairedDevices \in DeviceList
      /\ \A d \in Devices : RemoveFirst(m_pairedDevices, d) \in DeviceList
  BY <1>1, ListIsBounded, ListsKept DEF ListsInv, DevicesListedOnce
<1>3. NoRequest \in Requests
  BY DEF Requests
<1>4. UNCHANGED <<pdlPages, printedVars>> => ShapeInv' /\ DrawnInv'
  BY <1>1 DEF ShapeInv, DrawnInv, printedVars
<1>5. ASSUME NEW d \in Devices,
             OnDeviceFound(d) \/ OnPairedDeviceReceived(d) \/ OnPincodeRequest(d)
      PROVE  PdlTypes'
  <2>1. UNCHANGED <<pdlPages, printedVars, m_bondState, m_pairingData, dialogVars>>
    BY <1>5 DEF OnDeviceFound, OnPairedDeviceReceived, OnPincodeRequest
  <2>2. stackRequest' \in {NoRequest, <<"pincode", d>>}
    BY <1>5 DEF OnDeviceFound, OnPairedDeviceReceived, OnPincodeRequest
  <2>3. <<"pincode", d>> \in Requests
    BY DEF Requests
  <2>4. QED
    BY <1>3, <1>4, <2>1, <2>2, <2>3 DEF PdlTypes, dialogVars
<1>6. CASE HanldeNewDeviceFound
  BY <1>3, <1>4, <1>6 DEF HanldeNewDeviceFound, PdlTypes, dialogVars
<1>7. CASE FreshPage
  <2>1. DrawnInv' /\ ShapeInv'
    BY <1>1, <1>2, <1>7, DrawnLists DEF FreshPage, ShapeInv
  <2>2. QED
    BY <1>3, <1>7, <2>1 DEF FreshPage, PdlTypes, dialogVars
<1>8. CASE OnDiscoveryStateChanged
  <2>1. DrawnInv' /\ ShapeInv'
    BY <1>1, <1>2, <1>8, StatusKeepsTypes DEF OnDiscoveryStateChanged
  <2>2. QED
    BY <1>3, <1>8, <2>1 DEF OnDiscoveryStateChanged, PdlTypes, dialogVars
<1>9. ASSUME NEW s \in BondState, NEW d \in Devices, OnBondStateChanged(s, d)
      PROVE  PdlTypes'
  <2>1. \/ UpdateStatusContent(s, RemoveFirst(m_pairedDevices, d))
        \/ UNCHANGED <<pdlPages, printedVars>>
    BY <1>9 DEF OnBondStateChanged
  <2>2. DrawnInv' /\ ShapeInv'
    BY <1>1, <1>2, <1>4, <2>1, StatusKeepsTypes
  <2>3. QED
    BY <1>3, <1>9, <2>2 DEF OnBondStateChanged, PdlTypes, dialogVars
<1>10. ASSUME NEW d \in Devices, OnSppPairingConfRequest(d)
       PROVE  PdlTypes'
  <2>1. DrawnInv'
    BY <1>1, <1>2, <1>10, DrawnLists DEF OnSppPairingConfRequest
  <2>2. ShapeInv'
    BY <1>1, <1>10, PushKeepsShape DEF OnSppPairingConfRequest
  <2>3. QED
    BY <1>3, <1>10, <2>1, <2>2 DEF OnSppPairingConfRequest, SlotOf, ArmTimer, PdlTypes
<1>11. ASSUME NEW accept \in {"accept", "refuse"}, Reply(accept), confirmEnabled,
              UNCHANGED <<listVars, m_bondState, m_pairingData, slotAddress>>,
              confirmTimer' \in BOOLEAN
       PROVE  PdlTypes'
  <2>1. pdlPages' = Popped(pdlPages, "confirm") /\ Draw(m_pairedDevices)
    BY <1>11 DEF Reply, SetPages
  <2>2. DrawnInv' /\ ShapeInv'
    BY <1>1, <1>2, <2>1, DrawnLists, PopKeepsShape
  <2>3. <<accept, slotAddress, m_pairingData>> \in Requests
    BY <1>11 DEF PdlTypes, Requests
  <2>4. QED
    BY <1>11, <2>2, <2>3 DEF Reply, PdlTypes
<1>12. ASSUME NEW accept \in {"accept", "refuse"}, UserReplies(accept)
       PROVE  PdlTypes'
  <2>1. confirmTimer' \in BOOLEAN
    BY <1>12 DEF UserReplies, PdlTypes
  <2>2. QED
    BY <1>11, <1>12, <2>1 DEF UserReplies
<1>13. CASE ConfirmTimeout
  <2>1. CASE confirmEnabled
    BY <1>11, <1>13, <2>1 DEF ConfirmTimeout
  <2>2. CASE ~confirmEnabled
    BY <1>3, <1>4, <1>13, <2>2 DEF ConfirmTimeout, PdlTypes
  <2>3. QED
    BY <2>1, <2>2
<1>14. CASE UserBack
  <2>1. pdlPages' = Popped(pdlPages, Top(pdlPages)) /\ Draw(m_pairedDevices) /\ Len(pdlPages) > 1
    BY <1>14 DEF UserBack, SetPages
  <2>2. Top(pdlPages) \in {"list", "confirm"}
    <3>1. pdlPages[Len(pdlPages)] \in PageNames /\ Len(pdlPages) \in 1 .. Len(pdlPages)
      BY <1>1, <2>1, ElementOfSeq, LenProperties DEF PagesInv
    <3>2. QED
      BY <1>1, <2>1, <3>1 DEF Top, Last, PagesInv, PageNames
  <2>3. DrawnInv' /\ ShapeInv'
    BY <1>1, <1>2, <2>1, <2>2, DrawnLists, PopKeepsShape
  <2>4. QED
    BY <1>3, <1>14, <2>3 DEF UserBack, PdlTypes, dialogVars
<1>15. CASE UserOpensList
  <2>1. /\ pdlPages' = Append(pdlPages, "list") /\ Draw(m_pairedDevices)
        /\ Top(pdlPages) = "home"
    BY <1>15 DEF UserOpensList, SetPages
  <2>2. DrawnInv' /\ ShapeInv'
    BY <1>1, <1>2, <2>1, DrawnLists, PushKeepsShape
  <2>3. QED
    BY <1>3, <1>15, <2>2 DEF UserOpensList, PdlTypes, dialogVars
<1>16. ASSUME NEW result, Finish(result), result.request \in Requests
       PROVE  PdlTypes'
  BY <1>4, <1>16 DEF Finish, PdlTypes, dialogVars
<1>17. ASSUME NEW s, NEW answer
       PROVE  Execute(s, answer).request \in Requests
  <2>1. ASSUME NEW devices \in Seq(Devices), NEW what \in {"pair", "delete"}
        PROVE  AskForNumber(s, devices, what, answer).request \in Requests
    <3>1. answer \in 1 .. Len(devices) => <<what, devices[answer]>> \in Requests
      BY ElementOfSeq DEF Requests
    <3>2. QED
      BY <1>3, <3>1 DEF AskForNumber, Again, Done, Chosen
  <2>2. QED
    BY <1>1, <1>3, <2>1 DEF ListsInv, Execute, HanldePairWithRemoteDevice, HanldeDeletePairedDevice,
                            Done
<1>18. ASSUME \/ \E executor \in {"pair", "delete"} : StartDialog(executor)
              \/ \E answer \in Answers : UserAnswers(answer)
       PROVE  PdlTypes'
  BY <1>3, <1>16, <1>17, <1>18 DEF StartDialog, UserAnswers, Done
<1>19. CASE UNCHANGED pdlVars
  BY <1>4, <1>19 DEF pdlVars, PdlTypes, dialogVars
<1>20. QED
  BY <1>5, <1>6, <1>7, <1>8, <1>9, <1>10, <1>12, <1>13, <1>14, <1>15, <1>18, <1>19
     DEF PdlNext, StackStep, LoopStep, UserStep

\* The types of the device list.
LEMMA PdlTypesHold == PdlSpec => []PdlTypeOK
<1>1. PdlInit => PdlTypes
  <2> SUFFICES ASSUME PdlInit
               PROVE  PdlTypes
    OBVIOUS
  <2>1. ShapeInv
    BY MaxDialogsAssumption DEF PdlInit, ShapeInv
  <2>2. <<>> \in DeviceList
    <3>1. <<>> \in Seq(Devices) /\ IsInjective(<<>>)
      BY DEF IsInjective
    <3>2. QED
      BY <3>1, ListIsBounded
  <2>3. QED
    BY <2>1, <2>2 DEF PdlInit, PdlTypes, DrawnInv, BondState, Requests
<1>2. PdlIInv /\ PdlTypes /\ [PdlNext]_pdlVars => PdlTypes'
  BY PdlTypesStep
<1>3. PdlIInv /\ PdlTypes /\ CleanInv => PdlTypeOK
  <2> SUFFICES ASSUME PdlIInv, PdlTypes, CleanInv
               PROVE  PdlTypeOK
    OBVIOUS
  <2>1. m_foundDevices \in DeviceList /\ m_pairedDevices \in DeviceList
    BY ListIsBounded DEF PdlIInv, ListsInv, DevicesListedOnce
  <2>2. pdlPages \in BoundedSeq({"home", "list", "confirm"}, 2 + MaxDialogs)
    <3>1. 2 + MaxDialogs \in Nat
      BY MaxDialogsAssumption
    <3>2. QED
      BY <3>1, BoundedList DEF PdlIInv, PagesInv, PdlTypes, ShapeInv, PageNames
  <2>3. pdlScheduler \in SchedulerTypes({"pair", "delete"}, Answers)
    <3>1. pdlScheduler.parameters = <<>>
      BY DEF CleanInv, DialogStartsClean, Idle
    <3>2. <<>> \in Seq(Answers) /\ Len(<<>>) <= 3 /\ 3 \in Nat
      OBVIOUS
    <3>3. <<>> \in BoundedSeq(Answers, 3)
      BY <3>2, BoundedList
    <3>4. QED
      BY <3>1, <3>3 DEF CleanInv, SchedulerTypes
  <2>4. slotAddress \in Devices \cup {NoDevice} /\ replies \in Nat
    BY DEF PdlIInv, RequestInv, PdlTypes
  <2>5. /\ confirmEnabled \in BOOLEAN /\ overlapped \in BOOLEAN
        /\ foundEvent \in BOOLEAN /\ freshEvent \in BOOLEAN
    BY DEF PdlIInv, RequestInv, PrintedInv
  <2>6. QED
    BY <2>1, <2>2, <2>3, <2>4, <2>5 DEF PdlTypes, DrawnInv, Requests, PdlTypeOK
<1>4. QED
  BY <1>1, <1>2, <1>3, PdlHolds, PdlSchedulerHolds, PTL DEF PdlSpec

-----------------------------------------------------------------------------
(* The settings: the dialog asks for the name only while there is room for   *)
(* the report the name brings.                                              *)

Asked == [executor |-> "name", parameters |-> <<>>, step |-> 1, tries |-> 0]

DsTypes ==
    /\ m_enableState \in AdaptorEnableState /\ modulesStarted \in BOOLEAN
    /\ Len(settingReports) <= 2 * MaxReports
    /\ localName \in Names \cup {0}
    /\ nameReports \in Seq(Names) /\ Len(nameReports) <= MaxReports
    /\ dsScheduler \in {Idle, Asked}
    /\ dsScheduler = Asked => Len(nameReports) < MaxReports

\* The name is asked for, and the answer ends the dialog.
LEMMA NameIsAskedFor ==
  LET r == HandleSetLocalDeviceName([Idle EXCEPT !.executor = "name"], Prompt)
  IN  AfterRun(r) = Asked /\ r.request = NoRequest
<1>1. [Idle EXCEPT !.executor = "name"] =
         [executor |-> "name", parameters |-> <<>>, step |-> 0, tries |-> 0]
  BY DEF Idle
<1>2. QED
  BY <1>1 DEF HandleSetLocalDeviceName, AfterRun, Again, Asking, Asked

LEMMA NameEndsDialog ==
  ASSUME NEW name \in Names
  PROVE  /\ LET r == HandleSetLocalDeviceName(Trying(Asked), name)
            IN  AfterRun(r) = Idle /\ r.request # NoRequest /\ r.request[2] = name
         /\ AfterRun(Done(Asked, NoRequest)) = Idle /\ Idle # Asked
<1> DEFINE S == [executor : {"name"}, parameters : Seq(Nat), step : Nat, tries : Nat]
<1>3. name \in Nat /\ Append(<<>>, name) \in Seq(Nat)
  BY NamesAssumption, AnswerTakenBack
<1>4. Asked \in S
  BY DEF Asked
<1>5. Trying(Asked) = [executor |-> "name", parameters |-> <<>>, step |-> 1, tries |-> 1]
  BY DEF Trying, Asked
<1>6. AddParameter(Trying(Asked), name) =
         [executor |-> "name", parameters |-> Append(<<>>, name), step |-> 1, tries |-> 1]
  BY <1>5 DEF AddParameter
<1>7. AddParameter(Trying(Asked), name) \in S
  BY <1>3, <1>6
<1>8. HandleSetLocalDeviceName(Trying(Asked), name) =
         Done(AddParameter(Trying(Asked), name), <<"name", name>>)
  BY <1>5 DEF HandleSetLocalDeviceName
<1>9. \A request : \A s \in S : AfterRun(Done(s, request)) = Idle /\ Done(s, request).request = request
  BY ClearedIsIdle DEF AfterRun, Done
<1>10. <<"name", name>> # NoRequest
  BY DEF NoRequest
<1>11. Idle # Asked
  BY DEF Idle, Asked, NoExecutor
<1> HIDE DEF S
<1>12. QED
  BY <1>4, <1>7, <1>8, <1>9, <1>10, <1>11

LEMMA DsTypesStep ==
  ASSUME SettingsInv, DsTypes, [DsNext]_dsVars
  PROVE  DsTypes'
<1>1. MaxReports \in Nat /\ MaxReports >= 1
  BY MaxReportsAssumption
<1>2. Len(settingReports) \in Nat /\ Len(nameReports) \in Nat
  BY LenProperties DEF SettingsInv, DsTypes
<1>3. CASE Enable
  BY <1>3 DEF Enable, DsTypes, settingVars, nameVars, AdaptorEnableState
<1>4. ASSUME NEW isOn \in BOOLEAN, AdapterStateChanged(isOn)
      PROVE  DsTypes'
  <2>1. m_enableState' \in AdaptorEnableState /\ modulesStarted' \in BOOLEAN
    BY <1>4 DEF AdapterStateChanged, AdaptorEnableState, DsTypes
  <2>2. UNCHANGED <<settingVars, nameVars>>
    BY <1>4 DEF AdapterStateChanged
  <2>3. QED
    BY <2>1, <2>2 DEF DsTypes, settingVars, nameVars
<1>5. ASSUME UNCHANGED <<powerVars, nameVars>>, Len(settingReports') <= 2 * MaxReports
      PROVE  DsTypes'
  BY <1>5 DEF DsTypes, powerVars, nameVars
<1>6. ASSUME NEW option \in {"pairable", "discoverable", "connectable"}, NEW on \in BOOLEAN,
             SetLocalDeviceSettings(option, on)
      PROVE  DsTypes'
  <2>1. CASE UNCHANGED settingReports
    BY <1>5, <1>6, <2>1 DEF SetLocalDeviceSettings, DsTypes
  <2>2. CASE /\ Len(settingReports) <= 2 * (MaxReports - 1)
             /\ stackSettings' = Changed(m_localDevice, option, on)
             /\ settingReports' = settingReports \o
                    <<ScanReport(stackSettings'), PairableReport(stackSettings')>>
    <3>1. stackSettings' \in Settings
      BY <2>2 DEF SettingsInv, Changed, Settings
    <3> DEFINE two == <<ScanReport(stackSettings'), PairableReport(stackSettings')>>
    <3>2. two \in Seq(AnyReport) /\ Len(two) = 2
      BY <3>1 DEF AnyReport
    <3>3. settingReports' = settingReports \o two /\ settingReports \in Seq(AnyReport)
      BY <2>2 DEF SettingsInv
    <3> HIDE DEF two
    <3>4. Len(settingReports') = Len(settingReports) + 2
      <4>1. Len(settingReports \o two) = Len(settingReports) + Len(two)
        BY <3>2, <3>3, ConcatProperties
      <4>2. QED
        BY <3>2, <3>3, <4>1
    <3>5. Len(settingReports') <= 2 * MaxReports
      BY <1>1, <1>2, <2>2, <3>4
    <3>6. QED
      BY <1>5, <1>6, <3>5 DEF SetLocalDeviceSettings
  <2>3. QED
    BY <1>6, <2>1, <2>2 DEF SetLocalDeviceSettings
<1>7. CASE AskForName
  <2>1. dsScheduler' = Asked /\ UNCHANGED nameReports /\ Len(nameReports) < MaxReports
    BY <1>7, NameIsAskedFor DEF AskForName, SetLocalName
  <2>2. QED
    BY <1>7, <2>1 DEF AskForName, SetLocalName, DsTypes, powerVars, settingVars
<1>8. ASSUME NEW name \in Names, GiveName(name)
      PROVE  DsTypes'
  <2>1. dsScheduler = Asked
    BY <1>8 DEF GiveName, DsTypes, Idle, NoExecutor
  <2> DEFINE r == IF TriedTooOften(Asked) THEN Done(Asked, NoRequest)
                  ELSE HandleSetLocalDeviceName(Trying(Asked), name)
  <2>2. SetLocalName(r)
    BY <1>8, <2>1 DEF GiveName
  <2>3. AfterRun(r) = Idle /\ (r.request = NoRequest \/ r.request[2] = name)
    BY NameEndsDialog DEF Done
  <2> HIDE DEF r
  <2>4. dsScheduler' = Idle /\ nameReports' \in {nameReports, Append(nameReports, name)}
    BY <2>2, <2>3 DEF SetLocalName
  <2>5. /\ Append(nameReports, name) \in Seq(Names)
        /\ Len(Append(nameReports, name)) = Len(nameReports) + 1
    BY AppendProperties DEF DsTypes
  <2>6. Len(nameReports) + 1 <= MaxReports
    BY <1>1, <1>2, <2>1 DEF DsTypes
  <2>7. nameReports' \in Seq(Names) /\ Len(nameReports') <= MaxReports
    BY <2>4, <2>5, <2>6 DEF DsTypes
  <2>8. QED
    BY <2>2, <2>4, <2>7, NameEndsDialog DEF SetLocalName, DsTypes, powerVars, settingVars
<1>9. CASE SettingReported
  <2>1. settingReports' = Tail(settingReports) /\ settingReports # <<>>
    BY <1>9 DEF SettingReported
  <2>2. Len(settingReports') = Len(settingReports) - 1
    BY <2>1, HeadTailProperties DEF SettingsInv
  <2>3. Len(settingReports') <= 2 * MaxReports
    <3>1. Len(settingReports) <= 2 * MaxReports
      BY DEF DsTypes
    <3>2. QED
      BY <1>1, <1>2, <2>2, <3>1
  <2>4. QED
    BY <1>5, <1>9, <2>3 DEF SettingReported
<1>10. CASE OnLocalNameChanged
  <2>1. /\ nameReports # <<>> /\ localName' = Head(nameReports) /\ nameReports' = Tail(nameReports)
        /\ UNCHANGED <<dsScheduler, powerVars, settingVars>>
    BY <1>10 DEF OnLocalNameChanged
  <2>2. /\ Head(nameReports) \in Names /\ Tail(nameReports) \in Seq(Names)
        /\ Len(Tail(nameReports)) = Len(nameReports) - 1
    BY <2>1, HeadTailProperties DEF DsTypes
  <2>3. /\ Len(nameReports') <= MaxReports
        /\ Len(nameReports) < MaxReports => Len(nameReports') < MaxReports
    BY <1>1, <1>2, <2>1, <2>2 DEF DsTypes
  <2>4. QED
    BY <2>1, <2>2, <2>3 DEF DsTypes, powerVars, settingVars
<1>11. CASE PowerOff \/ UNCHANGED dsVars
  BY <1>11 DEF PowerOff, dsVars, powerVars, settingVars, nameVars, DsTypes
<1>12. QED
  BY <1>3, <1>4, <1>6, <1>7, <1>8, <1>9, <1>10, <1>11 DEF DsNext, Reports, Options

LEMMA DsTypesHold == DsSpec => []DsTypeOK
<1>1. DsInit => DsTypes
  <2> SUFFICES ASSUME DsInit
               PROVE  DsTypes
    OBVIOUS
  <2>1. Idle # Asked
    BY DEF Idle, Asked, NoExecutor
  <2>2. settingReports = <<>> /\ nameReports = <<>> /\ <<>> \in Seq(Names) /\ Len(<<>>) = 0
    BY DEF DsInit
  <2>3. 0 <= 2 * MaxReports /\ 0 <= MaxReports
    BY MaxReportsAssumption
  <2>4. QED
    BY <2>1, <2>2, <2>3 DEF DsInit, DsTypes, AdaptorEnableState
<1>2. (SettingsInv /\ PowerInv) /\ DsTypes /\ [DsNext]_dsVars => DsTypes'
  BY DsTypesStep
<1>3. (SettingsInv /\ PowerInv) /\ DsTypes => DsTypeOK
  <2> SUFFICES ASSUME SettingsInv, PowerInv, DsTypes
               PROVE  DsTypeOK
    OBVIOUS
  <2>1. MaxReports \in Nat /\ 2 * MaxReports \in Nat
    BY MaxReportsAssumption
  <2>2. settingReports \in BoundedSeq(AnyReport, 2 * MaxReports)
    BY <2>1, BoundedList DEF SettingsInv, DsTypes
  <2>3. nameReports \in BoundedSeq(Names, MaxReports)
    BY <2>1, BoundedList DEF DsTypes
  <2>4. dsScheduler \in SchedulerTypes({"name"}, Names)
    <3>1. <<>> \in Seq(Names) /\ Len(<<>>) <= 3 /\ 3 \in Nat
      OBVIOUS
    <3>2. <<>> \in BoundedSeq(Names, 3)
      BY <3>1, BoundedList
    <3>3. 0 \in 0 .. m_maxExecutionTimes + 1
      BY MaxExecutionTimesAssumption
    <3>4. QED
      BY <3>2, <3>3 DEF DsTypes, Idle, Asked, SchedulerTypes
  <2>5. QED
    BY <2>2, <2>3, <2>4 DEF SettingsInv, PowerInv, DsTypes, DsTypeOK, AnyReport
<1>4. QED
  BY <1>1, <1>2, <1>3, DsHolds, PTL DEF DsSpec

-----------------------------------------------------------------------------
(* The hands-free unit.  Between two answers its scheduler keeps no          *)
(* parameter: what was typed is used or taken back.                         *)

HfExecutors == {"connect", "dial", "split"}

HfClean == [executor : HfExecutors, parameters : {<<>>},
            step : {0, 1}, tries : 0 .. m_maxExecutionTimes + 1]

HfTypes ==
    /\ m_status \in ConnectionStatus /\ m_address \in Phones \cup {NoPhone}
    /\ queryAddress \in Phones \cup {NoPhone} /\ queried \in BOOLEAN
    /\ hfPage \in {"handsfree", "status"} /\ m_connectedDevice \in Phones \cup {NoPhone}
    /\ statusContent \in Seq(Session)
    /\ hfScheduler \in HfClean \cup {Idle}
    /\ queriesSince \in Nat

\* A dialog that ends leaves the scheduler idle.
LEMMA HfDialogEnds ==
  ASSUME NEW s \in HfClean
  PROVE  AfterRun(Done(s, NoRequest)) = Idle
<1> DEFINE Schedulers == [executor : HfExecutors \cup {NoExecutor}, parameters : Seq(Nat),
                          step : Nat, tries : Nat]
<1>1. <<>> \in Seq(Nat) /\ m_maxExecutionTimes \in Nat
  BY MaxExecutionTimesAssumption
<1>2. s.parameters \in Seq(Nat) /\ s.step \in Nat /\ s.tries \in Nat
  <2>1. s.parameters = <<>> /\ s.step \in {0, 1}
    BY DEF HfClean
  <2>2. s.tries \in 0 .. m_maxExecutionTimes + 1
    BY DEF HfClean
  <2>3. QED
    BY <1>1, <2>1, <2>2
<1>3. s \in Schedulers
  BY <1>2 DEF HfClean
<1> HIDE DEF Schedulers
<1>4. QED
  <2>1. \A u \in Schedulers : AfterRun(Done(u, NoRequest)) = Idle
    BY ClearedIsIdle DEF AfterRun, Done, Schedulers
  <2>2. QED
    BY <1>3, <2>1

LEMMA HfDialogs ==
  ASSUME NEW s \in HfClean, NEW answer \in Nat, NEW paired \in PairedLists
  PROVE  AfterRun(HfExecute(s, answer, paired)) \in HfClean \cup {Idle}
<1> DEFINE Schedulers == [executor : HfExecutors \cup {NoExecutor}, parameters : Seq(Nat),
                          step : Nat, tries : Nat]
           Result(r) == AfterRun(r) \in HfClean \cup {Idle}
           given == AddParameter(s, answer)
           back == RemoveLastParameter(given)
<1>1. <<>> \in Seq(Nat) /\ m_maxExecutionTimes \in Nat /\ 0 \in 0 .. m_maxExecutionTimes + 1
  BY MaxExecutionTimesAssumption
<1>2. s \in Schedulers /\ Idle \in Schedulers
  <2>1. s.parameters \in Seq(Nat) /\ s.step \in Nat /\ s.tries \in Nat
    <3>1. s.parameters = <<>> /\ s.step \in {0, 1}
      BY DEF HfClean
    <3>2. s.tries \in 0 .. m_maxExecutionTimes + 1
      BY DEF HfClean
    <3>3. QED
      BY <1>1, <3>1, <3>2
  <2>2. s \in Schedulers
    BY <2>1 DEF HfClean
  <2>3. QED
    BY <1>1, <2>2 DEF Idle
<1>3. \A request : \A u \in Schedulers : AfterRun(Done(u, request)) = Idle
  BY ClearedIsIdle DEF AfterRun, Done
<1>4. \A u : AfterRun(Again(u)) = u
  BY DEF AfterRun, Again
<1>5. Asking(s, 1) \in HfClean
  BY DEF Asking, HfClean
<1>6. given \in Schedulers /\ given.parameters = Append(<<>>, answer)
  BY <1>2, AnswerTakenBack DEF AddParameter, HfClean
<1>7. Asking(given, 2) \in Schedulers
  BY <1>6 DEF Asking
<1>8. Asking(back, 1) \in HfClean
  <2>1. given = [s EXCEPT !.parameters = Append(<<>>, answer)]
    BY DEF AddParameter, HfClean
  <2>2. back = [s EXCEPT !.parameters = <<>>]
    <3>1. back = [given EXCEPT !.parameters = Front(Append(<<>>, answer))]
      BY <1>6 DEF RemoveLastParameter
    <3>2. back = [given EXCEPT !.parameters = <<>>]
      BY <3>1, AnswerTakenBack
    <3>3. QED
      BY <2>1, <3>2 DEF HfClean
  <2>3. QED
    BY <2>2 DEF Asking, HfClean
<1> HIDE DEF Schedulers, given, back
<1>9. Result(HandleConnectRequest(s, answer, paired))
  <2>1. HandleConnectRequest(s, answer, paired) \in
           {Done(s, NoRequest), Again(Asking(s, 1)), Again(Asking(back, 1)),
            Done(Asking(given, 2), <<"connect", paired[answer]>>)}
    BY DEF HandleConnectRequest, given, back
  <2>2. QED
    BY <1>2, <1>3, <1>4, <1>5, <1>7, <1>8, <2>1
<1>10. Result(HandleDialNumber(s, answer))
  <2>1. HandleDialNumber(s, answer) \in
           {Done(Idle, NoRequest), Again(Asking(s, 1)), Done(Asking(given, 2), <<"dial", m_address>>)}
    BY DEF HandleDialNumber, given
  <2>2. QED
    BY <1>2, <1>3, <1>4, <1>5, <1>7, <2>1
<1>11. Result(HandleSplitCall(s, answer))
  <2>1. HandleSplitCall(s, answer) \in
           {Again(Asking(s, 1)), Done(Idle, NoRequest), Done(Idle, <<"swap", m_connectedDevice>>)}
    BY DEF HandleSplitCall
  <2>2. QED
    BY <1>2, <1>3, <1>4, <1>5, <2>1
<1>12. s.executor \in HfExecutors
  BY DEF HfClean
<1>13. HfExecute(s, answer, paired) \in
          {HandleConnectRequest(s, answer, paired), HandleDialNumber(s, answer),
           HandleSplitCall(s, answer)}
  BY <1>12 DEF HfExecute, HfExecutors
<1>14. QED
  BY <1>2, <1>3, <1>9, <1>10, <1>11, <1>13

LEMMA HfTypesStep ==
  ASSUME HfIInv, HfTypes, [HfNext]_hfVars
  PROVE  HfTypes'
<1>1. m_callSessions \in Seq(Session) /\ m_callSessions' \in Seq(Session)
  BY CallsStep DEF HfIInv, CallsInv
<1>2. \A status : \A sessions \in Seq(Session) : StatusString(status, sessions) \in Seq(Session)
  BY DEF StatusString
<1>3. 0 \in Nat /\ m_maxExecutionTimes \in Nat
  BY MaxExecutionTimesAssumption
<1> DEFINE LinkKept == m_status' \in ConnectionStatus /\ m_address' \in Phones \cup {NoPhone}
           QueryKept == queryAddress' \in Phones \cup {NoPhone} /\ queriesSince' \in Nat
           PageKept == /\ hfPage' \in {"handsfree", "status"} /\ statusContent' \in Seq(Session)
                       /\ m_connectedDevice' \in Phones \cup {NoPhone}
           DialogKept == hfScheduler' \in HfClean \cup {Idle}
<1>4. /\ UNCHANGED linkVars => LinkKept
      /\ UNCHANGED queryVars => QueryKept
      /\ UNCHANGED pageVars => PageKept
      /\ UNCHANGED hfScheduler => DialogKept
      /\ UNCHANGED phoneVars => queried' \in BOOLEAN
  BY DEF linkVars, queryVars, pageVars, phoneVars, HfTypes
<1>5. \A p \in Phones \cup {NoPhone} : StartQueryCallList(p) => QueryKept
  BY DEF StartQueryCallList, HfTypes
<1>6. \A status : \A sessions \in Seq(Session) : Signal(status, sessions) => PageKept
  BY <1>2 DEF Signal, HfTypes
<1>7. LinkKept /\ QueryKept /\ PageKept /\ DialogKept /\ queried' \in BOOLEAN => HfTypes'
  BY DEF HfTypes
<1> HIDE DEF LinkKept, QueryKept, PageKept, DialogKept
<1>8. ASSUME NEW p \in Phones, NEW s \in ConnectionStatus, HandleConnectionStatusChanged(p, s)
      PROVE  HfTypes'
  <2>1. LinkKept /\ queried' \in BOOLEAN
    <3>1. LinkIsNew(s) \/ UNCHANGED phoneVars
      BY <1>8 DEF HandleConnectionStatusChanged
    <3>2. queried' \in BOOLEAN
      BY <1>4, <3>1 DEF LinkIsNew
    <3>3. QED
      BY <1>8, <3>2 DEF HandleConnectionStatusChanged, LinkKept
  <2>2. PageKept
    BY <1>1, <1>6, <1>8 DEF HandleConnectionStatusChanged
  <2>3. QueryKept /\ DialogKept
    BY <1>4, <1>5, <1>8 DEF HandleConnectionStatusChanged
  <2>4. QED
    BY <1>7, <2>1, <2>2, <2>3
<1>9. CASE Deliver
  <2>1. LinkKept /\ DialogKept
    BY <1>4, <1>9 DEF Deliver
  <2>2. queried' \in BOOLEAN
    BY <1>9 DEF Deliver, HfTypes
  <2>3. m_address \in Phones \cup {NoPhone} /\ <<>> \in Seq(Session)
    BY DEF HfTypes
  <2>4. CASE HandleCallSetupChanged
    BY <1>5, <1>6, <1>7, <2>1, <2>2, <2>3, <2>4 DEF HandleCallSetupChanged
  <2>5. CASE HandleCallProgressChanged
    BY <1>4, <1>5, <1>7, <2>1, <2>2, <2>3, <2>5 DEF HandleCallProgressChanged
  <2>6. ASSUME NEW s, HandleCallListChanged(s)
        PROVE  HfTypes'
    <3>1. Signal(m_status, m_callSessions') \/ UNCHANGED pageVars
      BY <2>6 DEF HandleCallListChanged
    <3>2. UNCHANGED queryVars
      BY <2>6 DEF HandleCallListChanged
    <3>3. PageKept
      BY <1>1, <1>4, <1>6, <3>1
    <3>4. QED
      BY <1>4, <1>7, <2>1, <2>2, <3>2, <3>3
  <2>7. QED
    BY <1>9, <2>4, <2>5, <2>6 DEF Deliver
<1>10. CASE PhoneStep \/ PhoneListsCalls
  <2>1. queried' \in BOOLEAN
    BY <1>10 DEF PhoneStep, PhoneListsCalls, HfTypes
  <2>2. LinkKept /\ QueryKept /\ PageKept /\ DialogKept
    BY <1>4, <1>10 DEF PhoneStep, PhoneListsCalls
  <2>3. QED
    BY <1>7, <2>1, <2>2
<1>11. CASE QueryCallList
  <2>1. LinkKept /\ PageKept /\ DialogKept
    BY <1>4, <1>11 DEF QueryCallList
  <2>2. QueryKept /\ queried' \in BOOLEAN
    BY <1>11 DEF QueryCallList, HfTypes, QueryKept
  <2>3. QED
    BY <1>7, <2>1, <2>2
<1>12. CASE HfFreshPage \/ HandleShowStatusPage \/ HfBack \/ GetConnectionStatus
  <2>1. PageKept
    <3>1. StatusString(m_status, m_callSessions) \in Seq(Session) /\ <<>> \in Seq(Session)
      BY <1>1, <1>2
    <3>2. QED
      BY <1>12, <3>1 DEF HfFreshPage, HandleShowStatusPage, HfBack, GetConnectionStatus, HfTypes,
                         PageKept
  <2>2. LinkKept /\ QueryKept /\ DialogKept /\ queried' \in BOOLEAN
    BY <1>4, <1>12 DEF HfFreshPage, HandleShowStatusPage, HfBack, GetConnectionStatus
  <2>3. QED
    BY <1>7, <2>1, <2>2
<1>13. ASSUME NEW e, NEW result, HfFinish(e, result), AfterRun(result) \in HfClean \cup {Idle}
       PROVE  HfTypes'
  <2>1. PageKept
    BY <1>13 DEF HfFinish, HfTypes, PageKept
  <2>2. DialogKept
    BY <1>13 DEF HfFinish, DialogKept
  <2>3. LinkKept /\ QueryKept /\ queried' \in BOOLEAN
    BY <1>4, <1>13 DEF HfFinish
  <2>4. QED
    BY <1>7, <2>1, <2>2, <2>3
<1>14. ASSUME NEW e \in HfExecutors, HfStartDialog(e)
       PROVE  HfTypes'
  <2>1. [Idle EXCEPT !.executor = e] = [executor |-> e, parameters |-> <<>>, step |-> 0, tries |-> 0]
    BY DEF Idle
  <2>2. [Idle EXCEPT !.executor = e] \in HfClean
    BY <1>3, <2>1 DEF HfClean
  <2>3. Prompt \in Nat
    BY DEF Prompt
  <2>4. \A paired \in PairedLists :
           AfterRun(HfExecute([Idle EXCEPT !.executor = e], Prompt, paired)) \in HfClean \cup {Idle}
    BY <2>2, <2>3, HfDialogs
  <2>5. QED
    BY <1>13, <1>14, <2>4 DEF HfStartDialog
<1>15. ASSUME NEW a \in 0 .. MaxPaired + 1, HfUserAnswers(a)
       PROVE  HfTypes'
  <2>1. hfScheduler \in HfClean /\ a \in Nat
    BY <1>15, PairedAssumption DEF HfUserAnswers, HfTypes
  <2>2. CASE TriedTooOften(hfScheduler)
    <3>1. AfterRun(Done(hfScheduler, NoRequest)) = Idle
      BY <2>1, HfDialogEnds
    <3>2. QED
      BY <1>13, <1>15, <2>2, <3>1 DEF HfUserAnswers
  <2>3. CASE ~TriedTooOften(hfScheduler)
    <3>1. Trying(hfScheduler) \in HfClean
      BY <1>3, <2>1, <2>3 DEF TriedTooOften, Trying, HfClean
    <3>2. \A paired \in PairedLists :
             AfterRun(HfExecute(Trying(hfScheduler), a, paired)) \in HfClean \cup {Idle}
      BY <2>1, <3>1, HfDialogs
    <3>3. PICK paired \in PairedLists :
             HfFinish(hfScheduler.executor, HfExecute(Trying(hfScheduler), a, paired))
      BY <1>15, <2>3 DEF HfUserAnswers
    <3>4. QED
      BY <1>13, <3>2, <3>3
  <2>4. QED
    BY <2>2, <2>3
<1>16. CASE UNCHANGED hfVars
  BY <1>4, <1>7, <1>16 DEF hfVars
<1>17. QED
  BY <1>8, <1>9, <1>10, <1>11, <1>12, <1>14, <1>15, <1>16 DEF HfNext, HfExecutors

LEMMA HfTypesHold == HfSpec => []HfTypeOK
<1>1. HfInit => HfTypes
  <2> SUFFICES ASSUME HfInit
               PROVE  HfTypes
    OBVIOUS
  <2>1. statusContent \in Seq(Session)
    BY DEF HfInit
  <2>2. hfScheduler \in HfClean \cup {Idle}
    BY DEF HfInit
  <2>3. QED
    BY <2>1, <2>2 DEF HfInit, HfTypes, ConnectionStatus
<1>2. HfIInv /\ HfTypes /\ [HfNext]_hfVars => HfTypes'
  BY HfTypesStep
<1>3. HfIInv /\ HfTypes => HfTypeOK
  <2> SUFFICES ASSUME HfIInv, HfTypes
               PROVE  HfTypeOK
    OBVIOUS
  <2>1. hfScheduler \in SchedulerTypes(HfExecutors, 0 .. MaxPaired + 1)
    <3> DEFINE A == 0 .. MaxPaired + 1
    <3>1. <<>> \in Seq(A) /\ Len(<<>>) <= 3 /\ 3 \in Nat
      OBVIOUS
    <3>2. <<>> \in BoundedSeq(A, 3)
      BY <3>1, BoundedList
    <3>3. 0 \in 0 .. m_maxExecutionTimes + 1
      BY MaxExecutionTimesAssumption
    <3> HIDE DEF A
    <3>4. hfScheduler \in SchedulerTypes(HfExecutors, A)
      BY <3>2, <3>3 DEF HfTypes, HfClean, Idle, SchedulerTypes
    <3>5. QED
      BY <3>4 DEF A
  <2>2. QED
    BY <2>1 DEF HfIInv, QueryInv, CallsInv, ScreenInv, HfTypes, HfTypeOK, HfExecutors
<1>4. QED
  BY <1>1, <1>2, <1>3, HfHolds, PTL DEF HfSpec

-----------------------------------------------------------------------------
\* Everything the run of the adaptor asks of each of its states, for any
\* number of devices, phones, calls and reports, of the parts as their own
\* modules specify them, each with all of its events (PageDeviceList,
\* DeviceSettings, BluetoothHF).
THEOREM AdaptorIsSafe == PdlSpec /\ DsSpec /\ HfSpec => []AdaptorInv
<1>1. /\ PdlTypeOK /\ (RepliedOnce /\ DeafDialogWasPushedTwice)
      /\ (DevicesListedOnce /\ OldListIsRedrawn) /\ DialogStartsClean
      /\ DsTypeOK /\ (PowerAskedWhileEnabling /\ EnabledHasModules)
      /\ HfTypeOK /\ (CallListedOnce /\ StatusPageIsCurrent /\ PageKnowsDevice)
      => AdaptorInv
  BY DEF AdaptorInv
<1>2. QED
  BY <1>1, PdlTypesHold, OneRequestOneReply, ListsAreShown, DialogsStartClean, DsTypesHold,
     PowerIsAskedOnce, HfTypesHold, CallsAreShown, PTL

\* The composition TLC runs, its halves left out, is a case of it.
COROLLARY AdaptorRunIsSafe == AdaptorSpec => []AdaptorInv
<1>1. AdaptorInit => PdlInit /\ DsInit /\ HfInit
  BY DEF AdaptorInit
<1>2. [AdaptorNext]_<<part, pdlVars, dsVars, hfVars>> =>
         [PdlNext]_pdlVars /\ [DsNext]_dsVars /\ [HfNext]_hfVars
  BY DEF AdaptorNext
<1>3. AdaptorSpec => PdlSpec /\ DsSpec /\ HfSpec
  BY <1>1, <1>2, PTL DEF AdaptorSpec, PdlSpec, DsSpec, HfSpec
<1>4. QED
  BY <1>3, AdaptorIsSafe, PTL

=============================================================================
