----------------------------- MODULE MCProfiles -----------------------------
(* The profiles' pages and modules for TLC: the pages that connect, the      *)
(* remote control, the Apple notification client and the Kanban server.      *)
(* They share no variable and every property is about one of them, so one    *)
(* moves in each behaviour: part says which, and where a whole one would be  *)
(* too large, which half of its events comes.                                *)
EXTENDS ProfilePages, AvrcpController, PageAppleANCS, PageKanban

CONSTANTS p1, p2

VARIABLE part

(* One page is opened in a behaviour, and one module's link changes; where  *)
(* the link is not shown beside a dialog, one device is paired.              *)
PageBounds ==
    /\ \A m \in Linked : m = part \/ link'[m] = link[m]
    /\ topPage' \in {"home", Opener(part), part, "crashed"}
    /\ part \in {"sink", "ag"} \/ Len(pairedList') < 2

(* The remote control: the track's attributes, or the link and the player.  *)
PlayerParts == {"track", "player"}
PlayerBounds ==
    /\ part = "track" => ~linkUp'
    /\ part = "player" => m_playTrack' = <<>>

(* The notification client: connections come and go, a notification among   *)
(* them, or notifications.                                                   *)
ClientParts == {"links", "lists"}
ClientBounds ==
    /\ part = "links" => notices' < 2
    /\ part = "lists" => ancsLink'.id < 2 /\ byHand' = 0

(* The server: its service once, and what it answers; the clients' requests *)
(* with the service registered twice; and the screen's notifications to one *)
(* client at a time over both registrations.                                *)
ServerParts == {"once", "twice", "again"}
ServerBounds ==
    /\ part = "twice" => /\ sent' = <<>> /\ m_screen_on_off'
                         /\ \A a \in KanbanClients : believes'[a].enabled \subseteq {"signal"}
    /\ part = "once" => /\ registrations'.asked <= 1 /\ running \subseteq running'
                        /\ request' = NoKanbanRequest
                        /\ \A a \in KanbanClients : "signal" \notin believes'[a].enabled
    /\ part = "again" => /\ Cardinality(linked') <= 1 /\ ~m_media_test_enabled'
                         /\ request' = NoKanbanRequest
                         /\ \A a \in KanbanClients : believes'[a].enabled \subseteq {"screen"}

ProfilesInit ==
    /\ part \in ProfilePage \cup PlayerParts \cup ClientParts \cup ServerParts
    /\ PpInit /\ AcInit /\ AncsInit /\ KanbanInit

ProfilesNext ==
    /\ UNCHANGED part
    /\ \/ part \in ProfilePage /\ PpNext /\ PageBounds /\ UNCHANGED <<acVars, ancsVars, kanbanVars>>
       \/ part \in PlayerParts /\ AcNext /\ PlayerBounds /\ UNCHANGED <<ppVars, ancsVars, kanbanVars>>
       \/ part \in ClientParts /\ AncsNext /\ ClientBounds /\ UNCHANGED <<ppVars, acVars, kanbanVars>>
       \/ part \in ServerParts /\ KanbanNext /\ ServerBounds /\ UNCHANGED <<ppVars, acVars, ancsVars>>

(* The client's timer may run before its part has moved, so it is bound only *)
(* when that part moves; no other fair action is enabled at the start.       *)
ProfilesSpec ==
    /\ ProfilesInit /\ [][ProfilesNext]_<<part, ppVars, acVars, ancsVars, kanbanVars>>
    /\ AcFairness
    /\ WF_ancsVars(part \in ClientParts /\ TimerTick) /\ StackAnswers
-----------------------------------------------------------------------------
\* The invariants of the parts.  Pages: the status on the screen is the link's,
\* or a refresh is queued.  Remote control: the open status page shows the time,
\* no attribute is listed twice.  Notification client: a waiting command has a
\* timer, no notification is listed twice, the offered turns lead somewhere.
\* Server: a client alone knows the screen, and a request stays unanswered only
\* for a reason.
ProfilesInv ==
    /\ PpTypeOK /\ ShownStatusIsCurrent
    /\ AcTypeOK /\ StatusPageShowsTime /\ AttributeListedOnce /\ PollsWhileConnected
    /\ AncsTypeOK /\ UidListedOnce /\ TurnsAreOffered
    /\ KanbanTypeOK /\ LoneClientKnowsScreen /\ UnansweredRightly

\* The remote control leaves a key out only rightly, and stops to ask for the
\* position some time after the link went (BluetoothAvrcpController).
PlayerIsFollowed == KeyLeftOutRightly /\ PollsEnd

\* On a connection that lasts the telephone is asked for everything
\* (PageAppleANCS), whatever an earlier one left behind.
TelephoneIsAsked == NotificationsGetConfigured /\ DetailsAreAskedFor

\* The media test neither multiplies nor stalls but in the known ways
\* (PageKanban::handle_media_test_event).
MediaTestGoesOn == StreamsMultiplyOnlySo /\ TestStallsOnlySo
=============================================================================
