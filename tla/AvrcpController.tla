--------------------------- MODULE AvrcpController ---------------------------
(***************************************************************************)
(* The remote control of a media player: BT/avrcp/BluetoothAvrcpController, *)
(* the playback options of PageMedia and the page PageMediaStatus.           *)
(*                                                                         *)
(* The player and the link are external: link and play-status reports are   *)
(* delivered in order, what is under way is delivered although the link is   *)
(* down again, and a new link starts with a report of the play status.  The  *)
(* handlers run on the loop thread; the timer is one of GeneralTimer.  The   *)
(* browse channel, the features and the player lists are only kept.          *)
(***************************************************************************)
EXTENDS Integers, Sequences, SequencesExt, FiniteSets

CONSTANTS
    MaxPolls,       \* bounds of the model: timers connected at once,
    MaxReports,     \* reports under way,
    MaxTime,        \* song lengths and positions
    Attributes, Texts

ASSUME AvrcpBoundsAssumption == MaxPolls \in Nat /\ MaxReports \in Nat \ {0} /\ MaxTime \in Nat

VARIABLES
    controllerMade,         \* m_impl: Init has run
    m_controlChannelStatus, m_playStatus,
    m_currentSongPos, m_songLength, m_playTrack,
    posTimers,              \* timers that call HandleGetPosTimerEvent
    statusPageOpen,
    shownTime, shownPlayStatus,   \* the content the page was given last
    linkUp, player,         \* external: the link and what the player does
    reports,                \* external: reports under way
    sentKey                 \* the key of the last step, if any

mediaVars == <<m_controlChannelStatus, m_playStatus, m_currentSongPos, m_songLength, m_playTrack>>
mediaPageVars == <<statusPageOpen, shownTime, shownPlayStatus>>
playerVars == <<linkUp, player, reports>>
acVars == <<controllerMade, mediaVars, posTimers, mediaPageVars, playerVars, sentKey>>

PlayStatus == {"STOPPED", "PLAYING", "PAUSED"}
Time == 0 .. MaxTime
Attribute == [type : Attributes, text : Texts]
NoKey == "none"
Key == {"PLAY", "PAUSE", "STOP", "FORWARD", "BACKWARD"}
Crash == "crash"       \* m_impl is dereferenced before Init
Report == [type : {"link"}, up : BOOLEAN] \cup [type : {"status"}, status : PlayStatus]

AcTypeOK ==
    /\ controllerMade \in BOOLEAN
    /\ m_controlChannelStatus \in {"Disconnected", "Connected"}
    /\ m_playStatus \in PlayStatus
    /\ m_currentSongPos \in Time /\ m_songLength \in Time
    /\ m_playTrack \in Seq(Attribute)
    /\ posTimers \in 0 .. MaxPolls
    /\ statusPageOpen \in BOOLEAN
    /\ shownTime \in Time \X Time /\ shownPlayStatus \in PlayStatus
    /\ linkUp \in BOOLEAN /\ player \in PlayStatus
    /\ reports \in BoundedSeq(Report, MaxReports)
    /\ sentKey \in Key \cup {NoKey, Crash}

Reset(made) ==
    /\ controllerMade = made
    /\ m_controlChannelStatus = "Disconnected" /\ m_playStatus = "STOPPED"
    /\ m_currentSongPos = 0 /\ m_songLength = 0 /\ m_playTrack = <<>>

AcInit ==
    /\ Reset(FALSE)
    /\ posTimers = 0
    /\ statusPageOpen = FALSE /\ shownTime = <<0, 0>> /\ shownPlayStatus = "STOPPED"
    /\ linkUp = FALSE /\ player = "STOPPED" /\ reports = <<>>
    /\ sentKey = NoKey

\* ModuleManager::Init at every enabling of the adaptor: m_inited is never
\* set, so a new m_impl takes the place of the old one, whose timers go on
InitController ==
    /\ ~linkUp /\ reports = <<>>
    /\ controllerMade' = TRUE
    /\ m_controlChannelStatus' = "Disconnected" /\ m_playStatus' = "STOPPED"
    /\ m_currentSongPos' = 0 /\ m_songLength' = 0 /\ m_playTrack' = <<>>
    /\ sentKey' = NoKey
    /\ UNCHANGED <<posTimers, mediaPageVars, playerVars>>

(***************************************************************************)
(* Reports                                                                  *)
(***************************************************************************)

\* The new timer is not kept in m_getPosTimerConnection, so neither the next
\* connection nor the end of this one disconnects it.
AvrcpConnectionStatusChanged(up) ==
    /\ m_controlChannelStatus' = IF up THEN "Connected" ELSE "Disconnected"
    /\ posTimers' = IF up THEN posTimers + 1 ELSE posTimers
    /\ UNCHANGED <<m_playStatus, mediaPageVars>>

\* PageMediaStatus does not listen to this signal
PlayStatusChanged(status) ==
    /\ m_playStatus' = status
    /\ UNCHANGED <<m_controlChannelStatus, posTimers, mediaPageVars>>

DeliverReport ==
    /\ controllerMade /\ reports # <<>>
    /\ reports' = Tail(reports)
    /\ LET r == Head(reports)
       IN  \/ r.type = "link" /\ (r.up => posTimers < MaxPolls)
              /\ AvrcpConnectionStatusChanged(r.up)
           \/ r.type = "status" /\ PlayStatusChanged(r.status)
    /\ sentKey' = NoKey
    /\ UNCHANGED <<controllerMade, m_currentSongPos, m_songLength, m_playTrack, linkUp, player>>

\* RefreshMediaStatus
RefreshStatus(pos, length) ==
    /\ shownTime' = <<pos, length>>
    /\ shownPlayStatus' = m_playStatus

\* A length below the position is not taken; the page redraws itself.
PlayPosChanged(length, pos) ==
    /\ controllerMade
    /\ <<pos, length>> # <<m_currentSongPos, m_songLength>>
    /\ m_currentSongPos' = pos
    /\ m_songLength' = IF length >= pos THEN length ELSE m_songLength
    /\ IF statusPageOpen THEN RefreshStatus(pos, m_songLength')
       ELSE UNCHANGED <<shownTime, shownPlayStatus>>
    /\ sentKey' = NoKey
    /\ UNCHANGED <<controllerMade, m_controlChannelStatus, m_playStatus, m_playTrack, posTimers,
                   statusPageOpen, playerVars>>

SameAttribute(a, b) == a.type = b.type

\* an attribute known already gets its new text, another is appended; those
\* the new track does not have stay
WithAttribute(track, new) ==
    LET found == {i \in DOMAIN track : SameAttribute(track[i], new)}
    IN  IF found = {} THEN Append(track, new)
        ELSE [track EXCEPT ![CHOOSE i \in found : \A j \in found : i <= j] = new]

\* the attributes are taken one after the other
PlayTrackChanged(attributes) ==
    /\ controllerMade
    /\ LET track[n \in 0 .. Len(attributes)] ==
               IF n = 0 THEN m_playTrack ELSE WithAttribute(track[n - 1], attributes[n])
       IN  m_playTrack' = track[Len(attributes)]
    /\ sentKey' = NoKey
    /\ UNCHANGED <<controllerMade, m_controlChannelStatus, m_playStatus, m_currentSongPos,
                   m_songLength, posTimers, mediaPageVars, playerVars>>

\* SendGetPlayBackStateCmd fails without a link, and its timer ends
HandleGetPosTimerEvent ==
    /\ posTimers > 0
    /\ posTimers' = IF linkUp THEN posTimers ELSE posTimers - 1
    /\ sentKey' = NoKey
    /\ UNCHANGED <<controllerMade, mediaVars, mediaPageVars, playerVars>>

(***************************************************************************)
(* The user                                                                 *)
(***************************************************************************)
\* A key is pressed and released in one call; m_currentHoldKey is never set.
Press(key, wanted) ==
    /\ sentKey' = IF ~controllerMade THEN Crash ELSE IF wanted THEN key ELSE NoKey
    /\ UNCHANGED <<controllerMade, posTimers, mediaVars, mediaPageVars, playerVars>>

\* A slip: the answer of the player is taken for granted.
SendPlayAndBelieve ==
    /\ sentKey' = IF ~controllerMade THEN Crash
                  ELSE IF m_playStatus # "PLAYING" THEN "PLAY" ELSE NoKey
    /\ m_playStatus' = "PLAYING"
    /\ UNCHANGED <<controllerMade, m_controlChannelStatus, m_currentSongPos, m_songLength,
                   m_playTrack, posTimers, mediaPageVars, playerVars>>

SendPlay == Press("PLAY", m_playStatus # "PLAYING")
SendPause == Press("PAUSE", m_playStatus = "PLAYING")
SendStop == Press("STOP", m_playStatus = "PLAYING")
NextTrack(forward) == Press(IF forward THEN "FORWARD" ELSE "BACKWARD", TRUE)

\* the page is made anew each time; its constructor reads the module
ShowPlayStatus ==
    /\ ~statusPageOpen
    /\ statusPageOpen' = TRUE
    /\ RefreshStatus(m_currentSongPos, m_songLength)
    /\ sentKey' = IF controllerMade THEN NoKey ELSE Crash
    /\ UNCHANGED <<controllerMade, mediaVars, posTimers, playerVars>>

LeavePlayStatus ==
    /\ statusPageOpen
    /\ statusPageOpen' = FALSE
    /\ shownTime' = <<0, 0>> /\ shownPlayStatus' = "STOPPED"
    /\ sentKey' = NoKey
    /\ UNCHANGED <<controllerMade, mediaVars, posTimers, playerVars>>

(***************************************************************************)
(* The link and the player                                                  *)
(***************************************************************************)
LinkReport(up) == [type |-> "link", up |-> up]
StatusReport(status) == [type |-> "status", status |-> status]

LinkConnects ==
    /\ controllerMade /\ ~linkUp
    /\ Len(reports) + 2 <= MaxReports
    /\ linkUp' = TRUE
    /\ player' \in PlayStatus
    /\ reports' = reports \o <<LinkReport(TRUE), StatusReport(player')>>
    /\ sentKey' = NoKey
    /\ UNCHANGED <<controllerMade, mediaVars, posTimers, mediaPageVars>>

LinkBreaks ==
    /\ linkUp
    /\ Len(reports) < MaxReports
    /\ linkUp' = FALSE
    /\ reports' = Append(reports, LinkReport(FALSE))
    /\ sentKey' = NoKey
    /\ UNCHANGED <<controllerMade, mediaVars, posTimers, mediaPageVars, player>>

\* by itself or at a key, which it may also ignore
PlayerChanges ==
    /\ linkUp
    /\ Len(reports) < MaxReports
    /\ player' \in PlayStatus \ {player}
    /\ reports' = Append(reports, StatusReport(player'))
    /\ sentKey' = NoKey
    /\ UNCHANGED <<controllerMade, mediaVars, posTimers, mediaPageVars, linkUp>>

UserPresses ==
    \/ SendPlay \/ SendPause \/ SendStop
    \/ \E forward \in BOOLEAN : NextTrack(forward)

AcNext ==
    /\ sentKey # Crash
    /\ \/ InitController \/ DeliverReport \/ HandleGetPosTimerEvent
       \/ \E l, t \in Time : PlayPosChanged(l, t)
       \/ \E track \in BoundedSeq(Attribute, 2) : PlayTrackChanged(track)
       \/ UserPresses \/ ShowPlayStatus \/ LeavePlayStatus
       \/ LinkConnects \/ LinkBreaks \/ PlayerChanges

AcSpec == AcInit /\ [][AcNext]_acVars

\* Timers are called again (GeneralTimer).
AcFairness == WF_acVars(HandleGetPosTimerEvent)

-----------------------------------------------------------------------------
\* While the link is up and no report is under way the position is asked for:
\* the timer that ended with an old link was replaced by the new one's.
PollsWhileConnected == linkUp /\ reports = <<>> => posTimers > 0

\* The timers nothing disconnects end by themselves, once the link stays down
\* and its last connection is reported.
PollsEnd == <>[](~linkUp /\ reports = <<>>) => <>[](posTimers = 0 \/ sentKey = Crash)

\* A key is left out only for the reason the player gives, or because its
\* report is still under way: m_playStatus outlives the link it was of.
KeyLeftOutRightly ==
    [][/\ SendPlay /\ sentKey' = NoKey /\ linkUp /\ reports = <<>> => player = "PLAYING"
       /\ SendPause /\ sentKey' = NoKey /\ linkUp /\ reports = <<>> => player # "PLAYING"]_acVars

\* The open page shows the time as it is, whatever changed first, but for a
\* module made anew, which forgets the time and tells nobody.
StatusPageShowsTime ==
    statusPageOpen => \/ shownTime = <<m_currentSongPos, m_songLength>>
                      \/ m_currentSongPos = 0 /\ m_songLength = 0

\* However the tracks' attributes overlap, each is listed once.
AttributeListedOnce ==
    \A i, j \in DOMAIN m_playTrack : m_playTrack[i].type = m_playTrack[j].type => i = j

=============================================================================
