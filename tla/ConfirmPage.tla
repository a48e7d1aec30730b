---------------------------- MODULE ConfirmPage ----------------------------
(***************************************************************************)
(* The confirmation dialog of Zhen (src/Zhen/ConfirmPage.cpp) together with *)
(* the owner that shows how it is meant to be used, the HomePage of the     *)
(* example program: "Stop Show Clock With Confirm" opens the dialog, the    *)
(* user or a timer answers it, or the user leaves it with Back.  All of it  *)
(* runs on the loop thread, one event at a time.                            *)
(*                                                                         *)
(* The dialog's timer is a combined one, so its first tick comes up to a    *)
(* whole Second early, when it joins an entry that is already in the list.  *)
(***************************************************************************)
EXTENDS Naturals, Sequences, FiniteSets, SequencesExt

CONSTANTS
    home, confirm,   \* the pages
    Second,          \* the timer's period, in units of Tick
    Timeout,         \* a_timeout: seconds the user has to decide
    Defaults         \* the values of a_yesAsDefault

ASSUME PagesAssumption == home # confirm
ASSUME TimeAssumption == Second \in Nat \ {0} /\ Timeout \in Nat \ {0}
ASSUME DefaultsAssumption == Defaults \subseteq BOOLEAN

VARIABLES
    m_pages,          \* the page stack
    m_enable,
    m_countdown,
    m_yesAsDefault,
    timeoutTimer,     \* whether m_timeoutTimerConnection is connected
    nextTick,         \* time until its entry of the timer list is due
    clock,            \* whether m_clockUpdateTimerConnection is connected
    confirmVisible,   \* whether the option m_confirmId is visible
    answers,          \* history: answers since the dialog was opened last
    sinceOpen         \* history: time since then

dialogVars == <<m_enable, m_countdown, m_yesAsDefault>>
timerVars == <<timeoutTimer, nextTick>>
clockVars == <<clock, confirmVisible>>
vars == <<m_pages, dialogVars, timerVars, clockVars, answers, sinceOpen>>

MaxTime == Second * (Timeout + 2)

TypeOK ==
    /\ m_pages \in Seq({home, confirm})
    /\ m_enable \in BOOLEAN
    /\ m_countdown \in 0 .. Timeout
    /\ m_yesAsDefault \in BOOLEAN
    /\ timeoutTimer \in BOOLEAN
    /\ nextTick \in 0 .. Second
    /\ clock \in BOOLEAN
    /\ confirmVisible \in BOOLEAN
    /\ answers \in Seq({"yes", "no"})
    /\ sinceOpen \in 0 .. MaxTime

Init ==
    /\ m_pages = <<home>>
    /\ m_enable = TRUE
    /\ m_countdown = 0
    /\ m_yesAsDefault = TRUE
    /\ timeoutTimer = FALSE
    /\ nextTick = 0
    /\ clock = FALSE
    /\ confirmVisible = FALSE
    /\ answers = <<>>
    /\ sinceOpen = 0

GetTopPage == m_pages[Len(m_pages)]

OnStack(p) == \E i \in DOMAIN m_pages : m_pages[i] = p

\* PageManager::PopPage
PopPage(p) ==
    m_pages' = IF Len(m_pages) > 1 /\ OnStack(p)
               THEN RemoveAt(m_pages, CHOOSE i \in DOMAIN m_pages :
                        m_pages[i] = p /\ \A j \in DOMAIN m_pages :
                                              m_pages[j] = p => i <= j)
               ELSE m_pages

(***************************************************************************)
(* HomePage: the options that do not concern the dialog                     *)
(***************************************************************************)
StartShowClock ==
    /\ GetTopPage = home
    /\ ~clock
    /\ clock' = TRUE
    /\ confirmVisible' = TRUE
    /\ UNCHANGED <<m_pages, dialogVars, timerVars, answers, sinceOpen>>

StopClock ==
    /\ clock' = FALSE
    /\ confirmVisible' = FALSE

StopShowClock ==
    /\ GetTopPage = home
    /\ StopClock
    /\ UNCHANGED <<m_pages, dialogVars, timerVars, answers, sinceOpen>>

\* A slip: the dialog stays enabled.
CloseDialogEnabled(answer) ==
    /\ PopPage(confirm)
    /\ answers' = Append(answers, answer)
    /\ UNCHANGED m_enable

(***************************************************************************)
(* The slots HomePage connects, behind the dialog's check of m_enable       *)
(***************************************************************************)
CloseDialog(answer) ==
    /\ m_enable' = FALSE
    /\ PopPage(confirm)
    /\ answers' = Append(answers, answer)

HandleYes ==
    \/ /\ m_enable
       /\ CloseDialog("yes")
       /\ StopClock
    \/ /\ ~m_enable
       /\ UNCHANGED <<m_pages, m_enable, answers, clockVars>>

HandleNo ==
    /\ \/ m_enable /\ CloseDialog("no")
       \/ ~m_enable /\ UNCHANGED <<m_pages, m_enable, answers>>
    /\ UNCHANGED clockVars

UserYes ==
    /\ GetTopPage = confirm
    /\ HandleYes
    /\ UNCHANGED <<m_countdown, m_yesAsDefault, timerVars, sinceOpen>>

UserNo ==
    /\ GetTopPage = confirm
    /\ HandleNo
    /\ UNCHANGED <<m_countdown, m_yesAsDefault, timerVars, sinceOpen>>

\* the Back action of a page's menu; nobody tells the dialog
Back ==
    /\ PopPage(GetTopPage)
    /\ UNCHANGED <<dialogVars, timerVars, clockVars, answers, sinceOpen>>

\* A slip: the countdown starts at a_timeout.
SetDefaultOptionShort(yes) ==
    /\ m_countdown' = Timeout - 1
    /\ m_yesAsDefault' = yes
    /\ timeoutTimer' = TRUE
    /\ nextTick' \in IF timeoutTimer THEN {nextTick} ELSE 0 .. Second

(***************************************************************************)
(* SetDefaultOption starts the countdown at a_timeout + 1 and counts once   *)
(* at once.  A new connection while the old entry is still in the list      *)
(* joins it, and may join an entry of another page.                         *)
(***************************************************************************)
SetDefaultOption(yes) ==
    /\ m_countdown' = (Timeout + 1) - 1
    /\ m_yesAsDefault' = yes
    /\ timeoutTimer' = TRUE
    /\ nextTick' \in IF timeoutTimer THEN {nextTick} ELSE 0 .. Second

StopShowClockWithConfim(yes) ==
    /\ GetTopPage = home
    /\ confirmVisible
    /\ clock
    /\ m_enable' = TRUE
    /\ SetDefaultOption(yes)
    /\ m_pages' = Append(m_pages, confirm)
    /\ answers' = <<>>
    /\ sinceOpen' = 0
    /\ UNCHANGED clockVars

(***************************************************************************)
(* HandleTimeoutTimerEvent, whether or not the dialog is still on the stack *)
(***************************************************************************)
TimeoutTimer ==
    /\ timeoutTimer
    /\ nextTick = 0
    /\ nextTick' = Second

CountDown ==
    /\ TimeoutTimer
    /\ m_countdown > 0
    /\ m_countdown' = m_countdown - 1
    /\ UNCHANGED <<m_pages, m_enable, m_yesAsDefault, timeoutTimer, clockVars,
                   answers, sinceOpen>>

\* it chooses Yes whatever m_yesAsDefault says
TimeIsUp ==
    /\ TimeoutTimer
    /\ m_countdown = 0
    /\ HandleYes
    /\ timeoutTimer' = FALSE
    /\ UNCHANGED <<m_countdown, m_yesAsDefault, sinceOpen>>

Tick ==
    /\ nextTick' = IF nextTick > 0 THEN nextTick - 1 ELSE 0
    /\ sinceOpen' = IF sinceOpen < MaxTime THEN sinceOpen + 1 ELSE MaxTime
    /\ UNCHANGED <<m_pages, dialogVars, timeoutTimer, clockVars, answers>>

UserStep ==
    \/ StartShowClock \/ StopShowClock
    \/ \E yes \in Defaults : StopShowClockWithConfim(yes)
    \/ UserYes \/ UserNo \/ Back

Next == UserStep \/ CountDown \/ TimeIsUp \/ Tick

Spec == Init /\ [][Next]_vars

\* Time passes and a timer that is due is called (GeneralTimer!KeepsFiring).
Fairness ==
    /\ WF_vars(Tick)
    /\ WF_vars(CountDown \/ TimeIsUp)

FairSpec == Spec /\ Fairness

-----------------------------------------------------------------------------
\* One opening of the dialog, one answer: the timer keeps running after the
\* user has chosen, and a No is never followed by the timer's Yes.
AnsweredOnce == Len(answers) <= 1

\* The dialog is on the stack at most once, always above the page it belongs
\* to, and never stays there answered: it would react to nothing but Back.
DialogIsOpenQuestion ==
    /\ m_pages \in {<<home>>, <<home, confirm>>}
    /\ OnStack(confirm) => m_enable /\ answers = <<>> /\ timeoutTimer

\* The user has the whole a_timeout to decide, although the first tick of a
\* combined timer may come at once.
TimeToDecide == [][TimeIsUp /\ m_enable => sinceOpen >= Second * Timeout]_vars

\* An open dialog goes away in the end although nobody answers it.
DialogCloses == OnStack(confirm) ~> ~OnStack(confirm)

\* A timer is left over when the user has answered, but it ends: it is never
\* connected for ever unless the dialog is opened again and again.
TimerEnds == <>[][~\E yes \in BOOLEAN : StopShowClockWithConfim(yes)]_vars => <>[]~timeoutTimer

\* "this confirm page will choose Yes when a_yesAsDefault set to true,
\* otherwise will choose No" (src/Zhen/ConfirmPage.h:60).
ChoosesDefault ==
    [][TimeIsUp /\ m_enable => answers' = <<IF m_yesAsDefault THEN "yes" ELSE "no">>]_vars

=============================================================================
