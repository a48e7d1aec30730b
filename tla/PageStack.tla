----------------------------- MODULE PageStack -----------------------------
(***************************************************************************)
(* The stack of pages of Zhen (src/Zhen/PageManager.cpp) and the requests   *)
(* to draw a page again (BasePage::PageNeedFresh).  Every operation runs on *)
(* the loop thread, inside the handler of one event, and is one step.  The  *)
(* same page may be on the stack more than once.                            *)
(***************************************************************************)
EXTENDS Naturals, Sequences, FiniteSets, SequencesExt

CONSTANTS
    Pages,
    NoPage,      \* the null shared_ptr
    MaxDepth     \* bound of the model: pages on the stack

ASSUME NoPageAssumption == NoPage \notin Pages

VARIABLES
    m_pages,      \* front() is the root page, back() the top page
    m_running,
    started,      \* run() has been called: main calls it once
    screen,       \* the page drawn last
    signals,      \* what the last operation emitted on m_pageChangedSignal
    freshFlag,    \* per page: m_hasRegisteredFreshPageEvent
    freshEvents,  \* refresh events in the queue of the loop, in order
    freshTimer,   \* pages whose m_combineFreshTimerConnection is connected
    outdated,     \* history: pages whose content changed since it was drawn
    popTo         \* history: PopToPage took pages off and nothing was drawn since

drawVars == <<screen, outdated, popTo>>
freshVars == <<freshFlag, freshEvents, freshTimer>>
runVars == <<m_running, started>>
vars == <<m_pages, runVars, signals, drawVars, freshVars>>

SignalTypes == {"START_PUSH_IN", "FINISHED_PUSH_IN", "START_POP_OUT",
                "FINISHED_POP_OUT"}

TypeOK ==
    /\ m_pages \in Seq(Pages)
    /\ m_running \in BOOLEAN
    /\ started \in BOOLEAN
    /\ screen \in Pages \cup {NoPage}
    /\ signals \in Seq(SignalTypes \X (Pages \cup {NoPage}))
    /\ freshFlag \in [Pages -> BOOLEAN]
    /\ freshEvents \in Seq(Pages)
    /\ freshTimer \subseteq Pages
    /\ outdated \subseteq Pages
    /\ popTo \in BOOLEAN

Init ==
    /\ m_pages = <<>>
    /\ m_running = FALSE
    /\ started = FALSE
    /\ screen = NoPage
    /\ signals = <<>>
    /\ freshFlag = [p \in Pages |-> FALSE]
    /\ freshEvents = <<>>
    /\ freshTimer = {}
    /\ outdated = {}
    /\ popTo = FALSE

GetTopPage == IF m_pages = <<>> THEN NoPage ELSE m_pages[Len(m_pages)]

OnStack(p) == \E i \in DOMAIN m_pages : m_pages[i] = p

\* std::find
FirstOf(p) == CHOOSE i \in DOMAIN m_pages :
                  m_pages[i] = p /\ \A j \in DOMAIN m_pages : m_pages[j] = p => i <= j

\* clearScreen and show of the back of the list `pages`
Show(pages) ==
    /\ screen' = pages[Len(pages)]
    /\ outdated' = outdated \ {pages[Len(pages)]}
    /\ popTo' = FALSE

ShowIfRunning(pages) == IF m_running THEN Show(pages) ELSE UNCHANGED drawVars

(***************************************************************************)
(* PushPage.  The guard that emits FINISHED_PUSH_IN reads a_page after the  *)
(* switch has moved from it, except when it was inserted by copy.           *)
(***************************************************************************)
PushAt(i, p, finished) ==
    /\ Len(m_pages) < MaxDepth
    /\ m_pages' = InsertAt(m_pages, i, p)
    /\ signals' = <<<<"START_PUSH_IN", p>>, <<"FINISHED_PUSH_IN", finished>>>>
    /\ ShowIfRunning(m_pages')
    /\ UNCHANGED <<runVars, freshVars>>

AddFirst(p) == PushAt(1, p, NoPage)

AddLast(p) == PushAt(Len(m_pages) + 1, p, NoPage)

AddBefore(p, ref) ==
    \/ OnStack(ref) /\ PushAt(FirstOf(ref), p, p)
    \/ ~OnStack(ref) /\ AddLast(p)

AddAfter(p, ref) ==
    \/ OnStack(ref) /\ PushAt(FirstOf(ref) + 1, p, p)
    \/ ~OnStack(ref) /\ AddLast(p)

\* A slip: the screen is not drawn again.
PopPageUndrawn(p) ==
    /\ Len(m_pages) > 1
    /\ OnStack(p)
    /\ m_pages' = RemoveAt(m_pages, FirstOf(p))
    /\ signals' = <<<<"START_POP_OUT", p>>, <<"FINISHED_POP_OUT", p>>>>
    /\ UNCHANGED <<runVars, drawVars, freshVars>>

\* A slip: list::remove, every copy of the page goes.
PopPageCopies(p) ==
    /\ Len(m_pages) > 1
    /\ m_pages' = SelectSeq(m_pages, LAMBDA q : q # p)
    /\ m_pages' # <<>>
    /\ signals' = <<<<"START_POP_OUT", p>>, <<"FINISHED_POP_OUT", p>>>>
    /\ ShowIfRunning(m_pages')
    /\ UNCHANGED <<runVars, freshVars>>

\* A slip: the last page may go.
PopLastPage(p) ==
    /\ m_pages = <<p>>
    /\ m_pages' = <<>>
    /\ signals' = <<<<"START_POP_OUT", p>>, <<"FINISHED_POP_OUT", p>>>>
    /\ UNCHANGED <<runVars, drawVars, freshVars>>

(***************************************************************************)
(* PopPage and PopToPage.  Nobody pops while the stack is empty: the pages  *)
(* themselves do, from their handlers.                                      *)
(***************************************************************************)
PopPage(p) ==
    /\ Len(m_pages) > 1
    /\ \/ /\ OnStack(p)
          /\ m_pages' = RemoveAt(m_pages, FirstOf(p))
          /\ signals' = <<<<"START_POP_OUT", p>>, <<"FINISHED_POP_OUT", p>>>>
       \/ /\ ~OnStack(p)
          /\ signals' = <<>>
          /\ UNCHANGED m_pages
    /\ ShowIfRunning(m_pages')
    /\ UNCHANGED <<runVars, freshVars>>

PopOnlyPage(p) ==
    /\ Len(m_pages) = 1
    /\ signals' = <<>>
    /\ UNCHANGED <<m_pages, runVars, drawVars, freshVars>>

PopToPage(p) ==
    /\ OnStack(p)
    /\ LET i == FirstOf(p)
           gone == SubSeq(m_pages, i + 1, Len(m_pages))
       IN  /\ m_pages' = SubSeq(m_pages, 1, i)
           /\ signals' = [k \in 1 .. Len(gone) |-> <<"START_POP_OUT", gone[k]>>]
                         \o [k \in 1 .. Len(gone) |-> <<"FINISHED_POP_OUT", gone[k]>>]
           /\ popTo' = (popTo \/ gone # <<>>)
    /\ UNCHANGED <<runVars, screen, outdated, freshVars>>

(***************************************************************************)
(* run and quit, as far as they touch the screen                            *)
(***************************************************************************)
RunStart ==
    /\ ~started
    /\ started' = TRUE
    /\ m_running' = TRUE
    /\ IF m_pages = <<>> THEN UNCHANGED drawVars ELSE Show(m_pages)
    /\ UNCHANGED <<m_pages, signals, freshVars>>

Quit ==
    /\ m_running
    /\ m_running' = FALSE
    /\ UNCHANGED <<m_pages, started, signals, drawVars, freshVars>>

(***************************************************************************)
(* A page changes what it shows and calls PageNeedFresh, at once or         *)
(* combined with a one-shot timer.                                          *)
(***************************************************************************)
ChangeAndFresh(p) ==
    /\ outdated' = outdated \cup {p}
    /\ IF freshFlag[p] THEN UNCHANGED <<freshFlag, freshEvents>>
       ELSE /\ freshEvents' = Append(freshEvents, p)
            /\ freshFlag' = [freshFlag EXCEPT ![p] = TRUE]
    /\ UNCHANGED <<m_pages, runVars, signals, screen, popTo, freshTimer>>

ChangeAndFreshCombined(p) ==
    /\ outdated' = outdated \cup {p}
    /\ freshTimer' = freshTimer \cup {p}
    /\ UNCHANGED <<m_pages, runVars, signals, screen, popTo, freshFlag, freshEvents>>

\* A slip: the root page is compared instead of the top page.
FreshIfRoot(p) ==
    IF m_pages # <<>> /\ Head(m_pages) = p THEN ShowIfRunning(m_pages)
    ELSE UNCHANGED drawVars

\* FreshTopPageShow, if the page is the top page
FreshIfTop(p) == IF GetTopPage = p THEN ShowIfRunning(m_pages) ELSE UNCHANGED drawVars

\* A slip: the flag is not cleared.
HandleFreshEventFlagged ==
    /\ started
    /\ freshEvents # <<>>
    /\ FreshIfTop(Head(freshEvents))
    /\ freshEvents' = Tail(freshEvents)
    /\ UNCHANGED <<m_pages, runVars, signals, freshFlag, freshTimer>>

HandleFreshEvent ==
    /\ started
    /\ freshEvents # <<>>
    /\ LET p == Head(freshEvents)
       IN  /\ FreshIfTop(p)
           /\ freshFlag' = [freshFlag EXCEPT ![p] = FALSE]
    /\ freshEvents' = Tail(freshEvents)
    /\ UNCHANGED <<m_pages, runVars, signals, freshTimer>>

HandleFreshTimer(p) ==
    /\ started
    /\ p \in freshTimer
    /\ FreshIfTop(p)
    /\ freshTimer' = freshTimer \ {p}
    /\ UNCHANGED <<m_pages, runVars, signals, freshFlag, freshEvents>>

Push(p) ==
    \/ AddFirst(p) \/ AddLast(p)
    \/ \E ref \in Pages : AddBefore(p, ref) \/ AddAfter(p, ref)

Pop(p) == PopPage(p) \/ PopOnlyPage(p) \/ PopToPage(p)

Fresh(p) == ChangeAndFresh(p) \/ ChangeAndFreshCombined(p) \/ HandleFreshTimer(p)

Next ==
    \/ \E p \in Pages : Push(p) \/ Pop(p) \/ Fresh(p)
    \/ RunStart \/ Quit \/ HandleFreshEvent

Spec == Init /\ [][Next]_vars

\* The loop handles its events and its timers.
Fairness ==
    /\ WF_vars(HandleFreshEvent)
    /\ \A p \in Pages : WF_vars(HandleFreshTimer(p))

FairSpec == Spec /\ Fairness

-----------------------------------------------------------------------------
\* What the user sees is the top page, after any sequence of pushes and pops;
\* only PopToPage (src/Zhen/PageManager.cpp:298) leaves an old page there.
ScreenShowsTop == m_running /\ m_pages # <<>> /\ ~popTo => screen = GetTopPage

\* A program that has shown a page never runs out of pages: whoever pops what.
NeverEmptied == [][m_pages # <<>> => m_pages' # <<>>]_vars

\* A change of the page on top is drawn, or the request to draw it is still
\* under way: neither the flag nor the timer that keep a page from asking
\* twice ever swallows the last request.
ChangeIsDrawn ==
    m_running /\ m_pages # <<>> /\ ~popTo /\ GetTopPage \in outdated
        => freshFlag[GetTopPage] \/ GetTopPage \in freshTimer

CopiesOf(p, s) == Cardinality({i \in DOMAIN s : s[i] = p})

\* Listeners that count see the stack: a page leaves it as often as it is
\* announced, before and after.
PopsAnnounced ==
    [][signals' # signals /\ Len(m_pages') <= Len(m_pages) =>
          \A p \in Pages :
              /\ CopiesOf(p, m_pages) - CopiesOf(p, m_pages')
                    = CopiesOf(<<"FINISHED_POP_OUT", p>>, signals')
              /\ CopiesOf(<<"START_POP_OUT", p>>, signals')
                    = CopiesOf(<<"FINISHED_POP_OUT", p>>, signals')]_vars

\* What is outdated on top of a running program's stack gets drawn, or is
\* covered, or the program quits.
EventuallyDrawn ==
    \A p \in Pages :
        (m_running /\ GetTopPage = p /\ p \in outdated)
            ~> (p \notin outdated \/ GetTopPage # p \/ ~m_running \/ popTo)

\* a_page of the signal is "Which page to be operated"
\* (src/Zhen/ConfirmPage.h:76): every announcement names a page.
SignalNamesPage == \A i \in DOMAIN signals : signals[i][2] # NoPage

=============================================================================
