--------------------------- MODULE PageStackProofs ---------------------------
(***************************************************************************)
(* What holds of the page stack for every set of pages and every depth.     *)
(* The three invariants are inductive together with TypeOK; what needs an   *)
(* argument is what the list operations do to the last element.             *)
(***************************************************************************)
EXTENDS PageStack, SequenceLemmas, FiniteSetTheorems

-----------------------------------------------------------------------------

\* std::find on a page that is in the list returns one of its positions.
LEMMA FirstOfFinds ==
  ASSUME NEW p, m_pages \in Seq(Pages), OnStack(p)
  PROVE  FirstOf(p) \in 1 .. Len(m_pages) /\ m_pages[FirstOf(p)] = p
<1>1. DOMAIN m_pages = 1 .. Len(m_pages)
  BY LenProperties
<1>2. \E i \in DOMAIN m_pages :
          m_pages[i] = p /\ \A j \in DOMAIN m_pages : m_pages[j] = p => i <= j
  BY FirstPlace DEF OnStack
<1>3. QED
  BY <1>1, <1>2 DEF FirstOf

-----------------------------------------------------------------------------
(* What the operations on the stack are made of.                            *)

\* Every PushPage inserts one page at a position of the list.
LEMMA PushInserts ==
  ASSUME NEW p \in Pages, m_pages \in Seq(Pages), Push(p)
  PROVE  \E i \in 1 .. Len(m_pages) + 1, f \in Pages \cup {NoPage} : PushAt(i, p, f)
<1>1. Len(m_pages) \in Nat
  BY LenProperties
<1>2. CASE AddFirst(p)
  BY <1>1, <1>2 DEF AddFirst
<1>3. CASE AddLast(p)
  BY <1>1, <1>3 DEF AddLast
<1>4. ASSUME NEW ref \in Pages, AddBefore(p, ref)
      PROVE  \E i \in 1 .. Len(m_pages) + 1, f \in Pages \cup {NoPage} : PushAt(i, p, f)
  <2>1. CASE OnStack(ref) /\ PushAt(FirstOf(ref), p, p)
    <3>1. FirstOf(ref) \in 1 .. Len(m_pages) + 1
      BY <1>1, <2>1, FirstOfFinds
    <3>2. QED
      BY <2>1, <3>1
  <2>2. CASE AddLast(p)
    BY <1>1, <2>2 DEF AddLast
  <2>3. QED
    BY <1>4, <2>1, <2>2 DEF AddBefore
<1>5. ASSUME NEW ref \in Pages, AddAfter(p, ref)
      PROVE  \E i \in 1 .. Len(m_pages) + 1, f \in Pages \cup {NoPage} : PushAt(i, p, f)
  <2>1. CASE OnStack(ref) /\ PushAt(FirstOf(ref) + 1, p, p)
    <3>1. FirstOf(ref) + 1 \in 1 .. Len(m_pages) + 1
      BY <1>1, <2>1, FirstOfFinds
    <3>2. QED
      BY <2>1, <3>1
  <2>2. CASE AddLast(p)
    BY <1>1, <2>2 DEF AddLast
  <2>3. QED
    BY <1>5, <2>1, <2>2 DEF AddAfter
<1>6. QED
  BY <1>2, <1>3, <1>4, <1>5 DEF Push

\* After a push the stack is a list of pages and not empty.
LEMMA PushLeavesList ==
  ASSUME NEW p \in Pages, m_pages \in Seq(Pages),
         NEW i \in 1 .. Len(m_pages) + 1, NEW f, PushAt(i, p, f)
  PROVE  m_pages' \in Seq(Pages) /\ m_pages' # <<>>
<1>1. Len(m_pages) \in Nat
  BY LenProperties
<1>2. m_pages' = InsertAt(m_pages, i, p)
  BY DEF PushAt
<1>3. m_pages' \in Seq(Pages) /\ Len(m_pages') = Len(m_pages) + 1
  BY <1>2, InsertKeepsList
<1>4. QED
  BY <1>1, <1>3, EmptySeq

\* PopPage takes one page of two or more.
LEMMA PopPageLeavesList ==
  ASSUME NEW p \in Pages, m_pages \in Seq(Pages), PopPage(p)
  PROVE  m_pages' \in Seq(Pages) /\ m_pages' # <<>>
<1>1. Len(m_pages) \in Nat /\ Len(m_pages) > 1
  BY LenProperties DEF PopPage
<1>2. CASE OnStack(p) /\ m_pages' = RemoveAt(m_pages, FirstOf(p))
  <2>1. FirstOf(p) \in 1 .. Len(m_pages)
    BY <1>2, FirstOfFinds
  <2>2. m_pages' \in Seq(Pages) /\ Len(m_pages') = Len(m_pages) - 1
    BY <1>2, <2>1, RemoveKeepsList
  <2>3. QED
    BY <1>1, <2>2, EmptySeq
<1>3. CASE UNCHANGED m_pages
  BY <1>1, <1>3, EmptySeq
<1>4. QED
  BY <1>2, <1>3 DEF PopPage

\* PopToPage keeps the page it pops to; if nothing is above it, nothing goes.
LEMMA PopToPageLeavesList ==
  ASSUME NEW p \in Pages, m_pages \in Seq(Pages), PopToPage(p)
  PROVE  /\ m_pages' \in Seq(Pages) /\ m_pages' # <<>>
         /\ SubSeq(m_pages, FirstOf(p) + 1, Len(m_pages)) \in Seq(Pages)
         /\ ~popTo' => ~popTo /\ m_pages' = m_pages
<1>1. FirstOf(p) \in 1 .. Len(m_pages) /\ Len(m_pages) \in Nat
  BY FirstOfFinds, LenProperties DEF PopToPage
<1> DEFINE i == FirstOf(p)
           gone == SubSeq(m_pages, i + 1, Len(m_pages))
<1>2. m_pages' = SubSeq(m_pages, 1, i) /\ popTo' = (popTo \/ gone # <<>>)
  BY DEF PopToPage
<1> HIDE DEF i
<1>3. /\ m_pages' \in Seq(Pages) /\ Len(m_pages') = i
      /\ gone \in Seq(Pages)
      /\ gone = <<>> => m_pages' = m_pages
  BY <1>1, <1>2, PrefixKeepsList DEF i
<1>4. m_pages' # <<>>
  BY <1>1, <1>3, EmptySeq DEF i
<1>5. QED
  BY <1>2, <1>3, <1>4 DEF i

-----------------------------------------------------------------------------
(* Type correctness.                                                        *)

\* Drawing what is on top of a list of pages keeps the types.
LEMMA ShowTypes ==
  ASSUME TypeOK, m_pages' \in Seq(Pages), m_pages' # <<>>, ShowIfRunning(m_pages')
  PROVE  screen' \in Pages \cup {NoPage} /\ outdated' \subseteq Pages /\ popTo' \in BOOLEAN
<1>1. CASE m_running
  <2>1. Len(m_pages') \in 1 .. Len(m_pages')
    BY EmptySeq, LenProperties
  <2>2. m_pages'[Len(m_pages')] \in Pages
    BY <2>1, ElementOfSeq
  <2>3. QED
    BY <1>1, <2>2 DEF TypeOK, ShowIfRunning, Show
<1>2. CASE ~m_running
  BY <1>2 DEF TypeOK, ShowIfRunning, drawVars
<1>3. QED
  BY <1>1, <1>2

LEMMA TypeStep == TypeOK /\ [Next]_vars => TypeOK'
<1> SUFFICES ASSUME TypeOK, [Next]_vars
             PROVE  TypeOK'
  OBVIOUS
<1> DEFINE Sig == SignalTypes \X (Pages \cup {NoPage})
<1>1. ASSUME NEW p \in Pages, Push(p)
      PROVE  TypeOK'
  <2>1. PICK i \in 1 .. Len(m_pages) + 1, f \in Pages \cup {NoPage} : PushAt(i, p, f)
    BY <1>1, PushInserts DEF TypeOK
  <2>2. m_pages' \in Seq(Pages) /\ m_pages' # <<>>
    BY <2>1, PushLeavesList DEF TypeOK
  <2>3. ShowIfRunning(m_pages')
    BY <2>1 DEF PushAt
  <2>4. screen' \in Pages \cup {NoPage} /\ outdated' \subseteq Pages /\ popTo' \in BOOLEAN
    BY <2>2, <2>3, ShowTypes
  <2>5. signals' \in Seq(Sig)
    BY <2>1 DEF PushAt, SignalTypes
  <2>6. UNCHANGED <<m_running, started, freshFlag, freshEvents, freshTimer>>
    BY <2>1 DEF PushAt, runVars, freshVars
  <2>7. QED
    BY <2>2, <2>4, <2>5, <2>6 DEF TypeOK
<1>2. ASSUME NEW p \in Pages, PopPage(p)
      PROVE  TypeOK'
  <2>1. m_pages' \in Seq(Pages) /\ m_pages' # <<>>
    BY <1>2, PopPageLeavesList DEF TypeOK
  <2>2. ShowIfRunning(m_pages')
    BY <1>2 DEF PopPage
  <2>3. screen' \in Pages \cup {NoPage} /\ outdated' \subseteq Pages /\ popTo' \in BOOLEAN
    BY <2>1, <2>2, ShowTypes
  <2>4. signals' \in Seq(Sig)
    <3>1. CASE signals' = <<<<"START_POP_OUT", p>>, <<"FINISHED_POP_OUT", p>>>>
      BY <3>1 DEF SignalTypes
    <3>2. CASE signals' = <<>>
      BY <3>2
    <3>3. QED
      BY <1>2, <3>1, <3>2 DEF PopPage
  <2>5. UNCHANGED <<m_running, started, freshFlag, freshEvents, freshTimer>>
    BY <1>2 DEF PopPage, runVars, freshVars
  <2>6. QED
    BY <2>1, <2>3, <2>4, <2>5 DEF TypeOK
<1>3. ASSUME NEW p \in Pages, PopOnlyPage(p)
      PROVE  TypeOK'
  BY <1>3 DEF TypeOK, PopOnlyPage, runVars, drawVars, freshVars
<1>4. ASSUME NEW p \in Pages, PopToPage(p)
      PROVE  TypeOK'
  <2> DEFINE gone == SubSeq(m_pages, FirstOf(p) + 1, Len(m_pages))
             before == [k \in 1 .. Len(gone) |-> <<"START_POP_OUT", gone[k]>>]
             after == [k \in 1 .. Len(gone) |-> <<"FINISHED_POP_OUT", gone[k]>>]
  <2>1. m_pages' \in Seq(Pages) /\ gone \in Seq(Pages)
    BY <1>4, PopToPageLeavesList DEF TypeOK
  <2>2. signals' = before \o after /\ popTo' = (popTo \/ gone # <<>>)
    BY <1>4 DEF PopToPage
  <2>3. UNCHANGED <<m_running, started, screen, outdated, freshFlag, freshEvents, freshTimer>>
    BY <1>4 DEF PopToPage, runVars, freshVars
  <2>4. before \in Seq(Sig) /\ after \in Seq(Sig)
    <3> HIDE DEF gone
    <3>1. Len(gone) \in Nat /\ \A k \in 1 .. Len(gone) : gone[k] \in Pages
      BY <2>1, LenProperties, ElementOfSeq
    <3>2. /\ \A k \in 1 .. Len(gone) : <<"START_POP_OUT", gone[k]>> \in Sig
          /\ \A k \in 1 .. Len(gone) : <<"FINISHED_POP_OUT", gone[k]>> \in Sig
      BY <3>1 DEF SignalTypes
    <3> HIDE DEF Sig
    <3>3. QED
      BY <3>1, <3>2, IsASeq
  <2> HIDE DEF Sig, before, after, gone
  <2>5. signals' \in Seq(Sig)
    BY <2>2, <2>4, ConcatProperties
  <2>6. popTo' \in BOOLEAN
    BY <2>2 DEF TypeOK
  <2>7. QED
    BY <2>1, <2>3, <2>5, <2>6 DEF TypeOK, Sig
<1>5. CASE RunStart
  <2>1. CASE m_pages = <<>>
    BY <1>5, <2>1 DEF TypeOK, RunStart, drawVars, freshVars
  <2>2. CASE m_pages # <<>>
    <3>1. Len(m_pages) \in 1 .. Len(m_pages)
      BY <2>2, EmptySeq, LenProperties DEF TypeOK
    <3>2. m_pages[Len(m_pages)] \in Pages
      BY <3>1, ElementOfSeq DEF TypeOK
    <3>3. QED
      BY <1>5, <2>2, <3>2 DEF TypeOK, RunStart, Show, freshVars
  <2>3. QED
    BY <2>1, <2>2
<1>6. CASE Quit
  BY <1>6 DEF TypeOK, Quit, drawVars, freshVars
<1>7. ASSUME NEW p \in Pages, ChangeAndFresh(p)
      PROVE  TypeOK'
  <2>1. CASE freshFlag[p]
    BY <1>7, <2>1 DEF TypeOK, ChangeAndFresh, runVars
  <2>2. CASE ~freshFlag[p]
    <3>1. freshEvents' \in Seq(Pages)
      <4>1. freshEvents' = Append(freshEvents, p)
        BY <1>7, <2>2 DEF ChangeAndFresh
      <4>2. freshEvents \in Seq(Pages)
        BY DEF TypeOK
      <4>3. QED
        BY <4>1, <4>2, AppendProperties
    <3>2. freshFlag' \in [Pages -> BOOLEAN]
      BY <1>7, <2>2 DEF TypeOK, ChangeAndFresh
    <3>3. QED
      BY <1>7, <3>1, <3>2 DEF TypeOK, ChangeAndFresh, runVars
  <2>3. QED
    BY <2>1, <2>2
<1>8. ASSUME NEW p \in Pages, ChangeAndFreshCombined(p)
      PROVE  TypeOK'
  BY <1>8 DEF TypeOK, ChangeAndFreshCombined, runVars
<1>9. ASSUME NEW p \in Pages, FreshIfTop(p), UNCHANGED m_pages
      PROVE  screen' \in Pages \cup {NoPage} /\ outdated' \subseteq Pages /\ popTo' \in BOOLEAN
  <2>1. CASE m_pages # <<>> /\ ShowIfRunning(m_pages)
    BY <1>9, <2>1, ShowTypes DEF TypeOK
  <2>2. CASE m_pages = <<>>
    BY <1>9, <2>2, NoPageAssumption DEF TypeOK, FreshIfTop, GetTopPage, drawVars
  <2>3. CASE UNCHANGED drawVars
    BY <2>3 DEF TypeOK, drawVars
  <2>4. QED
    BY <1>9, <2>1, <2>2, <2>3 DEF FreshIfTop
<1>10. CASE HandleFreshEvent
  <2>1. screen' \in Pages \cup {NoPage} /\ outdated' \subseteq Pages /\ popTo' \in BOOLEAN
    BY <1>9, <1>10, HeadTailProperties DEF TypeOK, HandleFreshEvent
  <2>2. freshEvents' \in Seq(Pages)
    BY <1>10, HeadTailProperties DEF TypeOK, HandleFreshEvent
  <2>3. freshFlag' \in [Pages -> BOOLEAN]
    BY <1>10 DEF TypeOK, HandleFreshEvent
  <2>4. QED
    BY <1>10, <2>1, <2>2, <2>3 DEF TypeOK, HandleFreshEvent, runVars
<1>11. ASSUME NEW p \in Pages, HandleFreshTimer(p)
       PROVE  TypeOK'
  <2>1. screen' \in Pages \cup {NoPage} /\ outdated' \subseteq Pages /\ popTo' \in BOOLEAN
    BY <1>9, <1>11 DEF HandleFreshTimer
  <2>2. QED
    BY <1>11, <2>1 DEF TypeOK, HandleFreshTimer, runVars
<1>12. CASE UNCHANGED vars
  BY <1>12 DEF TypeOK, vars, runVars, drawVars, freshVars
<1>13. QED
  BY <1>1, <1>2, <1>3, <1>4, <1>5, <1>6, <1>7, <1>8, <1>10, <1>11, <1>12
     DEF Next, Pop, Fresh

-----------------------------------------------------------------------------
(* The screen.                                                              *)

ScreenInv == ScreenShowsTop /\ ChangeIsDrawn

\* Drawing makes both conjuncts true, whatever they were before.
LEMMA ShowEstablishes ==
  ASSUME ShowIfRunning(m_pages'), m_pages' # <<>>, UNCHANGED m_running
  PROVE  ScreenInv'
BY DEF ShowIfRunning, Show, ScreenInv, ScreenShowsTop, ChangeIsDrawn, GetTopPage

LEMMA ScreenStep == TypeOK /\ ScreenInv /\ [Next]_vars => ScreenInv'
<1> SUFFICES ASSUME TypeOK, ScreenInv, [Next]_vars
             PROVE  ScreenInv'
  OBVIOUS
<1>1. ASSUME NEW p \in Pages, Push(p)
      PROVE  ScreenInv'
  <2>1. PICK i \in 1 .. Len(m_pages) + 1, f \in Pages \cup {NoPage} : PushAt(i, p, f)
    BY <1>1, PushInserts DEF TypeOK
  <2>2. m_pages' # <<>>
    BY <2>1, PushLeavesList DEF TypeOK
  <2>3. ShowIfRunning(m_pages') /\ UNCHANGED m_running
    BY <2>1 DEF PushAt, runVars
  <2>4. QED
    BY <2>2, <2>3, ShowEstablishes
<1>2. ASSUME NEW p \in Pages, PopPage(p)
      PROVE  ScreenInv'
  <2>1. m_pages' # <<>>
    BY <1>2, PopPageLeavesList DEF TypeOK
  <2>2. ShowIfRunning(m_pages') /\ UNCHANGED m_running
    BY <1>2 DEF PopPage, runVars
  <2>3. QED
    BY <2>1, <2>2, ShowEstablishes
<1>3. ASSUME NEW p \in Pages, PopToPage(p)
      PROVE  ScreenInv'
  <2>1. UNCHANGED <<m_running, screen, outdated, freshFlag, freshTimer>>
    BY <1>3 DEF PopToPage, runVars, freshVars
  <2>2. ~popTo' => ~popTo /\ m_pages' = m_pages
    BY <1>3, PopToPageLeavesList DEF TypeOK
  <2>3. CASE ~popTo'
    BY <2>1, <2>2, <2>3 DEF ScreenInv, ScreenShowsTop, ChangeIsDrawn, GetTopPage
  <2>4. CASE popTo'
    BY <2>4 DEF ScreenInv, ScreenShowsTop, ChangeIsDrawn
  <2>5. QED
    BY <2>3, <2>4
<1>4. CASE RunStart
  BY <1>4 DEF RunStart, Show, drawVars, ScreenInv, ScreenShowsTop, ChangeIsDrawn, GetTopPage
<1>5. CASE Quit
  BY <1>5 DEF Quit, ScreenInv, ScreenShowsTop, ChangeIsDrawn
\* Whoever asks twice has asked: the flag or the timer of p is set.
<1>6. ASSUME NEW p \in Pages, ChangeAndFresh(p)
      PROVE  ScreenInv'
  <2>1. UNCHANGED <<m_pages, m_running, screen, popTo, freshTimer>>
    BY <1>6 DEF ChangeAndFresh, runVars
  <2>2. /\ freshFlag'[p]
        /\ \A q \in Pages : freshFlag[q] => freshFlag'[q]
        /\ outdated' = outdated \cup {p}
    BY <1>6 DEF ChangeAndFresh, TypeOK
  <2>3. GetTopPage' = GetTopPage /\ (m_pages # <<>> => GetTopPage \in Pages)
    <3>1. m_pages # <<>> => Len(m_pages) \in 1 .. Len(m_pages)
      BY EmptySeq, LenProperties DEF TypeOK
    <3>2. QED
      BY <2>1, <3>1, ElementOfSeq DEF GetTopPage, TypeOK
  <2>4. QED
    BY <2>1, <2>2, <2>3 DEF ScreenInv, ScreenShowsTop, ChangeIsDrawn
<1>7. ASSUME NEW p \in Pages, ChangeAndFreshCombined(p)
      PROVE  ScreenInv'
  BY <1>7 DEF ChangeAndFreshCombined, runVars, ScreenInv, ScreenShowsTop, ChangeIsDrawn,
              GetTopPage
\* Taking the request of p back is safe: either p was drawn, or it is not on top.
<1>8. ASSUME NEW p \in Pages, FreshIfTop(p), UNCHANGED <<m_pages, m_running>>,
             \A q \in Pages \ {p} :
                 (freshFlag[q] \/ q \in freshTimer) => (freshFlag'[q] \/ q \in freshTimer')
      PROVE  ScreenInv'
  <2>1. CASE GetTopPage = p
    <3>1. m_pages' # <<>>
      BY <1>8, <2>1, NoPageAssumption DEF GetTopPage
    <3>2. ShowIfRunning(m_pages')
      BY <1>8, <2>1 DEF FreshIfTop, ShowIfRunning
    <3>3. QED
      BY <1>8, <3>1, <3>2, ShowEstablishes
  <2>2. CASE GetTopPage # p
    <3>1. UNCHANGED <<screen, outdated, popTo>>
      BY <1>8, <2>2 DEF FreshIfTop, drawVars
    <3>2. GetTopPage' = GetTopPage /\ (m_pages # <<>> => GetTopPage \in Pages \ {p})
      <4>1. m_pages # <<>> => Len(m_pages) \in 1 .. Len(m_pages)
        BY EmptySeq, LenProperties DEF TypeOK
      <4>2. QED
        BY <1>8, <2>2, <4>1, ElementOfSeq DEF GetTopPage, TypeOK
    <3>3. QED
      BY <1>8, <3>1, <3>2 DEF ScreenInv, ScreenShowsTop, ChangeIsDrawn
  <2>3. QED
    BY <2>1, <2>2
<1>9. CASE HandleFreshEvent
  <2>1. Head(freshEvents) \in Pages
    BY <1>9, HeadTailProperties DEF TypeOK, HandleFreshEvent
  <2>2. \A q \in Pages \ {Head(freshEvents)} :
            (freshFlag[q] \/ q \in freshTimer) => (freshFlag'[q] \/ q \in freshTimer')
    BY <1>9 DEF TypeOK, HandleFreshEvent
  <2>3. FreshIfTop(Head(freshEvents)) /\ UNCHANGED <<m_pages, m_running>>
    BY <1>9 DEF HandleFreshEvent, runVars
  <2>4. QED
    BY <1>8, <2>1, <2>2, <2>3
<1>10. ASSUME NEW p \in Pages, HandleFreshTimer(p)
       PROVE  ScreenInv'
  <2>1. \A q \in Pages \ {p} :
            (freshFlag[q] \/ q \in freshTimer) => (freshFlag'[q] \/ q \in freshTimer')
    BY <1>10 DEF HandleFreshTimer
  <2>2. FreshIfTop(p) /\ UNCHANGED <<m_pages, m_running>>
    BY <1>10 DEF HandleFreshTimer, runVars
  <2>3. QED
    BY <1>8, <2>1, <2>2
<1>11. ASSUME UNCHANGED <<m_pages, m_running, screen, outdated, popTo, freshFlag, freshTimer>>
       PROVE  ScreenInv'
  BY <1>11 DEF ScreenInv, ScreenShowsTop, ChangeIsDrawn, GetTopPage
<1>12. ASSUME NEW p \in Pages, PopOnlyPage(p)
       PROVE  ScreenInv'
  BY <1>11, <1>12 DEF PopOnlyPage, runVars, drawVars, freshVars
<1>13. CASE UNCHANGED vars
  BY <1>11, <1>13 DEF vars, runVars, drawVars, freshVars
<1>14. QED
  BY <1>1, <1>2, <1>3, <1>4, <1>5, <1>6, <1>7, <1>9, <1>10, <1>12, <1>13
     DEF Next, Pop, Fresh

\* Nobody empties the stack.
LEMMA PagesStay ==
  TypeOK /\ [Next]_vars => (m_pages # <<>> => m_pages' # <<>>)
<1> SUFFICES ASSUME TypeOK, [Next]_vars, m_pages # <<>>
             PROVE  m_pages' # <<>>
  OBVIOUS
<1>1. ASSUME NEW p \in Pages, Push(p)
      PROVE  m_pages' # <<>>
  BY <1>1, PushInserts, PushLeavesList DEF TypeOK
<1>2. ASSUME NEW p \in Pages, Pop(p)
      PROVE  m_pages' # <<>>
  BY <1>2, PopPageLeavesList, PopToPageLeavesList DEF TypeOK, Pop, PopOnlyPage
<1>3. ASSUME UNCHANGED m_pages
      PROVE  m_pages' # <<>>
  BY <1>3
<1>4. ASSUME NEW p \in Pages, Fresh(p)
      PROVE  m_pages' # <<>>
  BY <1>3, <1>4 DEF Fresh, ChangeAndFresh, ChangeAndFreshCombined, HandleFreshTimer
<1>5. CASE RunStart \/ Quit \/ HandleFreshEvent \/ UNCHANGED vars
  BY <1>3, <1>5 DEF RunStart, Quit, HandleFreshEvent, vars
<1>6. QED
  BY <1>1, <1>2, <1>4, <1>5 DEF Next

-----------------------------------------------------------------------------
(* Announcements.  The copies of a page are counted by place, so the counts *)
(* of two parts of a list add up.                                           *)

LEMMA CopiesAreCounted ==
  ASSUME NEW S, NEW s \in Seq(S), NEW e
  PROVE  /\ CopiesOf(e, s) = CountIn({e}, s)
         /\ CopiesOf(e, s) \in Nat
<1>1. {i \in DOMAIN s : s[i] = e} = {i \in 1 .. Len(s) : s[i] \in {e}}
  BY LenProperties
<1>2. CountIn({e}, s) = Cardinality({i \in 1 .. Len(s) : s[i] \in {e}}) /\ CountIn({e}, s) \in Nat
  BY CountsAreNumbers
<1>3. CopiesOf(e, s) = Cardinality({i \in DOMAIN s : s[i] = e})
  BY DEF CopiesOf
<1>4. QED
  BY <1>1, <1>2, <1>3

LEMMA CopiesAddUp ==
  ASSUME NEW S, NEW s \in Seq(S), NEW t \in Seq(S), NEW e
  PROVE  CopiesOf(e, s \o t) = CopiesOf(e, s) + CopiesOf(e, t)
<1>1. s \o t \in Seq(S)
  BY ConcatProperties
<1>2. CountIn({e}, s \o t) = CountIn({e}, s) + CountIn({e}, t)
  BY CountsAddUp
<1>3. /\ CopiesOf(e, s) = CountIn({e}, s) /\ CopiesOf(e, t) = CountIn({e}, t)
      /\ CopiesOf(e, s \o t) = CountIn({e}, s \o t)
  BY <1>1, CopiesAreCounted
<1>4. QED
  BY <1>2, <1>3

LEMMA CopiesOfOne ==
  ASSUME NEW S, NEW x \in S, NEW e
  PROVE  CopiesOf(e, <<x>>) = IF x = e THEN 1 ELSE 0
<1> DEFINE T == {i \in {1} : x = e}
<1>1. {i \in DOMAIN <<x>> : <<x>>[i] = e} = T
  OBVIOUS
<1>2. CopiesOf(e, <<x>>) = Cardinality(T)
  BY <1>1 DEF CopiesOf
<1>3. x = e => T = {1}
  OBVIOUS
<1>4. x # e => T = {}
  OBVIOUS
<1> HIDE DEF T
<1>5. QED
  BY <1>2, <1>3, <1>4, FS_Singleton, FS_EmptySet

LEMMA CopiesOfNone ==
  ASSUME NEW e
  PROVE  CopiesOf(e, <<>>) = 0
<1>1. {i \in DOMAIN <<>> : <<>>[i] = e} = {}
  OBVIOUS
<1>2. QED
  BY <1>1, FS_EmptySet DEF CopiesOf

\* Erasing one place of the list takes one copy of the page there.
LEMMA RemoveTakesOneCopy ==
  ASSUME NEW S, NEW s \in Seq(S), NEW k \in 1 .. Len(s), NEW e
  PROVE  CopiesOf(e, s) - CopiesOf(e, RemoveAt(s, k)) = IF s[k] = e THEN 1 ELSE 0
<1> DEFINE n == Len(s)
           a == SubSeq(s, 1, k - 1)
           b == SubSeq(s, k + 1, n)
           one == <<s[k]>>
           x == s[k]
<1>1. n \in Nat /\ \A i \in 1 .. n : s[i] \in S
  BY LenProperties, ElementOfSeq
<1>2. a \in Seq(S) /\ Len(a) = k - 1 /\ \A i \in 1 .. k - 1 : a[i] = s[i]
  BY <1>1, SubSeqProperties
<1>3. b \in Seq(S) /\ Len(b) = n - k /\ \A i \in 1 .. n - k : b[i] = s[k + i]
  <2>1. \A i \in k + 1 .. n : s[i] \in S
    BY <1>1
  <2>2. /\ b \in Seq(S) /\ Len(b) = IF k + 1 <= n THEN n - (k + 1) + 1 ELSE 0
        /\ \A i \in 1 .. n - (k + 1) + 1 : b[i] = s[(k + 1) + i - 1]
    BY <1>1, <2>1, SubSeqProperties
  <2>3. n - (k + 1) + 1 = n - k /\ (~(k + 1 <= n) => n - k = 0)
        /\ \A i \in 1 .. n - k : (k + 1) + i - 1 = k + i
    BY <1>1
  <2> HIDE DEF b
  <2>4. QED
    BY <2>2, <2>3
<1>4. x \in S
  BY <1>1
<1>5. one \in Seq(S) /\ Len(one) = 1 /\ one[1] = x
  <2> HIDE DEF x
  <2>1. one = <<x>>
    BY DEF x
  <2> HIDE DEF one
  <2>2. QED
    BY <1>4, <2>1
<1>6. CopiesOf(e, one) = IF x = e THEN 1 ELSE 0
  <2> HIDE DEF x
  <2>1. one = <<x>>
    BY DEF x
  <2> HIDE DEF one
  <2>2. QED
    BY <1>4, <2>1, CopiesOfOne
<1> HIDE DEF a, b, one
<1>7. RemoveAt(s, k) = a \o b
  BY DEF RemoveAt, a, b
<1>8. a \o one \in Seq(S) /\ Len(a \o one) = k
      /\ \A i \in 1 .. k : (a \o one)[i] = s[i]
  <2>1. /\ a \o one \in Seq(S) /\ Len(a \o one) = Len(a) + Len(one)
        /\ \A i \in 1 .. Len(a) + Len(one) :
              (a \o one)[i] = IF i <= Len(a) THEN a[i] ELSE one[i - Len(a)]
    BY <1>2, <1>5, ConcatProperties
  <2>2. k \in 1 .. k /\ Len(a) + Len(one) = k
        /\ \A i \in 1 .. k : (i \in 1 .. k - 1 /\ i <= Len(a)) \/ (i = k /\ ~(i <= Len(a)) /\ i - Len(a) = 1)
    BY <1>1, <1>2, <1>5
  <2>3. \A i \in 1 .. k : (a \o one)[i] = s[i]
    <3> SUFFICES ASSUME NEW i \in 1 .. k
                 PROVE  (a \o one)[i] = s[i]
      OBVIOUS
    <3>1. (a \o one)[i] = IF i <= Len(a) THEN a[i] ELSE one[i - Len(a)]
      BY <2>1, <2>2
    <3>2. QED
      BY <1>2, <1>5, <2>2, <3>1
  <2>4. QED
    BY <2>1, <2>2, <2>3
<1> DEFINE c == a \o one
<1>15. c \in Seq(S) /\ Len(c) = k /\ \A i \in 1 .. k : c[i] = s[i]
  BY <1>8
<1> HIDE DEF c
<1>9. c \o b = s
  <2>1. /\ c \o b \in Seq(S) /\ Len(c \o b) = Len(c) + Len(b)
        /\ \A i \in 1 .. Len(c) + Len(b) :
              (c \o b)[i] = IF i <= Len(c) THEN c[i] ELSE b[i - Len(c)]
    BY <1>3, <1>15, ConcatProperties
  <2>2. Len(c) = k /\ Len(c) + Len(b) = n
    BY <1>1, <1>3, <1>15
  <2>3. \A i \in 1 .. n : (i \in 1 .. k /\ i <= k) \/ (i - k \in 1 .. n - k /\ ~(i <= k) /\ k + (i - k) = i)
    BY <1>1
  <2>4. \A i \in 1 .. n : (c \o b)[i] = s[i]
    <3> SUFFICES ASSUME NEW i \in 1 .. n
                 PROVE  (c \o b)[i] = s[i]
      OBVIOUS
    <3>1. (c \o b)[i] = IF i <= k THEN c[i] ELSE b[i - k]
      BY <2>1, <2>2
    <3>2. QED
      BY <1>3, <1>15, <2>3, <3>1
  <2>5. Len(c \o b) = Len(s)
    BY <2>1, <2>2
  <2> DEFINE d == c \o b
  <2>6. d \in Seq(S) /\ Len(d) = Len(s) /\ \A i \in 1 .. Len(d) : d[i] = s[i]
    BY <2>1, <2>4, <2>5
  <2> HIDE DEF d
  <2>7. d = s
    BY <2>6, SeqEqual
  <2>8. QED
    BY <2>7 DEF d
<1>10. CopiesOf(e, a \o b) = CopiesOf(e, a) + CopiesOf(e, b)
  BY <1>2, <1>3, CopiesAddUp
<1>11. CopiesOf(e, c) = CopiesOf(e, a) + CopiesOf(e, one)
  BY <1>2, <1>5, CopiesAddUp DEF c
<1>12. CopiesOf(e, c \o b) = CopiesOf(e, c) + CopiesOf(e, b)
  BY <1>3, <1>15, CopiesAddUp
<1>13. CopiesOf(e, a) \in Nat /\ CopiesOf(e, b) \in Nat
  BY <1>2, <1>3, CopiesAreCounted
<1> HIDE DEF x
<1>14. QED
  BY <1>6, <1>7, <1>9, <1>10, <1>11, <1>12, <1>13 DEF x

\* A list of pages announced one by one under one type.
LEMMA AnnouncedOneByOne ==
  ASSUME NEW g \in Seq(Pages), NEW type \in SignalTypes, NEW other \in SignalTypes, NEW p
  PROVE  LET h == [k \in 1 .. Len(g) |-> <<type, g[k]>>]
         IN  /\ h \in Seq(SignalTypes \X (Pages \cup {NoPage}))
             /\ CopiesOf(<<other, p>>, h) = IF other = type THEN CopiesOf(p, g) ELSE 0
<1> DEFINE n == Len(g)
           h == [k \in 1 .. n |-> <<type, g[k]>>]
           Sig == SignalTypes \X (Pages \cup {NoPage})
<1>1. n \in Nat /\ DOMAIN g = 1 .. n /\ \A k \in 1 .. n : g[k] \in Pages
  BY LenProperties, ElementOfSeq
<1>2. h \in [1 .. n -> Sig]
  BY <1>1
<1>3. h \in Seq(Sig)
  <2> HIDE DEF h, Sig, n
  <2>1. QED
    BY <1>1, <1>2, FunctionIsList
<1>4. \A k \in 1 .. n : h[k] = <<other, p>> <=> other = type /\ g[k] = p
  BY <1>1
<1>5. DOMAIN h = 1 .. n
  OBVIOUS
<1> HIDE DEF h, n
<1>6. {k \in DOMAIN h : h[k] = <<other, p>>} = IF other = type THEN {k \in 1 .. n : g[k] = p} ELSE {}
  BY <1>4, <1>5
<1>7. CopiesOf(<<other, p>>, h) = IF other = type THEN CopiesOf(p, g) ELSE 0
  BY <1>1, <1>6, FS_EmptySet DEF CopiesOf
<1>8. QED
  BY <1>3, <1>7 DEF h, n

\* What one operation leaves of the pages, and what it announces.
Announced(old, new, sig) ==
    \A q \in Pages :
        /\ CopiesOf(q, old) - CopiesOf(q, new) = CopiesOf(<<"FINISHED_POP_OUT", q>>, sig)
        /\ CopiesOf(<<"START_POP_OUT", q>>, sig) = CopiesOf(<<"FINISHED_POP_OUT", q>>, sig)

LEMMA NothingAnnounced ==
  ASSUME m_pages \in Seq(Pages)
  PROVE  Announced(m_pages, m_pages, <<>>)
<1>1. \A q : CopiesOf(q, m_pages) \in Nat
  BY CopiesAreCounted
<1>2. \A q : CopiesOf(q, m_pages) - CopiesOf(q, m_pages) = 0
  BY <1>1
<1>3. QED
  BY <1>2, CopiesOfNone DEF Announced

LEMMA PopAnnounces ==
  ASSUME NEW p \in Pages, m_pages \in Seq(Pages), PopPage(p)
  PROVE  Announced(m_pages, m_pages', signals')
<1>1. CASE ~OnStack(p)
  <2>1. m_pages' = m_pages /\ signals' = <<>>
    BY <1>1 DEF PopPage
  <2>2. QED
    BY <2>1, NothingAnnounced
<1>2. CASE OnStack(p)
  <2> DEFINE k == FirstOf(p)
             x == <<"START_POP_OUT", p>>
             y == <<"FINISHED_POP_OUT", p>>
             Sig == SignalTypes \X (Pages \cup {NoPage})
  <2>1. k \in 1 .. Len(m_pages) /\ m_pages[k] = p
    BY <1>2, FirstOfFinds
  <2>2. m_pages' = RemoveAt(m_pages, k) /\ signals' = <<x, y>>
    BY <1>2 DEF PopPage
  <2>3. x \in Sig /\ y \in Sig
    BY DEF SignalTypes
  <2>4. \A q \in Pages : /\ (x = <<"START_POP_OUT", q>>) <=> p = q
                         /\ (y = <<"FINISHED_POP_OUT", q>>) <=> p = q
                         /\ x # <<"FINISHED_POP_OUT", q>> /\ y # <<"START_POP_OUT", q>>
    OBVIOUS
  <2> HIDE DEF x, y, Sig, k
  <2>12. <<x>> \in Seq(Sig) /\ <<y>> \in Seq(Sig)
    BY <2>3
  <2>13. Append(<<x>>, y) = <<x>> \o <<y>>
    BY <2>3, <2>12, AppendIsConcat
  <2>14. Append(<<x>>, y) = <<x, y>>
    <3> DEFINE u == <<x>>
               w == <<x, y>>
    <3>1. u \in Seq(Sig) /\ Len(u) = 1 /\ u[1] = x
      BY <2>3
    <3>2. w \in Seq(Sig) /\ Len(w) = 2 /\ w[1] = x /\ w[2] = y
      BY <2>3
    <3> HIDE DEF u, w
    <3> DEFINE v == Append(u, y)
    <3>3. v \in Seq(Sig) /\ Len(v) = 2 /\ v[1] = x /\ v[2] = y
      <4>1. Append(u, y) \in Seq(Sig) /\ Len(Append(u, y)) = Len(u) + 1
        BY <2>3, <3>1, AppendProperties
      <4>2. Append(u, y)[Len(u) + 1] = y
        BY <2>3, <3>1, AppendProperties
      <4>3. \A i \in 1 .. Len(u) : Append(u, y)[i] = u[i]
        BY <2>3, <3>1, AppendProperties
      <4>4. Len(u) + 1 = 2 /\ 1 \in 1 .. Len(u)
        BY <3>1
      <4>5. Append(u, y)[1] = x
        BY <3>1, <4>3, <4>4
      <4> HIDE DEF v
      <4>6. QED
        BY <4>1, <4>2, <4>4, <4>5 DEF v
    <3> HIDE DEF v
    <3>4. v = w
      <4>1. \A i \in 1 .. 2 : i = 1 \/ i = 2
        OBVIOUS
      <4>2. Len(v) = Len(w) /\ \A i \in 1 .. Len(v) : v[i] = w[i]
        BY <3>2, <3>3, <4>1
      <4>3. QED
        BY <3>2, <3>3, <4>2, SeqEqual
    <3>5. QED
      BY <3>4 DEF u, v, w
  <2>5. <<x>> \in Seq(Sig) /\ <<y>> \in Seq(Sig) /\ <<x, y>> = <<x>> \o <<y>>
    BY <2>12, <2>13, <2>14
  <2>6. \A e : CopiesOf(e, <<x>> \o <<y>>) = CopiesOf(e, <<x>>) + CopiesOf(e, <<y>>)
    BY <2>5, CopiesAddUp
  <2>7. \A e : /\ CopiesOf(e, <<x>>) = IF x = e THEN 1 ELSE 0
               /\ CopiesOf(e, <<y>>) = IF y = e THEN 1 ELSE 0
    BY <2>3, CopiesOfOne
  <2>8. \A e : CopiesOf(e, signals') = (IF x = e THEN 1 ELSE 0) + (IF y = e THEN 1 ELSE 0)
    BY <2>2, <2>5, <2>6, <2>7
  <2>9. ASSUME NEW q \in Pages
        PROVE  /\ CopiesOf(<<"START_POP_OUT", q>>, signals') = IF p = q THEN 1 ELSE 0
               /\ CopiesOf(<<"FINISHED_POP_OUT", q>>, signals') = IF p = q THEN 1 ELSE 0
    BY <2>4, <2>8
  <2>10. \A q \in Pages : CopiesOf(q, m_pages) - CopiesOf(q, m_pages') = IF p = q THEN 1 ELSE 0
    BY <2>1, <2>2, RemoveTakesOneCopy
  <2>11. QED
    BY <2>9, <2>10 DEF Announced
<1>3. QED
  BY <1>1, <1>2

LEMMA PopToAnnounces ==
  ASSUME NEW p \in Pages, m_pages \in Seq(Pages), PopToPage(p)
  PROVE  Announced(m_pages, m_pages', signals')
<1> DEFINE k == FirstOf(p)
           n == Len(m_pages)
           rest == SubSeq(m_pages, 1, k)
           gone == SubSeq(m_pages, k + 1, n)
           x == [i \in 1 .. Len(gone) |-> <<"START_POP_OUT", gone[i]>>]
           y == [i \in 1 .. Len(gone) |-> <<"FINISHED_POP_OUT", gone[i]>>]
           Sig == SignalTypes \X (Pages \cup {NoPage})
<1>1. k \in 1 .. n /\ n \in Nat
  BY FirstOfFinds, LenProperties DEF PopToPage
<1>2. m_pages' = rest /\ signals' = x \o y
  BY DEF PopToPage
<1>3. rest \in Seq(Pages) /\ gone \in Seq(Pages)
  BY <1>1, PrefixKeepsList
<1>4. m_pages = rest \o gone
  <2>1. \A i \in 1 .. n : m_pages[i] \in Pages
    BY ElementOfSeq
  <2>2. Len(rest) = k /\ \A i \in 1 .. k : rest[i] = m_pages[i]
    BY <1>1, <2>1, SubSeqProperties
  <2>3. Len(gone) = n - k /\ \A i \in 1 .. n - k : gone[i] = m_pages[k + i]
    <3>1. \A i \in k + 1 .. n : m_pages[i] \in Pages
      BY <1>1, <2>1
    <3>2. /\ Len(gone) = IF k + 1 <= n THEN n - (k + 1) + 1 ELSE 0
          /\ \A i \in 1 .. n - (k + 1) + 1 : gone[i] = m_pages[(k + 1) + i - 1]
      BY <1>1, <3>1, SubSeqProperties
    <3>3. n - (k + 1) + 1 = n - k /\ (~(k + 1 <= n) => n - k = 0)
          /\ \A i \in 1 .. n - k : (k + 1) + i - 1 = k + i
      BY <1>1
    <3> HIDE DEF gone
    <3>4. QED
      BY <3>2, <3>3
  <2> HIDE DEF rest, gone
  <2> DEFINE d == rest \o gone
  <2>4. /\ d \in Seq(Pages) /\ Len(d) = Len(rest) + Len(gone)
        /\ \A i \in 1 .. Len(rest) + Len(gone) :
              d[i] = IF i <= Len(rest) THEN rest[i] ELSE gone[i - Len(rest)]
    BY <1>3, ConcatProperties
  <2> HIDE DEF d
  <2>5. Len(rest) + Len(gone) = n
    BY <1>1, <2>2, <2>3
  <2>6. \A i \in 1 .. n : (i \in 1 .. k /\ i <= k) \/ (i - k \in 1 .. n - k /\ ~(i <= k) /\ k + (i - k) = i)
    BY <1>1
  <2>7. \A i \in 1 .. n : d[i] = m_pages[i]
    <3> SUFFICES ASSUME NEW i \in 1 .. n
                 PROVE  d[i] = m_pages[i]
      OBVIOUS
    <3>1. d[i] = IF i <= k THEN rest[i] ELSE gone[i - k]
      BY <2>2, <2>4, <2>5
    <3>2. QED
      BY <2>2, <2>3, <2>6, <3>1
  <2>8. d = m_pages
    BY <2>4, <2>5, <2>7, SeqEqual
  <2>9. QED
    BY <2>8 DEF d
<1> HIDE DEF rest, gone, k, n, x, y
<1>5. \A q : CopiesOf(q, m_pages) = CopiesOf(q, rest) + CopiesOf(q, gone)
  BY <1>3, <1>4, CopiesAddUp
<1>6. "START_POP_OUT" \in SignalTypes /\ "FINISHED_POP_OUT" \in SignalTypes
      /\ "START_POP_OUT" # "FINISHED_POP_OUT"
  BY DEF SignalTypes
<1>7. ASSUME NEW q
      PROVE  /\ x \in Seq(Sig) /\ y \in Seq(Sig)
             /\ CopiesOf(<<"START_POP_OUT", q>>, x) = CopiesOf(q, gone)
             /\ CopiesOf(<<"START_POP_OUT", q>>, y) = 0
             /\ CopiesOf(<<"FINISHED_POP_OUT", q>>, x) = 0
             /\ CopiesOf(<<"FINISHED_POP_OUT", q>>, y) = CopiesOf(q, gone)
  BY <1>3, <1>6, AnnouncedOneByOne DEF x, y
<1>8. ASSUME NEW q, NEW e
      PROVE  CopiesOf(e, x \o y) = CopiesOf(e, x) + CopiesOf(e, y)
  <2> HIDE DEF Sig
  <2>1. QED
    BY <1>7, CopiesAddUp
<1>9. \A q : CopiesOf(q, gone) \in Nat /\ CopiesOf(q, rest) \in Nat
  BY <1>3, CopiesAreCounted
<1>10. ASSUME NEW q \in Pages
       PROVE  /\ CopiesOf(<<"START_POP_OUT", q>>, x \o y) = CopiesOf(q, gone)
              /\ CopiesOf(<<"FINISHED_POP_OUT", q>>, x \o y) = CopiesOf(q, gone)
  BY <1>7, <1>8, <1>9
<1>11. \A q \in Pages : CopiesOf(q, m_pages) - CopiesOf(q, rest) = CopiesOf(q, gone)
  BY <1>5, <1>9
<1>12. Announced(m_pages, rest, x \o y)
  BY <1>10, <1>11 DEF Announced
<1>13. QED
  BY <1>2, <1>12

LEMMA PopsStep ==
  ASSUME TypeOK, [Next]_vars, signals' # signals, Len(m_pages') <= Len(m_pages)
  PROVE  Announced(m_pages, m_pages', signals')
<1>0. m_pages \in Seq(Pages) /\ Len(m_pages) \in Nat
  BY LenProperties DEF TypeOK
<1>1. ASSUME NEW p \in Pages, Push(p)
      PROVE  FALSE
  <2>1. PICK i \in 1 .. Len(m_pages) + 1, f \in Pages \cup {NoPage} : PushAt(i, p, f)
    BY <1>0, <1>1, PushInserts
  <2>2. m_pages' = InsertAt(m_pages, i, p)
    BY <2>1 DEF PushAt
  <2>3. Len(InsertAt(m_pages, i, p)) = Len(m_pages) + 1
    BY <1>0, InsertKeepsList
  <2>4. QED
    BY <1>0, <2>2, <2>3
<1>2. ASSUME NEW p \in Pages, Pop(p)
      PROVE  Announced(m_pages, m_pages', signals')
  <2>1. CASE PopPage(p)
    BY <1>0, <2>1, PopAnnounces
  <2>2. CASE PopToPage(p)
    BY <1>0, <2>2, PopToAnnounces
  <2>3. CASE PopOnlyPage(p)
    <3>1. m_pages' = m_pages /\ signals' = <<>>
      BY <2>3 DEF PopOnlyPage
    <3>2. QED
      BY <1>0, <3>1, NothingAnnounced
  <2>4. QED
    BY <1>2, <2>1, <2>2, <2>3 DEF Pop
<1>3. ASSUME NEW p \in Pages, Fresh(p)
      PROVE  FALSE
  BY <1>3 DEF Fresh, ChangeAndFresh, ChangeAndFreshCombined, HandleFreshTimer
<1>4. CASE RunStart \/ Quit \/ HandleFreshEvent \/ UNCHANGED vars
  BY <1>4 DEF RunStart, Quit, HandleFreshEvent, vars
<1>5. QED
  BY <1>1, <1>2, <1>3, <1>4 DEF Next

-----------------------------------------------------------------------------
LEMMA InitHolds == Init => TypeOK /\ ScreenInv
<1> SUFFICES ASSUME Init
             PROVE  TypeOK /\ ScreenInv
  OBVIOUS
<1>1. m_pages \in Seq(Pages) /\ freshEvents \in Seq(Pages)
  BY DEF Init
<1>2. signals \in Seq(SignalTypes \X (Pages \cup {NoPage}))
  BY EmptySeq DEF Init
<1>3. QED
  BY <1>1, <1>2 DEF Init, TypeOK, ScreenInv, ScreenShowsTop, ChangeIsDrawn

\* The variables have their types, whatever the pages do.
THEOREM TypeCorrect == Spec => []TypeOK
BY InitHolds, TypeStep, PTL DEF Spec

LEMMA ScreenInvHolds == Spec => []ScreenInv
<1>1. Spec => []TypeOK
  BY TypeCorrect
<1>2. QED
  BY <1>1, InitHolds, ScreenStep, PTL DEF Spec

\* What PushPage, PopPage and run leave on the screen is the top page
\* (src/Zhen/PageManager.cpp:232-346).
THEOREM ScreenIsTop == Spec => []ScreenShowsTop
<1>1. ScreenInv => ScreenShowsTop
  BY DEF ScreenInv
<1>2. QED
  BY <1>1, ScreenInvHolds, PTL

\* PageNeedFresh never swallows the last request
\* (src/Zhen/BasePage.cpp:118-165).
THEOREM ChangeIsAskedFor == Spec => []ChangeIsDrawn
<1>1. ScreenInv => ChangeIsDrawn
  BY DEF ScreenInv
<1>2. QED
  BY <1>1, ScreenInvHolds, PTL

\* Nobody pops the last page (src/Zhen/PageManager.cpp:298-337).
THEOREM PagesNeverRunOut == Spec => NeverEmptied
<1>1. TypeOK /\ [Next]_vars => [m_pages # <<>> => m_pages' # <<>>]_vars
  BY PagesStay
<1>2. QED
  BY <1>1, TypeCorrect, PTL DEF Spec, NeverEmptied

\* A page leaves the stack as often as its leaving is announced, before and
\* after, also when it is on the stack more than once
\* (src/Zhen/PageManager.cpp:298-346).
THEOREM PopsAreAnnounced == Spec => PopsAnnounced
<1>1. TypeOK /\ [Next]_vars =>
        [signals' # signals /\ Len(m_pages') <= Len(m_pages) =>
           \A p \in Pages :
              /\ CopiesOf(p, m_pages) - CopiesOf(p, m_pages')
                    = CopiesOf(<<"FINISHED_POP_OUT", p>>, signals')
              /\ CopiesOf(<<"START_POP_OUT", p>>, signals')
                    = CopiesOf(<<"FINISHED_POP_OUT", p>>, signals')]_vars
  BY PopsStep DEF Announced
<1>2. QED
  BY <1>1, TypeCorrect, PTL DEF Spec, PopsAnnounced
=============================================================================
