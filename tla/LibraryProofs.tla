--------------------------- MODULE LibraryProofs ---------------------------
(***************************************************************************)
(* What holds of the small parts of the library Zhen and of the state       *)
(* machine for every value of their constants: the dialog, the numbered     *)
(* options, the keyboard reader; the messages of the machine and its active *)
(* states; the menus, and the texts of the values.                          *)
(***************************************************************************)
EXTENDS MCLibrary,
        SequenceLemmas, FiniteSetTheorems

-----------------------------------------------------------------------------
(* The dialog.  An open dialog is a question nobody has answered, and what   *)
(* is left of its countdown makes up the time the user was promised.         *)

DialogInv ==
    /\ m_pages = <<home>> \/ m_pages = <<home, confirm>>
    /\ m_pages = <<home, confirm>> => m_enable /\ timeoutTimer
    /\ m_enable => answers = <<>>
    /\ Len(answers) <= 1

CountdownInv ==
    m_enable /\ timeoutTimer =>
        \/ sinceOpen = MaxTime
        \/ sinceOpen + nextTick + m_countdown * Second >= Second * Timeout

DialogIInv == TypeOK /\ DialogInv /\ CountdownInv

LEMMA TwoPages ==
  /\ Len(<<home>>) = 1 /\ <<home>>[1] = home
  /\ Len(<<home, confirm>>) = 2
  /\ <<home, confirm>>[1] = home /\ <<home, confirm>>[2] = confirm
  /\ <<home>> \in Seq({home, confirm}) /\ <<home, confirm>> \in Seq({home, confirm})
  /\ <<home>> # <<home, confirm>>
OBVIOUS

\* Popping the dialog leaves its owner, popping the owner alone nothing changes.
LEMMA PopLeavesHome ==
  ASSUME NEW p \in {home, confirm}, DialogInv, PopPage(p), p = GetTopPage \/ p = confirm
  PROVE  m_pages' = <<home>>
<1> USE TwoPages, PagesAssumption
<1>1. CASE m_pages = <<home>>
  BY <1>1 DEF PopPage
<1>2. CASE m_pages = <<home, confirm>>
  <2> DEFINE s == <<home, confirm>>
             i == CHOOSE i \in DOMAIN s : s[i] = p /\ \A j \in DOMAIN s : s[j] = p => i <= j
             r == RemoveAt(s, 2)
  <2>1. p = confirm /\ DOMAIN s = 1 .. 2
    BY <1>2 DEF GetTopPage
  <2>2. \A j \in 1 .. 2 : s[j] = confirm <=> j = 2
    OBVIOUS
  <2>3. i = 2
    BY <2>1, <2>2
  <2>4. m_pages' = RemoveAt(s, 2)
    <3>1. OnStack(p)
      BY <1>2, <2>1 DEF OnStack
    <3>2. QED
      BY <1>2, <2>3, <3>1 DEF PopPage
  <2>5. r \in Seq({home, confirm}) /\ Len(r) = 1 /\ r[1] = home
    <3>1. s \in Seq({home, confirm}) /\ Len(s) = 2 /\ s[1] = home
      OBVIOUS
    <3> HIDE DEF s
    <3>2. 2 \in 1 .. Len(s)
      BY <3>1
    <3>3. /\ RemoveAt(s, 2) \in Seq({home, confirm}) /\ Len(RemoveAt(s, 2)) = Len(s) - 1
          /\ \A j \in 1 .. Len(s) - 1 :
                RemoveAt(s, 2)[j] = IF j < 2 THEN s[j] ELSE s[j + 1]
      BY <3>1, <3>2, RemoveKeepsList
    <3>4. 1 \in 1 .. Len(s) - 1 /\ Len(s) - 1 = 1
      BY <3>1
    <3>5. QED
      BY <3>1, <3>3, <3>4
  <2>6. r = <<home>>
    <3> HIDE DEF r
    <3>1. QED
      BY <2>5, SeqEqual
  <2>7. QED
    BY <2>4, <2>6
<1>3. QED
  BY <1>1, <1>2 DEF DialogInv

LEMMA SomeTime ==
  /\ Second \in Nat /\ Timeout \in Nat /\ Second # 0 /\ MaxTime \in Nat
  /\ Second * Timeout \in Nat /\ Second * Timeout <= MaxTime
  /\ \A c \in Nat : c * Second \in Nat
  /\ \A c \in Nat : c # 0 => (c - 1) * Second = c * Second - Second
<1>1. Second \in Nat /\ Timeout \in Nat /\ Second # 0
  BY TimeAssumption
<1>2. MaxTime = Second * Timeout + Second * 2
  BY <1>1 DEF MaxTime
<1>3. Second * Timeout \in Nat /\ Second * 2 \in Nat
  BY <1>1
<1>4. \A c \in Nat : c * Second \in Nat
  BY <1>1
<1>5. \A c \in Nat : c # 0 => (c - 1) * Second = c * Second - Second
  BY <1>1
<1>6. QED
  BY <1>1, <1>2, <1>3, <1>4, <1>5

LEMMA DialogInit == Init => DialogIInv
<1> SUFFICES ASSUME Init
             PROVE  DialogIInv
  OBVIOUS
<1>1. 0 \in 0 .. Timeout /\ 0 \in 0 .. Second /\ 0 \in 0 .. MaxTime
  BY SomeTime
<1>2. TypeOK
  <2>1. <<>> \in Seq({"yes", "no"})
    OBVIOUS
  <2>2. QED
    BY <1>1, <2>1, TwoPages DEF Init, TypeOK
<1>3. DialogInv /\ CountdownInv
  BY TwoPages DEF Init, DialogInv, CountdownInv
<1>4. QED
  BY <1>2, <1>3 DEF DialogIInv

\* What the answers do to the dialog, and what they leave alone.
LEMMA AnswerCloses ==
  ASSUME DialogIInv, HandleYes \/ HandleNo
  PROVE  /\ m_pages' \in Seq({home, confirm})
         /\ m_enable' = FALSE
         /\ answers' \in Seq({"yes", "no"}) /\ Len(answers') <= 1
         /\ m_pages' = <<home>>
         /\ clock' \in BOOLEAN /\ confirmVisible' \in BOOLEAN
<1> USE TwoPages
<1>1. CASE ~ m_enable
  BY <1>1 DEF HandleYes, HandleNo, DialogIInv, DialogInv, TypeOK, clockVars
<1>2. CASE m_enable
  <2>1. PICK a \in {"yes", "no"} : CloseDialog(a)
    BY <1>2 DEF HandleYes, HandleNo
  <2>2. m_pages' = <<home>> /\ m_enable' = FALSE
    BY <2>1, PopLeavesHome DEF CloseDialog, DialogIInv
  <2>3. answers' = <<a>>
    BY <1>2, <2>1 DEF CloseDialog, DialogIInv, DialogInv
  <2>4. clock' \in BOOLEAN /\ confirmVisible' \in BOOLEAN
    BY DEF HandleYes, HandleNo, StopClock, clockVars, DialogIInv, TypeOK
  <2>5. QED
    BY <2>2, <2>3, <2>4
<1>3. QED
  BY <1>1, <1>2 DEF DialogIInv, TypeOK

LEMMA DialogStep == DialogIInv /\ [Next]_vars => DialogIInv'
<1> SUFFICES ASSUME DialogIInv, [Next]_vars
             PROVE  DialogIInv'
  OBVIOUS
<1> USE SomeTime
<1>1. TypeOK /\ DialogInv /\ CountdownInv
  BY DEF DialogIInv
<1>2. CASE StartShowClock \/ StopShowClock
  <2>1. /\ clock' \in BOOLEAN /\ confirmVisible' \in BOOLEAN
        /\ UNCHANGED <<m_pages, dialogVars, timerVars, answers, sinceOpen>>
    BY <1>2 DEF StartShowClock, StopShowClock, StopClock
  <2>2. QED
    BY <1>1, <2>1 DEF DialogIInv, TypeOK, DialogInv, CountdownInv, MaxTime, dialogVars, timerVars
<1>3. ASSUME NEW yes \in Defaults, StopShowClockWithConfim(yes)
      PROVE  DialogIInv'
  <2>1. m_pages = <<home>>
    BY <1>1, <1>3, TwoPages, PagesAssumption DEF StopShowClockWithConfim, GetTopPage, DialogInv
  <2>2. m_pages' = <<home, confirm>>
    <3> DEFINE r == Append(<<home>>, confirm)
    <3>1. r \in Seq({home, confirm}) /\ Len(r) = 2 /\ r[1] = home /\ r[2] = confirm
      BY TwoPages, AppendProperties
    <3>2. r = <<home, confirm>>
      <4> HIDE DEF r
      <4>1. \A i \in 1 .. 2 : r[i] = <<home, confirm>>[i]
        BY <3>1, TwoPages
      <4>2. QED
        BY <3>1, <4>1, TwoPages, SeqEqual
    <3>3. QED
      BY <1>3, <2>1, <3>2 DEF StopShowClockWithConfim
  <2>3. /\ m_countdown' = Timeout /\ m_enable' = TRUE /\ timeoutTimer' = TRUE
        /\ answers' = <<>> /\ sinceOpen' = 0 /\ m_yesAsDefault' = yes /\ yes \in BOOLEAN
        /\ clock' = clock /\ confirmVisible' = confirmVisible
    BY <1>3, DefaultsAssumption DEF StopShowClockWithConfim, SetDefaultOption, clockVars
  <2>4. nextTick' \in 0 .. Second
    BY <1>1, <1>3 DEF StopShowClockWithConfim, SetDefaultOption, TypeOK
  <2>5. TypeOK'
    BY <1>1, <2>2, <2>3, <2>4, TwoPages DEF TypeOK
  <2>6. DialogInv'
    BY <2>2, <2>3 DEF DialogInv
  <2>7. CountdownInv'
    <3>1. Timeout * Second = Second * Timeout
      OBVIOUS
    <3>2. m_countdown' * Second = Second * Timeout
      BY <2>3, <3>1
    <3>3. nextTick' \in Nat /\ sinceOpen' = 0
      BY <2>3, <2>4
    <3>4. sinceOpen' + nextTick' + m_countdown' * Second >= Second * Timeout
      BY <3>2, <3>3
    <3>5. QED
      BY <3>4 DEF CountdownInv
  <2>8. QED
    BY <2>5, <2>6, <2>7 DEF DialogIInv
<1>4. CASE UserYes \/ UserNo
  <2>1. UNCHANGED <<m_countdown, m_yesAsDefault, timerVars, sinceOpen>> /\ (HandleYes \/ HandleNo)
    BY <1>4 DEF UserYes, UserNo
  <2>2. QED
    BY <1>1, <2>1, AnswerCloses, TwoPages DEF DialogIInv, TypeOK, DialogInv, CountdownInv, timerVars
<1>5. CASE Back
  <2>1. m_pages' = <<home>>
    BY <1>1, <1>5, PopLeavesHome, TwoPages DEF Back, GetTopPage, DialogInv
  <2>2. UNCHANGED <<dialogVars, timerVars, clockVars, answers, sinceOpen>>
    BY <1>5 DEF Back
  <2>3. QED
    BY <1>1, <2>1, <2>2, TwoPages
    DEF DialogIInv, TypeOK, DialogInv, CountdownInv, dialogVars, timerVars, clockVars, MaxTime
<1>6. CASE CountDown
  <2>1. /\ nextTick = 0 /\ nextTick' = Second /\ m_countdown > 0
        /\ m_countdown' = m_countdown - 1
        /\ UNCHANGED <<m_pages, m_enable, m_yesAsDefault, timeoutTimer, clockVars, answers,
                       sinceOpen>>
    BY <1>6 DEF CountDown, TimeoutTimer
  <2>2. TypeOK' /\ DialogInv'
    BY <1>1, <2>1 DEF TypeOK, DialogInv, clockVars
  <2>3. m_countdown \in Nat /\ sinceOpen \in Nat
    BY <1>1 DEF TypeOK
  <2>4. m_countdown' * Second = m_countdown * Second - Second /\ m_countdown * Second \in Nat
    BY <2>1, <2>3
  <2>5. CountdownInv'
    BY <1>1, <2>1, <2>3, <2>4 DEF CountdownInv
  <2>6. QED
    BY <2>2, <2>5 DEF DialogIInv
<1>7. CASE TimeIsUp
  <2>1. /\ nextTick' = Second /\ timeoutTimer' = FALSE /\ HandleYes
        /\ UNCHANGED <<m_countdown, m_yesAsDefault, sinceOpen>>
    BY <1>7 DEF TimeIsUp, TimeoutTimer
  <2>2. /\ m_pages' = <<home>> /\ m_enable' = FALSE
        /\ answers' \in Seq({"yes", "no"}) /\ Len(answers') <= 1
        /\ clock' \in BOOLEAN /\ confirmVisible' \in BOOLEAN
    BY <2>1, AnswerCloses
  <2>3. Second \in 0 .. Second
    OBVIOUS
  <2>4. TypeOK'
    BY <1>1, <2>1, <2>2, <2>3, TwoPages DEF TypeOK
  <2>5. DialogInv' /\ CountdownInv'
    BY <2>1, <2>2, TwoPages DEF DialogInv, CountdownInv
  <2>6. QED
    BY <2>4, <2>5 DEF DialogIInv
<1>8. CASE Tick
  <2>1. /\ nextTick' = IF nextTick > 0 THEN nextTick - 1 ELSE 0
        /\ sinceOpen' = IF sinceOpen < MaxTime THEN sinceOpen + 1 ELSE MaxTime
        /\ UNCHANGED <<m_pages, m_enable, m_countdown, m_yesAsDefault, timeoutTimer, clockVars,
                       answers>>
    BY <1>8 DEF Tick, dialogVars
  <2>2. /\ nextTick \in Nat /\ nextTick <= Second /\ sinceOpen \in Nat /\ sinceOpen <= MaxTime
        /\ m_countdown \in Nat /\ m_countdown * Second \in Nat
    BY <1>1 DEF TypeOK
  <2>3. nextTick' \in 0 .. Second /\ sinceOpen' \in 0 .. MaxTime
    BY <2>1, <2>2
  <2>4. TypeOK' /\ DialogInv'
    BY <1>1, <2>1, <2>3 DEF TypeOK, DialogInv, clockVars
  <2>5. CountdownInv'
    BY <1>1, <2>1, <2>2 DEF CountdownInv
  <2>6. QED
    BY <2>4, <2>5 DEF DialogIInv
<1>9. CASE UNCHANGED vars
  BY <1>1, <1>9 DEF DialogIInv, TypeOK, DialogInv, CountdownInv, vars, dialogVars, timerVars,
                    clockVars, MaxTime
<1>10. QED
  BY <1>2, <1>3, <1>4, <1>5, <1>6, <1>7, <1>8, <1>9 DEF Next, UserStep

LEMMA DialogHolds == Spec => []DialogIInv
<1>1. QED
  BY DialogInit, DialogStep, PTL DEF Spec

\* One opening of the dialog, one answer (ConfirmPage.cpp), for every time-out
\* and period: the timer that keeps running never answers again.
THEOREM OneAnswer == Spec => []AnsweredOnce
<1>1. DialogIInv => AnsweredOnce
  BY DEF DialogIInv, DialogInv, AnsweredOnce
<1>2. QED
  BY DialogHolds, <1>1, PTL

\* The dialog is on the stack only as an open question, once, above the page
\* it belongs to.
THEOREM DialogIsQuestion == Spec => []DialogIsOpenQuestion
<1>1. DialogIInv => DialogIsOpenQuestion
  <2> SUFFICES ASSUME DialogIInv
               PROVE  DialogIsOpenQuestion
    OBVIOUS
  <2>1. OnStack(confirm) => m_pages = <<home, confirm>>
    BY TwoPages, PagesAssumption DEF OnStack, DialogIInv, DialogInv
  <2>2. QED
    BY <2>1 DEF DialogIsOpenQuestion, DialogIInv, DialogInv
<1>2. QED
  BY DialogHolds, <1>1, PTL

\* The timer answers for the user only after the whole time-out, although its
\* first tick may come at once (HandleTimeoutTimerEvent).
THEOREM UserHasTheTime == Spec => TimeToDecide
<1>1. DialogIInv /\ [Next]_vars => [TimeIsUp /\ m_enable => sinceOpen >= Second * Timeout]_vars
  <2> SUFFICES ASSUME DialogIInv, TimeIsUp, m_enable
               PROVE  sinceOpen >= Second * Timeout
    OBVIOUS
  <2>1. nextTick = 0 /\ m_countdown = 0 /\ timeoutTimer
    BY DEF TimeIsUp, TimeoutTimer
  <2>2. 0 * Second = 0 /\ sinceOpen \in Nat
    BY SomeTime DEF DialogIInv, TypeOK
  <2>3. sinceOpen = MaxTime \/ sinceOpen + nextTick + m_countdown * Second >= Second * Timeout
    BY <2>1 DEF DialogIInv, CountdownInv
  <2>4. QED
    BY <2>1, <2>2, <2>3, SomeTime
<1>2. QED
  BY DialogHolds, <1>1, PTL DEF Spec, TimeToDecide

-----------------------------------------------------------------------------
(* The numbered options.  A number is never greater than the place of its    *)
(* option, and enabled options are numbered upwards.                         *)

NumbersInv ==
    /\ Len(m_options) < m_current_id
    /\ \A i \in 1 .. Len(m_options) : m_options[i].cmd_index <= i
    /\ \A i, j \in 1 .. Len(m_options) :
          i < j /\ m_options[i].enabled /\ m_options[j].enabled
              => m_options[i].cmd_index < m_options[j].cmd_index
    /\ (\A i \in 1 .. Len(m_options) : m_options[i].enabled)
           => \A i \in 1 .. Len(m_options) : m_options[i].cmd_index = i

OptionsIInv == OptionsTypeOK /\ NumbersInv

EnabledUpTo(options, i) == {j \in 1 .. i : options[j].enabled}

\* Counting the enabled options up to a place.
LEMMA EnabledCounts ==
  ASSUME NEW options, NEW n \in Nat, NEW i \in 1 .. n
  PROVE  /\ Cardinality(EnabledUpTo(options, i)) \in 0 .. i
         /\ options[i].enabled => Cardinality(EnabledUpTo(options, i)) \in 1 .. i
         /\ \A j \in 1 .. n : i < j /\ options[j].enabled =>
               Cardinality(EnabledUpTo(options, i)) < Cardinality(EnabledUpTo(options, j))
         /\ (\A j \in 1 .. n : options[j].enabled) => Cardinality(EnabledUpTo(options, i)) = i
<1> DEFINE E(j) == EnabledUpTo(options, j)
<1>1. ASSUME NEW j \in 1 .. n
      PROVE  /\ IsFiniteSet(E(j)) /\ Cardinality(E(j)) \in Nat /\ Cardinality(E(j)) <= j
             /\ IsFiniteSet(1 .. j) /\ Cardinality(1 .. j) = j
  <2>1. IsFiniteSet(1 .. j) /\ Cardinality(1 .. j) = j
    BY FS_Interval
  <2>2. E(j) \in SUBSET (1 .. j)
    BY DEF EnabledUpTo
  <2>3. IsFiniteSet(E(j)) /\ Cardinality(E(j)) <= j
    BY <2>1, <2>2, FS_Subset
  <2>4. QED
    BY <2>1, <2>3, FS_CardinalityType
<1>2. ASSUME options[i].enabled
      PROVE  Cardinality(E(i)) # 0
  <2>1. i \in E(i)
    BY <1>2 DEF EnabledUpTo
  <2>2. QED
    BY <1>1, <2>1, FS_EmptySet
<1>3. ASSUME NEW j \in 1 .. n, i < j, options[j].enabled
      PROVE  Cardinality(E(i)) < Cardinality(E(j))
  <2>1. E(i) \in SUBSET E(j) /\ j \in E(j) /\ j \notin E(i)
    BY <1>3 DEF EnabledUpTo
  <2>2. Cardinality(E(i)) <= Cardinality(E(j)) /\ Cardinality(E(i)) # Cardinality(E(j))
    BY <1>1, <2>1, FS_Subset
  <2>3. QED
    BY <1>1, <2>2
<1>4. ASSUME \A j \in 1 .. n : options[j].enabled
      PROVE  Cardinality(E(i)) = i
  <2>1. E(i) = 1 .. i
    BY <1>4 DEF EnabledUpTo
  <2>2. QED
    BY <1>1, <2>1
<1>5. QED
  BY <1>1, <1>2, <1>3, <1>4

\* Renumbering keeps the options and gives the numbers of NumbersInv.
LEMMA RenumberingKeeps ==
  ASSUME NEW options \in Seq(Option),
         \A i \in 1 .. Len(options) : options[i].cmd_index <= i,
         m_options' = GenerateCommandIndex(options),
         Len(options) < m_current_id, m_current_id' = m_current_id,
         m_current_id \in 1 .. MaxOptions + 1
  PROVE  m_options' \in Seq(Option) /\ NumbersInv'
<1> DEFINE n == Len(options)
           count(i) == Cardinality(EnabledUpTo(options, i))
<1>1. n \in Nat /\ DOMAIN options = 1 .. n /\ \A i \in 1 .. n : options[i] \in Option
  BY LenProperties, ElementOfSeq
<1>2. MaxOptions \in Nat /\ n <= MaxOptions
  BY <1>1, MaxOptionsAssumption
<1>3. m_options' = [i \in 1 .. n |-> IF options[i].enabled
                                     THEN [options[i] EXCEPT !.cmd_index = count(i)]
                                     ELSE options[i]]
  BY <1>1 DEF GenerateCommandIndex, EnabledUpTo
<1>4. \A i \in 1 .. n :
         /\ count(i) \in 0 .. i
         /\ options[i].enabled => count(i) \in 1 .. i
         /\ \A j \in 1 .. n : i < j /\ options[j].enabled => count(i) < count(j)
         /\ (\A j \in 1 .. n : options[j].enabled) => count(i) = i
  BY <1>1, EnabledCounts
<1> HIDE DEF count
<1>5. ASSUME NEW i \in 1 .. n
      PROVE  /\ m_options'[i] \in Option
             /\ m_options'[i].enabled = options[i].enabled
             /\ m_options'[i].cmd_index =
                   IF options[i].enabled THEN count(i) ELSE options[i].cmd_index
  <2>1. options[i] \in Option /\ i \in 1 .. MaxOptions
    BY <1>1, <1>2
  <2>2. CASE options[i].enabled
    <3>1. count(i) \in 1 .. MaxOptions
      BY <1>2, <1>4, <2>1, <2>2
    <3>2. m_options'[i] = [options[i] EXCEPT !.cmd_index = count(i)]
      BY <1>3, <2>2
    <3>3. QED
      BY <2>1, <2>2, <3>1, <3>2 DEF Option
  <2>3. CASE ~ options[i].enabled
    BY <1>3, <2>1, <2>3
  <2>4. QED
    BY <2>2, <2>3
<1>6. m_options' \in Seq(Option) /\ Len(m_options') = n
  <2>1. m_options' \in [1 .. n -> Option]
    BY <1>3, <1>5
  <2>2. QED
    BY <1>1, <2>1, FunctionIsList
<1>7. \A i \in 1 .. n : m_options'[i].cmd_index <= i
  BY <1>1, <1>4, <1>5
<1>8. \A i, j \in 1 .. n :
         i < j /\ m_options'[i].enabled /\ m_options'[j].enabled
             => m_options'[i].cmd_index < m_options'[j].cmd_index
  BY <1>4, <1>5
<1>9. (\A i \in 1 .. n : m_options'[i].enabled)
          => \A i \in 1 .. n : m_options'[i].cmd_index = i
  BY <1>4, <1>5
<1>10. QED
  BY <1>6, <1>7, <1>8, <1>9 DEF NumbersInv

LEMMA OptionsStep == OptionsIInv /\ [OptionsNext]_optionVars => OptionsIInv'
<1> SUFFICES ASSUME OptionsIInv, [OptionsNext]_optionVars
             PROVE  OptionsIInv'
  OBVIOUS
<1> DEFINE n == Len(m_options)
<1>1. OptionsTypeOK /\ NumbersInv /\ MaxOptions \in Nat \ {0}
  BY MaxOptionsAssumption DEF OptionsIInv
<1>2. /\ m_options \in Seq(Option) /\ n \in Nat /\ DOMAIN m_options = 1 .. n
      /\ \A i \in 1 .. n : m_options[i] \in Option
      /\ m_current_id \in 1 .. MaxOptions + 1
  BY <1>1, LenProperties, ElementOfSeq DEF OptionsTypeOK
<1>3. CASE AddOption
  <2> DEFINE o == [id |-> m_current_id, cmd_index |-> n + 1,
                   visiable |-> TRUE, enabled |-> TRUE]
  <2>1. /\ m_current_id <= MaxOptions /\ m_options' = Append(m_options, o)
        /\ m_current_id' = m_current_id + 1 /\ invoked' = {}
    BY <1>3 DEF AddOption
  <2>2. n < m_current_id
    BY <1>1 DEF NumbersInv
  <2>3. o \in Option
    <3>1. m_current_id \in 1 .. MaxOptions /\ n + 1 \in 1 .. MaxOptions
      BY <1>1, <1>2, <2>1, <2>2
    <3>2. QED
      BY <3>1 DEF Option, Ids
  <2>4. o.enabled /\ o.cmd_index = n + 1
    OBVIOUS
  <2> HIDE DEF o
  <2>5. /\ m_options' \in Seq(Option) /\ Len(m_options') = n + 1
        /\ \A i \in 1 .. n : m_options'[i] = m_options[i]
        /\ m_options'[n + 1] = o
    BY <1>2, <2>1, <2>3, AppendProperties
  <2>6. \A i \in 1 .. n + 1 : i \in 1 .. n \/ i = n + 1
    BY <1>2
  <2>7. \A i \in 1 .. n : i \in 1 .. n + 1 /\ i < n + 1 /\ m_options[i].cmd_index \in Nat
    BY <1>2 DEF Option
  <2>8. \A i \in 1 .. n + 1 : m_options'[i].cmd_index <= i
    BY <1>1, <1>2, <2>4, <2>5, <2>6 DEF NumbersInv
  <2>9. \A i, j \in 1 .. n + 1 :
           i < j /\ m_options'[i].enabled /\ m_options'[j].enabled
               => m_options'[i].cmd_index < m_options'[j].cmd_index
    <3>1. ASSUME NEW i \in 1 .. n + 1, NEW j \in 1 .. n + 1, i < j,
                 m_options'[i].enabled, m_options'[j].enabled
          PROVE  m_options'[i].cmd_index < m_options'[j].cmd_index
      <4>1. i \in 1 .. n
        BY <1>2, <3>1
      <4>2. CASE j \in 1 .. n
        BY <1>1, <2>5, <3>1, <4>1, <4>2 DEF NumbersInv
      <4>3. CASE j = n + 1
        <5>1. m_options[i].cmd_index <= i
          BY <1>1, <4>1 DEF NumbersInv
        <5>2. QED
          BY <1>2, <2>4, <2>5, <2>7, <4>1, <4>3, <5>1
      <4>4. QED
        BY <2>6, <4>2, <4>3
    <3>2. QED
      BY <3>1
  <2>10. ASSUME \A i \in 1 .. n + 1 : m_options'[i].enabled
         PROVE  \A i \in 1 .. n + 1 : m_options'[i].cmd_index = i
    <3>1. \A i \in 1 .. n : m_options[i].enabled
      BY <2>5, <2>7, <2>10
    <3>2. \A i \in 1 .. n : m_options[i].cmd_index = i
      BY <1>1, <3>1 DEF NumbersInv
    <3>3. QED
      BY <2>4, <2>5, <2>6, <3>2
  <2>11. NumbersInv'
    <3>1. Len(m_options') < m_current_id'
      BY <1>2, <2>1, <2>2, <2>5
    <3>2. QED
      BY <2>5, <2>8, <2>9, <2>10, <3>1 DEF NumbersInv
  <2>12. OptionsTypeOK'
    BY <1>1, <1>2, <2>1, <2>5 DEF OptionsTypeOK
  <2>13. QED
    BY <2>11, <2>12 DEF OptionsIInv
<1>4. CASE ClearOption
  <2>1. m_options' = <<>> /\ m_current_id' = m_current_id /\ invoked' = {}
    BY <1>4 DEF ClearOption
  <2>2. <<>> \in Seq(Option) /\ Len(<<>>) = 0
    OBVIOUS
  <2>3. QED
    BY <1>2, <2>1, <2>2 DEF OptionsIInv, OptionsTypeOK, NumbersInv
<1>5. ASSUME NEW i \in DOMAIN m_options, NEW b \in BOOLEAN,
             SetVisiable(i, b) \/ SetOptionEnable(i, b)
      PROVE  OptionsIInv'
  <2>1. PICK options \in {[m_options EXCEPT ![i].visiable = b],
                          [m_options EXCEPT ![i].enabled = b]} :
            m_options' = GenerateCommandIndex(options)
    BY <1>5 DEF SetVisiable, SetOptionEnable
  <2>2. invoked' = {} /\ m_current_id' = m_current_id
    BY <1>5 DEF SetVisiable, SetOptionEnable
  <2>3. /\ options \in [1 .. n -> Option]
        /\ \A j \in 1 .. n : options[j].cmd_index = m_options[j].cmd_index
    <3>1. i \in 1 .. n
      BY <1>2, <1>5
    <3>2. PICK o \in {[m_options[i] EXCEPT !.visiable = b], [m_options[i] EXCEPT !.enabled = b]} :
              options = [m_options EXCEPT ![i] = o]
      BY <2>1
    <3>3. m_options[i] \in Option
      BY <1>2, <3>1
    <3>4. o \in Option /\ o.cmd_index = m_options[i].cmd_index
      BY <1>5, <3>2, <3>3 DEF Option
    <3>5. m_options \in [1 .. n -> Option]
      BY <1>2
    <3>6. QED
      BY <3>1, <3>2, <3>4, <3>5
  <2>4. options \in Seq(Option) /\ Len(options) = n
    BY <1>2, <2>3, FunctionIsList
  <2>5. m_options' \in Seq(Option) /\ NumbersInv'
    <3>1. \A j \in 1 .. Len(options) : options[j].cmd_index <= j
      BY <1>1, <2>3, <2>4 DEF NumbersInv
    <3>2. Len(options) < m_current_id
      BY <1>1, <2>4 DEF NumbersInv
    <3>3. QED
      BY <1>2, <2>1, <2>2, <2>4, <3>1, <3>2, RenumberingKeeps
  <2>6. QED
    BY <1>2, <2>2, <2>5 DEF OptionsIInv, OptionsTypeOK
<1>6. ASSUME NEW input \in 1 .. MaxOptions, OnEvent(input)
      PROVE  OptionsIInv'
  <2>1. UNCHANGED <<m_options, m_current_id>>
    BY <1>6 DEF OnEvent
  <2>2. \A i \in 1 .. n : m_options[i].id \in Ids
    BY <1>2 DEF Option
  <2>3. invoked' \in SUBSET Ids
    BY <1>2, <1>6, <2>2 DEF OnEvent, Matching
  <2>4. QED
    BY <1>1, <2>1, <2>3 DEF OptionsIInv, OptionsTypeOK, NumbersInv
<1>7. CASE UNCHANGED optionVars
  BY <1>1, <1>7 DEF OptionsIInv, OptionsTypeOK, NumbersInv, optionVars
<1>8. QED
  BY <1>3, <1>4, <1>5, <1>6, <1>7 DEF OptionsNext

LEMMA OptionsHold == OptionsSpec => []OptionsIInv
<1>1. OptionsInit => OptionsIInv
  <2> SUFFICES ASSUME OptionsInit
               PROVE  OptionsIInv
    OBVIOUS
  <2>1. <<>> \in Seq(Option) /\ Len(<<>>) = 0 /\ 1 \in 1 .. MaxOptions + 1
    BY MaxOptionsAssumption
  <2>2. QED
    BY <2>1 DEF OptionsInit, OptionsIInv, OptionsTypeOK, NumbersInv
<1>2. QED
  BY <1>1, OptionsStep, PTL DEF OptionsSpec

\* Two options on the screen never carry the same number, and the numbers go
\* up the screen, for any number of options hidden, disabled and added
\* (GenerateCommandIndex).
THEOREM NumbersGrow == OptionsSpec => []PrintedNumbersGrow
<1>1. OptionsIInv => PrintedNumbersGrow
  <2> SUFFICES ASSUME OptionsIInv
               PROVE  PrintedNumbersGrow
    OBVIOUS
  <2>1. DOMAIN m_options = 1 .. Len(m_options)
    BY LenProperties DEF OptionsIInv, OptionsTypeOK
  <2>2. QED
    BY <2>1 DEF OptionsIInv, NumbersInv, PrintedNumbersGrow, PrintedOptions
<1>2. QED
  BY OptionsHold, <1>1, PTL

\* While no option is disabled a number calls the option on the screen that it
\* stands at, and nothing else (OnEvent).
THEOREM NumbersCall == OptionsSpec => NumbersCallWhatTheyStandAt
<1>1. ASSUME OptionsIInv, NEW input \in 1 .. MaxOptions, OnEvent(input),
             \A i \in DOMAIN m_options : m_options[i].enabled
      PROVE  invoked' = {m_options[i].id : i \in
                            {j \in PrintedOptions : m_options[j].cmd_index = input}}
  <2>1. DOMAIN m_options = 1 .. Len(m_options)
    BY <1>1, LenProperties DEF OptionsIInv, OptionsTypeOK
  <2>2. \A i \in DOMAIN m_options : m_options[i].cmd_index = i
    BY <1>1, <2>1 DEF OptionsIInv, NumbersInv
  <2> DEFINE first == {j \in Matching(input) : \A k \in Matching(input) : j <= k}
             printed == {j \in PrintedOptions : m_options[j].cmd_index = input}
  <2>3. \A j \in Matching(input) : j = input
    BY <2>2 DEF Matching
  <2>4. \A j : j \in Matching(input) <=> j \in printed
    BY <1>1 DEF Matching, PrintedOptions
  <2>5. \A j : j \in first <=> j \in Matching(input)
    BY <2>3
  <2>6. first = printed
    BY <2>4, <2>5
  <2>7. invoked' = {m_options[i].id : i \in first}
    BY <1>1 DEF OnEvent
  <2>8. QED
    BY <2>6, <2>7
<1>2. OptionsIInv /\ [OptionsNext]_optionVars =>
        [\A input \in 1 .. MaxOptions :
            OnEvent(input) /\ (\A i \in DOMAIN m_options : m_options[i].enabled)
                => invoked' = {m_options[i].id : i \in
                                 {j \in PrintedOptions : m_options[j].cmd_index = input}}]_optionVars
  BY <1>1
<1>3. QED
  BY OptionsHold, <1>2, PTL DEF OptionsSpec, NumbersCallWhatTheyStandAt

-----------------------------------------------------------------------------
(* The keyboard reader.  The stream fails only when the reader is stopped,   *)
(* and a thread that has seen the flag reads no more.                        *)

ReaderIInv ==
    /\ ReaderTypeOK
    /\ InventedWhileStopping
    /\ cinFailed => isGoingToStop \/ owner = "stopping"
    /\ cinFailed /\ reader = "reading" => owner \in {"stopping", "joining"}

\* The invariant of the reader holds in every state.
LEMMA ReaderHolds == ReaderSpec => []ReaderIInv
<1>1. ReaderInit => ReaderIInv
  BY DEF ReaderInit, ReaderIInv, ReaderTypeOK, InventedWhileStopping
<1>2. ReaderIInv /\ [ReaderNext]_readerVars => ReaderIInv'
  <2> SUFFICES ASSUME ReaderIInv, [ReaderNext]_readerVars
               PROVE  ReaderIInv'
    OBVIOUS
  <2> USE DEF ReaderIInv, ReaderTypeOK, InventedWhileStopping
  <2>1. CASE StartReader
    BY <2>1 DEF StartReader
  <2>2. CASE ReaderStarted
    BY <2>2 DEF ReaderStarted
  <2>3. CASE CancelRead
    BY <2>3 DEF CancelRead
  <2>4. CASE SetFlag
    BY <2>4 DEF SetFlag
  <2>5. CASE Join
    BY <2>5 DEF Join
  <2>6. CASE Loop
    BY <2>6 DEF Loop
  <2>7. CASE ReadLine
    BY <2>7 DEF ReadLine
  <2>8. CASE UserTypes
    BY <2>8 DEF UserTypes
  <2>9. CASE UNCHANGED readerVars
    BY <2>9 DEF readerVars
  <2>10. QED
    BY <2>1, <2>2, <2>3, <2>4, <2>5, <2>6, <2>7, <2>8, <2>9 DEF ReaderNext
<1>3. QED
  BY <1>1, <1>2, PTL DEF ReaderSpec

\* An empty line nobody typed is posted only between CancelIoEx and the
\* thread's next look at the flag, however often the reader is started again
\* on the stream that has failed (KeyboardReader.cpp).
THEOREM InventsOnlyWhileStopping == ReaderSpec => []InventedWhileStopping
<1>1. ReaderIInv => InventedWhileStopping
  BY DEF ReaderIInv
<1>2. QED
  BY <1>1, ReaderHolds, PTL

-----------------------------------------------------------------------------
(* The messages of the state machine: those in U, the ordinary ones, keep    *)
(* their order wherever they wait.                                           *)

Ord(x, y, U) == x \in U /\ y \in U => x < y

InOrder(s, U) == \A i, j \in 1 .. Len(s) : i < j => Ord(s[i], s[j], U)

Ahead(X, Y, U) == \A x \in X, y \in Y : Ord(x, y, U)

LEMMA RangePlaces ==
  ASSUME NEW S, NEW s \in Seq(S)
  PROVE  /\ Len(s) \in Nat /\ DOMAIN s = 1 .. Len(s) /\ Range(s) \subseteq S
         /\ \A e : e \in Range(s) <=> \E i \in 1 .. Len(s) : s[i] = e
<1>1. Range(s) = ToSet(s)
  BY DEF Range, ToSet
<1>2. QED
  BY <1>1, PlacesOfSet

LEMMA ConcatInOrder ==
  ASSUME NEW S, NEW s \in Seq(S), NEW t \in Seq(S), NEW U,
         InOrder(s, U), InOrder(t, U), Ahead(Range(s), Range(t), U)
  PROVE  /\ s \o t \in Seq(S) /\ InOrder(s \o t, U)
         /\ Range(s \o t) = Range(s) \cup Range(t)
<1> DEFINE r == s \o t
<1>1. Len(s) \in Nat /\ Len(t) \in Nat
  BY LenProperties
<1>2. /\ r \in Seq(S) /\ Len(r) = Len(s) + Len(t)
      /\ \A i \in 1 .. Len(s) + Len(t) : r[i] = IF i <= Len(s) THEN s[i] ELSE t[i - Len(s)]
  BY ConcatProperties
<1> HIDE DEF r
<1>3. \A i \in 1 .. Len(r) :
         \/ i \in 1 .. Len(s) /\ r[i] = s[i]
         \/ i > Len(s) /\ i - Len(s) \in 1 .. Len(t) /\ r[i] = t[i - Len(s)]
  BY <1>1, <1>2
<1>4. ASSUME NEW i \in 1 .. Len(r), NEW j \in 1 .. Len(r), i < j
      PROVE  Ord(r[i], r[j], U)
  <2>1. CASE j \in 1 .. Len(s)
    <3>1. i \in 1 .. Len(s) /\ r[i] = s[i] /\ r[j] = s[j]
      BY <1>1, <1>3, <1>4, <2>1
    <3>2. QED
      BY <1>4, <2>1, <3>1 DEF InOrder
  <2>2. CASE i \in 1 .. Len(s) /\ j > Len(s)
    <3>1. r[i] \in Range(s) /\ r[j] \in Range(t)
      BY <1>1, <1>3, <2>2, RangePlaces
    <3>2. QED
      BY <3>1 DEF Ahead
  <2>3. CASE i > Len(s)
    <3>1. /\ i - Len(s) \in 1 .. Len(t) /\ j - Len(s) \in 1 .. Len(t) /\ i - Len(s) < j - Len(s)
          /\ r[i] = t[i - Len(s)] /\ r[j] = t[j - Len(s)]
      BY <1>1, <1>2, <1>3, <1>4, <2>3
    <3>2. QED
      BY <3>1 DEF InOrder
  <2>4. QED
    BY <1>1, <1>3, <2>1, <2>2, <2>3
<1>5. Range(r) = Range(s) \cup Range(t)
  BY RangeConcatenation DEF r
<1>6. QED
  BY <1>2, <1>4, <1>5 DEF r, InOrder

\* One message put behind a list, or in front of it.
LEMMA OneInOrder ==
  ASSUME NEW S, NEW e \in S, NEW U
  PROVE  /\ <<e>> \in Seq(S) /\ InOrder(<<e>>, U) /\ Range(<<e>>) = {e}
         /\ \A s \in Seq(S) : Append(s, e) = s \o <<e>>
<1>1. <<e>> \in Seq(S) /\ Len(<<e>>) = 1 /\ <<e>>[1] = e
  OBVIOUS
<1>2. InOrder(<<e>>, U)
  BY <1>1 DEF InOrder
<1>3. Range(<<e>>) = {e}
  <2>1. \A x : x \in Range(<<e>>) <=> \E i \in 1 .. 1 : <<e>>[i] = x
    BY <1>1, RangePlaces
  <2>2. \A x : x \in Range(<<e>>) <=> x = e
    BY <1>1, <2>1
  <2>3. QED
    BY <2>2
<1>4. QED
  BY <1>1, <1>2, <1>3, AppendIsConcat

LEMMA TailInOrder ==
  ASSUME NEW S, NEW s \in Seq(S), s # <<>>, NEW U, InOrder(s, U)
  PROVE  /\ Head(s) \in S /\ Tail(s) \in Seq(S) /\ InOrder(Tail(s), U)
         /\ Range(s) = {Head(s)} \cup Range(Tail(s))
         /\ Ahead({Head(s)}, Range(Tail(s)), U)
<1> DEFINE t == Tail(s)
<1>1. /\ Len(s) \in Nat /\ Len(s) # 0 /\ Head(s) = s[1] /\ Head(s) \in S
      /\ t \in Seq(S) /\ Len(t) = Len(s) - 1 /\ \A i \in 1 .. Len(t) : t[i] = s[i + 1]
  BY HeadTailProperties, LenProperties, EmptySeq
<1> HIDE DEF t
<1>2. \A i \in 1 .. Len(t) : i + 1 \in 1 .. Len(s) /\ 1 < i + 1 /\ t[i] = s[i + 1]
  BY <1>1
<1>3. InOrder(t, U)
  BY <1>1, <1>2 DEF InOrder
<1>4. 1 \in 1 .. Len(s)
  BY <1>1
<1>5. \A e : e \in Range(t) <=> \E i \in 1 .. Len(t) : t[i] = e
  BY <1>1, RangePlaces
<1>6. \A e : e \in Range(s) <=> \E i \in 1 .. Len(s) : s[i] = e
  BY RangePlaces
<1>7. ASSUME NEW e \in Range(s), e # Head(s)
      PROVE  e \in Range(t)
  <2>1. PICK i \in 1 .. Len(s) : s[i] = e
    BY <1>6
  <2>2. i - 1 \in 1 .. Len(t) /\ (i - 1) + 1 = i
    BY <1>1, <1>7, <2>1
  <2>3. t[i - 1] = e
    BY <1>1, <2>1, <2>2
  <2>4. QED
    BY <1>5, <2>2, <2>3
<1>8. \A e \in Range(t) : e \in Range(s)
  BY <1>2, <1>5, <1>6
<1>9. Head(s) \in Range(s)
  BY <1>1, <1>4, <1>6
<1>10. Range(s) = {Head(s)} \cup Range(t)
  BY <1>7, <1>8, <1>9
<1>11. \A y \in Range(t) : Ord(s[1], y, U)
  BY <1>2, <1>4, <1>5 DEF InOrder
<1>12. Ahead({Head(s)}, Range(t), U)
  BY <1>1, <1>11 DEF Ahead
<1>13. QED
  BY <1>1, <1>3, <1>10, <1>12 DEF t

LEMMA WithoutInOrder ==
  ASSUME NEW S, NEW s \in Seq(S), NEW m \in Range(s), NEW U, InOrder(s, U)
  PROVE  /\ RemoveFirst(s, m) \in Seq(S) /\ InOrder(RemoveFirst(s, m), U)
         /\ Range(RemoveFirst(s, m)) \subseteq Range(s)
         /\ Range(s) \subseteq Range(RemoveFirst(s, m)) \cup {m}
<1> DEFINE n == Len(s)
           r == RemoveFirst(s, m)
<1>1. /\ n \in Nat /\ DOMAIN s = 1 .. n
      /\ \A e : e \in Range(s) <=> \E i \in 1 .. n : s[i] = e
  BY RangePlaces
<1>2. PICK k \in 1 .. n : s[k] = m /\ r = RemoveAt(s, k)
  BY RemoveFirstPlace
<1>3. r = RemoveAt(s, k)
  BY <1>2
<1> HIDE DEF r
<1>4. /\ r \in Seq(S) /\ Len(r) = n - 1
      /\ \A j \in 1 .. n - 1 : r[j] = IF j < k THEN s[j] ELSE s[j + 1]
  BY <1>2, <1>3, RemoveKeepsList
<1>5. \A e : e \in Range(r) <=> \E i \in 1 .. n - 1 : r[i] = e
  BY <1>4, RangePlaces
<1> DEFINE old(j) == IF j < k THEN j ELSE j + 1
<1>6. \A j \in 1 .. n - 1 : old(j) \in 1 .. n /\ r[j] = s[old(j)]
  BY <1>1, <1>2, <1>4
<1>7. \A i, j \in 1 .. n - 1 : i < j => old(i) < old(j)
  BY <1>1, <1>2
<1> HIDE DEF old
<1>8. InOrder(r, U)
  BY <1>4, <1>6, <1>7 DEF InOrder
<1>9. Range(r) \subseteq Range(s)
  BY <1>1, <1>5, <1>6
<1>10. ASSUME NEW e \in Range(s), e # m
       PROVE  e \in Range(r)
  <2>1. PICK i \in 1 .. n : s[i] = e
    BY <1>1
  <2>2. CASE i < k
    <3>1. i \in 1 .. n - 1 /\ r[i] = e
      BY <1>1, <1>2, <1>4, <2>1, <2>2
    <3>2. QED
      BY <1>5, <3>1
  <2>3. CASE i > k
    <3>1. i - 1 \in 1 .. n - 1 /\ ~ (i - 1 < k) /\ (i - 1) + 1 = i
      BY <1>1, <1>2, <2>3
    <3>2. r[i - 1] = e
      BY <1>4, <2>1, <3>1
    <3>3. QED
      BY <1>5, <3>1, <3>2
  <2>4. i # k
    BY <1>2, <1>10, <2>1
  <2>5. QED
    BY <1>1, <1>2, <2>2, <2>3, <2>4
<1>11. QED
  BY <1>4, <1>8, <1>9, <1>10 DEF r

-----------------------------------------------------------------------------

Ordinary == Msgs \ urgent

\* The messages and their lists keep their types, and none has a name that
\* was not given out.
MsgTypeOK ==
    /\ queue \in Seq(AllMsgs) /\ mMsg \in AllMsgs /\ mDeferredMessages \in Seq(Msgs)
    /\ sent \in Nat /\ sent <= MaxMsgs
    /\ \A m \in Range(queue) \cup Range(mDeferredMessages) \cup {mMsg} :
          m \in Msgs => m <= sent
    /\ pc = "process" => mMsg \in Msgs

KeptInv ==
    \A m \in 1 .. sent :
        m \in finished \cup Range(queue) \cup Range(mDeferredMessages)
                  \cup (IF pc \in {"process", "transit"} THEN {mMsg} ELSE {})

OrderInv ==
    /\ InOrder(mDeferredMessages, Ordinary) /\ InOrder(queue, Ordinary)
    /\ Ahead(Range(mDeferredMessages), Range(queue), Ordinary)
    /\ pc = "process" =>
          /\ Ahead({mMsg}, Range(queue), Ordinary)
          /\ Ahead(Range(mDeferredMessages) \ {mMsg}, {mMsg}, Ordinary)

MsgInv == MsgTypeOK /\ KeptInv /\ OrderInv

LEMMA Numbers ==
  /\ MaxMsgs \in Nat /\ SM_QUIT_CMD \notin Msgs /\ SM_INIT_CMD \notin Msgs
  /\ SM_QUIT_CMD \in AllMsgs /\ SM_INIT_CMD \in AllMsgs
  /\ Msgs \subseteq AllMsgs /\ Msgs = 1 .. MaxMsgs /\ Ordinary \subseteq Msgs
BY StateMachineBounds DEF Msgs, AllMsgs, SM_QUIT_CMD, SM_INIT_CMD, Ordinary

LEMMA EmptyRange ==
  /\ \A S : <<>> \in Seq(S)
  /\ Len(<<>>) = 0 /\ Range(<<>>) = {}
<1>1. \A S : <<>> \in Seq(S)
  OBVIOUS
<1>2. Len(<<>>) = 0
  OBVIOUS
<1>3. \A e : e \in Range(<<>>) <=> \E i \in 1 .. Len(<<>>) : <<>>[i] = e
  BY <1>1, RangePlaces
<1>4. 1 .. 0 = {}
  OBVIOUS
<1>5. \A e : e \notin Range(<<>>)
  BY <1>2, <1>3, <1>4
<1>6. QED
  BY <1>1, <1>2, <1>5

LEMMA MsgInit == SmInit => MsgInv
<1> SUFFICES ASSUME SmInit
             PROVE  MsgInv
  OBVIOUS
<1>1. <<>> \in Seq(AllMsgs) /\ <<>> \in Seq(Msgs) /\ Len(<<>>) = 0
  BY EmptyRange
<1>2. Range(<<>>) = {}
  BY EmptyRange
<1>3. MsgTypeOK
  BY <1>1, <1>2, Numbers DEF SmInit, MsgTypeOK
<1>4. KeptInv /\ OrderInv
  BY <1>1, <1>2 DEF SmInit, KeptInv, OrderInv, InOrder, Ahead
<1>5. QED
  BY <1>3, <1>4 DEF MsgInv

\* ConcatInOrder, for the lists of the machine
LEMMA ListsOfMessages ==
  \A s, t \in Seq(AllMsgs) :
     InOrder(s, Ordinary) /\ InOrder(t, Ordinary) /\ Ahead(Range(s), Range(t), Ordinary) =>
        /\ s \o t \in Seq(AllMsgs) /\ InOrder(s \o t, Ordinary)
        /\ Range(s \o t) = Range(s) \cup Range(t)
<1> SUFFICES ASSUME NEW s \in Seq(AllMsgs), NEW t \in Seq(AllMsgs), InOrder(s, Ordinary),
                    InOrder(t, Ordinary), Ahead(Range(s), Range(t), Ordinary)
             PROVE  /\ s \o t \in Seq(AllMsgs) /\ InOrder(s \o t, Ordinary)
                    /\ Range(s \o t) = Range(s) \cup Range(t)
  OBVIOUS
<1>1. QED
  BY ConcatInOrder

\* A message that need not keep the order, in front of a list
LEMMA PutInFront ==
  ASSUME NEW V, NEW e \in AllMsgs \ V, NEW q \in Seq(AllMsgs), InOrder(q, V)
  PROVE  /\ <<e>> \o q \in Seq(AllMsgs) /\ InOrder(<<e>> \o q, V)
         /\ Range(<<e>> \o q) = {e} \cup Range(q)
<1> DEFINE one == <<e>>
<1>1. one \in Seq(AllMsgs) /\ InOrder(one, V) /\ Range(one) = {e}
  BY OneInOrder
<1> HIDE DEF one
<1>2. Ahead(Range(one), Range(q), V)
  BY <1>1 DEF Ahead, Ord
<1>3. /\ one \o q \in Seq(AllMsgs) /\ InOrder(one \o q, V)
      /\ Range(one \o q) = Range(one) \cup Range(q)
  BY <1>1, <1>2, ConcatInOrder
<1>4. QED
  BY <1>1, <1>3 DEF one

LEMMA LessInOrder ==
  ASSUME NEW U, NEW V \in SUBSET U
  PROVE  /\ \A s : InOrder(s, U) => InOrder(s, V)
         /\ \A X, Y : Ahead(X, Y, U) => \A P \in SUBSET X, Q \in SUBSET Y : Ahead(P, Q, V)
BY DEF InOrder, Ahead, Ord

\* What leaves every message where it is, and pc outside "process", keeps the
\* invariant if the message at hand has been seen to.
LEMMA MsgMoves ==
  ASSUME MsgInv, UNCHANGED <<queue, mMsg, mDeferredMessages, senders>>,
         finished \subseteq finished', pc' # "process" \/ pc = "process",
         pc \in {"process", "transit"} /\ pc' \notin {"process", "transit"} /\ mMsg \in 1 .. sent
             => mMsg \in finished' \cup Range(mDeferredMessages)
  PROVE  MsgInv'
<1>1. MsgTypeOK'
  BY DEF MsgInv, MsgTypeOK, senders
<1>2. KeptInv'
  BY DEF MsgInv, KeptInv, senders
<1>3. OrderInv'
  BY DEF MsgInv, OrderInv, senders, Ordinary
<1>4. QED
  BY <1>1, <1>2, <1>3 DEF MsgInv

LEMMA MsgStep ==
  ASSUME MsgInv, [SmNext]_smVars
  PROVE  MsgInv'
<1> USE DEF MsgInv
<1>0. /\ queue \in Seq(AllMsgs) /\ mDeferredMessages \in Seq(AllMsgs) /\ mMsg \in AllMsgs
      /\ mDeferredMessages \in Seq(Msgs) /\ sent \in Nat
      /\ InOrder(queue, Ordinary) /\ InOrder(mDeferredMessages, Ordinary)
  <2>1. Seq(Msgs) \subseteq Seq(AllMsgs)
    BY Numbers
  <2>2. QED
    BY <2>1 DEF MsgTypeOK, OrderInv
<1>1. CASE Start
  <2> DEFINE one == <<SM_INIT_CMD>>
  <2>1. queue' = one \o queue
    BY <1>1 DEF Start
  <2>2. UNCHANGED <<mMsg, mDeferredMessages, sent, urgent, finished>> /\ pc' = "idle" /\ pc = "new"
    BY <1>1 DEF Start, senders
  <2>3. SM_INIT_CMD \notin Ordinary
    BY Numbers DEF Ordinary
  <2>4. /\ one \in Seq(AllMsgs) /\ InOrder(one, Ordinary)
        /\ Range(one) = {SM_INIT_CMD}
    BY OneInOrder, Numbers
  <2> HIDE DEF one
  <2>5. Ahead(Range(one), Range(queue), Ordinary)
    BY <2>3, <2>4 DEF Ahead, Ord
  <2>6. /\ queue' \in Seq(AllMsgs) /\ InOrder(queue', Ordinary)
        /\ Range(queue') = {SM_INIT_CMD} \cup Range(queue)
    BY <1>0, <2>1, <2>4, <2>5, ListsOfMessages
  <2>7. MsgTypeOK'
    BY <2>2, <2>6, Numbers DEF MsgTypeOK
  <2>8. KeptInv'
    BY <2>2, <2>6 DEF KeptInv
  <2>9. Ahead(Range(mDeferredMessages), Range(queue'), Ordinary)
    BY <2>3, <2>6 DEF OrderInv, Ahead, Ord
  <2>10. OrderInv'
    BY <2>2, <2>6, <2>9 DEF OrderInv, Ordinary
  <2>11. QED
    BY <2>7, <2>8, <2>10
<1>2. CASE SendMessage
  <2> DEFINE m == sent + 1
             one == <<sent + 1>>
  <2>1. /\ sent' = m /\ m \in Msgs /\ queue' = Append(queue, m) /\ m \in Nat
        /\ UNCHANGED <<pc, mMsg, mDeferredMessages, urgent, finished>>
    BY <1>0, <1>2, Numbers DEF SendMessage, Others
  <2>2. /\ one \in Seq(AllMsgs) /\ InOrder(one, Ordinary) /\ Range(one) = {m}
        /\ queue' = queue \o one
    BY <1>0, <2>1, OneInOrder, Numbers
  <2>3. \A x \in Range(queue) \cup Range(mDeferredMessages) \cup {mMsg} : Ord(x, m, Ordinary)
    <3> SUFFICES ASSUME NEW x \in Range(queue) \cup Range(mDeferredMessages) \cup {mMsg},
                        x \in Ordinary
                 PROVE  x < m
      BY DEF Ord
    <3>1. x \in Msgs /\ x <= sent
      BY Numbers DEF MsgTypeOK
    <3>2. QED
      BY <1>0, <3>1, Numbers
  <2> HIDE DEF m, one
  <2>4. Ahead(Range(queue), Range(one), Ordinary)
    BY <2>2, <2>3 DEF Ahead
  <2>5. /\ queue' \in Seq(AllMsgs) /\ InOrder(queue', Ordinary)
        /\ Range(queue') = Range(queue) \cup {m}
    BY <1>0, <2>2, <2>4, ListsOfMessages
  <2>6. MsgTypeOK'
    <3>1. sent <= m /\ m <= MaxMsgs
      BY <1>0, <1>2, Numbers DEF m, SendMessage
    <3>2. \A x \in Range(queue) \cup Range(mDeferredMessages) \cup {mMsg} :
             x \in Msgs => x <= m
      BY <1>0, <2>1, <3>1, Numbers DEF MsgTypeOK
    <3>3. QED
      BY <2>1, <2>5, <3>1, <3>2 DEF MsgTypeOK
  <2>7. KeptInv'
    <3>1. \A x \in 1 .. m : x = m \/ x \in 1 .. sent
      BY <1>0 DEF m
    <3>2. QED
      BY <2>1, <2>5, <3>1 DEF KeptInv
  <2>8. OrderInv'
    <3>1. Ahead(Range(mDeferredMessages), Range(queue'), Ordinary)
      BY <2>3, <2>5 DEF OrderInv, Ahead
    <3>2. pc = "process" => Ahead({mMsg}, Range(queue'), Ordinary)
      BY <2>3, <2>5 DEF OrderInv, Ahead
    <3>3. QED
      BY <2>1, <2>5, <3>1, <3>2 DEF OrderInv, Ordinary
  <2>9. QED
    BY <2>6, <2>7, <2>8
<1>3. CASE SendMessageAtFrontOfQueue
  <2> DEFINE m == sent + 1
             one == <<sent + 1>>
             V == Msgs \ (urgent \cup {m})
  <2>1. /\ sent' = m /\ m \in Msgs /\ queue' = one \o queue /\ m \in Nat
        /\ urgent' = urgent \cup {m} /\ sent <= m /\ m <= MaxMsgs
        /\ UNCHANGED <<pc, mMsg, mDeferredMessages, finished>>
    BY <1>0, <1>3, Numbers DEF SendMessageAtFrontOfQueue, Others
  <2>2. /\ one \in Seq(AllMsgs) /\ InOrder(one, V) /\ Range(one) = {m}
    BY <2>1, OneInOrder, Numbers
  <2>3. Ordinary' = V /\ V \in SUBSET Ordinary /\ m \notin V
    BY <2>1 DEF Ordinary
  <2>4. \A x \in 1 .. m : x = m \/ x \in 1 .. sent
    BY <1>0
  <2> HIDE DEF m, one, V
  <2>5. /\ InOrder(mDeferredMessages, V) /\ InOrder(queue, V)
        /\ Ahead(Range(mDeferredMessages), Range(queue), V)
        /\ pc = "process" =>
              /\ Ahead({mMsg}, Range(queue), V)
              /\ Ahead(Range(mDeferredMessages) \ {mMsg}, {mMsg}, V)
    BY <2>3, LessInOrder DEF OrderInv
  <2>6. Ahead(Range(one), Range(queue), V)
    BY <2>2, <2>3 DEF Ahead, Ord
  <2>7. /\ queue' \in Seq(AllMsgs) /\ InOrder(queue', V)
        /\ Range(queue') = {m} \cup Range(queue)
    <3>1. /\ one \o queue \in Seq(AllMsgs) /\ InOrder(one \o queue, V)
          /\ Range(one \o queue) = {m} \cup Range(queue)
      BY <1>0, <2>1, <2>3, <2>5, Numbers, PutInFront DEF one, m
    <3>2. QED
      BY <2>1, <2>2, <3>1
  <2>8. \A x : Ord(x, m, V)
    BY <2>3 DEF Ord
  <2>9. MsgTypeOK'
    <3>1. \A x \in Range(queue) \cup Range(mDeferredMessages) \cup {mMsg} :
             x \in Msgs => x <= m
      BY <1>0, <2>1, Numbers DEF MsgTypeOK
    <3>2. QED
      BY <2>1, <2>7, <3>1 DEF MsgTypeOK
  <2>10. KeptInv'
    BY <2>1, <2>4, <2>7 DEF KeptInv
  <2>11. OrderInv'
    <3>1. Ahead(Range(mDeferredMessages), Range(queue'), V)
      BY <2>5, <2>7, <2>8 DEF Ahead
    <3>2. pc = "process" => Ahead({mMsg}, Range(queue'), V)
      BY <2>5, <2>7, <2>8 DEF Ahead
    <3>3. QED
      BY <2>1, <2>3, <2>5, <2>7, <3>1, <3>2 DEF OrderInv
  <2>12. QED
    BY <2>9, <2>10, <2>11
<1>4. CASE Quit
  <2> DEFINE one == <<SM_QUIT_CMD>>
  <2>1. /\ queue' \in {Append(queue, SM_QUIT_CMD), one \o queue}
        /\ UNCHANGED <<pc, mMsg, mDeferredMessages, sent, urgent, finished>>
    BY <1>4 DEF Quit, Others, senders
  <2>2. SM_QUIT_CMD \notin Ordinary
    BY Numbers DEF Ordinary
  <2>3. /\ one \in Seq(AllMsgs) /\ InOrder(one, Ordinary) /\ Range(one) = {SM_QUIT_CMD}
        /\ Append(queue, SM_QUIT_CMD) = queue \o one
    BY <1>0, OneInOrder, Numbers
  <2> HIDE DEF one
  <2>4. Ahead(Range(queue), Range(one), Ordinary) /\ Ahead(Range(one), Range(queue), Ordinary)
    BY <2>2, <2>3 DEF Ahead, Ord
  <2>5. /\ queue' \in Seq(AllMsgs) /\ InOrder(queue', Ordinary)
        /\ Range(queue') = {SM_QUIT_CMD} \cup Range(queue)
    <3>1. /\ queue \o one \in Seq(AllMsgs) /\ InOrder(queue \o one, Ordinary)
          /\ Range(queue \o one) = Range(queue) \cup Range(one)
      BY <1>0, <2>3, <2>4, ListsOfMessages
    <3>2. /\ one \o queue \in Seq(AllMsgs) /\ InOrder(one \o queue, Ordinary)
          /\ Range(one \o queue) = Range(one) \cup Range(queue)
      BY <1>0, <2>3, <2>4, ListsOfMessages
    <3>3. queue' \in {queue \o one, one \o queue}
      BY <2>1, <2>3
    <3>4. CASE queue' = queue \o one
      BY <2>3, <3>1, <3>4
    <3>5. CASE queue' = one \o queue
      BY <2>3, <3>2, <3>5
    <3>6. QED
      BY <3>3, <3>4, <3>5
  <2>6. MsgTypeOK'
    BY <2>1, <2>5, Numbers DEF MsgTypeOK
  <2>7. KeptInv'
    BY <2>1, <2>5 DEF KeptInv
  <2>8. OrderInv'
    <3>1. Ahead(Range(mDeferredMessages), Range(queue'), Ordinary)
      BY <2>2, <2>5 DEF OrderInv, Ahead, Ord
    <3>2. pc = "process" => Ahead({mMsg}, Range(queue'), Ordinary)
      BY <2>2, <2>5 DEF OrderInv, Ahead, Ord
    <3>3. QED
      BY <2>1, <2>5, <3>1, <3>2 DEF OrderInv, Ordinary
  <2>9. QED
    BY <2>6, <2>7, <2>8
<1>5. ASSUME NEW m \in Msgs, RemoveMessages(m)
      PROVE  MsgInv'
  <2>1. /\ queue' = RemoveFirst(queue, m) /\ finished' = finished \cup {m} /\ m \in Range(queue)
        /\ UNCHANGED <<pc, mMsg, mDeferredMessages, sent, urgent>>
    BY <1>5 DEF RemoveMessages, Others, senders
  <2>2. /\ queue' \in Seq(AllMsgs) /\ InOrder(queue', Ordinary)
        /\ Range(queue') \subseteq Range(queue)
        /\ Range(queue) \subseteq Range(queue') \cup {m}
    BY <1>0, <2>1, WithoutInOrder DEF OrderInv
  <2>3. MsgTypeOK'
    BY <2>1, <2>2 DEF MsgTypeOK
  <2>4. KeptInv'
    BY <2>1, <2>2 DEF KeptInv
  <2>5. OrderInv'
    <3>1. Ordinary' = Ordinary
      BY <2>1 DEF Ordinary
    <3>2. Ahead(Range(mDeferredMessages'), Range(queue'), Ordinary)
      BY <2>1, <2>2 DEF OrderInv, Ahead
    <3>3. pc = "process" =>
             /\ Ahead({mMsg}, Range(queue'), Ordinary)
             /\ Ahead(Range(mDeferredMessages') \ {mMsg}, {mMsg}, Ordinary)
      BY <2>1, <2>2 DEF OrderInv, Ahead
    <3>4. QED
      BY <1>0, <2>1, <2>2, <3>1, <3>2, <3>3 DEF OrderInv
  <2>6. QED
    BY <2>3, <2>4, <2>5
<1>6. ASSUME NEW m \in Msgs, RemoveDeferredMessages(m)
      PROVE  MsgInv'
  <2> DEFINE d == mDeferredMessages
  <2>1. /\ d' = RemoveFirst(d, m) /\ finished' = finished \cup {m} /\ m \in Range(d)
        /\ UNCHANGED <<pc, mMsg, queue, sent, urgent>>
    BY <1>6 DEF RemoveDeferredMessages, Others, senders
  <2>2. /\ d' \in Seq(Msgs) /\ InOrder(d', Ordinary)
        /\ Range(d') \subseteq Range(d)
        /\ Range(d) \subseteq Range(d') \cup {m}
    BY <1>0, <2>1, WithoutInOrder DEF OrderInv
  <2>3. MsgTypeOK'
    BY <2>1, <2>2 DEF MsgTypeOK
  <2>4. KeptInv'
    BY <2>1, <2>2 DEF KeptInv
  <2>5. OrderInv'
    <3>1. Ordinary' = Ordinary
      BY <2>1 DEF Ordinary
    <3>2. Ahead(Range(mDeferredMessages'), Range(queue'), Ordinary)
      BY <2>1, <2>2 DEF OrderInv, Ahead
    <3>3. pc = "process" =>
             /\ Ahead({mMsg}, Range(queue'), Ordinary)
             /\ Ahead(Range(mDeferredMessages') \ {mMsg}, {mMsg}, Ordinary)
      BY <2>1, <2>2 DEF OrderInv, Ahead
    <3>4. QED
      BY <1>0, <2>1, <2>2, <3>1, <3>2, <3>3 DEF OrderInv
  <2>6. QED
    BY <2>3, <2>4, <2>5
<1>7. CASE HandleMessage
  <2>1. /\ pc = "idle" /\ queue # <<>> /\ mMsg' = Head(queue) /\ queue' = Tail(queue)
        /\ UNCHANGED <<mDeferredMessages, sent, urgent, finished>>
        /\ \/ mMsg' \in Msgs /\ pc' = "process"
           \/ mMsg' \in {SM_QUIT_CMD, SM_INIT_CMD} /\ pc' \in {"transit", "enter"}
    BY <1>7 DEF HandleMessage, senders
  <2>2. /\ mMsg' \in AllMsgs /\ queue' \in Seq(AllMsgs) /\ InOrder(queue', Ordinary)
        /\ Range(queue) = {mMsg'} \cup Range(queue')
        /\ Ahead({mMsg'}, Range(queue'), Ordinary)
    BY <1>0, <2>1, TailInOrder DEF OrderInv
  <2>3. MsgTypeOK'
    BY <2>1, <2>2 DEF MsgTypeOK
  <2>4. KeptInv'
    <3>1. \A m \in 1 .. sent : m # SM_QUIT_CMD /\ m # SM_INIT_CMD
      BY <1>0 DEF SM_QUIT_CMD, SM_INIT_CMD
    <3>2. QED
      BY <2>1, <2>2, <3>1 DEF KeptInv
  <2>5. OrderInv'
    <3>1. Ahead(Range(mDeferredMessages), Range(queue'), Ordinary)
      BY <2>2 DEF OrderInv, Ahead
    <3>2. Ahead(Range(mDeferredMessages) \ {mMsg'}, {mMsg'}, Ordinary)
      BY <2>2 DEF OrderInv, Ahead
    <3>3. QED
      BY <2>1, <2>2, <3>1, <3>2 DEF OrderInv, Ordinary
  <2>6. QED
    BY <2>3, <2>4, <2>5
<1>8. CASE ProcessMessage
  <2>1. /\ pc = "process" /\ pc' \in {"process", "transit"}
        /\ UNCHANGED <<queue, mMsg, sent, urgent, finished>>
    BY <1>8 DEF ProcessMessage, senders
  <2>2. \/ mDeferredMessages' = mDeferredMessages
        \/ /\ mMsg \notin Range(mDeferredMessages)
           /\ mDeferredMessages' = Append(mDeferredMessages, mMsg)
    BY <1>8 DEF ProcessMessage, DeferMessage
  <2>3. CASE mDeferredMessages' = mDeferredMessages
    <3>1. MsgTypeOK'
      BY <2>1, <2>3 DEF MsgTypeOK
    <3>2. KeptInv'
      BY <2>1, <2>3 DEF KeptInv
    <3>3. OrderInv'
      BY <2>1, <2>3 DEF OrderInv, Ordinary
    <3>4. QED
      BY <3>1, <3>2, <3>3
  <2>4. CASE /\ mMsg \notin Range(mDeferredMessages)
             /\ mDeferredMessages' = Append(mDeferredMessages, mMsg)
    <3> DEFINE d == mDeferredMessages
               one == <<mMsg>>
    <3>1. mMsg \in Msgs
      BY <2>1 DEF MsgTypeOK
    <3>2. /\ one \in Seq(Msgs) /\ one \in Seq(AllMsgs) /\ InOrder(one, Ordinary) /\ Range(one) = {mMsg}
          /\ d' = d \o one
      BY <1>0, <2>4, <3>1, OneInOrder
    <3> HIDE DEF one
    <3>3. Ahead(Range(d), {mMsg}, Ordinary)
      BY <2>1, <2>4 DEF OrderInv, Ahead
    <3>4. /\ d' \in Seq(Msgs) /\ InOrder(d', Ordinary) /\ Range(d') = Range(d) \cup {mMsg}
      <4>1. d' \in Seq(Msgs)
        BY <1>0, <2>4, <3>1
      <4>2. Ahead(Range(d), Range(one), Ordinary)
        BY <3>2, <3>3
      <4>3. InOrder(d \o one, Ordinary) /\ Range(d \o one) = Range(d) \cup Range(one)
        BY <1>0, <3>2, <4>2, ListsOfMessages
      <4>4. QED
        BY <3>2, <4>1, <4>3
    <3>5. MsgTypeOK'
      BY <2>1, <3>4 DEF MsgTypeOK
    <3>6. KeptInv'
      BY <2>1, <3>4 DEF KeptInv
    <3>7. Ahead(Range(d'), Range(queue), Ordinary)
      BY <2>1, <3>4 DEF OrderInv, Ahead
    <3>8. Ahead(Range(d') \ {mMsg}, {mMsg}, Ordinary)
      BY <3>3, <3>4 DEF Ahead
    <3>9. OrderInv'
      BY <2>1, <3>4, <3>7, <3>8 DEF OrderInv, Ordinary
    <3>10. QED
      BY <3>5, <3>6, <3>9
  <2>5. QED
    BY <2>2, <2>3, <2>4
<1>9. CASE HaltedProcessMessage
  BY <1>9, MsgMoves DEF HaltedProcessMessage, senders
<1>10. CASE PerformTransitions
  <2>1. /\ UNCHANGED <<queue, mMsg, mDeferredMessages, senders>> /\ pc' # "process"
        /\ finished \subseteq finished'
        /\ finished' = finished \cup ({mMsg} \cap (Msgs \ Range(mDeferredMessages)))
    BY <1>10 DEF PerformTransitions
  <2>2. mMsg \in 1 .. sent => mMsg \in Msgs
    BY <1>0, Numbers DEF MsgTypeOK
  <2>3. mMsg \in 1 .. sent => mMsg \in finished' \cup Range(mDeferredMessages)
    BY <2>1, <2>2
  <2>4. QED
    BY <2>1, <2>3, MsgMoves
<1>11. CASE SetupTransition
  BY <1>11, MsgMoves DEF SetupTransition
<1>12. CASE Exit
  BY <1>12, MsgMoves DEF Exit
<1>13. CASE MoveTempStateStack
  BY <1>13, MsgMoves DEF MoveTempStateStack
<1>14. CASE Enter
  BY <1>14, MsgMoves DEF Enter
<1>15. CASE EnteredInitial
  BY <1>15, MsgMoves DEF EnteredInitial
<1>16. CASE EnteredDest
  <2>1. /\ queue' = mDeferredMessages \o queue /\ mDeferredMessages' = <<>>
        /\ UNCHANGED <<mMsg, sent, urgent, finished>> /\ pc = "enter" /\ pc' \in {"setup", "idle"}
    BY <1>16 DEF EnteredDest, MoveDeferredMessageAtFrontOfQueue, senders
  <2>2. /\ queue' \in Seq(AllMsgs) /\ InOrder(queue', Ordinary)
        /\ Range(queue') = Range(mDeferredMessages) \cup Range(queue)
    <3>1. Ahead(Range(mDeferredMessages), Range(queue), Ordinary)
      BY DEF OrderInv
    <3>2. QED
      BY <1>0, <2>1, <3>1, ListsOfMessages
  <2>3. <<>> \in Seq(Msgs) /\ Len(<<>>) = 0 /\ Range(<<>>) = {}
    BY EmptyRange
  <2>4. MsgTypeOK'
    BY <2>1, <2>2, <2>3 DEF MsgTypeOK
  <2>5. KeptInv'
    BY <2>1, <2>2 DEF KeptInv
  <2>6. OrderInv'
    <3>1. InOrder(<<>>, Ordinary) /\ Ahead({}, Range(queue'), Ordinary)
      BY <2>3 DEF InOrder, Ahead
    <3>2. QED
      BY <2>1, <2>2, <2>3, <3>1 DEF OrderInv, Ordinary
  <2>7. QED
    BY <2>4, <2>5, <2>6
<1>17. CASE UNCHANGED smVars
  BY <1>17, MsgMoves DEF smVars
<1>18. QED
  BY <1>1, <1>2, <1>3, <1>4, <1>5, <1>6, <1>7, <1>8, <1>9, <1>10, <1>11, <1>12, <1>13, <1>14,
     <1>15, <1>16, <1>17 DEF SmNext, Handle

\* Everything that waits, in the order in which it will be processed.
LEMMA WaitingInOrder ==
  ASSUME MsgInv
  PROVE  MessagesKept
<1> USE DEF MsgInv
<1> DEFINE d == mDeferredMessages
           mid == IF pc = "process" /\ mMsg \notin Range(d) THEN <<mMsg>> ELSE <<>>
           front == d \o mid
<1>0. /\ queue \in Seq(AllMsgs) /\ d \in Seq(AllMsgs) /\ mMsg \in AllMsgs
      /\ InOrder(queue, Ordinary) /\ InOrder(d, Ordinary)
  <2>1. Seq(Msgs) \subseteq Seq(AllMsgs)
    BY Numbers
  <2>2. QED
    BY <2>1 DEF MsgTypeOK, OrderInv
<1>1. Waiting = front \o queue
  <2>1. \A q \in Seq(AllMsgs) : d \o mid \o q = (d \o mid) \o q
    OBVIOUS
  <2>2. QED
    BY <1>0, <2>1 DEF Waiting
<1>2. /\ mid \in Seq(AllMsgs) /\ InOrder(mid, Ordinary)
      /\ Range(mid) = IF pc = "process" /\ mMsg \notin Range(d) THEN {mMsg} ELSE {}
  <2>1. CASE pc = "process" /\ mMsg \notin Range(d)
    BY <1>0, <2>1, OneInOrder
  <2>2. CASE ~(pc = "process" /\ mMsg \notin Range(d))
    <3>1. mid = <<>>
      BY <2>2
    <3>2. InOrder(<<>>, Ordinary)
      BY EmptyRange DEF InOrder
    <3>3. QED
      BY <2>2, <3>1, <3>2, EmptyRange
  <2>3. QED
    BY <2>1, <2>2
<1>3. Ahead(Range(d), Range(mid), Ordinary)
  BY <1>2 DEF OrderInv, Ahead
<1>4. Ahead(Range(mid), Range(queue), Ordinary)
  BY <1>2 DEF OrderInv, Ahead
<1> HIDE DEF mid
<1>5. /\ front \in Seq(AllMsgs) /\ InOrder(front, Ordinary)
      /\ Range(front) = Range(d) \cup Range(mid)
  BY <1>0, <1>2, <1>3, ListsOfMessages
<1> HIDE DEF front
<1>6. Ahead(Range(front), Range(queue), Ordinary)
  BY <1>4, <1>5 DEF OrderInv, Ahead
<1>7. /\ Waiting \in Seq(AllMsgs) /\ InOrder(Waiting, Ordinary)
      /\ Range(Waiting) = Range(front) \cup Range(queue)
  BY <1>0, <1>1, <1>5, <1>6, ListsOfMessages
<1>8. WaitInOrder
  <2>1. DOMAIN Waiting = 1 .. Len(Waiting)
    BY <1>7, RangePlaces
  <2>2. QED
    BY <1>7, <2>1 DEF WaitInOrder, InOrder, Ord, Ordinary
<1>9. NoMessageLost
  BY <1>2, <1>5, <1>7 DEF KeptInv, NoMessageLost
<1>10. QED
  BY <1>8, <1>9 DEF MessagesKept

\* No message is lost by deferring, removing, transiting and quitting, and
\* none overtakes an earlier one, however often user code defers and asks for
\* transitions (StateMachine.h).
THEOREM MessagesStay == SmSpec => []MessagesKept
<1>1. SmInit => MsgInv
  BY MsgInit
<1>2. MsgInv /\ [SmNext]_smVars => MsgInv'
  BY MsgStep
<1>3. MsgInv => MessagesKept
  BY WaitingInOrder
<1>4. QED
  BY <1>1, <1>2, <1>3, PTL DEF SmSpec

-----------------------------------------------------------------------------
(* The tree of states of the machine.  From every state one path leads up to *)
(* a root, and no state comes twice on a path.                               *)

LEMMA ParentTypes ==
  /\ NoState \notin AllStates /\ States \subseteq AllStates
  /\ mHaltingState \in AllStates \ States /\ mQuittingState \in AllStates \ States
  /\ mInitialState \in States
  /\ \A s \in AllStates : ParentOf(s) \in States \cup {NoState}
BY StateMachineAssumption DEF AllStates, ParentOf

\* What holds of the roots, and of every state whose parent it holds of, holds
\* of all states.
LEMMA FromTheRoots ==
  ASSUME NEW G, \A s \in AllStates : ParentOf(s) \in G \cup {NoState} => s \in G
  PROVE  \A s \in AllStates : s \in G
<1> DEFINE T == States \ G
<1>1. T = {}
  <2>1. ASSUME T # {}
        PROVE  FALSE
    <3>1. PICK s \in T : Parent[s] \notin T
      BY <2>1, StateTreeAssumption
    <3>2. s \in AllStates /\ ParentOf(s) = Parent[s] /\ ParentOf(s) \in States \cup {NoState}
      BY ParentTypes DEF ParentOf
    <3>3. ParentOf(s) \in G \cup {NoState}
      BY <3>1, <3>2
    <3>4. s \in G
      BY <3>2, <3>3
    <3>5. QED
      BY <3>4
  <2>2. QED
    BY <2>1
<1>2. \A s \in AllStates : s \notin States => ParentOf(s) = NoState
  BY DEF ParentOf
<1>3. QED
  BY <1>1, <1>2

IsPath(p, s) ==
    /\ p \in Seq(AllStates) /\ Len(p) >= 1 /\ p[1] = s
    /\ \A i \in 2 .. Len(p) : p[i] = ParentOf(p[i - 1])
    /\ ParentOf(p[Len(p)]) = NoState

LEMMA PathOfRoot ==
  ASSUME NEW s \in AllStates, ParentOf(s) = NoState
  PROVE  IsPath(<<s>>, s)
<1> DEFINE p == <<s>>
<1>1. p \in Seq(AllStates) /\ Len(p) = 1 /\ p[1] = s
  OBVIOUS
<1> HIDE DEF p
<1>2. IsPath(p, s)
  BY <1>1 DEF IsPath
<1>3. QED
  BY <1>2 DEF p

LEMMA PathFromParent ==
  ASSUME NEW s \in AllStates, NEW q, IsPath(q, ParentOf(s))
  PROVE  IsPath(<<s>> \o q, s)
<1> DEFINE one == <<s>>
           p == one \o q
<1>1. one \in Seq(AllStates) /\ Len(one) = 1 /\ one[1] = s
  OBVIOUS
<1> HIDE DEF one
<1>2. q \in Seq(AllStates) /\ Len(q) \in Nat /\ Len(q) >= 1 /\ q[1] = ParentOf(s)
  BY LenProperties DEF IsPath
<1>3. /\ p \in Seq(AllStates) /\ Len(p) = 1 + Len(q)
      /\ \A i \in 1 .. 1 + Len(q) : p[i] = IF i <= 1 THEN one[i] ELSE q[i - 1]
  <2>1. /\ p \in Seq(AllStates) /\ Len(p) = Len(one) + Len(q)
        /\ \A i \in 1 .. Len(one) + Len(q) : p[i] = IF i <= Len(one) THEN one[i] ELSE q[i - Len(one)]
    BY <1>1, <1>2, ConcatProperties
  <2> HIDE DEF p
  <2>2. QED
    BY <1>1, <2>1
<1> HIDE DEF p
<1>4. p[1] = s
  BY <1>1, <1>2, <1>3
<1>5. \A i \in 2 .. Len(p) : p[i] = q[i - 1]
  BY <1>2, <1>3
<1>6. p[Len(p)] = q[Len(q)]
  BY <1>2, <1>3, <1>5
<1>7. ASSUME NEW i \in 2 .. Len(p)
      PROVE  p[i] = ParentOf(p[i - 1])
  <2>1. CASE i = 2
    BY <1>2, <1>4, <1>5, <2>1
  <2>2. CASE i # 2
    <3>1. i - 1 \in 2 .. Len(p) /\ i - 1 \in 2 .. Len(q) /\ (i - 1) - 1 = i - 2
      BY <1>2, <1>3, <2>2
    <3>2. p[i] = q[i - 1] /\ p[i - 1] = q[i - 2]
      BY <1>5, <3>1
    <3>3. q[i - 1] = ParentOf(q[i - 2])
      BY <3>1 DEF IsPath
    <3>4. QED
      BY <3>2, <3>3
  <2>3. QED
    BY <2>1, <2>2
<1>8. ParentOf(p[Len(p)]) = NoState
  BY <1>6 DEF IsPath
<1>9. IsPath(p, s)
  BY <1>2, <1>3, <1>4, <1>7, <1>8 DEF IsPath
<1>10. QED
  BY <1>9 DEF p, one

LEMMA NotLonger ==
  ASSUME NEW s, NEW p, NEW q, IsPath(p, s), IsPath(q, s)
  PROVE  /\ Len(p) >= Len(q)
         /\ \A i \in 1 .. Len(q) : p[i] = q[i]
<1>1. /\ p \in Seq(AllStates) /\ q \in Seq(AllStates) /\ Len(p) \in Nat /\ Len(q) \in Nat
      /\ Len(p) >= 1 /\ Len(q) >= 1
  BY LenProperties DEF IsPath
<1> DEFINE T == {i \in 1 .. Len(q) : i > Len(p) \/ p[i] # q[i]}
<1>2. T = {}
  <2>1. ASSUME T # {}
        PROVE  FALSE
    <3>1. T \subseteq Nat
      OBVIOUS
    <3>2. PICK i \in T : \A j \in T : i <= j
      <4> HIDE DEF T
      <4>1. QED
        BY <2>1, <3>1, LeastNatural
    <3>3. i # 1
      BY <1>1 DEF IsPath
    <3>4. i - 1 \in 1 .. Len(q) /\ i - 1 \notin T /\ i \in 2 .. Len(q)
      BY <1>1, <3>2, <3>3
    <3>5. i - 1 <= Len(p) /\ p[i - 1] = q[i - 1]
      BY <1>1, <3>4
    <3>6. q[i] = ParentOf(p[i - 1])
      BY <3>4, <3>5 DEF IsPath
    <3>7. q[i] # NoState
      BY <1>1, <3>4, ElementOfSeq, ParentTypes
    <3>8. i - 1 # Len(p)
      BY <3>6, <3>7 DEF IsPath
    <3>9. i \in 2 .. Len(p)
      BY <1>1, <3>4, <3>5, <3>8
    <3>10. p[i] = q[i]
      BY <3>6, <3>9 DEF IsPath
    <3>11. QED
      BY <1>1, <3>9, <3>10
  <2>2. QED
    BY <2>1
<1>3. \A i \in 1 .. Len(q) : i <= Len(p) /\ p[i] = q[i]
  <2>1. \A i \in 1 .. Len(q) : ~ (i > Len(p)) /\ p[i] = q[i]
    BY <1>2
  <2>2. QED
    BY <1>1, <2>1
<1>4. Len(q) \in 1 .. Len(q)
  BY <1>1
<1>5. QED
  BY <1>1, <1>3, <1>4

LEMMA OnePath ==
  ASSUME NEW s, NEW p, NEW q, IsPath(p, s), IsPath(q, s)
  PROVE  p = q
<1>1. p \in Seq(AllStates) /\ q \in Seq(AllStates) /\ Len(p) \in Nat /\ Len(q) \in Nat
  BY LenProperties DEF IsPath
<1>2. Len(p) = Len(q) /\ \A i \in 1 .. Len(p) : p[i] = q[i]
  <2>1. Len(p) >= Len(q) /\ Len(q) >= Len(p)
    BY NotLonger
  <2>2. Len(p) = Len(q)
    BY <1>1, <2>1
  <2>3. \A i \in 1 .. Len(q) : p[i] = q[i]
    BY NotLonger
  <2>4. QED
    BY <2>2, <2>3
<1>3. QED
  BY <1>1, <1>2, SeqEqual

LEMMA EveryPath == \A s \in AllStates : \E p : IsPath(p, s)
<1> DEFINE G == {s \in AllStates : \E p : IsPath(p, s)}
<1>1. ASSUME NEW s \in AllStates, ParentOf(s) \in G \cup {NoState}
      PROVE  s \in G
  <2>1. CASE ParentOf(s) = NoState
    BY <2>1, PathOfRoot
  <2>2. CASE ParentOf(s) \in G
    <3>1. PICK q : IsPath(q, ParentOf(s))
      BY <2>2
    <3>2. IsPath(<<s>> \o q, s)
      BY <3>1, PathFromParent
    <3>3. QED
      BY <3>2
  <2>3. QED
    BY <1>1, <2>1, <2>2
<1> HIDE DEF G
<1>2. \A s \in AllStates : s \in G
  BY <1>1, FromTheRoots
<1>3. QED
  BY <1>2 DEF G

\* getParent again and again: the recursion of PathUp comes to its end.
LEMMA PathUpIsPath == \A s \in AllStates : IsPath(PathUp[s], s)
<1> DEFINE f == [s \in AllStates |-> CHOOSE p : IsPath(p, s)]
<1>1. \A s \in AllStates : IsPath(f[s], s)
  BY EveryPath
<1>2. f = [s \in AllStates |-> f[s]]
  OBVIOUS
<1> HIDE DEF f
<1>3. ASSUME NEW s \in AllStates
      PROVE  f[s] = IF ParentOf(s) = NoState THEN <<s>> ELSE <<s>> \o f[ParentOf(s)]
  <2>1. CASE ParentOf(s) = NoState
    <3>1. IsPath(<<s>>, s)
      BY <2>1, PathOfRoot
    <3>2. f[s] = <<s>>
      BY <1>1, <3>1, OnePath
    <3>3. QED
      BY <2>1, <3>2
  <2>2. CASE ParentOf(s) # NoState
    <3>1. ParentOf(s) \in AllStates
      BY <2>2, ParentTypes
    <3>2. IsPath(<<s>> \o f[ParentOf(s)], s)
      BY <1>1, <3>1, PathFromParent
    <3>3. f[s] = <<s>> \o f[ParentOf(s)]
      BY <1>1, <3>2, OnePath
    <3>4. QED
      BY <2>2, <3>3
  <2>3. QED
    BY <2>1, <2>2
<1>4. f = [s \in AllStates |-> IF ParentOf(s) = NoState THEN <<s>> ELSE <<s>> \o f[ParentOf(s)]]
  BY <1>2, <1>3, Zenon
<1>5. PathUp = [s \in AllStates |->
                  IF ParentOf(s) = NoState THEN <<s>> ELSE <<s>> \o PathUp[ParentOf(s)]]
  BY <1>4, Zenon DEF PathUp
<1> HIDE DEF PathUp
<1>6. \A s \in AllStates :
         PathUp[s] = IF ParentOf(s) = NoState THEN <<s>> ELSE <<s>> \o PathUp[ParentOf(s)]
  BY <1>5, Zenon
<1> DEFINE G == {s \in AllStates : IsPath(PathUp[s], s)}
<1>7. ASSUME NEW s \in AllStates, ParentOf(s) \in G \cup {NoState}
      PROVE  s \in G
  <2>1. CASE ParentOf(s) = NoState
    <3>1. PathUp[s] = <<s>>
      BY <1>6, <2>1
    <3>2. IsPath(PathUp[s], s)
      BY <2>1, <3>1, PathOfRoot
    <3>3. QED
      BY <3>2
  <2>2. CASE ParentOf(s) # NoState
    <3>1. IsPath(PathUp[ParentOf(s)], ParentOf(s))
      BY <1>7, <2>2
    <3>2. PathUp[s] = <<s>> \o PathUp[ParentOf(s)]
      BY <1>6, <2>2
    <3>3. IsPath(PathUp[s], s)
      BY <3>1, <3>2, PathFromParent
    <3>4. QED
      BY <3>3
  <2>3. QED
    BY <2>1, <2>2
<1> HIDE DEF G
<1>8. \A s \in AllStates : s \in G
  BY <1>7, FromTheRoots
<1>9. QED
  BY <1>8 DEF G

\* A list of states that starts at a root and goes down child by child, as
\* mStateStack does
Rooted(s) ==
    /\ Len(s) >= 1 => ParentOf(s[1]) = NoState
    /\ \A i \in 2 .. Len(s) : ParentOf(s[i]) = s[i - 1]

LEMMA RootedOnce ==
  ASSUME NEW s \in Seq(AllStates), Rooted(s)
  PROVE  \A i, j \in 1 .. Len(s) : i < j => s[i] # s[j]
<1>1. Len(s) \in Nat /\ \A i \in 1 .. Len(s) : s[i] \in AllStates
  BY LenProperties, ElementOfSeq
<1> DEFINE T == {i \in 1 .. Len(s) : \E j \in 1 .. Len(s) : i < j /\ s[i] = s[j]}
<1>2. T = {}
  <2>1. ASSUME T # {}
        PROVE  FALSE
    <3>1. T \subseteq Nat
      OBVIOUS
    <3>2. PICK i \in T : \A k \in T : i <= k
      <4> HIDE DEF T
      <4>1. QED
        BY <2>1, <3>1, LeastNatural
    <3>3. PICK j \in 1 .. Len(s) : i < j /\ s[i] = s[j]
      OBVIOUS
    <3>4. i \in 1 .. Len(s) /\ j \in 2 .. Len(s) /\ j - 1 \in 1 .. Len(s)
      BY <1>1, <3>3
    <3>5. ParentOf(s[j]) = s[j - 1] /\ s[j - 1] # NoState
      BY <1>1, <3>4, ParentTypes DEF Rooted
    <3>6. i # 1
      BY <1>1, <3>3, <3>4, <3>5 DEF Rooted
    <3>7. i \in 2 .. Len(s) /\ i - 1 \in 1 .. Len(s) /\ i - 1 < j - 1 /\ ~ (i <= i - 1)
      BY <1>1, <3>3, <3>4, <3>6
    <3>8. s[i - 1] = s[j - 1]
      BY <3>3, <3>5, <3>7 DEF Rooted
    <3>9. i - 1 \in T
      BY <3>4, <3>7, <3>8
    <3>10. QED
      BY <3>2, <3>7, <3>9
  <2>2. QED
    BY <2>1
<1>3. QED
  BY <1>2

\* exit() takes the last state off the stack.
LEMMA FrontOfRooted ==
  ASSUME NEW s \in Seq(AllStates), s # <<>>, Rooted(s)
  PROVE  /\ Front(s) \in Seq(AllStates) /\ Rooted(Front(s))
         /\ Last(s) \in AllStates /\ Last(s) \in Range(s)
         /\ Range(Front(s)) = Range(s) \ {Last(s)}
<1> DEFINE f == Front(s)
           n == Len(s)
<1>1. n \in Nat /\ n >= 1 /\ \A i \in 1 .. n : s[i] \in AllStates
  BY LenProperties, ElementOfSeq, EmptySeq
<1>2. f = SubSeq(s, 1, n - 1)
  BY DEF Front
<1>3. /\ f \in Seq(AllStates) /\ Len(f) = n - 1
      /\ \A i \in 1 .. n - 1 : f[i] = s[i]
  <2>1. 1 \in Int /\ n - 1 \in Int /\ (n - 1) - 1 + 1 = n - 1 /\ \A i \in 1 .. n - 1 : i \in 1 .. n /\ (1 + i) - 1 = i
    BY <1>1
  <2>2. /\ SubSeq(s, 1, n - 1) \in Seq(AllStates)
        /\ Len(SubSeq(s, 1, n - 1)) = IF 1 <= n - 1 THEN (n - 1) - 1 + 1 ELSE 0
        /\ \A i \in 1 .. (n - 1) - 1 + 1 : SubSeq(s, 1, n - 1)[i] = s[(1 + i) - 1]
    <3> HIDE DEF n, f
    <3>1. \A i \in 1 .. n - 1 : s[i] \in AllStates
      BY <1>1, <2>1
    <3>2. QED
      BY <2>1, <3>1, SubSeqProperties
  <2> HIDE DEF f, n
  <2>3. QED
    BY <1>1, <1>2, <2>1, <2>2
<1> HIDE DEF f
<1>4. Rooted(f)
  <2>1. \A i \in 2 .. Len(f) : i \in 2 .. n /\ i \in 1 .. n - 1 /\ i - 1 \in 1 .. n - 1
    BY <1>1, <1>3
  <2>2. Len(f) >= 1 => 1 \in 1 .. n - 1 /\ n >= 1
    BY <1>1, <1>3
  <2>3. QED
    BY <1>3, <2>1, <2>2 DEF Rooted
<1>5. Last(s) = s[n] /\ n \in 1 .. n
  BY <1>1 DEF Last
<1>6. \A e : e \in Range(s) <=> \E i \in 1 .. n : s[i] = e
  BY RangePlaces
<1>7. \A e : e \in Range(f) <=> \E i \in 1 .. n - 1 : s[i] = e
  <2>1. \A e : e \in Range(f) <=> \E i \in 1 .. Len(f) : f[i] = e
    BY <1>3, RangePlaces
  <2>2. QED
    BY <1>3, <2>1
<1>8. \A i \in 1 .. n - 1 : i \in 1 .. n /\ s[i] # s[n]
  BY <1>1, <1>5, RootedOnce
<1>9. \A i \in 1 .. n : i = n \/ i \in 1 .. n - 1
  BY <1>1
<1>10. Range(f) = Range(s) \ {Last(s)}
  BY <1>5, <1>6, <1>7, <1>8, <1>9
<1>11. QED
  BY <1>1, <1>3, <1>4, <1>5, <1>6, <1>10 DEF f

\* k states of a path, turned round, go below a stack whose last state is the
\* parent of the k-th.
GoesBelow(s, p, d, k, t) ==
    /\ s \in Seq(AllStates) /\ Rooted(s) /\ IsPath(p, d) /\ k \in 1 .. Len(p)
    /\ s = <<>> => ParentOf(p[k]) = NoState
    /\ s # <<>> => ParentOf(p[k]) = Last(s)
    /\ t = s \o Reverse(SubSeq(p, 1, k))

LEMMA PathGoesBelow ==
  ASSUME NEW s, NEW p, NEW d, NEW k, NEW t, GoesBelow(s, p, d, k, t)
  PROVE  /\ t \in Seq(AllStates) /\ Rooted(t) /\ Len(t) = Len(s) + k
         /\ \A i \in 1 .. Len(s) : t[i] = s[i]
         /\ t[Len(t)] = d
<1>0. /\ s \in Seq(AllStates) /\ Rooted(s) /\ IsPath(p, d) /\ k \in 1 .. Len(p)
      /\ s = <<>> => ParentOf(p[k]) = NoState
      /\ s # <<>> => ParentOf(p[k]) = Last(s)
  BY DEF GoesBelow
<1> DEFINE q == SubSeq(p, 1, k)
           r == Reverse(q)
<1>1. /\ p \in Seq(AllStates) /\ Len(p) \in Nat /\ k \in Nat /\ k >= 1 /\ k <= Len(p)
      /\ Len(s) \in Nat /\ \A i \in 1 .. Len(p) : p[i] \in AllStates
  BY <1>0, LenProperties, ElementOfSeq DEF IsPath
<1>2. q \in Seq(AllStates) /\ Len(q) = k /\ \A i \in 1 .. k : q[i] = p[i]
  <2>1. 1 \in Int /\ k \in Int /\ k - 1 + 1 = k /\ 1 <= k
        /\ \A i \in 1 .. k : i \in 1 .. Len(p) /\ (1 + i) - 1 = i
    BY <1>1
  <2>2. \A i \in 1 .. k : p[i] \in AllStates
    BY <1>1, <2>1
  <2>3. /\ q \in Seq(AllStates)
        /\ Len(q) = IF 1 <= k THEN k - 1 + 1 ELSE 0
        /\ \A i \in 1 .. k - 1 + 1 : q[i] = p[(1 + i) - 1]
    BY <2>1, <2>2, SubSeqProperties
  <2> HIDE DEF q
  <2>4. QED
    BY <2>1, <2>3
<1>t. t = s \o r
  BY DEF GoesBelow
<1> HIDE DEF q
<1>3. r \in Seq(AllStates) /\ Len(r) = k /\ \A i \in 1 .. k : r[i] = p[(k - i) + 1]
  <2>1. \A i \in 1 .. k : (k - i) + 1 \in 1 .. k /\ (k - i) + 1 \in 1 .. Len(p)
    BY <1>1
  <2>2. r = [i \in 1 .. k |-> q[(k - i) + 1]]
    BY <1>2 DEF Reverse
  <2>3. \A i \in 1 .. k : q[(k - i) + 1] \in AllStates
    BY <1>1, <1>2, <2>1
  <2>4. r \in [1 .. k -> AllStates]
    BY <2>2, <2>3
  <2>5. r \in Seq(AllStates) /\ Len(r) = k
    <3> HIDE DEF r
    <3>1. QED
      BY <1>1, <2>4, FunctionIsList
  <2>6. \A i \in 1 .. k : r[i] = q[(k - i) + 1]
    BY <2>2
  <2>7. QED
    BY <1>2, <2>1, <2>5, <2>6
<1> HIDE DEF r
<1>4. /\ t \in Seq(AllStates) /\ Len(t) = Len(s) + k
      /\ \A i \in 1 .. Len(s) : t[i] = s[i]
      /\ \A i \in 1 .. k : t[Len(s) + i] = r[i]
  <2>0. /\ s \o r \in Seq(AllStates) /\ Len(s \o r) = Len(s) + Len(r)
        /\ \A i \in 1 .. Len(s) + Len(r) : (s \o r)[i] = IF i <= Len(s) THEN s[i] ELSE r[i - Len(s)]
    BY <1>0, <1>1, <1>3, ConcatProperties
  <2>1. /\ t \in Seq(AllStates) /\ Len(t) = Len(s) + Len(r)
        /\ \A i \in 1 .. Len(s) + Len(r) : t[i] = IF i <= Len(s) THEN s[i] ELSE r[i - Len(s)]
    BY <1>t, <2>0
  <2>2. \A i \in 1 .. Len(s) : i \in 1 .. Len(s) + k /\ i <= Len(s)
    BY <1>1
  <2>3. \A i \in 1 .. k : Len(s) + i \in 1 .. Len(s) + k /\ ~ (Len(s) + i <= Len(s)) /\ (Len(s) + i) - Len(s) = i
    BY <1>1
  <2>4. Len(r) = k
    BY <1>3
  <2>5. \A i \in 1 .. Len(s) : t[i] = s[i]
    BY <2>1, <2>2, <2>4
  <2>6. \A i \in 1 .. k : t[Len(s) + i] = r[i]
    <3> SUFFICES ASSUME NEW i \in 1 .. k
                 PROVE  t[Len(s) + i] = r[i]
      OBVIOUS
    <3>1. Len(s) + i \in 1 .. Len(s) + Len(r)
      BY <2>3, <2>4
    <3>2. t[Len(s) + i] = r[(Len(s) + i) - Len(s)]
      BY <2>1, <2>3, <3>1
    <3>3. QED
      BY <2>3, <3>2
  <2>7. QED
    BY <2>1, <2>4, <2>5, <2>6
<1>5. \A i \in 1 .. k : t[Len(s) + i] = p[(k - i) + 1]
  BY <1>3, <1>4
<1>6. t[Len(s) + 1] = p[k] /\ t[Len(s) + k] = p[1]
  <2>1. 1 \in 1 .. k /\ k \in 1 .. k /\ (k - 1) + 1 = k /\ (k - k) + 1 = 1
    BY <1>1
  <2>2. QED
    BY <1>5, <2>1
<1>7. ParentOf(t[1]) = NoState
  <2>1. CASE s = <<>>
    <3>1. Len(s) + 1 = 1
      BY <2>1, EmptyRange
    <3>2. QED
      BY <1>0, <1>6, <2>1, <3>1
  <2>2. CASE s # <<>>
    <3>1. Len(s) >= 1 /\ 1 \in 1 .. Len(s)
      BY <1>0, <1>1, <2>2, EmptySeq
    <3>2. QED
      BY <1>0, <1>4, <3>1 DEF Rooted
  <2>3. QED
    BY <2>1, <2>2
<1>8. ASSUME NEW i \in 2 .. Len(t)
      PROVE  ParentOf(t[i]) = t[i - 1]
  <2>1. CASE i <= Len(s)
    <3>1. i \in 2 .. Len(s) /\ i \in 1 .. Len(s) /\ i - 1 \in 1 .. Len(s)
      BY <1>1, <2>1
    <3>2. QED
      BY <1>0, <1>4, <3>1 DEF Rooted
  <2>2. CASE i = Len(s) + 1
    <3>1. Len(s) \in 1 .. Len(s) /\ i - 1 = Len(s) /\ Len(s) # 0
      BY <1>1, <2>2
    <3>2. s # <<>>
      BY <3>1, EmptyRange
    <3>3. ParentOf(p[k]) = s[Len(s)]
      BY <1>0, <3>2 DEF Last
    <3>4. QED
      BY <1>4, <1>6, <2>2, <3>1, <3>3
  <2>3. CASE i > Len(s) + 1
    <3> DEFINE j == i - Len(s)
    <3>1. i \in Int /\ Len(s) \in Int /\ i <= Len(s) + k
      BY <1>1, <1>4
    <3>2. /\ j \in 2 .. k /\ j - 1 \in 1 .. k /\ j \in 1 .. k
          /\ i = Len(s) + j /\ i - 1 = Len(s) + (j - 1)
      BY <1>1, <2>3, <3>1
    <3> HIDE DEF j
    <3>3. (k - (j - 1)) + 1 \in 2 .. Len(p) /\ ((k - (j - 1)) + 1) - 1 = (k - j) + 1
      BY <1>1, <3>2
    <3>4. t[i] = p[(k - j) + 1] /\ t[i - 1] = p[(k - (j - 1)) + 1]
      BY <1>5, <3>2
    <3>5. p[(k - (j - 1)) + 1] = ParentOf(p[(k - j) + 1])
      BY <1>0, <3>3 DEF IsPath
    <3>6. QED
      BY <3>4, <3>5
  <2>4. QED
    BY <1>1, <1>4, <2>1, <2>2, <2>3
<1>9. Rooted(t)
  BY <1>7, <1>8 DEF Rooted
<1>10. t[Len(t)] = d
  BY <1>0, <1>1, <1>4, <1>6 DEF IsPath
<1>11. QED
  BY <1>4, <1>9, <1>10

\* setupTempStateStackWithStatesToEnter goes up from s until k states are
\* found and the next is active, or there is none.
StopsAt(s, k) ==
    /\ k \in 1 .. Len(PathUp[s])
    /\ \A i \in 2 .. k : PathUp[s][i] \notin active
    /\ k < Len(PathUp[s]) => PathUp[s][k + 1] \in active

LEMMA FirstK ==
  ASSUME NEW s \in AllStates
  PROVE  \E k : StopsAt(s, k) /\ Last(StatesToEnter(s)) = PathUp[s][k]
<1> DEFINE p == PathUp[s]
           stops == {i \in 2 .. Len(p) : p[i] \in active}
<1>1. IsPath(p, s)
  BY PathUpIsPath
<1>2. p \in Seq(AllStates) /\ Len(p) \in Nat /\ Len(p) >= 1
  BY <1>1, LenProperties DEF IsPath
<1>3. StatesToEnter(s) = IF stops = {} THEN p ELSE SubSeq(p, 1, Min(stops) - 1)
  BY DEF StatesToEnter
<1>4. CASE stops = {}
  <2>1. \A i \in 2 .. Len(p) : p[i] \notin active
    BY <1>4
  <2>2. Len(p) \in 1 .. Len(p) /\ ~ (Len(p) < Len(p))
    BY <1>2
  <2>3. StatesToEnter(s) = p
    BY <1>3, <1>4
  <2>4. StopsAt(s, Len(p))
    BY <2>1, <2>2 DEF StopsAt
  <2>5. QED
    BY <2>3, <2>4 DEF Last
<1>5. CASE stops # {}
  <2>1. stops \subseteq Nat
    BY <1>2
  <2> DEFINE m == Min(stops)
             k == m - 1
  <2>2. m \in stops /\ \A y \in stops : m <= y
    <3> HIDE DEF stops
    <3>1. \E x \in stops : \A y \in stops : x <= y
      BY <1>5, <2>1, LeastNatural
    <3>2. QED
      BY <3>1 DEF Min
  <2> HIDE DEF m
  <2>3. m \in 2 .. Len(p) /\ p[m] \in active /\ m \in Nat
    BY <2>1, <2>2
  <2>4. /\ k \in 1 .. Len(p) /\ k + 1 = m /\ k >= 1 /\ k \in Int /\ k - 1 + 1 = k
        /\ \A i \in 1 .. k : i \in 1 .. Len(p)
        /\ \A i \in 2 .. k : i \in 2 .. Len(p) /\ ~ (m <= i)
    BY <1>2, <2>3
  <2>5. \A i \in 2 .. k : p[i] \notin active
    BY <2>2, <2>4
  <2>6. StopsAt(s, k)
    <3> HIDE DEF k
    <3>1. p[k + 1] \in active
      BY <2>3, <2>4
    <3>2. QED
      BY <2>4, <2>5, <3>1 DEF StopsAt
  <2>7. StatesToEnter(s) = SubSeq(p, 1, k)
    BY <1>3, <1>5 DEF m
  <2> HIDE DEF k
  <2>8. Last(SubSeq(p, 1, k)) = p[k]
    <3>1. \A i \in 1 .. k : p[i] \in AllStates
      BY <1>2, <2>4, ElementOfSeq
    <3>2. /\ Len(SubSeq(p, 1, k)) = IF 1 <= k THEN k - 1 + 1 ELSE 0
          /\ \A i \in 1 .. k - 1 + 1 : SubSeq(p, 1, k)[i] = p[(1 + i) - 1]
      <4> HIDE DEF p
      <4>1. 1 \in Int
        OBVIOUS
      <4>2. QED
        BY <2>4, <3>1, <4>1, SubSeqProperties
    <3>3. 1 <= k /\ k \in 1 .. k /\ (1 + k) - 1 = k
      BY <2>4
    <3>4. QED
      BY <2>4, <3>2, <3>3 DEF Last
  <2>9. QED
    BY <2>6, <2>7, <2>8
<1>6. QED
  BY <1>4, <1>5

LEMMA EnterFirstK ==
  ASSUME NEW s \in AllStates, NEW k, StopsAt(s, k)
  PROVE  StatesToEnter(s) = SubSeq(PathUp[s], 1, k)
<1> DEFINE p == PathUp[s]
           stops == {i \in 2 .. Len(p) : p[i] \in active}
<1>1. IsPath(p, s)
  BY PathUpIsPath
<1>2. p \in Seq(AllStates) /\ Len(p) \in Nat /\ Len(p) >= 1
  BY <1>1, LenProperties DEF IsPath
<1>3. StatesToEnter(s) = IF stops = {} THEN p ELSE SubSeq(p, 1, Min(stops) - 1)
  BY DEF StatesToEnter
<1>4. k \in 1 .. Len(p) /\ \A i \in 2 .. k : p[i] \notin active
  BY DEF StopsAt
<1>5. CASE k = Len(p)
  <2>1. stops = {}
    BY <1>4, <1>5
  <2>2. SubSeq(p, 1, Len(p)) = p
    <3> HIDE DEF p
    <3>1. QED
      BY <1>2, SubSeqFull
  <2>3. QED
    BY <1>3, <1>5, <2>1, <2>2
<1>6. CASE k # Len(p)
  <2>1. k + 1 \in 2 .. Len(p) /\ k < Len(p) /\ k \in Nat
    BY <1>2, <1>4, <1>6
  <2>2. k + 1 \in stops
    BY <2>1 DEF StopsAt
  <2>3. \A y \in stops : k + 1 <= y /\ y \in Nat
    <3>1. \A y \in stops : y \in 2 .. Len(p) /\ y \notin 2 .. k
      BY <1>4
    <3> HIDE DEF stops
    <3>2. QED
      BY <1>2, <2>1, <3>1
  <2> HIDE DEF stops
  <2>4. Min(stops) \in stops /\ \A y \in stops : Min(stops) <= y
    BY <2>2, <2>3 DEF Min
  <2>5. Min(stops) = k + 1
    <3>1. Min(stops) <= k + 1 /\ k + 1 <= Min(stops) /\ Min(stops) \in Nat
      BY <2>2, <2>3, <2>4
    <3>2. QED
      BY <2>1, <3>1
  <2>6. stops # {} /\ (k + 1) - 1 = k
    BY <2>1, <2>2
  <2>7. QED
    BY <1>3, <2>5, <2>6
<1>7. QED
  BY <1>5, <1>6

\* What the machine keeps besides its messages
RecordTypes ==
    /\ log \in [vec : Seq(Msgs), oldest : 0 .. mMaxSize - 1]
    /\ urgent \subseteq Msgs /\ finished \subseteq Msgs
    /\ defers \in 0 .. MaxDefers /\ hops \in 0 .. MaxHops

StateTypes ==
    /\ pc \in {"new", "idle", "process", "transit", "setup", "exit", "enter"}
    /\ mStateStack \in Seq(AllStates) /\ active \subseteq AllStates
    /\ mDestState \in AllStates \cup {NoState} /\ destState \in AllStates \cup {NoState}
    /\ common \in AllStates \cup {NoState} /\ at \in AllStates \cup {NoState}
    /\ enteringIndex \in Nat \X Nat
    /\ mTransitionInProgress \in BOOLEAN /\ mIsConstructionCompleted \in BOOLEAN
    /\ mHasQuit \in BOOLEAN /\ quitting \in BOOLEAN

\* Where performTransitions has a state to go to
DestInv ==
    /\ pc \in {"setup", "exit"} => destState # NoState
    /\ pc \in {"new", "idle", "process", "transit"} => destState = NoState
    /\ destState # NoState => mDestState # NoState

\* Before SM_INIT_CMD the machine can do nothing but quit.
EarlyInv ==
    /\ pc = "new" => active = {} /\ mStateStack = <<>> /\ ~mIsConstructionCompleted
    /\ mHasQuit => pc = "idle"
    /\ ~mIsConstructionCompleted =>
          /\ pc # "process"
          /\ pc \in {"transit", "setup", "exit", "enter"} =>
                mDestState = mQuittingState /\ destState \in {NoState, mQuittingState}
          /\ pc = "enter" => destState # NoState

\* The stack goes down from a root, and the states on it are the active ones;
\* while states are entered, those entered so far.
ActiveInv ==
    /\ Rooted(mStateStack)
    /\ pc \notin {"new", "exit"} => mStateStack # <<>>
    /\ pc \notin {"new", "enter"} =>
          IF mIsConstructionCompleted THEN active = Range(mStateStack) ELSE mHasQuit \/ active = {}
    /\ pc = "exit" =>
          \E k : StopsAt(destState, k) /\ common = ParentOf(PathUp[destState][k])
    /\ pc = "enter" =>
          /\ enteringIndex[2] \in 1 .. Len(mStateStack) + 1
          /\ active = {mStateStack[i] : i \in 1 .. enteringIndex[2] - 1}
          /\ destState # NoState => Last(mStateStack) = destState

MachineInv == StateTypes /\ DestInv /\ EarlyInv /\ ActiveInv

\* What moves neither the machine's place nor its states
LEMMA MachineStays ==
  ASSUME MachineInv, UNCHANGED <<pc, transition, mIsConstructionCompleted, mHasQuit>>,
         quitting' \in BOOLEAN
  PROVE  MachineInv'
<1>1. UNCHANGED <<pc, mStateStack, active, mDestState, destState, common, at, enteringIndex,
                  mTransitionInProgress, mIsConstructionCompleted, mHasQuit>>
  BY DEF transition
<1>2. StateTypes'
  BY <1>1 DEF MachineInv, StateTypes
<1>3. DestInv' /\ EarlyInv'
  BY <1>1 DEF MachineInv, DestInv, EarlyInv
<1>4. ActiveInv'
  BY <1>1 DEF MachineInv, ActiveInv, Rooted, StopsAt
<1>5. QED
  BY <1>2, <1>3, <1>4 DEF MachineInv

LEMMA MachineInit == SmInit => MachineInv
<1> SUFFICES ASSUME SmInit
             PROVE  MachineInv
  OBVIOUS
<1>1. StateTypes
  <2>1. <<>> \in Seq(AllStates) /\ <<0, 0>> \in Nat \X Nat
    BY EmptyRange
  <2>2. QED
    BY <2>1 DEF SmInit, StateTypes
<1>2. DestInv /\ EarlyInv
  BY DEF SmInit, DestInv, EarlyInv
<1>3. Rooted(<<>>)
  BY EmptyRange DEF Rooted
<1>4. ActiveInv
  BY <1>3 DEF SmInit, ActiveInv
<1>5. QED
  BY <1>1, <1>2, <1>4 DEF MachineInv

LEMMA ReverseIsList ==
  ASSUME NEW S, NEW s \in Seq(S)
  PROVE  Reverse(s) \in Seq(S)
<1>1. Len(s) \in Nat /\ \A i \in 1 .. Len(s) : s[i] \in S
  BY LenProperties, ElementOfSeq
<1>2. \A i \in 1 .. Len(s) : (Len(s) - i) + 1 \in 1 .. Len(s)
  BY <1>1
<1>3. Reverse(s) \in [1 .. Len(s) -> S]
  BY <1>1, <1>2 DEF Reverse
<1>4. QED
  BY <1>1, <1>3, FunctionIsList

\* start puts the initial state and its ancestors on the stack.
LEMMA StartIsRooted ==
  /\ InitialStack \in Seq(AllStates) /\ InitialStack # <<>> /\ Rooted(InitialStack)
<1> DEFINE p == PathUp[mInitialState]
           n == Len(p)
           e == <<>>
           t == e \o Reverse(SubSeq(p, 1, n))
<1>1. IsPath(p, mInitialState)
  BY PathUpIsPath, ParentTypes
<1>2. p \in Seq(AllStates) /\ n \in 1 .. n /\ n \in Nat /\ ParentOf(p[n]) = NoState
  BY <1>1, LenProperties DEF IsPath
<1>3. e \in Seq(AllStates) /\ Rooted(e) /\ e = <<>> /\ Len(e) = 0
  BY EmptyRange DEF Rooted
<1>4. SubSeq(p, 1, n) = p
  <2> HIDE DEF p
  <2>1. QED
    BY <1>2, SubSeqFull
<1>5. t \in Seq(AllStates) /\ Rooted(t) /\ Len(t) = 0 + n
  <2>1. GoesBelow(e, p, mInitialState, n, t)
    BY <1>1, <1>2, <1>3 DEF GoesBelow
  <2> HIDE DEF p, e, n, t
  <2>2. t \in Seq(AllStates) /\ Rooted(t) /\ Len(t) = Len(e) + n
    BY <2>1, PathGoesBelow
  <2>3. QED
    BY <1>3, <2>2
<1>6. t = InitialStack
  <2>1. InitialStack = Reverse(p)
    BY DEF InitialStack
  <2>2. Reverse(p) \in Seq(AllStates)
    <3> HIDE DEF p
    <3>1. QED
      BY <1>2, ReverseIsList
  <2>3. t = e \o Reverse(p)
    BY <1>4
  <2> HIDE DEF t, p
  <2>4. QED
    BY <2>1, <2>2, <2>3, ConcatEmptySeq DEF e
<1>7. InitialStack # <<>>
  <2>1. 0 + n # 0
    BY <1>2
  <2>2. QED
    BY <1>5, <1>6, <2>1, EmptyRange
<1>8. QED
  BY <1>5, <1>6, <1>7

LEMMA StackTypes ==
  ASSUME MachineInv
  PROVE  /\ mStateStack \in Seq(AllStates) /\ Len(mStateStack) \in Nat /\ Rooted(mStateStack)
         /\ active \subseteq AllStates
         /\ mStateStack # <<>> => Last(mStateStack) \in AllStates
         /\ \A i \in 1 .. Len(mStateStack) : mStateStack[i] \in AllStates
         /\ \A e : e \in Range(mStateStack) <=> \E i \in 1 .. Len(mStateStack) : mStateStack[i] = e
<1>1. mStateStack \in Seq(AllStates) /\ Rooted(mStateStack) /\ active \subseteq AllStates
  BY DEF MachineInv, StateTypes, ActiveInv
<1>2. Len(mStateStack) \in Nat /\ \A i \in 1 .. Len(mStateStack) : mStateStack[i] \in AllStates
  BY <1>1, LenProperties, ElementOfSeq
<1>3. mStateStack # <<>> => Last(mStateStack) \in AllStates
  BY <1>1, FrontOfRooted
<1>4. \A e : e \in Range(mStateStack) <=> \E i \in 1 .. Len(mStateStack) : mStateStack[i] = e
  BY <1>1, RangePlaces
<1>5. QED
  BY <1>1, <1>2, <1>3, <1>4

LEMMA StartKeeps ==
  ASSUME MachineInv, Start
  PROVE  MachineInv'
<1>1. /\ pc = "new" /\ pc' = "idle" /\ mStateStack' = InitialStack
      /\ UNCHANGED <<active, mDestState, destState, common, at, enteringIndex,
                     mTransitionInProgress, mIsConstructionCompleted, mHasQuit, quitting>>
  BY DEF Start
<1>2. StateTypes'
  BY <1>1, StartIsRooted DEF MachineInv, StateTypes
<1>3. DestInv' /\ EarlyInv'
  BY <1>1 DEF MachineInv, DestInv, EarlyInv
<1>4. ActiveInv'
  BY <1>1, StartIsRooted DEF MachineInv, EarlyInv, ActiveInv
<1>5. QED
  BY <1>2, <1>3, <1>4 DEF MachineInv

LEMMA HandleKeeps ==
  ASSUME MachineInv, HandleMessage
  PROVE  MachineInv'
<1>1. /\ pc = "idle" /\ ~mHasQuit
      /\ UNCHANGED <<mStateStack, active, destState, common, mTransitionInProgress, mHasQuit,
                     quitting>>
  BY DEF HandleMessage
<1>2. /\ mStateStack # <<>> /\ destState = NoState
      /\ IF mIsConstructionCompleted THEN active = Range(mStateStack) ELSE active = {}
  BY <1>1 DEF MachineInv, ActiveInv, DestInv
<1>3. \/ mDestState' = mQuittingState /\ pc' = "transit"
         /\ UNCHANGED <<at, enteringIndex, mIsConstructionCompleted>>
      \/ mIsConstructionCompleted /\ at' = Last(mStateStack) /\ pc' = "process"
         /\ UNCHANGED <<mDestState, enteringIndex, mIsConstructionCompleted>>
      \/ ~mIsConstructionCompleted /\ mIsConstructionCompleted' = TRUE
         /\ enteringIndex' = <<1, 1>> /\ pc' = "enter" /\ UNCHANGED <<mDestState, at>>
  BY DEF HandleMessage
<1>4. mQuittingState \in AllStates /\ <<1, 1>> \in Nat \X Nat /\ <<1, 1>>[2] = 1
  BY ParentTypes
<1>5. StateTypes'
  BY <1>1, <1>2, <1>3, <1>4, StackTypes DEF MachineInv, StateTypes
<1>6. DestInv'
  BY <1>1, <1>2, <1>3 DEF MachineInv, DestInv
<1>7. EarlyInv'
  BY <1>1, <1>2, <1>3 DEF MachineInv, EarlyInv
<1>8. Rooted(mStateStack') /\ mStateStack' # <<>>
  BY <1>1, <1>2, StackTypes
<1>9. pc' # "enter" => ActiveInv'
  BY <1>1, <1>2, <1>3, <1>8 DEF ActiveInv
<1>10. ASSUME pc' = "enter"
       PROVE  ActiveInv'
  <2>1. ~mIsConstructionCompleted /\ enteringIndex'[2] = 1
    BY <1>3, <1>4, <1>10
  <2>2. active' = {} /\ destState' = NoState
    BY <1>1, <1>2, <2>1
  <2>3. 1 .. 1 - 1 = {} /\ 1 \in 1 .. Len(mStateStack) + 1
    BY StackTypes
  <2>4. {mStateStack'[i] : i \in 1 .. enteringIndex'[2] - 1} = {}
    BY <2>1, <2>3
  <2>5. QED
    BY <1>1, <1>8, <1>10, <2>1, <2>2, <2>3, <2>4 DEF ActiveInv
<1>11. QED
  BY <1>5, <1>6, <1>7, <1>9, <1>10 DEF MachineInv

LEMMA ProcessKeeps ==
  ASSUME MachineInv, ProcessMessage \/ HaltedProcessMessage
  PROVE  MachineInv'
<1>1. /\ pc = "process" /\ pc' \in {"process", "transit"} /\ at \in AllStates
      /\ UNCHANGED <<mStateStack, active, destState, common, enteringIndex,
                     mTransitionInProgress, mIsConstructionCompleted, mHasQuit, quitting>>
  BY ParentTypes DEF ProcessMessage, HaltedProcessMessage, transition
<1>2. at' \in AllStates \cup {NoState}
  BY <1>1, ParentTypes DEF ProcessMessage, HaltedProcessMessage, transition
<1>3. mDestState' \in AllStates \cup {NoState}
  <2>1. mDestState \in AllStates \cup {NoState}
    BY DEF MachineInv, StateTypes
  <2>2. QED
    BY <2>1, ParentTypes DEF ProcessMessage, HaltedProcessMessage, transition, TransitionTo
<1>4. mIsConstructionCompleted /\ ~mHasQuit /\ destState = NoState
  BY <1>1 DEF MachineInv, EarlyInv, DestInv
<1>5. StateTypes'
  BY <1>1, <1>2, <1>3 DEF MachineInv, StateTypes
<1>6. DestInv' /\ EarlyInv'
  BY <1>1, <1>4 DEF DestInv, EarlyInv
<1>7. ActiveInv'
  BY <1>1, <1>4 DEF MachineInv, ActiveInv
<1>8. QED
  BY <1>5, <1>6, <1>7 DEF MachineInv

LEMMA PerformKeeps ==
  ASSUME MachineInv, PerformTransitions
  PROVE  MachineInv'
<1>1. /\ pc = "transit" /\ destState' = mDestState
      /\ pc' = IF mDestState = NoState THEN "idle" ELSE "setup"
      /\ UNCHANGED <<mStateStack, active, mDestState, common, at, enteringIndex,
                     mTransitionInProgress, mIsConstructionCompleted, mHasQuit, quitting>>
  BY DEF PerformTransitions
<1>2. StateTypes'
  BY <1>1 DEF MachineInv, StateTypes
<1>3. DestInv' /\ EarlyInv'
  BY <1>1 DEF MachineInv, DestInv, EarlyInv
<1>4. ActiveInv'
  BY <1>1 DEF MachineInv, ActiveInv
<1>5. QED
  BY <1>2, <1>3, <1>4 DEF MachineInv

LEMMA SetupKeeps ==
  ASSUME MachineInv, SetupTransition
  PROVE  MachineInv'
<1>1. /\ pc = "setup" /\ pc' = "exit" /\ mTransitionInProgress' = TRUE
      /\ common' = ParentOf(Last(StatesToEnter(destState)))
      /\ UNCHANGED <<mStateStack, active, mDestState, destState, at, enteringIndex,
                     mIsConstructionCompleted, mHasQuit, quitting>>
  BY DEF SetupTransition
<1>2. destState \in AllStates
  BY <1>1 DEF MachineInv, StateTypes, DestInv
<1>3. PICK k : StopsAt(destState, k) /\ Last(StatesToEnter(destState)) = PathUp[destState][k]
  BY <1>2, FirstK
<1>4. PathUp[destState][k] \in AllStates
  <2> DEFINE p == PathUp[destState]
  <2>1. p \in Seq(AllStates)
    BY <1>2, PathUpIsPath DEF IsPath
  <2>2. k \in 1 .. Len(p)
    BY <1>3 DEF StopsAt
  <2> HIDE DEF p
  <2>3. p[k] \in AllStates
    BY <2>1, <2>2, ElementOfSeq
  <2>4. QED
    BY <2>3 DEF p
<1>5. StateTypes'
  <2>1. common' \in AllStates \cup {NoState}
    BY <1>1, <1>3, <1>4, ParentTypes
  <2>2. QED
    BY <1>1, <2>1 DEF MachineInv, StateTypes
<1>6. DestInv' /\ EarlyInv'
  BY <1>1 DEF MachineInv, DestInv, EarlyInv
<1>7. StopsAt(destState, k)'
  BY <1>1, <1>3 DEF StopsAt
<1>8. common' = ParentOf(PathUp[destState'][k])
  BY <1>1, <1>3
<1>9. ActiveInv'
  BY <1>1, <1>7, <1>8 DEF MachineInv, ActiveInv
<1>10. QED
  BY <1>5, <1>6, <1>9 DEF MachineInv

LEMMA ExitKeeps ==
  ASSUME MachineInv, Exit
  PROVE  MachineInv'
<1>1. /\ pc = "exit" /\ ~LeftAll /\ mStateStack' = Front(mStateStack)
      /\ active' = active \ {Last(mStateStack)}
      /\ UNCHANGED <<pc, mDestState, destState, common, at, enteringIndex,
                     mTransitionInProgress, mIsConstructionCompleted, mHasQuit, quitting>>
  BY DEF Exit
<1>2. mStateStack # <<>> /\ Last(mStateStack) # common
  BY <1>1 DEF LeftAll
<1>3. /\ mStateStack' \in Seq(AllStates) /\ Rooted(mStateStack')
      /\ Range(mStateStack') = Range(mStateStack) \ {Last(mStateStack)}
  BY <1>1, <1>2, StackTypes, FrontOfRooted
<1>4. StateTypes'
  BY <1>1, <1>3 DEF MachineInv, StateTypes
<1>5. DestInv' /\ EarlyInv'
  BY <1>1 DEF MachineInv, DestInv, EarlyInv
<1>6. PICK k : StopsAt(destState, k) /\ common = ParentOf(PathUp[destState][k])
  BY <1>1 DEF MachineInv, ActiveInv
<1>7. StopsAt(destState, k)'
  <2>1. k < Len(PathUp[destState]) => PathUp[destState][k + 1] = common
    <3>1. IsPath(PathUp[destState], destState) /\ Len(PathUp[destState]) \in Nat
      <4>1. destState \in AllStates
        BY <1>1 DEF MachineInv, StateTypes, DestInv
      <4>2. IsPath(PathUp[destState], destState)
        BY <4>1, PathUpIsPath
      <4>3. QED
        BY <4>2, LenProperties DEF IsPath
    <3>2. k \in 1 .. Len(PathUp[destState])
      BY <1>6 DEF StopsAt
    <3>3. k < Len(PathUp[destState]) =>
             k + 1 \in 2 .. Len(PathUp[destState]) /\ (k + 1) - 1 = k
      BY <3>1, <3>2
    <3>4. QED
      BY <1>6, <3>1, <3>3 DEF IsPath
  <2>2. QED
    BY <1>1, <1>2, <1>6, <2>1 DEF StopsAt
<1>8. IF mIsConstructionCompleted THEN active = Range(mStateStack) ELSE active = {}
  BY <1>1 DEF MachineInv, ActiveInv, EarlyInv
<1>9. IF mIsConstructionCompleted' THEN active' = Range(mStateStack') ELSE active' = {}
  BY <1>1, <1>3, <1>8
<1>10. ActiveInv'
  BY <1>1, <1>3, <1>6, <1>7, <1>9 DEF ActiveInv
<1>11. QED
  BY <1>4, <1>5, <1>10 DEF MachineInv

LEMMA MoveKeeps ==
  ASSUME MachineInv, MoveTempStateStack
  PROVE  MachineInv'
<1>1. /\ pc = "exit" /\ LeftAll /\ pc' = "enter"
      /\ mStateStack' = mStateStack \o Reverse(StatesToEnter(destState))
      /\ enteringIndex' = <<Len(mStateStack) + 1, Len(mStateStack) + 1>>
      /\ UNCHANGED <<active, mDestState, destState, common, at, mTransitionInProgress,
                     mIsConstructionCompleted, mHasQuit, quitting>>
  BY DEF MoveTempStateStack
<1> DEFINE p == PathUp[destState]
           n == Len(mStateStack)
<1>2. destState \in AllStates
  BY <1>1 DEF MachineInv, StateTypes, DestInv
<1>3. IsPath(p, destState)
  BY <1>2, PathUpIsPath
<1>4. PICK k : StopsAt(destState, k) /\ common = ParentOf(p[k])
  BY <1>1 DEF MachineInv, ActiveInv
<1>5. StatesToEnter(destState) = SubSeq(p, 1, k)
  BY <1>2, <1>4, EnterFirstK
<1>6. k \in 1 .. Len(p) /\ Len(p) \in Nat /\ (k < Len(p) => p[k + 1] \in active)
  BY <1>3, <1>4, LenProperties DEF StopsAt, IsPath
<1>7. k = Len(p) => common = NoState
  BY <1>3, <1>4 DEF IsPath
<1>8. k < Len(p) => common \in active
  <2>1. k < Len(p) => k + 1 \in 2 .. Len(p) /\ (k + 1) - 1 = k
    BY <1>6
  <2>2. QED
    BY <1>3, <1>4, <1>6, <2>1 DEF IsPath
<1>9. IF mIsConstructionCompleted THEN active = Range(mStateStack) ELSE active = {}
  BY <1>1 DEF MachineInv, ActiveInv, EarlyInv
\* Everything has been left exactly when there is no common ancestor.
<1>10. /\ mStateStack = <<>> => common = NoState
       /\ mStateStack # <<>> => common = Last(mStateStack)
       /\ active = Range(mStateStack)
  <2>1. k = Len(p) \/ k < Len(p)
    BY <1>6
  <2>2. mStateStack = <<>> => active = {}
    BY <1>9, EmptyRange
  <2>3. mStateStack # <<>> => common = Last(mStateStack) /\ common \in AllStates
    BY <1>1, StackTypes DEF LeftAll
  <2>4. mStateStack = <<>> => common = NoState
    BY <1>7, <1>8, <2>1, <2>2
  <2>5. mStateStack # <<>> => common \in active
    BY <1>7, <1>8, <2>1, <2>3, ParentTypes
  <2>6. active = Range(mStateStack)
    <3>1. CASE mIsConstructionCompleted
      BY <1>9, <3>1
    <3>2. CASE ~mIsConstructionCompleted
      BY <1>9, <2>5, <3>2, EmptyRange
    <3>3. QED
      BY <3>1, <3>2
  <2>7. QED
    BY <2>3, <2>4, <2>6
<1>11. GoesBelow(mStateStack, p, destState, k, mStateStack')
  <2>1. mStateStack' = mStateStack \o Reverse(SubSeq(p, 1, k))
    BY <1>1, <1>5
  <2> HIDE DEF p
  <2>2. QED
    BY <1>3, <1>4, <1>6, <1>10, <2>1, StackTypes DEF GoesBelow
<1>12. n = Len(mStateStack)
  OBVIOUS
<1>13. /\ mStateStack' \in Seq(AllStates) /\ Rooted(mStateStack')
       /\ Len(mStateStack') = n + k
       /\ \A i \in 1 .. n : mStateStack'[i] = mStateStack[i]
       /\ Last(mStateStack') = destState
  <2> HIDE DEF p, n
  <2>1. QED
    BY <1>11, <1>12, PathGoesBelow DEF Last
<1>14. n \in Nat /\ k \in Nat /\ k >= 1
  BY <1>6, StackTypes
<1> HIDE DEF n
<1>15. n + 1 \in Nat /\ n + 1 \in 1 .. (n + k) + 1 /\ (n + 1) - 1 = n /\ n + k # 0
  BY <1>14
<1>16. enteringIndex'[2] = n + 1 /\ enteringIndex' \in Nat \X Nat
  BY <1>1, <1>15 DEF n
<1>17. StateTypes'
  BY <1>1, <1>13, <1>16 DEF MachineInv, StateTypes
<1>18. DestInv' /\ EarlyInv'
  BY <1>1, <1>2, ParentTypes DEF MachineInv, DestInv, EarlyInv
<1>19. active' = {mStateStack'[i] : i \in 1 .. enteringIndex'[2] - 1}
  <2>1. active' = {mStateStack[i] : i \in 1 .. n}
    <3>1. \A e : e \in Range(mStateStack) <=> \E i \in 1 .. n : mStateStack[i] = e
      BY StackTypes DEF n
    <3>2. QED
      BY <1>1, <1>10, <3>1
  <2>2. {mStateStack[i] : i \in 1 .. n} = {mStateStack'[i] : i \in 1 .. n}
    BY <1>13
  <2>3. QED
    BY <1>15, <1>16, <2>1, <2>2
<1>20. mStateStack' # <<>>
  BY <1>13, <1>15, EmptyRange
<1>21. ActiveInv'
  BY <1>1, <1>13, <1>15, <1>16, <1>19, <1>20 DEF ActiveInv
<1>22. QED
  BY <1>17, <1>18, <1>21 DEF MachineInv

LEMMA EnterKeeps ==
  ASSUME MachineInv, Enter
  PROVE  MachineInv'
<1> DEFINE e == enteringIndex[2]
           n == Len(mStateStack)
<1>1. /\ pc = "enter" /\ e <= n
      /\ active' = active \cup {mStateStack[e]}
      /\ enteringIndex' = [enteringIndex EXCEPT ![2] = @ + 1]
      /\ mTransitionInProgress' = (mTransitionInProgress /\ enteringIndex[1] # Len(mStateStack))
      /\ UNCHANGED <<pc, mStateStack, destState, common, at, mIsConstructionCompleted, mHasQuit,
                     quitting>>
  BY DEF Enter
<1>2. /\ enteringIndex \in Nat \X Nat /\ e \in 1 .. n + 1
      /\ active = {mStateStack[i] : i \in 1 .. e - 1} /\ mStateStack # <<>>
  BY <1>1 DEF MachineInv, StateTypes, ActiveInv
<1>3. n \in Nat /\ e \in Nat /\ e \in 1 .. n /\ e + 1 \in 1 .. n + 1 /\ (e + 1) - 1 = e
  BY <1>1, <1>2, StackTypes
<1>4. enteringIndex' \in Nat \X Nat /\ enteringIndex'[2] = e + 1
  BY <1>1, <1>2, <1>3
<1>5. mDestState' \in AllStates \cup {NoState} /\ (mDestState # NoState => mDestState' # NoState)
  <2>1. mDestState \in AllStates \cup {NoState}
    BY DEF MachineInv, StateTypes
  <2>2. mDestState' = mDestState \/ mDestState' \in States \cup {mHaltingState, mDestState}
    BY DEF Enter, TransitionTo
  <2>3. QED
    BY <2>1, <2>2, ParentTypes
<1>6. ~mIsConstructionCompleted => mDestState' = mDestState
  <2>1. ~mIsConstructionCompleted => Last(mStateStack) = mQuittingState
    BY <1>1, ParentTypes DEF MachineInv, EarlyInv, ActiveInv
  <2>2. Last(mStateStack) \notin States => mDestState' = mDestState
    BY DEF Enter
  <2>3. QED
    BY <2>1, <2>2, ParentTypes
<1>7. StateTypes'
  <2>1. mTransitionInProgress' \in BOOLEAN
    BY <1>1
  <2>2. active' \subseteq AllStates
    BY <1>1, <1>3, StackTypes
  <2>3. QED
    BY <1>1, <1>4, <1>5, <2>1, <2>2 DEF MachineInv, StateTypes
<1>8. DestInv'
  BY <1>1, <1>5 DEF MachineInv, DestInv
<1>9. EarlyInv'
  BY <1>1, <1>6 DEF MachineInv, EarlyInv
<1>10. active' = {mStateStack'[i] : i \in 1 .. enteringIndex'[2] - 1}
  <2>1. \A i : i \in 1 .. e <=> i \in 1 .. e - 1 \/ i = e
    BY <1>3
  <2>2. active' = {mStateStack[i] : i \in 1 .. e}
    BY <1>1, <1>2, <2>1
  <2>3. QED
    BY <1>1, <1>3, <1>4, <2>2
<1>11. destState' # NoState => Last(mStateStack') = destState'
  BY <1>1 DEF MachineInv, ActiveInv
<1>12. ActiveInv'
  <2>1. Rooted(mStateStack')
    BY <1>1, StackTypes
  <2>2. QED
    BY <1>1, <1>2, <1>3, <1>4, <1>10, <1>11, <2>1 DEF ActiveInv
<1>13. QED
  BY <1>7, <1>8, <1>9, <1>12 DEF MachineInv

\* After the last enter() the states on the stack are the active ones.
LEMMA EnteredAll ==
  ASSUME MachineInv, pc = "enter", enteringIndex[2] > Len(mStateStack)
  PROVE  active = Range(mStateStack) /\ mStateStack # <<>>
<1> DEFINE e == enteringIndex[2]
           n == Len(mStateStack)
<1>1. e \in 1 .. n + 1 /\ active = {mStateStack[i] : i \in 1 .. e - 1} /\ mStateStack # <<>>
  BY DEF MachineInv, ActiveInv
<1>2. e - 1 = n
  BY <1>1, StackTypes
<1>3. active = {mStateStack[i] : i \in 1 .. n}
  BY <1>1, <1>2
<1>4. QED
  BY <1>1, <1>3, StackTypes

LEMMA EnteredInitialKeeps ==
  ASSUME MachineInv, EnteredInitial
  PROVE  MachineInv'
<1>1. /\ pc = "enter" /\ pc' = "transit" /\ destState = NoState /\ mTransitionInProgress' = FALSE
      /\ UNCHANGED <<mStateStack, active, mDestState, destState, common, at, enteringIndex,
                     mIsConstructionCompleted, mHasQuit, quitting>>
  BY DEF EnteredInitial
<1>2. active = Range(mStateStack) /\ mStateStack # <<>>
  BY EnteredAll DEF EnteredInitial
<1>3. mIsConstructionCompleted
  BY <1>1 DEF MachineInv, EarlyInv
<1>4. StateTypes'
  BY <1>1 DEF MachineInv, StateTypes
<1>5. DestInv' /\ EarlyInv'
  BY <1>1, <1>3 DEF MachineInv, DestInv, EarlyInv
<1>6. ActiveInv'
  BY <1>1, <1>2, <1>3 DEF MachineInv, ActiveInv
<1>7. QED
  BY <1>4, <1>5, <1>6 DEF MachineInv

LEMMA EnteredDestKeeps ==
  ASSUME MachineInv, EnteredDest
  PROVE  MachineInv'
<1>1. /\ pc = "enter" /\ destState # NoState /\ mTransitionInProgress' = FALSE
      /\ UNCHANGED <<mStateStack, active, common, at, enteringIndex, mIsConstructionCompleted,
                     quitting>>
  BY DEF EnteredDest
<1>2. \/ /\ destState # mDestState /\ destState' = mDestState /\ pc' = "setup"
         /\ UNCHANGED <<mDestState, mHasQuit>>
      \/ /\ destState = mDestState /\ mDestState' = NoState /\ destState' = NoState
         /\ pc' = "idle"
         /\ IF destState = mQuittingState THEN mHasQuit' = TRUE ELSE UNCHANGED mHasQuit
  BY DEF EnteredDest, CleanupAfterQuitting
<1>3. active = Range(mStateStack) /\ mStateStack # <<>>
  BY EnteredAll DEF EnteredDest
<1>4. mDestState # NoState /\ ~mHasQuit
  BY <1>1 DEF MachineInv, DestInv, EarlyInv
<1>5. ~mIsConstructionCompleted => destState = mQuittingState /\ mDestState = mQuittingState
  BY <1>1 DEF MachineInv, EarlyInv
<1>6. StateTypes'
  BY <1>1, <1>2 DEF MachineInv, StateTypes
<1>7. DestInv'
  BY <1>2, <1>4 DEF DestInv
<1>8. EarlyInv'
  BY <1>1, <1>2, <1>4, <1>5 DEF EarlyInv
<1>9. ActiveInv'
  BY <1>1, <1>2, <1>3, <1>5 DEF MachineInv, ActiveInv
<1>10. QED
  BY <1>6, <1>7, <1>8, <1>9 DEF MachineInv

LEMMA MachineStep ==
  ASSUME MachineInv, [SmNext]_smVars
  PROVE  MachineInv'
<1>1. quitting \in BOOLEAN
  BY DEF MachineInv, StateTypes
<1>2. CASE Handle
  BY <1>2, HandleKeeps, ProcessKeeps, PerformKeeps, SetupKeeps, ExitKeeps, MoveKeeps, EnterKeeps,
     EnteredInitialKeeps, EnteredDestKeeps
  DEF Handle
<1>3. CASE Start
  BY <1>3, StartKeeps
<1>4. ASSUME UNCHANGED Others, quitting' \in BOOLEAN
      PROVE  MachineInv'
  BY <1>4, MachineStays DEF Others
<1>5. CASE SendMessage
  BY <1>1, <1>4, <1>5 DEF SendMessage
<1>6. CASE SendMessageAtFrontOfQueue
  BY <1>1, <1>4, <1>6 DEF SendMessageAtFrontOfQueue
<1>7. CASE Quit
  BY <1>4, <1>7 DEF Quit
<1>8. CASE \E m \in Msgs : RemoveMessages(m) \/ RemoveDeferredMessages(m)
  BY <1>1, <1>4, <1>8 DEF RemoveMessages, RemoveDeferredMessages
<1>9. CASE UNCHANGED smVars
  BY <1>1, <1>9, MachineStays DEF smVars
<1>10. QED
  BY <1>2, <1>3, <1>5, <1>6, <1>7, <1>8, <1>9 DEF SmNext

LEMMA LogKeeps ==
  ASSUME log \in [vec : Seq(Msgs), oldest : 0 .. mMaxSize - 1], NEW m \in Msgs, AddLogRec(m)
  PROVE  log' \in [vec : Seq(Msgs), oldest : 0 .. mMaxSize - 1]
<1>1. mMaxSize \in Nat /\ mMaxSize >= 1
  BY StateMachineAssumption
<1>2. CASE Len(log.vec) < mMaxSize
  <2>1. log' = [log EXCEPT !.vec = Append(@, m)]
    BY <1>2 DEF AddLogRec
  <2>2. log.vec \in Seq(Msgs)
    OBVIOUS
  <2>3. Append(log.vec, m) \in Seq(Msgs)
    BY <2>2
  <2>4. QED
    BY <2>1, <2>3
<1>3. CASE ~ (Len(log.vec) < mMaxSize)
  <2>1. log' = [log EXCEPT !.oldest = (@ + 1) % mMaxSize]
    BY <1>3 DEF AddLogRec
  <2>2. log.oldest + 1 \in Nat
    BY <1>1
  <2>3. (log.oldest + 1) % mMaxSize \in 0 .. mMaxSize - 1
    BY <1>1, <2>2
  <2>4. QED
    BY <2>1, <2>3
<1>4. QED
  BY <1>2, <1>3

LEMMA RecordsStep ==
  ASSUME RecordTypes, MsgInv, [SmNext]_smVars
  PROVE  RecordTypes'
<1>1. /\ log \in [vec : Seq(Msgs), oldest : 0 .. mMaxSize - 1]
      /\ urgent \subseteq Msgs /\ finished \subseteq Msgs
      /\ defers \in 0 .. MaxDefers /\ hops \in 0 .. MaxHops
  BY DEF RecordTypes
<1>2. MaxMsgs \in Nat /\ MaxDefers \in Nat /\ MaxHops \in Nat /\ sent \in Nat
  BY StateMachineBounds DEF MsgInv, MsgTypeOK
<1>3. \/ UNCHANGED log
      \/ mMsg \in Msgs /\ AddLogRec(mMsg)
  <2>1. CASE PerformTransitions
    BY <2>1 DEF PerformTransitions
  <2>2. CASE Handle /\ ~PerformTransitions
    <3>1. UNCHANGED log
      BY <2>2
      DEF Handle, HandleMessage, ProcessMessage, HaltedProcessMessage, SetupTransition, Exit,
          MoveTempStateStack, Enter, EnteredInitial, EnteredDest
    <3>2. QED
      BY <3>1
  <2>3. CASE ~Handle
    <3>1. UNCHANGED log
      BY <2>3
      DEF SmNext, smVars, Start, SendMessage, SendMessageAtFrontOfQueue, Quit, RemoveMessages,
          RemoveDeferredMessages, Others
    <3>2. QED
      BY <3>1
  <2>4. QED
    BY <2>1, <2>2, <2>3
<1>4. urgent' = urgent \/ (urgent' = urgent \cup {sent + 1} /\ sent < MaxMsgs)
  <2>1. CASE Handle
    BY <2>1
    DEF Handle, HandleMessage, ProcessMessage, HaltedProcessMessage, PerformTransitions,
        SetupTransition, Exit, MoveTempStateStack, Enter, EnteredInitial, EnteredDest, senders
  <2>2. CASE ~Handle
    BY <2>2
    DEF SmNext, smVars, Start, SendMessage, SendMessageAtFrontOfQueue, Quit, RemoveMessages,
        RemoveDeferredMessages, senders
  <2>3. QED
    BY <2>1, <2>2
<1>5. finished' = finished \/ \E m \in SUBSET Msgs : finished' = finished \cup m
  <2>1. CASE Handle
    <3>1. CASE PerformTransitions
      <4>1. {mMsg} \cap (Msgs \ Range(mDeferredMessages)) \in SUBSET Msgs
        OBVIOUS
      <4>2. QED
        BY <3>1, <4>1 DEF PerformTransitions
    <3>2. CASE ~PerformTransitions
      BY <2>1, <3>2
      DEF Handle, HandleMessage, ProcessMessage, HaltedProcessMessage,
          SetupTransition, Exit, MoveTempStateStack, Enter, EnteredInitial, EnteredDest
    <3>3. QED
      BY <3>1, <3>2
  <2>2. ASSUME NEW m \in Msgs, RemoveMessages(m) \/ RemoveDeferredMessages(m)
        PROVE  \E k \in SUBSET Msgs : finished' = finished \cup k
    <3>1. {m} \in SUBSET Msgs /\ finished' = finished \cup {m}
      BY <2>2 DEF RemoveMessages, RemoveDeferredMessages
    <3>2. QED
      BY <3>1
  <2>3. CASE ~Handle
    BY <2>2, <2>3
    DEF SmNext, smVars, Start, SendMessage, SendMessageAtFrontOfQueue, Quit
  <2>4. QED
    BY <2>1, <2>3
<1>6. /\ defers' = defers \/ (defers < MaxDefers /\ defers' = defers + 1)
      /\ hops' = hops \/ (hops < MaxHops /\ hops' = hops + 1)
  <2>1. CASE ProcessMessage
    BY <2>1 DEF ProcessMessage
  <2>2. CASE Enter
    BY <2>2 DEF Enter
  <2>3. CASE Handle /\ ~ProcessMessage /\ ~Enter
    <3>1. UNCHANGED <<defers, hops>>
      BY <2>3
      DEF Handle, HandleMessage, HaltedProcessMessage, PerformTransitions, SetupTransition, Exit,
          MoveTempStateStack, EnteredInitial, EnteredDest, bounds
    <3>2. QED
      BY <3>1
  <2>4. CASE ~Handle
    <3>1. UNCHANGED <<defers, hops>>
      BY <2>4
      DEF SmNext, smVars, Start, SendMessage, SendMessageAtFrontOfQueue, Quit, RemoveMessages,
          RemoveDeferredMessages, Others, bounds
    <3>2. QED
      BY <3>1
  <2>5. QED
    BY <2>1, <2>2, <2>3, <2>4
<1>7. log' \in [vec : Seq(Msgs), oldest : 0 .. mMaxSize - 1]
  BY <1>1, <1>3, LogKeeps
<1>8. urgent' \subseteq Msgs
  <2>1. sent < MaxMsgs => sent + 1 \in Msgs
    BY <1>2 DEF Msgs
  <2>2. QED
    BY <1>1, <1>4, <2>1
<1>9. finished' \subseteq Msgs
  BY <1>1, <1>5
<1>10. defers' \in 0 .. MaxDefers /\ hops' \in 0 .. MaxHops
  BY <1>1, <1>2, <1>6
<1>11. QED
  BY <1>7, <1>8, <1>9, <1>10 DEF RecordTypes

MachineIInv == MsgInv /\ RecordTypes /\ MachineInv

LEMMA MachineHolds == SmSpec => []MachineIInv
<1>1. SmInit => MachineIInv
  <2> SUFFICES ASSUME SmInit
               PROVE  MachineIInv
    OBVIOUS
  <2>1. <<>> \in Seq(Msgs) /\ 0 \in 0 .. mMaxSize - 1
    BY StateMachineAssumption, EmptyRange
  <2>2. 0 \in 0 .. MaxDefers /\ 0 \in 0 .. MaxHops
    BY StateMachineBounds
  <2>3. RecordTypes
    BY <2>1, <2>2 DEF SmInit, RecordTypes
  <2>4. QED
    BY <2>3, MsgInit, MachineInit DEF MachineIInv
<1>2. MachineIInv /\ [SmNext]_smVars => MachineIInv'
  BY MsgStep, RecordsStep, MachineStep DEF MachineIInv
<1>3. QED
  BY <1>1, <1>2, PTL DEF SmSpec

\* Type correctness of the state machine
LEMMA MachineTypes == SmSpec => []SmTypeOK
<1>1. MachineIInv => SmTypeOK
  <2> SUFFICES ASSUME MachineIInv
               PROVE  SmTypeOK
    OBVIOUS
  <2> USE DEF MachineIInv
  <2>1. /\ queue \in Seq(AllMsgs) /\ mMsg \in AllMsgs /\ mDeferredMessages \in Seq(Msgs)
        /\ sent \in 0 .. MaxMsgs
    BY StateMachineBounds DEF MsgInv, MsgTypeOK
  <2>2. /\ {mDestState, destState, common} \subseteq AllStates \cup {NoState}
        /\ {mTransitionInProgress, mIsConstructionCompleted, mHasQuit, quitting} \subseteq BOOLEAN
    BY DEF MachineInv, StateTypes
  <2>3. /\ pc \in {"new", "idle", "process", "transit", "setup", "exit", "enter"}
        /\ mStateStack \in Seq(AllStates) /\ active \subseteq AllStates
        /\ at \in AllStates \cup {NoState} /\ enteringIndex \in Nat \X Nat
    BY DEF MachineInv, StateTypes
  <2>4. /\ log \in [vec : Seq(Msgs), oldest : 0 .. mMaxSize - 1]
        /\ urgent \subseteq Msgs /\ finished \subseteq Msgs
        /\ defers \in 0 .. MaxDefers /\ hops \in 0 .. MaxHops
    BY DEF RecordTypes
  <2>5. QED
    BY <2>1, <2>2, <2>3, <2>4 DEF SmTypeOK
<1>2. QED
  BY <1>1, MachineHolds, PTL

\* StateMachine.h: between two messages the active states are those on the
\* stack, and lead from a root to the current state, each the child of the one
\* before; whatever tree of states there is, wherever user code goes to and
\* however often enter() asks for the next transition, quit before start has
\* been handled included.
THEOREM ActiveStatesArePath == SmSpec => []ActiveIsPath
<1>1. MachineIInv => ActiveIsPath
  <2> SUFFICES ASSUME MachineIInv, pc = "idle", mIsConstructionCompleted
               PROVE  /\ active = Range(mStateStack)
                      /\ mStateStack # <<>>
                      /\ ParentOf(mStateStack[1]) = NoState
                      /\ \A i \in 2 .. Len(mStateStack) : ParentOf(mStateStack[i]) = mStateStack[i-1]
    BY DEF ActiveIsPath
  <2>1. active = Range(mStateStack) /\ mStateStack # <<>> /\ Rooted(mStateStack)
    BY DEF MachineIInv, MachineInv, ActiveInv
  <2>2. Len(mStateStack) >= 1
    BY <2>1, EmptySeq DEF MachineIInv, MachineInv, StateTypes
  <2>3. QED
    BY <2>1, <2>2 DEF Rooted
<1>2. QED
  BY <1>1, MachineHolds, PTL

-----------------------------------------------------------------------------
(* Menus                                                                     *)

Signs       == Chars \cup {Gap, OpenBracket, CloseBracket}
MenuActions == [name : Seq(Signs), target : Chars, visible : BOOLEAN]

\* The least and the greatest of some places
LEMMA LeastPlace ==
  ASSUME NEW T, T \subseteq Nat, T # {}
  PROVE  Min(T) \in T /\ \A y \in T : Min(T) <= y
<1>1. \E x \in T : \A y \in T : x <= y
  BY LeastNatural
<1>2. QED
  BY <1>1 DEF Min

LEMMA GreatestPlace ==
  ASSUME NEW n \in Nat, NEW T, T \subseteq 1 .. n, T # {}
  PROVE  Max(T) \in T /\ \A y \in T : Max(T) >= y
<1> DEFINE U == {u \in 0 .. n : \A y \in T : u >= y}
<1>1. U \subseteq Nat /\ U # {}
  <2>1. n \in U
    OBVIOUS
  <2>2. QED
    BY <2>1
<1>2. PICK u \in U : \A v \in U : u <= v
  <2> HIDE DEF U
  <2>1. QED
    BY <1>1, LeastNatural
<1>3. u \in 0 .. n /\ \A y \in T : u >= y
  OBVIOUS
<1>4. u \in T
  <2>1. ASSUME u \notin T
        PROVE  FALSE
    <3>1. \A y \in T : y \in 1 .. n /\ u >= y /\ u # y
      BY <1>3, <2>1
    <3>2. u # 0
      <4>1. PICK y \in T : TRUE
        OBVIOUS
      <4>2. y \in 1 .. n /\ u >= y
        BY <3>1, <4>1
      <4>3. QED
        BY <4>2
    <3>3. u - 1 \in 0 .. n /\ \A y \in T : u - 1 >= y
      BY <1>3, <3>1, <3>2
    <3>4. u - 1 \in U
      BY <3>3
    <3>5. u <= u - 1
      BY <1>2, <3>4
    <3>6. QED
      BY <1>3, <3>5
  <2>2. QED
    BY <2>1
<1>5. \E x \in T : \A y \in T : x >= y
  BY <1>3, <1>4
<1>6. QED
  BY <1>5 DEF Max

SameKey(a, b) == ToUpper(a) = ToUpper(b)

LEMMA KeyPlaceIs ==
  ASSUME NEW name, Len(name) \in Nat, NEW target
  PROVE  \/ /\ KeyPlace(name, target) = 0
            /\ \A j \in 1 .. Len(name) : ~SameKey(name[j], target)
         \/ /\ KeyPlace(name, target) \in 1 .. Len(name)
            /\ SameKey(name[KeyPlace(name, target)], target)
<1> DEFINE I == {j \in 1 .. Len(name) : ToUpper(name[j]) = ToUpper(target)}
<1>1. KeyPlace(name, target) = IF I # {} THEN Min(I) ELSE 0
  BY DEF KeyPlace, SelectInSeq
<1>2. I \subseteq Nat
  OBVIOUS
<1>3. ASSUME I = {}
      PROVE  \A j \in 1 .. Len(name) : ~SameKey(name[j], target)
  BY <1>3 DEF SameKey
<1>4. ASSUME I # {}
      PROVE  Min(I) \in 1 .. Len(name) /\ SameKey(name[Min(I)], target)
  <2>1. Min(I) \in I
    <3> HIDE DEF I
    <3>1. QED
      BY <1>2, <1>4, LeastPlace
  <2>2. QED
    BY <2>1 DEF SameKey
<1> HIDE DEF I
<1>5. QED
  BY <1>1, <1>3, <1>4

HasKey(a, ch) == a.visible /\ SameKey(a.target, ch)

LEMMA FirstWithKeyIs ==
  ASSUME NEW n \in Nat, Len(m_actions) = n, NEW ch
  PROVE  \/ FirstWithKey(ch) = 0 /\ \A j \in 1 .. n : ~HasKey(m_actions[j], ch)
         \/ /\ FirstWithKey(ch) \in 1 .. n /\ HasKey(m_actions[FirstWithKey(ch)], ch)
            /\ \A j \in 1 .. n : HasKey(m_actions[j], ch) => FirstWithKey(ch) <= j
<1> DEFINE I == {j \in 1 .. Len(m_actions) :
                   m_actions[j].visible /\ ToUpper(m_actions[j].target) = ToUpper(ch)}
<1>1. FirstWithKey(ch) = IF I # {} THEN Min(I) ELSE 0
  BY DEF FirstWithKey, SelectInSeq
<1>2. I \subseteq Nat
  OBVIOUS
<1>3. \A j : j \in I <=> j \in 1 .. n /\ HasKey(m_actions[j], ch)
  BY DEF HasKey, SameKey
<1> HIDE DEF I
<1>4. CASE I = {}
  BY <1>1, <1>3, <1>4
<1>5. CASE I # {}
  <2>1. Min(I) \in I /\ \A y \in I : Min(I) <= y
    BY <1>2, <1>5, LeastPlace
  <2>2. QED
    BY <1>1, <1>3, <1>5, <2>1
<1>6. QED
  BY <1>4, <1>5

\* The shown name has no bracket and not the key, or its first bracket is
\* before the key.
ShowsKey(name, target) ==
  \/ \A j \in 1 .. Len(name) : name[j] # OpenBracket /\ ~SameKey(name[j], target)
  \/ \E p \in 1 .. Len(name) :
       /\ name[p] = OpenBracket /\ \A j \in 1 .. Len(name) : j < p => name[j] # OpenBracket
       /\ SameKey(name[p + 1], target)

LEMMA NoBracketInNames ==
  /\ OpenBracket \notin Chars \cup {Gap}
  /\ Chars \cup {Gap} \subseteq Signs /\ OpenBracket \in Signs /\ CloseBracket \in Signs
<1>1. \A c \in Chars : c \in 1 .. 150
  BY MenuAssumption DEF Chars
<1>2. QED
  BY <1>1 DEF Signs, OpenBracket, CloseBracket, Gap

LEMMA ShownName ==
  ASSUME NEW name \in Seq(Chars \cup {Gap}), NEW target
  PROVE  /\ GenerateShowString(name, target) \in Seq(Signs)
         /\ ShowsKey(GenerateShowString(name, target), target)
<1> DEFINE g == GenerateShowString(name, target)
           i == KeyPlace(name, target)
           n == Len(name)
<1>1. /\ n \in Nat /\ \A j \in 1 .. n : name[j] \in Chars \cup {Gap}
      /\ DOMAIN name = 1 .. n
  BY LenProperties, ElementOfSeq
<1>2. \A j \in 1 .. n : name[j] # OpenBracket /\ name[j] \in Signs
  BY <1>1, NoBracketInNames
<1>3. OpenBracket \notin ToSet(name)
  BY <1>1, <1>2 DEF ToSet
<1>4. \/ i = 0 /\ \A j \in 1 .. n : ~SameKey(name[j], target)
      \/ i \in 1 .. n /\ SameKey(name[i], target)
  BY <1>1, KeyPlaceIs
<1>5. g = IF i = 0 THEN name
          ELSE SubSeq(name, 1, i - 1) \o <<OpenBracket, name[i], CloseBracket>> \o SubSeq(name, i + 1, n)
  BY <1>3 DEF GenerateShowString
<1> HIDE DEF g, i
<1>6. name \in Seq(Signs)
  <2> DEFINE S == Chars \cup {Gap}
  <2>1. name \in [1 .. n -> Signs]
    <3>1. name \in [1 .. n -> S]
      BY LenProperties
    <3>2. QED
      BY <3>1, NoBracketInNames
  <2> HIDE DEF n
  <2>2. QED
    BY <1>1, <2>1, FunctionIsList
<1>7. CASE i = 0
  <2>1. g = name
    BY <1>5, <1>7
  <2>2. \A j \in 1 .. n : ~SameKey(name[j], target)
    BY <1>4, <1>7
  <2>3. ShowsKey(name, target)
    BY <1>2, <2>2 DEF ShowsKey
  <2>4. QED
    BY <1>6, <2>1, <2>3 DEF g
<1>8. CASE i \in 1 .. n
  <2> DEFINE a == SubSeq(name, 1, i - 1)
             b == <<OpenBracket, name[i], CloseBracket>>
             c == SubSeq(name, i + 1, n)
             h == a \o b
  <2>1. a \in Seq(Signs) /\ Len(a) = i - 1 /\ \A j \in 1 .. i - 1 : a[j] = name[j]
    <3>1. 1 \in Int /\ i - 1 \in Int /\ (\A j \in 1 .. i - 1 : name[j] \in Signs)
          /\ (\A j \in 1 .. (i - 1) - 1 + 1 : (1 + j) - 1 = j)
      BY <1>1, <1>2, <1>8
    <3>2. /\ a \in Seq(Signs)
          /\ Len(a) = IF 1 <= i - 1 THEN (i - 1) - 1 + 1 ELSE 0
          /\ \A j \in 1 .. (i - 1) - 1 + 1 : a[j] = name[(1 + j) - 1]
      BY <3>1, SubSeqProperties
    <3>3. (i - 1) - 1 + 1 = i - 1 /\ (~(1 <= i - 1) => i - 1 = 0)
      BY <1>1, <1>8
    <3> HIDE DEF a
    <3>4. QED
      BY <3>1, <3>2, <3>3
  <2>2. b \in Seq(Signs) /\ Len(b) = 3 /\ b[1] = OpenBracket /\ b[2] = name[i]
    BY <1>2, <1>8, NoBracketInNames
  <2>3. c \in Seq(Signs)
    <3>1. i + 1 \in Int /\ n \in Int /\ \A j \in i + 1 .. n : name[j] \in Signs
      BY <1>1, <1>2, <1>8
    <3>2. QED
      BY <3>1, SubSeqProperties
  <2> HIDE DEF a, b, c
  <2>4. /\ h \in Seq(Signs) /\ Len(h) = Len(a) + Len(b)
        /\ \A j \in 1 .. Len(a) + Len(b) : h[j] = IF j <= Len(a) THEN a[j] ELSE b[j - Len(a)]
    BY <2>1, <2>2, ConcatProperties
  <2>5. g = h \o c
    <3>1. i # 0
      BY <1>8
    <3>2. g = SubSeq(name, 1, i - 1) \o <<OpenBracket, name[i], CloseBracket>> \o SubSeq(name, i + 1, n)
      BY <1>5, <3>1
    <3>3. QED
      BY <3>2, Zenon DEF a, b, c
  <2> HIDE DEF h
  <2>6. /\ h \o c \in Seq(Signs) /\ Len(h \o c) = Len(h) + Len(c)
        /\ \A j \in 1 .. Len(h) + Len(c) : (h \o c)[j] = IF j <= Len(h) THEN h[j] ELSE c[j - Len(h)]
    <3>1. h \in Seq(Signs) /\ c \in Seq(Signs)
      BY <2>3, <2>4
    <3>2. QED
      BY <3>1, ConcatProperties
  <2>7. Len(c) \in Nat
    BY <2>3, LenProperties
  <2>8. /\ g \in Seq(Signs) /\ Len(g) = i + 2 + Len(c)
        /\ \A j \in 1 .. i + 2 : g[j] = IF j <= i - 1 THEN name[j] ELSE b[j - (i - 1)]
    <3>1. Len(h) = i + 2
      BY <1>8, <2>1, <2>2, <2>4
    <3>2. \A j \in 1 .. i + 2 : g[j] = h[j]
      BY <1>8, <2>5, <2>6, <2>7, <3>1
    <3>3. \A j \in 1 .. i + 2 : h[j] = IF j <= i - 1 THEN name[j] ELSE b[j - (i - 1)]
      <4>1. Len(a) + Len(b) = i + 2
        BY <1>8, <2>1, <2>2
      <4>2. \A j \in 1 .. i + 2 : h[j] = IF j <= i - 1 THEN a[j] ELSE b[j - (i - 1)]
        BY <2>1, <2>4, <4>1
      <4>3. \A j \in 1 .. i + 2 : j <= i - 1 => j \in 1 .. i - 1
        BY <1>8
      <4>4. QED
        BY <2>1, <4>2, <4>3
    <3>4. QED
      BY <2>5, <2>6, <3>1, <3>2, <3>3
  <2>9. g[i] = OpenBracket /\ g[i + 1] = name[i] /\ \A j \in 1 .. Len(g) : j < i => g[j] # OpenBracket
    <3>1. i \in 1 .. i + 2 /\ i + 1 \in 1 .. i + 2 /\ i - (i - 1) = 1 /\ (i + 1) - (i - 1) = 2
          /\ ~(i <= i - 1) /\ ~(i + 1 <= i - 1)
      BY <1>1, <1>8
    <3>2. ASSUME NEW j \in 1 .. Len(g), j < i
          PROVE  g[j] # OpenBracket
      <4>1. j \in 1 .. i + 2 /\ j <= i - 1 /\ j \in 1 .. n
        BY <1>1, <1>8, <2>7, <2>8, <3>2
      <4>2. QED
        BY <1>2, <2>8, <4>1
    <3>3. QED
      BY <2>2, <2>8, <3>1, <3>2
  <2>10. i \in 1 .. Len(g) /\ SameKey(g[i + 1], target)
    BY <1>4, <1>8, <2>7, <2>8, <2>9
  <2>11. ShowsKey(g, target)
    BY <2>9, <2>10 DEF ShowsKey
  <2>12. QED
    BY <2>8, <2>11 DEF g
<1>9. QED
  BY <1>4, <1>7, <1>8
-----------------------------------------------------------------------------
\* The text without the spaces at its ends: a single character stays where one
\* place of the text holds no space, and it is the one there.
Keys(text) == {k \in DOMAIN text : text[k] # Gap}

LEMMA WithoutSpaces ==
  ASSUME NEW S, NEW text \in Seq(S), NEW c, c = DropTrailing(DropLeading(text))
  PROVE  /\ Len(c) = 1 => \E k \in Keys(text) : Keys(text) = {k} /\ c[1] = text[k]
         /\ \A k \in Keys(text) : Keys(text) = {k} => Len(c) = 1
<1> DEFINE n == Len(text)
           keys == Keys(text)
           I == {k \in 1 .. Len(text) : text[k] # Gap}
           u == DropLeading(text)
           J == {k \in 1 .. Len(u) : u[k] # Gap}
<1>1. n \in Nat /\ DOMAIN text = 1 .. n /\ keys = I /\ I \subseteq 1 .. n /\ I \subseteq Nat
  BY LenProperties DEF Keys
<1>2. u = IF (IF I # {} THEN Min(I) ELSE 0) = 0 THEN text
          ELSE SubSeq(text, IF I # {} THEN Min(I) ELSE 0, n)
  BY DEF DropLeading, SelectInSeq
<1>3. c = SubSeq(u, 1, IF J # {} THEN Max(J) ELSE 0)
  BY DEF DropTrailing, SelectLastInSeq
<1>4. CASE I = {}
  <2>1. u = text
    BY <1>2, <1>4
  <2>2. J = {}
    BY <1>4, <2>1
  <2> HIDE DEF u, I, J, keys
  <2>3. c = SubSeq(text, 1, 0)
    BY <1>3, <2>1, <2>2
  <2>4. Len(c) = 0
    <3>1. Len(SubSeq(text, 1, 0)) = IF 1 <= 0 THEN 0 - 1 + 1 ELSE 0
      <4>1. 1 \in Int /\ 0 \in Int /\ \A j \in 1 .. 0 : text[j] \in S
        OBVIOUS
      <4>2. QED
        BY <4>1, SubSeqProperties
    <3>2. QED
      BY <2>3, <3>1
  <2>5. keys = {}
    BY <1>1, <1>4
  <2>6. QED
    BY <2>4, <2>5 DEF keys
<1>5. CASE I # {}
  <2> DEFINE f == Min(I)
             m == Max(J)
  <2>1. f \in I /\ \A y \in I : f <= y
    <3> HIDE DEF I
    <3>1. QED
      BY <1>1, <1>5, LeastPlace
  <2>2. f \in 1 .. n /\ text[f] # Gap
    BY <2>1
  <2> HIDE DEF f
  <2>3. u = SubSeq(text, f, n)
    <3>1. (IF I # {} THEN Min(I) ELSE 0) = f
      BY <1>5 DEF f
    <3>2. f # 0
      BY <1>1, <2>2
    <3> HIDE DEF u, I
    <3>3. QED
      BY <1>2, <3>1, <3>2
  <2> HIDE DEF u
  <2>4. u \in Seq(S) /\ Len(u) = n - f + 1 /\ \A j \in 1 .. n - f + 1 : u[j] = text[(f + j) - 1]
    <3>1. f \in Int /\ n \in Int /\ \A j \in f .. n : text[j] \in S
      <4>1. \A j \in f .. n : j \in 1 .. n
        BY <1>1, <2>2
      <4>2. QED
        BY <1>1, <2>2, <4>1, ElementOfSeq
    <3>2. /\ SubSeq(text, f, n) \in Seq(S)
          /\ Len(SubSeq(text, f, n)) = IF f <= n THEN n - f + 1 ELSE 0
          /\ \A j \in 1 .. n - f + 1 : SubSeq(text, f, n)[j] = text[(f + j) - 1]
      BY <3>1, SubSeqProperties
    <3>3. f <= n
      BY <1>1, <2>2
    <3>4. QED
      BY <2>3, <3>2, <3>3
  <2>5. \A j : j \in J <=> j \in 1 .. n - f + 1 /\ (f + j) - 1 \in I
    <3>1. SUFFICES ASSUME NEW j
                   PROVE  j \in J <=> j \in 1 .. n - f + 1 /\ (f + j) - 1 \in I
      OBVIOUS
    <3>2. j \in 1 .. n - f + 1 => (f + j) - 1 \in 1 .. n
      BY <1>1, <2>2
    <3>3. j \in J <=> j \in 1 .. n - f + 1 /\ text[(f + j) - 1] # Gap
      BY <2>4
    <3>4. j \in 1 .. n - f + 1 => ((f + j) - 1 \in I <=> text[(f + j) - 1] # Gap)
      BY <3>2
    <3> HIDE DEF I, J
    <3>5. QED
      BY <3>3, <3>4
  <2>6. J \subseteq 1 .. Len(u) /\ Len(u) \in Nat
    BY <1>1, <2>2, <2>4
  <2> HIDE DEF J, I
  <2>7. 1 \in J
    <3>1. 1 \in 1 .. n - f + 1 /\ (f + 1) - 1 = f
      BY <1>1, <2>2
    <3>2. QED
      BY <2>1, <2>5, <3>1
  <2>8. m \in J /\ \A y \in J : m >= y
    BY <2>6, <2>7, GreatestPlace
  <2> HIDE DEF m
  <2>9. c = SubSeq(u, 1, m) /\ m \in 1 .. Len(u)
    BY <1>3, <2>6, <2>7, <2>8 DEF m
  <2>10. Len(c) = m /\ c[1] = u[1]
    <3>1. 1 \in Int /\ m \in Int /\ \A j \in 1 .. m : u[j] \in S
      <4>1. \A j \in 1 .. m : j \in 1 .. Len(u)
        BY <2>6, <2>9
      <4>2. QED
        BY <2>4, <2>6, <2>9, <4>1, ElementOfSeq
    <3>2. /\ Len(SubSeq(u, 1, m)) = IF 1 <= m THEN m - 1 + 1 ELSE 0
          /\ \A j \in 1 .. m - 1 + 1 : SubSeq(u, 1, m)[j] = u[(1 + j) - 1]
      BY <3>1, SubSeqProperties
    <3>3. 1 <= m /\ m - 1 + 1 = m /\ 1 \in 1 .. m - 1 + 1 /\ (1 + 1) - 1 = 1
      BY <2>6, <2>9
    <3>4. QED
      BY <2>9, <3>2, <3>3
  <2>11. u[1] = text[f]
    <3>1. 1 \in 1 .. n - f + 1 /\ (f + 1) - 1 = f
      BY <1>1, <2>2
    <3>2. u[1] = text[(f + 1) - 1]
      BY <2>4, <3>1
    <3>3. QED
      BY <3>1, <3>2
  <2>12. ASSUME m = 1
         PROVE  I = {f}
    <3>1. ASSUME NEW k \in I
          PROVE  k = f
      <4>1. k \in 1 .. n /\ f <= k
        BY <1>1, <2>1
      <4>2. (k - f) + 1 \in 1 .. n - f + 1 /\ (f + ((k - f) + 1)) - 1 = k
        BY <1>1, <2>2, <4>1
      <4>3. (k - f) + 1 \in J
        BY <2>5, <4>2
      <4>4. (k - f) + 1 <= 1
        BY <2>8, <2>12, <4>3
      <4>5. QED
        BY <2>2, <4>1, <4>4
    <3>2. QED
      BY <2>1, <3>1
  <2>13. ASSUME NEW k \in I, I = {k}
         PROVE  m = 1
    <3>1. f = k /\ (f + m) - 1 \in I
      BY <2>1, <2>5, <2>8, <2>13
    <3>2. (f + m) - 1 = f
      BY <2>13, <3>1
    <3>3. QED
      BY <2>2, <2>6, <2>9, <3>2
  <2> HIDE DEF keys
  <2>14. Len(c) = 1 => keys = {f} /\ f \in keys /\ c[1] = text[f]
    BY <1>1, <2>1, <2>10, <2>11, <2>12
  <2>15. \A k \in keys : keys = {k} => Len(c) = 1
    BY <1>1, <2>10, <2>13
  <2>16. QED
    BY <2>14, <2>15 DEF keys
<1>6. QED
  BY <1>4, <1>5

MenuIInv ==
  /\ m_actions \in Seq(MenuActions)
  /\ \A i \in 1 .. Len(m_actions) : ShowsKey(m_actions[i].name, m_actions[i].target)
  /\ SpacesDoNotMatter

LEMMA MenuStart ==
  ASSUME MenuInit
  PROVE  MenuIInv
<1>1. m_actions = <<>> /\ typedLine = <<>> /\ activated = 0 /\ Len(<<>>) = 0
  BY DEF MenuInit
<1>2. SpacesDoNotMatter
  BY <1>1 DEF SpacesDoNotMatter
<1>3. <<>> \in Seq(MenuActions)
  OBVIOUS
<1>4. QED
  BY <1>1, <1>2, <1>3 DEF MenuIInv

LEMMA NothingTyped ==
  ASSUME typedLine' = <<>>, activated' = 0
  PROVE  SpacesDoNotMatter'
<1>1. DOMAIN typedLine' = {}
  OBVIOUS
<1>2. QED
  BY <1>1 DEF SpacesDoNotMatter

LEMMA LineTyped ==
  ASSUME MenuIInv, NEW n \in Nat, NEW text \in [1 .. n -> Chars \cup {Gap}], TypeLine(text)
  PROVE  SpacesDoNotMatter'
<1> DEFINE c == DropTrailing(DropLeading(text))
           keys == Keys(text)
           m == Len(m_actions)
           wanted == {i \in DOMAIN m_actions :
                        /\ m_actions[i].visible
                        /\ \A k \in keys : ToUpper(m_actions[i].target) = ToUpper(text[k])}
<1>1. /\ typedLine' = text /\ m_actions' = m_actions
      /\ activated' = IF Len(c) = 1 THEN FirstWithKey(c[1]) ELSE 0
  BY DEF TypeLine, menuVars
<1>2. /\ Len(c) = 1 => \E k \in keys : keys = {k} /\ c[1] = text[k]
      /\ \A k \in keys : keys = {k} => Len(c) = 1
  <2>1. text \in Seq(Chars \cup {Gap})
    BY FunctionIsList
  <2>2. QED
    BY <2>1, WithoutSpaces
<1>3. m \in Nat /\ DOMAIN m_actions = 1 .. m
  BY LenProperties DEF MenuIInv
<1>4. SUFFICES IF (\E k \in keys : keys = {k}) /\ wanted # {}
               THEN activated' \in wanted /\ \A i \in wanted : activated' <= i
               ELSE activated' = 0
  BY <1>1, Zenon DEF SpacesDoNotMatter, Keys
<1>5. CASE ~ \E k \in keys : keys = {k}
  BY <1>1, <1>2, <1>5
<1>6. ASSUME NEW k \in keys, keys = {k}
      PROVE  IF (\E l \in keys : keys = {l}) /\ wanted # {}
             THEN activated' \in wanted /\ \A i \in wanted : activated' <= i
             ELSE activated' = 0
  <2>1. Len(c) = 1 /\ c[1] = text[k]
    BY <1>2, <1>6
  <2>2. activated' = FirstWithKey(text[k])
    BY <1>1, <2>1
  <2>3. \A i : i \in wanted <=> i \in 1 .. m /\ HasKey(m_actions[i], text[k])
    BY <1>3, <1>6 DEF HasKey, SameKey
  <2> DEFINE f == FirstWithKey(text[k])
  <2>4. \/ f = 0 /\ \A j \in 1 .. m : ~HasKey(m_actions[j], text[k])
        \/ /\ f \in 1 .. m /\ HasKey(m_actions[f], text[k])
           /\ \A j \in 1 .. m : HasKey(m_actions[j], text[k]) => f <= j
    BY <1>3, FirstWithKeyIs
  <2> HIDE DEF f, wanted, keys
  <2>5. CASE f = 0 /\ \A j \in 1 .. m : ~HasKey(m_actions[j], text[k])
    BY <2>2, <2>3, <2>5 DEF f
  <2>6. CASE /\ f \in 1 .. m /\ HasKey(m_actions[f], text[k])
             /\ \A j \in 1 .. m : HasKey(m_actions[j], text[k]) => f <= j
    <3>1. f \in wanted /\ \A i \in wanted : f <= i
      BY <2>3, <2>6
    <3>2. activated' = f
      BY <2>2 DEF f
    <3>3. \E l \in keys : keys = {l}
      BY <1>6
    <3>4. QED
      BY <3>1, <3>2, <3>3
  <2>7. QED
    BY <2>4, <2>5, <2>6
<1>7. QED
  BY <1>5, <1>6

LEMMA MenuStep ==
  ASSUME MenuIInv, [MenuNext]_menuVars
  PROVE  MenuIInv'
<1> DEFINE m == Len(m_actions)
<1>1. m \in Nat /\ DOMAIN m_actions = 1 .. m /\ \A i \in 1 .. m : m_actions[i] \in MenuActions
  BY LenProperties, ElementOfSeq DEF MenuIInv
<1>2. ASSUME NEW name \in ActionNames, NEW target \in Chars, AddAction(name, target)
      PROVE  MenuIInv'
  <2> DEFINE new == [name |-> GenerateShowString(name, target), target |-> target, visible |-> TRUE]
  <2>1. m_actions' = Append(m_actions, new) /\ typedLine' = <<>> /\ activated' = 0
    BY <1>2 DEF AddAction
  <2>2. new \in MenuActions /\ ShowsKey(new.name, new.target)
    BY MenuNamesAssumption, ShownName DEF MenuActions
  <2> HIDE DEF new
  <2>3. /\ m_actions' \in Seq(MenuActions) /\ Len(m_actions') = m + 1
        /\ (\A i \in 1 .. m : m_actions'[i] = m_actions[i]) /\ m_actions'[m + 1] = new
    BY <2>1, <2>2, AppendProperties DEF MenuIInv
  <2>4. \A i \in 1 .. m + 1 : i \in 1 .. m \/ i = m + 1
    BY <1>1
  <2>5. \A i \in 1 .. m + 1 : ShowsKey(m_actions'[i].name, m_actions'[i].target)
    BY <2>2, <2>3, <2>4 DEF MenuIInv
  <2>6. SpacesDoNotMatter'
    BY <2>1, NothingTyped
  <2>7. QED
    BY <2>3, <2>5, <2>6 DEF MenuIInv, ShowsKey
<1>3. ASSUME NEW k \in DOMAIN m_actions, NEW visible \in BOOLEAN, SetActionVisiable(k, visible)
      PROVE  MenuIInv'
  <2>1. /\ m_actions' = [m_actions EXCEPT ![k].visible = visible]
        /\ typedLine' = <<>> /\ activated' = 0
    BY <1>3 DEF SetActionVisiable
  <2>2. m_actions \in [1 .. m -> MenuActions]
    BY LenProperties DEF MenuIInv
  <2>3. /\ m_actions' \in [1 .. m -> MenuActions]
        /\ \A i \in 1 .. m : m_actions'[i].name = m_actions[i].name
                             /\ m_actions'[i].target = m_actions[i].target
    BY <1>1, <2>1, <2>2 DEF MenuActions
  <2>4. m_actions' \in Seq(MenuActions) /\ Len(m_actions') = m
    <3> HIDE DEF m
    <3>1. QED
      BY <1>1, <2>3, FunctionIsList
  <2>5. \A i \in 1 .. m : ShowsKey(m_actions'[i].name, m_actions'[i].target)
    BY <2>3 DEF MenuIInv
  <2>6. SpacesDoNotMatter'
    BY <2>1, NothingTyped
  <2>7. QED
    BY <2>4, <2>5, <2>6 DEF MenuIInv, ShowsKey
<1>4. ASSUME NEW n \in 0 .. MaxTyped, NEW text \in [1 .. n -> Chars \cup {Gap}], TypeLine(text)
      PROVE  MenuIInv'
  <2>1. n \in Nat
    BY MenuAssumption
  <2>2. SpacesDoNotMatter'
    BY <1>4, <2>1, LineTyped
  <2>3. m_actions' = m_actions
    BY <1>4 DEF TypeLine
  <2>4. QED
    BY <2>2, <2>3 DEF MenuIInv, ShowsKey
<1>5. ASSUME UNCHANGED menuVars
      PROVE  MenuIInv'
  BY <1>5 DEF MenuIInv, menuVars, SpacesDoNotMatter, ShowsKey
<1>6. QED
  BY <1>2, <1>3, <1>4, <1>5 DEF MenuNext

LEMMA ShownKeys ==
  ASSUME MenuIInv
  PROVE  ShownKeyActivates
<1>1. Len(m_actions) \in Nat /\ DOMAIN m_actions = 1 .. Len(m_actions)
      /\ \A i \in 1 .. Len(m_actions) : m_actions[i] \in MenuActions
  BY LenProperties, ElementOfSeq DEF MenuIInv
<1>2. SUFFICES ASSUME NEW i \in 1 .. Len(m_actions)
               PROVE  LET name == m_actions[i].name
                          place == SelectInSeq(name, LAMBDA ch : ch = OpenBracket)
                      IN  IF place = 0 THEN \A ch \in ToSet(name) : ToUpper(ch) # ToUpper(m_actions[i].target)
                          ELSE m_actions[i].visible => FirstWithKey(name[place + 1]) \in 1 .. i
  BY <1>1, Zenon DEF ShownKeyActivates
<1> DEFINE a == m_actions[i]
           name == a.name
           I == {j \in 1 .. Len(name) : name[j] = OpenBracket}
           b == IF I # {} THEN Min(I) ELSE 0
<1>3. name \in Seq(Signs) /\ ShowsKey(name, a.target)
  BY <1>1 DEF MenuIInv, MenuActions
<1>4. Len(name) \in Nat /\ DOMAIN name = 1 .. Len(name) /\ I \subseteq Nat
  BY <1>3, LenProperties
<1>5. SUFFICES IF b = 0 THEN \A ch \in ToSet(name) : ToUpper(ch) # ToUpper(a.target)
               ELSE a.visible => FirstWithKey(name[b + 1]) \in 1 .. i
  BY DEF SelectInSeq
<1> HIDE DEF a, name
<1>6. ASSUME \A j \in 1 .. Len(name) : name[j] # OpenBracket /\ ~SameKey(name[j], a.target)
      PROVE  b = 0 /\ \A ch \in ToSet(name) : ToUpper(ch) # ToUpper(a.target)
  <2>1. I = {}
    BY <1>6
  <2>2. \A ch \in ToSet(name) : ToUpper(ch) # ToUpper(a.target)
    BY <1>4, <1>6 DEF ToSet, SameKey
  <2>3. QED
    BY <2>1, <2>2
<1>7. ASSUME NEW p \in 1 .. Len(name), name[p] = OpenBracket,
             \A j \in 1 .. Len(name) : j < p => name[j] # OpenBracket,
             SameKey(name[p + 1], a.target), a.visible
      PROVE  FirstWithKey(name[b + 1]) \in 1 .. i
  <2>1. p \in I
    BY <1>7
  <2>2. Min(I) \in I /\ \A y \in I : Min(I) <= y
    <3> HIDE DEF I
    <3>1. QED
      BY <1>4, <2>1, LeastPlace
  <2>3. Min(I) <= p /\ Min(I) \in 1 .. Len(name) /\ ~(Min(I) < p)
    BY <1>7, <2>1, <2>2
  <2>4. b = p
    <3>1. Min(I) = p
      BY <1>4, <2>3
    <3> HIDE DEF I
    <3>2. QED
      BY <2>1, <3>1
  <2> DEFINE ch == name[p + 1]
             f == FirstWithKey(ch)
             n == Len(m_actions)
  <2>5. HasKey(m_actions[i], ch)
    BY <1>7 DEF HasKey, SameKey, a
  <2> HIDE DEF ch, b
  <2>6. \/ f = 0 /\ \A j \in 1 .. n : ~HasKey(m_actions[j], ch)
        \/ /\ f \in 1 .. n /\ HasKey(m_actions[f], ch)
           /\ \A j \in 1 .. n : HasKey(m_actions[j], ch) => f <= j
    BY <1>1, FirstWithKeyIs
  <2> HIDE DEF f
  <2>7. f \in 1 .. n /\ f <= i
    BY <2>5, <2>6
  <2>8. f \in 1 .. i
    BY <1>1, <2>7
  <2>9. QED
    BY <2>4, <2>8 DEF f, ch
<1>8. ASSUME NEW p \in 1 .. Len(name), name[p] = OpenBracket
      PROVE  b # 0
  <2>1. p \in I
    BY <1>8
  <2>2. Min(I) \in I
    <3> HIDE DEF I
    <3>1. QED
      BY <1>4, <2>1, LeastPlace
  <2>3. Min(I) # 0
    BY <1>4, <2>2
  <2>4. I # {}
    BY <2>1
  <2>5. QED
    BY <2>3, <2>4
<1> HIDE DEF b
<1>9. CASE \A j \in 1 .. Len(name) : name[j] # OpenBracket /\ ~SameKey(name[j], a.target)
  BY <1>6, <1>9
<1>10. CASE \E p \in 1 .. Len(name) :
              /\ name[p] = OpenBracket /\ \A j \in 1 .. Len(name) : j < p => name[j] # OpenBracket
              /\ SameKey(name[p + 1], a.target)
  BY <1>7, <1>8, <1>10
<1>11. QED
  BY <1>3, <1>9, <1>10 DEF ShowsKey

-----------------------------------------------------------------------------
(* The conversions of a UUID.                                                *)

LEMMA BaseOctets ==
  /\ kBase \in [1 .. 16 -> 0 .. 255] /\ kBase \in Seq(0 .. 255) /\ Len(kBase) = 16
  /\ kBase[1] = 0 /\ kBase[2] = 0 /\ kBase[3] = 0 /\ kBase[4] = 0
<1>1. kBase \in Seq(0 .. 255) /\ Len(kBase) = 16
  BY DEF kBase
<1>2. kBase \in [1 .. Len(kBase) -> 0 .. 255]
  BY <1>1, LenProperties
<1>3. kBase[1] = 0 /\ kBase[2] = 0 /\ kBase[3] = 0 /\ kBase[4] = 0
  BY DEF kBase
<1>4. QED
  BY <1>1, <1>2, <1>3

\* A 16-bit number and its two octets
LEMMA TwoOctets ==
  ASSUME NEW a \in 0 .. 255, NEW b \in 0 .. 255
  PROVE  /\ (a * 256 + b) \div 256 = a
         /\ (a * 256 + b) % 256 = b
OBVIOUS

LEMMA OctetsAre ==
  ASSUME NEW u \in [1 .. 16 -> 0 .. 255]
  PROVE  /\ u \in Seq(0 .. 255) /\ Len(u) = 16 /\ \A i \in 1 .. 16 : u[i] \in 0 .. 255
         /\ \A v \in [1 .. 16 -> 0 .. 255] : (\A i \in 1 .. 16 : u[i] = v[i]) => u = v
         /\ \A a \in 0 .. 255, i \in 1 .. 16 :
               /\ [u EXCEPT ![i] = a] \in [1 .. 16 -> 0 .. 255]
               /\ [u EXCEPT ![i] = a][i] = a
               /\ \A j \in 1 .. 16 : j # i => [u EXCEPT ![i] = a][j] = u[j]
<1>1. u \in Seq(0 .. 255) /\ Len(u) = 16
  <2> DEFINE n == 16
             O == 0 .. 255
  <2>1. n \in Nat /\ u \in [1 .. n -> O]
    OBVIOUS
  <2> HIDE DEF n, O
  <2>2. u \in Seq(O) /\ Len(u) = n
    BY <2>1, FunctionIsList
  <2>3. QED
    BY <2>2 DEF n, O
<1>2. \A v \in [1 .. 16 -> 0 .. 255] : (\A i \in 1 .. 16 : u[i] = v[i]) => u = v
  OBVIOUS
<1>3. QED
  BY <1>1, <1>2

\* The last twelve octets are those of the base.
LEMMA SameTail ==
  ASSUME NEW u \in [1 .. 16 -> 0 .. 255]
  PROVE  SubSeq(u, 5, 16) = SubSeq(kBase, 5, 16) <=> \A i \in 5 .. 16 : u[i] = kBase[i]
<1> DEFINE s == SubSeq(u, 5, 16)
           t == SubSeq(kBase, 5, 16)
<1>0. 5 \in Int /\ 16 \in Int
  OBVIOUS
<1>1. \A i \in 5 .. 16 : u[i] \in 0 .. 255 /\ kBase[i] \in 0 .. 255
  <2>1. \A i \in 5 .. 16 : i \in 1 .. 16
    OBVIOUS
  <2>2. kBase \in [1 .. 16 -> 0 .. 255]
    BY BaseOctets
  <2>3. QED
    BY <2>1, <2>2, Zenon
<1>2. /\ s \in Seq(0 .. 255)
      /\ Len(s) = IF 5 <= 16 THEN 16 - 5 + 1 ELSE 0
      /\ \A i \in 1 .. 16 - 5 + 1 : s[i] = u[(5 + i) - 1]
  BY <1>0, <1>1, SubSeqProperties
<1>3. /\ t \in Seq(0 .. 255)
      /\ Len(t) = IF 5 <= 16 THEN 16 - 5 + 1 ELSE 0
      /\ \A i \in 1 .. 16 - 5 + 1 : t[i] = kBase[(5 + i) - 1]
  BY <1>0, <1>1, SubSeqProperties
<1> HIDE DEF s, t
<1>4. \A i \in 1 .. 12 : (5 + i) - 1 = i + 4 /\ i + 4 \in 5 .. 16
  OBVIOUS
<1>5. \A j \in 5 .. 16 : j - 4 \in 1 .. 12 /\ (j - 4) + 4 = j
  OBVIOUS
<1>6. /\ Len(s) = 12 /\ Len(t) = 12
      /\ \A i \in 1 .. 12 : s[i] = u[i + 4] /\ t[i] = kBase[i + 4]
  BY <1>2, <1>3, <1>4
<1>7. ASSUME s = t, NEW j \in 5 .. 16
      PROVE  u[j] = kBase[j]
  <2>1. s[j - 4] = u[(j - 4) + 4] /\ t[j - 4] = kBase[(j - 4) + 4]
    BY <1>5, <1>6
  <2>2. QED
    BY <1>5, <1>7, <2>1
<1>8. ASSUME \A j \in 5 .. 16 : u[j] = kBase[j]
      PROVE  s = t
  <2>1. \A i \in 1 .. 12 : s[i] = t[i]
    BY <1>4, <1>6, <1>8
  <2>2. QED
    <3>1. Len(s) = Len(t) /\ \A i \in 1 .. Len(s) : s[i] = t[i]
      BY <1>6, <2>1
    <3>2. s \in Seq(0 .. 255) /\ t \in Seq(0 .. 255)
      BY <1>2, <1>3
    <3>3. QED
      BY <3>1, <3>2, SeqEqual
<1>9. QED
  BY <1>7, <1>8 DEF s, t

LEMMA ShortestOf ==
  ASSUME NEW u \in [1 .. 16 -> 0 .. 255]
  PROVE  GetShortestRepresentationSize(u) =
           IF From16Bit(As16Bit(u)) = u THEN 2 ELSE IF From32Bit(As32Bit(u)) = u THEN 4 ELSE 16
<1> DEFINE v == From16Bit(As16Bit(u))
           w == From32Bit(As32Bit(u))
<1>1. /\ u[1] \in 0 .. 255 /\ u[2] \in 0 .. 255 /\ u[3] \in 0 .. 255 /\ u[4] \in 0 .. 255
  OBVIOUS
<1> DEFINE a == u[1]
           b == u[2]
           c == u[3]
           d == u[4]
<1>1a. (u[1] * 256 + u[2]) \div 256 = u[1] /\ (u[1] * 256 + u[2]) % 256 = u[2]
  <2>1. a \in 0 .. 255 /\ b \in 0 .. 255
    BY <1>1
  <2> HIDE DEF a, b
  <2>2. (a * 256 + b) \div 256 = a /\ (a * 256 + b) % 256 = b
    BY <2>1, TwoOctets
  <2>3. QED
    BY <2>2 DEF a, b
<1>1b. (u[3] * 256 + u[4]) \div 256 = u[3] /\ (u[3] * 256 + u[4]) % 256 = u[4]
  <2>1. c \in 0 .. 255 /\ d \in 0 .. 255
    BY <1>1
  <2> HIDE DEF c, d
  <2>2. (c * 256 + d) \div 256 = c /\ (c * 256 + d) % 256 = d
    BY <2>1, TwoOctets
  <2>3. QED
    BY <2>2 DEF c, d
<1>2. /\ As16Bit(u) \div 256 = u[3] /\ As16Bit(u) % 256 = u[4]
  BY <1>1b DEF As16Bit
<1>3. /\ As32Bit(u)[1] \div 256 = u[1] /\ As32Bit(u)[1] % 256 = u[2]
      /\ As32Bit(u)[2] \div 256 = u[3] /\ As32Bit(u)[2] % 256 = u[4]
  <2>3. As32Bit(u)[1] = u[1] * 256 + u[2] /\ As32Bit(u)[2] = u[3] * 256 + u[4]
    BY DEF As32Bit
  <2>4. QED
    BY <1>1a, <1>1b, <2>3
<1>4. v = [kBase EXCEPT ![3] = u[3], ![4] = u[4]]
  BY <1>2 DEF From16Bit
<1>5. w = [kBase EXCEPT ![1] = u[1], ![2] = u[2], ![3] = u[3], ![4] = u[4]]
  BY <1>3 DEF From32Bit
<1> HIDE DEF v, w
<1>6. v \in [1 .. 16 -> 0 .. 255] /\ w \in [1 .. 16 -> 0 .. 255]
  BY <1>1, <1>4, <1>5, BaseOctets
<1>7. /\ v[1] = 0 /\ v[2] = 0 /\ v[3] = u[3] /\ v[4] = u[4]
      /\ \A i \in 5 .. 16 : v[i] = kBase[i]
  BY <1>4, BaseOctets
<1>8. /\ w[1] = u[1] /\ w[2] = u[2] /\ w[3] = u[3] /\ w[4] = u[4]
      /\ \A i \in 5 .. 16 : w[i] = kBase[i]
  BY <1>5, BaseOctets
<1>9. \A i \in 1 .. 16 : i = 1 \/ i = 2 \/ i = 3 \/ i = 4 \/ i \in 5 .. 16
  OBVIOUS
<1>10. v = u <=> u[1] = 0 /\ u[2] = 0 /\ \A i \in 5 .. 16 : u[i] = kBase[i]
  <2>1. ASSUME u[1] = 0, u[2] = 0, \A i \in 5 .. 16 : u[i] = kBase[i]
        PROVE  v = u
    <3>1. \A i \in 1 .. 16 : v[i] = u[i]
      BY <1>7, <1>9, <2>1
    <3>2. QED
      BY <1>6, <3>1
  <2>2. QED
    BY <1>7, <2>1
<1>11. w = u <=> \A i \in 5 .. 16 : u[i] = kBase[i]
  <2>1. ASSUME \A i \in 5 .. 16 : u[i] = kBase[i]
        PROVE  w = u
    <3>1. \A i \in 1 .. 16 : w[i] = u[i]
      BY <1>8, <1>9, <2>1
    <3>2. QED
      BY <1>6, <3>1
  <2>2. QED
    BY <1>8, <2>1
<1>12. QED
  BY <1>10, <1>11, SameTail DEF GetShortestRepresentationSize, v, w

\* The loop of FromString has a result for every text and every list of places.
StepByStep(r, text, places, dashed) ==
  /\ r[0] = [uu |-> kBase, ok |-> TRUE, rest |-> text]
  /\ \A k \in 1 .. Len(places) : r[k] = ScanNext(r[k - 1], places[k], dashed)

LEMMA ScanSteps ==
  ASSUME NEW text, NEW places, NEW dashed, Len(places) \in Nat
  PROVE  StepByStep(Scan(text, places, dashed), text, places, dashed)
<1> DEFINE base == [uu |-> kBase, ok |-> TRUE, rest |-> text]
           n == Len(places)
           Good(f, m) == f = [k \in 0 .. m |-> IF k = 0 THEN base
                                               ELSE ScanNext(f[k - 1], places[k], dashed)]
           T == {m \in 0 .. n : ~ \E f : Good(f, m)}
           scanned[k \in 0 .. n] ==
             IF k = 0 THEN base ELSE ScanNext(scanned[k - 1], places[k], dashed)
<1>1. Scan(text, places, dashed) = scanned
  BY DEF Scan
<1>2. T = {}
  <2>1. ASSUME T # {}
        PROVE  FALSE
    <3>1. T \subseteq Nat
      OBVIOUS
    <3>2. PICK m \in T : \A j \in T : m <= j
      <4> HIDE DEF T
      <4>1. QED
        BY <2>1, <3>1, LeastNatural
    <3>3. m \in 0 .. n /\ ~ \E f : Good(f, m)
      OBVIOUS
    <3> HIDE DEF base
    <3>4. m # 0
      <4> DEFINE f == [k \in 0 .. 0 |-> base]
      <4>1. Good(f, 0)
        OBVIOUS
      <4> HIDE DEF f, Good
      <4>2. QED
        BY <3>3, <4>1
    <3>5. m - 1 \in 0 .. n /\ ~ (m <= m - 1)
      BY <3>3, <3>4
    <3>6. PICK f : Good(f, m - 1)
      <4>1. m - 1 \notin T
        BY <3>2, <3>5
      <4> HIDE DEF Good
      <4>2. QED
        BY <3>5, <4>1
    <3>7. \A k \in 0 .. m - 1 :
             f[k] = IF k = 0 THEN base ELSE ScanNext(f[k - 1], places[k], dashed)
      BY <3>6
    <3> DEFINE g == [k \in 0 .. m |-> IF k = m THEN ScanNext(f[m - 1], places[m], dashed)
                                      ELSE f[k]]
    <3>8. \A k \in 0 .. m : k = m \/ (k \in 0 .. m - 1 /\ k # m)
      BY <3>3
    <3>9. \A k \in 0 .. m : k # 0 => k - 1 \in 0 .. m /\ k - 1 # m /\ g[k - 1] = f[k - 1]
      BY <3>3
    <3>10. \A k \in 0 .. m : g[k] = IF k = 0 THEN base ELSE ScanNext(g[k - 1], places[k], dashed)
      <4> SUFFICES ASSUME NEW k \in 0 .. m
                   PROVE  g[k] = IF k = 0 THEN base ELSE ScanNext(g[k - 1], places[k], dashed)
        OBVIOUS
      <4>1. k = m => g[k] = ScanNext(f[m - 1], places[m], dashed)
        OBVIOUS
      <4>2. k # m => g[k] = f[k] /\ k \in 0 .. m - 1
        BY <3>8
      <4> HIDE DEF g
      <4>3. QED
        BY <3>4, <3>7, <3>9, <4>1, <4>2
    <3>11. g = [k \in 0 .. m |-> g[k]]
      OBVIOUS
    <3> HIDE DEF g
    <3>12. g = [k \in 0 .. m |-> IF k = 0 THEN base ELSE ScanNext(g[k - 1], places[k], dashed)]
      BY <3>10, <3>11, Zenon
    <3>13. Good(g, m)
      BY <3>12
    <3> HIDE DEF Good
    <3>14. QED
      BY <3>3, <3>13
  <2>2. QED
    BY <2>1
<1>3. \E f : Good(f, n)
  <2>1. n \in 0 .. n
    OBVIOUS
  <2> HIDE DEF n, Good
  <2>2. QED
    BY <1>2, <2>1
<1>4. scanned = [k \in 0 .. n |-> IF k = 0 THEN base
                                  ELSE ScanNext(scanned[k - 1], places[k], dashed)]
  <2> HIDE DEF n, base
  <2>1. QED
    BY <1>3, Zenon
<1> HIDE DEF scanned, base
<1>5. \A k \in 0 .. n : scanned[k] = IF k = 0 THEN base
                                     ELSE ScanNext(scanned[k - 1], places[k], dashed)
  BY <1>4, Zenon
<1>6. 0 \in 0 .. n /\ \A k \in 1 .. n : k \in 0 .. n /\ k # 0
  OBVIOUS
<1>7. scanned[0] = base
  BY <1>5, <1>6
<1>8. \A k \in 1 .. n : scanned[k] = ScanNext(scanned[k - 1], places[k], dashed)
  BY <1>5, <1>6
<1>9. QED
  BY <1>1, <1>7, <1>8, Zenon DEF base, StepByStep

Rest == Seq(0 .. 18)

\* Two digits are read as one octet.
LEMMA TwoDigits ==
  ASSUME NEW t \in Rest, Len(t) >= 2, t[1] \in 0 .. 15, t[2] \in 0 .. 15
  PROVE  /\ ScanOctet(t).ok = TRUE /\ ScanOctet(t).value = t[1] * 16 + t[2]
         /\ ScanOctet(t).rest \in Rest /\ Len(ScanOctet(t).rest) = Len(t) - 2
         /\ \A i \in 1 .. Len(t) - 2 : ScanOctet(t).rest[i] = t[i + 2]
<1>1. t \in Seq(0 .. 18) /\ Len(t) \in Nat /\ \A i \in 1 .. Len(t) : t[i] \in 0 .. 18
  BY LenProperties, ElementOfSeq DEF Rest
<1> DEFINE I == {i \in 1 .. Len(t) : t[i] # Blank}
<1>2. 1 \in I /\ \A y \in I : 1 <= y
  BY <1>1 DEF Blank
<1>3. Min(I) = 1
  <2>1. Min(I) \in I /\ \A y \in I : Min(I) <= y
    <3> HIDE DEF I
    <3>1. QED
      BY <1>2 DEF Min
  <2>2. Min(I) <= 1 /\ 1 <= Min(I) /\ Min(I) \in Nat
    BY <1>1, <1>2, <2>1
  <2> HIDE DEF I
  <2>3. QED
    BY <2>2
<1>4. I # {}
  BY <1>2
<1>5. SubSeq(t, 1, Len(t)) = t
  BY <1>1, SubSeqFull
<1>6. ScanOctet(t) = [ok |-> TRUE, value |-> t[1] * 16 + t[2], rest |-> SubSeq(t, 3, Len(t))]
  <2> DEFINE p == IF I # {} THEN Min(I) ELSE 0
             v == IF p = 0 THEN <<>> ELSE SubSeq(t, p, Len(t))
             digitAt(i) == i <= Len(v) /\ v[i] \in 0 .. 15
             took(n, value) == [ok |-> TRUE, value |-> value, rest |-> SubSeq(v, n + 1, Len(v))]
  <2>1. ScanOctet(t) = CASE digitAt(1) /\ digitAt(2) -> took(2, v[1] * 16 + v[2])
                         [] digitAt(1) /\ ~digitAt(2) -> took(1, v[1])
                         [] Len(v) >= 1 /\ v[1] = Dash /\ digitAt(2) -> took(2, (256 - v[2]) % 256)
                         [] OTHER -> [ok |-> FALSE, value |-> 0, rest |-> v]
    BY Zenon DEF ScanOctet, SelectInSeq, IsDigit
  <2>2. v = t
    <3>1. p = 1
      BY <1>3, <1>4
    <3> HIDE DEF p
    <3>2. QED
      BY <1>5, <3>1
  <2> HIDE DEF v
  <2> DEFINE A == digitAt(1) /\ digitAt(2)
             B == digitAt(1) /\ ~digitAt(2)
             C == Len(v) >= 1 /\ v[1] = Dash /\ digitAt(2)
             two == took(2, v[1] * 16 + v[2])
             one == took(1, v[1])
             less == took(2, (256 - v[2]) % 256)
             none == [ok |-> FALSE, value |-> 0, rest |-> v]
  <2>3. A /\ ~B /\ ~C
    <3>1. digitAt(1) /\ digitAt(2)
      BY <1>1, <2>2
    <3>2. v[1] # Dash
      BY <2>2 DEF Dash
    <3>3. QED
      BY <3>1, <3>2
  <2>4. two = [ok |-> TRUE, value |-> t[1] * 16 + t[2], rest |-> SubSeq(t, 3, Len(t))]
    BY <2>2
  <2>5. ScanOctet(t) = CASE A -> two [] B -> one [] C -> less [] OTHER -> none
    BY <2>1, Zenon
  <2> HIDE DEF A, B, C, two, one, less, none
  <2>7. ScanOctet(t) = two
    BY <2>3, <2>5
  <2>8. QED
    BY <2>4, <2>7
<1> DEFINE u == SubSeq(t, 3, Len(t))
<1>7. /\ u \in Seq(0 .. 18)
      /\ Len(u) = IF 3 <= Len(t) THEN Len(t) - 3 + 1 ELSE 0
      /\ \A i \in 1 .. Len(t) - 3 + 1 : u[i] = t[(3 + i) - 1]
  <2>1. 3 \in Int /\ Len(t) \in Int /\ \A i \in 3 .. Len(t) : t[i] \in 0 .. 18
    BY <1>1
  <2>2. QED
    BY <2>1, SubSeqProperties
<1>8. Len(t) - 3 + 1 = Len(t) - 2 /\ \A i \in 1 .. Len(t) - 2 : (3 + i) - 1 = i + 2
  BY <1>1
<1> HIDE DEF u
<1>9. u \in Seq(0 .. 18) /\ Len(u) = Len(t) - 2 /\ \A i \in 1 .. Len(t) - 2 : u[i] = t[i + 2]
  <2>1. Len(u) = Len(t) - 2
    <3>1. Len(u) = IF 3 <= Len(t) THEN Len(t) - 3 + 1 ELSE 0
      BY <1>7
    <3>2. Len(t) \in Nat /\ Len(t) >= 2
      BY <1>1
    <3>3. \A n \in Nat : n >= 2 => (IF 3 <= n THEN n - 3 + 1 ELSE 0) = n - 2
      OBVIOUS
    <3>4. QED
      BY <3>1, <3>2, <3>3
  <2>2. \A i \in 1 .. Len(t) - 2 : u[i] = t[i + 2]
    BY <1>7, <1>8
  <2>3. QED
    BY <1>7, <2>1, <2>2
<1>10. QED
  BY <1>6, <1>9 DEF u, Rest

\* One octet of a well-formed text, and the dash behind it
OctetAhead(r, place, dashed, d) ==
  /\ r.ok = TRUE /\ r.rest \in Rest /\ Len(r.rest) >= 2
  /\ r.rest[1] \in 0 .. 15 /\ r.rest[2] \in 0 .. 15
  /\ d \in {0, 1} /\ (dashed /\ place \in DashAfter <=> d = 1)
  /\ d = 1 => Len(r.rest) >= 3 /\ r.rest[3] = Dash

OctetTaken(r, q, place, d) ==
  /\ q.ok = TRUE /\ q.uu = [r.uu EXCEPT ![place] = r.rest[1] * 16 + r.rest[2]]
  /\ q.rest \in Rest /\ Len(q.rest) = Len(r.rest) - (2 + d)
  /\ \A i \in 1 .. Len(r.rest) - (2 + d) : q.rest[i] = r.rest[i + (2 + d)]

LEMMA OneOctet ==
  ASSUME NEW r, NEW place, NEW dashed, NEW d, OctetAhead(r, place, dashed, d)
  PROVE  OctetTaken(r, ScanNext(r, place, dashed), place, d)
<1>0. /\ r.ok = TRUE /\ r.rest \in Rest /\ Len(r.rest) >= 2
      /\ r.rest[1] \in 0 .. 15 /\ r.rest[2] \in 0 .. 15
      /\ d \in {0, 1} /\ (dashed /\ place \in DashAfter <=> d = 1)
      /\ d = 1 => Len(r.rest) >= 3 /\ r.rest[3] = Dash
  BY DEF OctetAhead
<1> DEFINE t == r.rest
           s == ScanOctet(t)
           q == ScanNext(r, place, dashed)
<1>1. /\ s.ok = TRUE /\ s.value = t[1] * 16 + t[2]
      /\ s.rest \in Rest /\ Len(s.rest) = Len(t) - 2
      /\ \A i \in 1 .. Len(t) - 2 : s.rest[i] = t[i + 2]
  BY <1>0, TwoDigits
<1>2. s.rest \in Seq(0 .. 18) /\ Len(t) \in Nat
  BY <1>1, LenProperties DEF Rest
<1> HIDE DEF s
<1>3. q = LET hasDash == s.rest # <<>> /\ Head(s.rest) = Dash
              needsDash == dashed /\ place \in DashAfter
          IN  [uu |-> [r.uu EXCEPT ![place] = s.value], ok |-> needsDash => hasDash,
               rest |-> IF needsDash /\ hasDash THEN Tail(s.rest) ELSE s.rest]
  BY <1>0, <1>1 DEF ScanNext, s
<1>4. CASE d = 0
  <2>1. ~(dashed /\ place \in DashAfter)
    BY <1>0, <1>4
  <2>2. q = [uu |-> [r.uu EXCEPT ![place] = s.value], ok |-> TRUE, rest |-> s.rest]
    BY <1>3, <2>1
  <2> HIDE DEF t, q
  <2>3. 2 + d = 2
    BY <1>4
  <2>4. q.ok = TRUE /\ q.uu = [r.uu EXCEPT ![place] = t[1] * 16 + t[2]] /\ q.rest = s.rest
    BY <1>1, <2>2
  <2>5. /\ q.rest \in Rest /\ Len(q.rest) = Len(t) - (2 + d)
        /\ \A i \in 1 .. Len(t) - (2 + d) : q.rest[i] = t[i + (2 + d)]
    BY <1>1, <2>3, <2>4
  <2>6. QED
    BY <2>4, <2>5 DEF q, t, OctetTaken
<1>5. CASE d = 1
  <2>1. dashed /\ place \in DashAfter
    BY <1>0, <1>5
  <2>2. 1 \in 1 .. Len(t) - 2 /\ 1 + 2 = 3
    BY <1>0, <1>2, <1>5
  <2>3. s.rest[1] = Dash
    BY <1>0, <1>1, <1>5, <2>2
  <2>4. s.rest # <<>>
    <3>1. Len(s.rest) # 0
      BY <1>1, <1>2, <2>2
    <3>2. QED
      BY <3>1
  <2>5. Head(s.rest) = Dash
    BY <1>2, <2>3, <2>4
  <2>6. q = [uu |-> [r.uu EXCEPT ![place] = s.value], ok |-> TRUE, rest |-> Tail(s.rest)]
    BY <1>3, <2>1, <2>4, <2>5
  <2>7. /\ Tail(s.rest) \in Seq(0 .. 18) /\ Len(Tail(s.rest)) = Len(s.rest) - 1
        /\ \A i \in 1 .. Len(Tail(s.rest)) : Tail(s.rest)[i] = s.rest[i + 1]
    BY <1>2, <2>4, HeadTailProperties
  <2>8. /\ Len(Tail(s.rest)) = Len(t) - (2 + d)
        /\ \A i \in 1 .. Len(t) - (2 + d) : i + 1 \in 1 .. Len(t) - 2 /\ (i + 1) + 2 = i + (2 + d)
    BY <1>1, <1>2, <1>5, <2>7
  <2>9. \A i \in 1 .. Len(t) - (2 + d) : Tail(s.rest)[i] = t[i + (2 + d)]
    BY <1>1, <2>7, <2>8
  <2> HIDE DEF q, t
  <2>10. q.ok = TRUE /\ q.uu = [r.uu EXCEPT ![place] = t[1] * 16 + t[2]] /\ q.rest = Tail(s.rest)
    BY <1>1, <2>6
  <2>11. q.rest \in Rest
    BY <2>7, <2>10 DEF Rest
  <2>12. Len(q.rest) = Len(t) - (2 + d) /\ \A i \in 1 .. Len(t) - (2 + d) : q.rest[i] = t[i + (2 + d)]
    BY <2>8, <2>9, <2>10
  <2>13. QED
    BY <2>10, <2>11, <2>12 DEF q, t, OctetTaken
<1>6. QED
  BY <1>0, <1>4, <1>5

\* An octet and its two digits
LEMMA DigitsOfOctet ==
  ASSUME NEW a \in 0 .. 255
  PROVE  a \div 16 \in 0 .. 15 /\ a % 16 \in 0 .. 15 /\ (a \div 16) * 16 + (a % 16) = a
OBVIOUS

\* Where the digits of each octet begin in the text of 36 characters
Starts == <<0, 2, 4, 6, 9, 11, 14, 16, 19, 21, 24, 26, 28, 30, 32, 34, 36>>
Dashes(k) == IF k \in DashAfter THEN 1 ELSE 0

LEMMA StartsGrow ==
  /\ Starts[1] = 0 /\ Starts[17] = 36
  /\ \A k \in 1 .. 16 : /\ Starts[k] \in 0 .. 36 /\ Starts[k + 1] \in 0 .. 36
                        /\ Starts[k + 1] = Starts[k] + (2 + Dashes(k))
                        /\ Dashes(k) \in {0, 1} /\ (k \in DashAfter <=> Dashes(k) = 1)
<1>1. Starts[1] = 0 /\ Starts[17] = 36
  BY DEF Starts
<1>2. SUFFICES ASSUME NEW k \in 1 .. 16
               PROVE  /\ Starts[k] \in 0 .. 36 /\ Starts[k + 1] \in 0 .. 36
                      /\ Starts[k + 1] = Starts[k] + (2 + Dashes(k))
                      /\ Dashes(k) \in {0, 1} /\ (k \in DashAfter <=> Dashes(k) = 1)
  BY <1>1
<1>3. \/ k = 1 \/ k = 2 \/ k = 3 \/ k = 4 \/ k = 5 \/ k = 6 \/ k = 7 \/ k = 8
      \/ k = 9 \/ k = 10 \/ k = 11 \/ k = 12 \/ k = 13 \/ k = 14 \/ k = 15 \/ k = 16
  OBVIOUS
<1>4. QED
  BY <1>3 DEF Starts, Dashes, DashAfter

LaidOut(t, u) ==
  /\ t \in Rest /\ Len(t) = 36
  /\ \A k \in 1 .. 16 : /\ t[Starts[k] + 1] = u[k] \div 16
                        /\ t[Starts[k] + 2] = u[k] % 16
                        /\ k \in DashAfter => t[Starts[k] + 3] = Dash

LEMMA LongLayout ==
  ASSUME NEW u \in [1 .. 16 -> 0 .. 255]
  PROVE  LaidOut(UuidText(u), u)
<1> DEFINE h(i) == u[i] \div 16
           l(i) == u[i] % 16
           t == UuidText(u)
<1>1. \A i \in 1 .. 16 : h(i) \in 0 .. 18 /\ l(i) \in 0 .. 18
  <2>1. SUFFICES ASSUME NEW i \in 1 .. 16
                 PROVE  h(i) \in 0 .. 18 /\ l(i) \in 0 .. 18
    OBVIOUS
  <2>2. u[i] \in 0 .. 255
    OBVIOUS
  <2>3. u[i] \div 16 \in 0 .. 15 /\ u[i] % 16 \in 0 .. 15
    BY <2>2, DigitsOfOctet
  <2>4. QED
    BY <2>3
<1> HIDE DEF h, l
<1>2. t = <<h(1), l(1), h(2), l(2), h(3), l(3), h(4), l(4), Dash, h(5), l(5), h(6), l(6), Dash,
            h(7), l(7), h(8), l(8), Dash, h(9), l(9), h(10), l(10), Dash, h(11), l(11), h(12), l(12),
            h(13), l(13), h(14), l(14), h(15), l(15), h(16), l(16)>>
  BY Zenon DEF UuidText, h, l
<1>3. Dash \in 0 .. 18
  BY DEF Dash
<1> HIDE DEF t
<1>4. Len(t) = 36
  BY <1>2
<1>5. /\ t[1] = h(1) /\ t[2] = l(1) /\ t[3] = h(2) /\ t[4] = l(2) /\ t[5] = h(3) /\ t[6] = l(3)
      /\ t[7] = h(4) /\ t[8] = l(4) /\ t[9] = Dash
      /\ t[10] = h(5) /\ t[11] = l(5) /\ t[12] = h(6) /\ t[13] = l(6) /\ t[14] = Dash
  BY <1>2
<1>6. /\ t[15] = h(7) /\ t[16] = l(7) /\ t[17] = h(8) /\ t[18] = l(8) /\ t[19] = Dash
      /\ t[20] = h(9) /\ t[21] = l(9) /\ t[22] = h(10) /\ t[23] = l(10) /\ t[24] = Dash
  BY <1>2
<1>7. /\ t[25] = h(11) /\ t[26] = l(11) /\ t[27] = h(12) /\ t[28] = l(12)
      /\ t[29] = h(13) /\ t[30] = l(13) /\ t[31] = h(14) /\ t[32] = l(14)
      /\ t[33] = h(15) /\ t[34] = l(15) /\ t[35] = h(16) /\ t[36] = l(16)
  BY <1>2
<1>8. t \in Seq(0 .. 18)
  <2>1. \A i \in 1 .. 36 : t[i] \in 0 .. 18
    <3> DEFINE S == 0 .. 18
    <3>1. \A i \in 1 .. 16 : h(i) \in S /\ l(i) \in S
      BY <1>1
    <3>2. Dash \in S
      BY <1>3
    <3> HIDE DEF S
    <3>3. \A i \in 1 .. 14 : t[i] \in S
      BY <1>5, <3>1, <3>2
    <3>4. \A i \in 15 .. 24 : t[i] \in S
      BY <1>6, <3>1, <3>2
    <3>5. \A i \in 25 .. 36 : t[i] \in S
      BY <1>7, <3>1, <3>2
    <3>6. \A i \in 1 .. 36 : i \in 1 .. 14 \/ i \in 15 .. 24 \/ i \in 25 .. 36
      OBVIOUS
    <3>7. QED
      BY <3>3, <3>4, <3>5, <3>6 DEF S
  <2>2. t = [i \in 1 .. 36 |-> t[i]]
    BY <1>2
  <2> DEFINE n == 36
             S == 0 .. 18
  <2>3. n \in Nat /\ t \in [1 .. n -> S]
    BY <2>1, <2>2
  <2> HIDE DEF n, S
  <2>4. t \in Seq(S)
    BY <2>3, FunctionIsList
  <2>5. QED
    BY <2>4 DEF S
<1>9. \A k \in 1 .. 16 : /\ t[Starts[k] + 1] = h(k) /\ t[Starts[k] + 2] = l(k)
                         /\ k \in DashAfter => t[Starts[k] + 3] = Dash
  <2>1. SUFFICES ASSUME NEW k \in 1 .. 16
                 PROVE  /\ t[Starts[k] + 1] = h(k) /\ t[Starts[k] + 2] = l(k)
                        /\ k \in DashAfter => t[Starts[k] + 3] = Dash
    OBVIOUS
  <2>2. \A j \in 1 .. 16 : \/ j = 1 \/ j = 2 \/ j = 3 \/ j = 4 \/ j = 5 \/ j = 6 \/ j = 7 \/ j = 8
                          \/ j = 9 \/ j = 10 \/ j = 11 \/ j = 12 \/ j = 13 \/ j = 14 \/ j = 15 \/ j = 16
    OBVIOUS
  <2>3. CASE k \in 1 .. 6
    BY <1>5, <2>3 DEF Starts, DashAfter
  <2>4. CASE k \in 7 .. 10
    BY <1>6, <2>4 DEF Starts, DashAfter
  <2>5. CASE k \in 11 .. 16
    BY <1>7, <2>5 DEF Starts, DashAfter
  <2>6. QED
    BY <2>3, <2>4, <2>5
<1>10. QED
  <2>1. \A k \in 1 .. 16 : /\ t[Starts[k] + 1] = u[k] \div 16
                           /\ t[Starts[k] + 2] = u[k] % 16
                           /\ k \in DashAfter => t[Starts[k] + 3] = Dash
    BY <1>9, Zenon DEF h, l
  <2>2. LaidOut(t, u)
    <3>1. t \in Rest
      BY <1>8 DEF Rest
    <3>2. SUFFICES ASSUME NEW k \in 1 .. 16
                   PROVE  /\ t[Starts[k] + 1] = u[k] \div 16
                          /\ t[Starts[k] + 2] = u[k] % 16
                          /\ k \in DashAfter => t[Starts[k] + 3] = Dash
      BY <1>4, <3>1, Zenon DEF LaidOut
    <3>3. QED
      BY <2>1
  <2>3. QED
    BY <2>2 DEF t

\* After k octets of the long text: they are stored, and the rest of the text
\* is what begins where the next one is printed.
ReadSoFar(r, u, k) ==
  LET t == UuidText(u)
  IN  /\ r.ok = TRUE /\ r.uu \in [1 .. 16 -> 0 .. 255] /\ \A j \in 1 .. k : r.uu[j] = u[j]
      /\ r.rest \in Rest /\ Len(r.rest) = 36 - Starts[k + 1]
      /\ \A i \in 1 .. Len(r.rest) : r.rest[i] = t[i + Starts[k + 1]]

LEMMA ReadsOneMore ==
  ASSUME NEW u \in [1 .. 16 -> 0 .. 255], NEW k \in 1 .. 16, NEW r, NEW dashed, dashed,
         ReadSoFar(r, u, k - 1)
  PROVE  ReadSoFar(ScanNext(r, k, dashed), u, k)
<1> DEFINE t == UuidText(u)
           b == Starts[k]
           c == Starts[k + 1]
           d == Dashes(k)
           v == r.rest
           q == ScanNext(r, k, dashed)
<1>1. (k - 1) + 1 = k
  OBVIOUS
<1>2. /\ r.ok = TRUE /\ r.uu \in [1 .. 16 -> 0 .. 255] /\ \A j \in 1 .. k - 1 : r.uu[j] = u[j]
      /\ v \in Rest /\ Len(v) = 36 - b
      /\ \A i \in 1 .. Len(v) : v[i] = t[i + b]
  BY <1>1 DEF ReadSoFar
<1>3. /\ b \in 0 .. 36 /\ c \in 0 .. 36 /\ c = b + (2 + d) /\ d \in {0, 1} /\ (k \in DashAfter <=> d = 1)
  BY StartsGrow
<1>4. t[b + 1] = u[k] \div 16 /\ t[b + 2] = u[k] % 16 /\ (k \in DashAfter => t[b + 3] = Dash)
  <2>1. LaidOut(t, u)
    BY LongLayout
  <2> HIDE DEF t
  <2>2. QED
    BY <2>1, Zenon DEF LaidOut
<1>5. u[k] \in 0 .. 255
  OBVIOUS
<1>6. u[k] \div 16 \in 0 .. 15 /\ u[k] % 16 \in 0 .. 15 /\ (u[k] \div 16) * 16 + (u[k] % 16) = u[k]
  BY <1>5, DigitsOfOctet
<1> HIDE DEF t, b, c, d, v
<1>7. Len(v) \in Nat /\ Len(v) >= 2 + d /\ 36 - c = Len(v) - (2 + d)
  BY <1>2, <1>3
<1>8. 1 \in 1 .. Len(v) /\ 2 \in 1 .. Len(v) /\ (d = 1 => 3 \in 1 .. Len(v)) /\ Len(v) >= 2
      /\ (d = 1 => Len(v) >= 3)
  BY <1>3, <1>7
<1>9. v[1] = u[k] \div 16 /\ v[2] = u[k] % 16 /\ (d = 1 => v[3] = Dash)
  <2>1. 1 + b = b + 1 /\ 2 + b = b + 2 /\ 3 + b = b + 3
    BY <1>3
  <2>2. v[1] = t[1 + b] /\ v[2] = t[2 + b] /\ (d = 1 => v[3] = t[3 + b])
    BY <1>2, <1>8
  <2>3. QED
    BY <1>3, <1>4, <2>1, <2>2
<1>10. v[1] \in 0 .. 15 /\ v[2] \in 0 .. 15 /\ v[1] * 16 + v[2] = u[k]
  BY <1>6, <1>9
<1>11. /\ q.ok = TRUE /\ q.uu = [r.uu EXCEPT ![k] = v[1] * 16 + v[2]]
       /\ q.rest \in Rest /\ Len(q.rest) = Len(v) - (2 + d)
       /\ \A i \in 1 .. Len(v) - (2 + d) : q.rest[i] = v[i + (2 + d)]
  <2>1. dashed /\ k \in DashAfter <=> d = 1
    BY <1>3
  <2>2. OctetAhead(r, k, dashed, d)
    BY <1>2, <1>3, <1>8, <1>9, <1>10, <2>1 DEF v, OctetAhead
  <2>3. OctetTaken(r, q, k, d)
    BY <2>2, OneOctet
  <2> HIDE DEF q
  <2>4. QED
    BY <2>3 DEF v, OctetTaken
<1> HIDE DEF q
<1>12. q.uu \in [1 .. 16 -> 0 .. 255] /\ \A j \in 1 .. k : q.uu[j] = u[j]
  <2>1. q.uu = [r.uu EXCEPT ![k] = u[k]]
    BY <1>10, <1>11
  <2>2. \A j \in 1 .. k : j \in 1 .. 16 /\ (j = k \/ (j # k /\ j \in 1 .. k - 1))
    OBVIOUS
  <2>3. /\ [r.uu EXCEPT ![k] = u[k]] \in [1 .. 16 -> 0 .. 255]
        /\ [r.uu EXCEPT ![k] = u[k]][k] = u[k]
        /\ \A j \in 1 .. 16 : j # k => [r.uu EXCEPT ![k] = u[k]][j] = r.uu[j]
    BY <1>2, <1>5
  <2>4. QED
    BY <1>2, <2>1, <2>2, <2>3
<1>13. Len(q.rest) = 36 - c /\ \A i \in 1 .. Len(q.rest) : q.rest[i] = t[i + c]
  <2>1. Len(q.rest) = 36 - c
    BY <1>7, <1>11
  <2>2. SUFFICES ASSUME NEW i \in 1 .. Len(v) - (2 + d)
                 PROVE  q.rest[i] = t[i + c]
    BY <1>11, <2>1
  <2>3. i + (2 + d) \in 1 .. Len(v) /\ (i + (2 + d)) + b = i + c
    BY <1>3, <1>7
  <2>4. QED
    BY <1>2, <1>11, <2>3
<1>14. QED
  BY <1>11, <1>12, <1>13 DEF ReadSoFar, q, t, c

\* A text printed is read as the octets it was printed from.
LEMMA LongIsReadBack ==
  ASSUME NEW u \in [1 .. 16 -> 0 .. 255]
  PROVE  FromString(UuidText(u), 0) = [uu |-> u, valid |-> TRUE]
<1> DEFINE t == UuidText(u)
           p == [i \in 1 .. 16 |-> i]
           dashed == Len(t) = 36
           s == Scan(t, p, dashed)
<1>1. t \in Rest /\ Len(t) = 36
  BY LongLayout DEF LaidOut
<1>2. Places(36) = p
  BY DEF Places
<1>3. Len(p) = 16 /\ p # <<>> /\ \A k \in 1 .. 16 : p[k] = k
  <2> DEFINE n == 16
             S == 1 .. 16
  <2>1. n \in Nat /\ p \in [1 .. n -> S] /\ \A k \in 1 .. 16 : p[k] = k
    OBVIOUS
  <2> HIDE DEF n, S, p
  <2>2. Len(p) = n /\ p \in Seq(S)
    BY <2>1, FunctionIsList
  <2>3. Len(p) = 16
    BY <2>2 DEF n
  <2>4. p # <<>>
    BY <2>3
  <2>5. QED
    BY <2>1, <2>3, <2>4
<1> HIDE DEF p
<1>3a. dashed
  BY <1>1
<1> HIDE DEF t, dashed
<1>4. /\ s[0] = [uu |-> kBase, ok |-> TRUE, rest |-> t]
      /\ \A k \in 1 .. 16 : s[k] = ScanNext(s[k - 1], k, dashed)
  <2>1. Len(p) \in Nat
    BY <1>3
  <2>2. StepByStep(s, t, p, dashed)
    BY <2>1, ScanSteps
  <2> HIDE DEF s
  <2>3. QED
    BY <1>3, <2>2, Zenon DEF StepByStep
<1> HIDE DEF s
<1>5. ReadSoFar(s[0], u, 0)
  <2>1. \A i \in 1 .. Len(t) : t[i + 0] = t[i]
    BY <1>1
  <2>2. Starts[0 + 1] = 0 /\ Len(t) = 36 - Starts[0 + 1]
    BY <1>1, StartsGrow
  <2>3. \A j \in 1 .. 0 : FALSE
    OBVIOUS
  <2>4. s[0].ok = TRUE /\ s[0].uu = kBase /\ s[0].rest = t
    BY <1>4
  <2>5. kBase \in [1 .. 16 -> 0 .. 255]
    BY BaseOctets
  <2>6. \A i \in 1 .. Len(t) : t[i] = t[i + Starts[0 + 1]]
    BY <2>1, <2>2
  <2> DEFINE r == s[0]
             v == UuidText(u)
  <2> HIDE DEF r
  <2>7. /\ r.ok = TRUE /\ r.uu \in [1 .. 16 -> 0 .. 255] /\ r.rest \in Rest
        /\ Len(r.rest) = 36 - Starts[0 + 1]
    BY <1>1, <2>2, <2>4, <2>5 DEF r
  <2>8. \A i \in 1 .. Len(r.rest) : r.rest[i] = v[i + Starts[0 + 1]]
    BY <2>4, <2>6 DEF r, t
  <2>9. QED
    BY <2>3, <2>7, <2>8, Zenon DEF ReadSoFar, r
<1>6. ReadSoFar(s[16], u, 16)
  <2> DEFINE T == {k \in 0 .. 16 : ~ ReadSoFar(s[k], u, k)}
  <2>1. ASSUME T # {}
        PROVE  FALSE
    <3>1. T \subseteq Nat
      OBVIOUS
    <3>2. PICK k \in T : \A j \in T : k <= j
      <4> HIDE DEF T
      <4>1. QED
        BY <2>1, <3>1, LeastNatural
    <3>3. k \in 0 .. 16 /\ ~ ReadSoFar(s[k], u, k)
      OBVIOUS
    <3>4. k # 0
      BY <1>5, <3>3
    <3>5. k \in 1 .. 16 /\ k - 1 \in 0 .. 16 /\ ~ (k <= k - 1)
      BY <3>3, <3>4
    <3>6. ReadSoFar(s[k - 1], u, k - 1)
      BY <3>2, <3>5
    <3>7. ReadSoFar(ScanNext(s[k - 1], k, dashed), u, k)
      BY <1>3a, <3>5, <3>6, ReadsOneMore
    <3>8. QED
      BY <1>4, <3>3, <3>5, <3>7
  <2>2. 16 \in 0 .. 16
    OBVIOUS
  <2>3. QED
    BY <2>1, <2>2
<1> DEFINE r == s[16]
<1>7. r.ok = TRUE /\ r.uu = u /\ r.rest = <<>>
  <2> HIDE DEF r
  <2>1. /\ r.ok = TRUE /\ r.uu \in [1 .. 16 -> 0 .. 255] /\ \A j \in 1 .. 16 : r.uu[j] = u[j]
        /\ r.rest \in Rest /\ Len(r.rest) = 36 - Starts[16 + 1]
    BY <1>6 DEF ReadSoFar, r
  <2>2. Starts[16 + 1] = 36
    BY StartsGrow
  <2>3. r.rest \in Seq(0 .. 18) /\ Len(r.rest) = 0
    BY <2>1, <2>2 DEF Rest
  <2>4. r.rest = <<>>
    BY <2>3
  <2>5. r.uu = u
    <3> DEFINE v == r.uu
    <3>1. v \in [1 .. 16 -> 0 .. 255] /\ \A j \in 1 .. 16 : v[j] = u[j]
      BY <2>1
    <3> HIDE DEF v
    <3>2. v = u
      BY <3>1
    <3>3. QED
      BY <3>2 DEF v
  <2>6. QED
    BY <2>1, <2>4, <2>5
<1>8. FromString(t, 0) = [uu |-> r.uu, valid |-> p # <<>> /\ r.ok /\ r.rest = <<>> /\ 0 = 0]
  <2>1. Places(Len(t)) = p
    BY <1>1, <1>2
  <2>2. Scan(t, Places(Len(t)), Len(t) = 36)[Len(Places(Len(t)))] = r
    BY <1>3, <2>1 DEF s, dashed
  <2>3. QED
    BY <2>1, <2>2, Zenon DEF FromString
<1> HIDE DEF r
<1>9. (p # <<>> /\ r.ok /\ r.rest = <<>> /\ 0 = 0) = TRUE
  BY <1>3, <1>7
<1>10. QED
  BY <1>7, <1>8, <1>9 DEF t

\* A short text of four digits is read as the number it shows.
LEMMA ShortIsRead ==
  ASSUME NEW t \in Rest, Len(t) = 4, \A i \in 1 .. 4 : t[i] \in 0 .. 15
  PROVE  FromString(t, 0).uu = From16Bit(((t[1] * 16 + t[2]) * 16 + t[3]) * 16 + t[4])
<1> DEFINE p == <<3, 4>>
           dashed == Len(t) = 36
           s == Scan(t, p, dashed)
           a == t[1] * 16 + t[2]
           b == t[3] * 16 + t[4]
<1>1. Places(4) = p /\ Len(p) = 2 /\ p[1] = 3 /\ p[2] = 4
  <2>1. Len(p) = 2 /\ p[1] = 3 /\ p[2] = 4
    OBVIOUS
  <2> HIDE DEF p
  <2>2. Places(4) = p
    BY DEF Places, p
  <2>3. QED
    BY <2>1, <2>2
<1>1a. ~dashed
  OBVIOUS
<1> HIDE DEF p, dashed
<1>2. /\ s[0] = [uu |-> kBase, ok |-> TRUE, rest |-> t]
      /\ s[1] = ScanNext(s[0], 3, dashed) /\ s[2] = ScanNext(s[1], 4, dashed)
  <2>1. Len(p) \in Nat
    BY <1>1
  <2>2. StepByStep(s, t, p, dashed)
    BY <2>1, ScanSteps
  <2> HIDE DEF s
  <2>3. 1 \in 1 .. Len(p) /\ 2 \in 1 .. Len(p) /\ 1 - 1 = 0 /\ 2 - 1 = 1
    BY <1>1
  <2>4. s[1] = ScanNext(s[1 - 1], p[1], dashed) /\ s[2] = ScanNext(s[2 - 1], p[2], dashed)
    BY <2>2, <2>3, Zenon DEF StepByStep
  <2>5. s[0] = [uu |-> kBase, ok |-> TRUE, rest |-> t]
    BY <2>2, Zenon DEF StepByStep
  <2>6. QED
    BY <1>1, <2>3, <2>4, <2>5
<1> HIDE DEF s
<1>3. t[1] \in 0 .. 15 /\ t[2] \in 0 .. 15 /\ t[3] \in 0 .. 15 /\ t[4] \in 0 .. 15
  OBVIOUS
<1> DEFINE r == s[0]
           q == s[1]
           o == s[2]
           d == 0
<1>4. r.ok = TRUE /\ r.uu = kBase /\ r.rest = t
  BY <1>2
<1>4a. d \in {0, 1} /\ d # 1 /\ 2 + d = 2
  OBVIOUS
<1> HIDE DEF r, q, o, d
<1>5. /\ q.ok = TRUE /\ q.uu = [r.uu EXCEPT ![3] = r.rest[1] * 16 + r.rest[2]]
      /\ q.rest \in Rest /\ Len(q.rest) = Len(r.rest) - (2 + d)
      /\ \A i \in 1 .. Len(r.rest) - (2 + d) : q.rest[i] = r.rest[i + (2 + d)]
  <2>1. r.rest \in Rest /\ Len(r.rest) >= 2 /\ r.rest[1] \in 0 .. 15 /\ r.rest[2] \in 0 .. 15
    <3>1. r.rest = t
      BY <1>4
    <3>2. Len(t) >= 2
      OBVIOUS
    <3>3. QED
      BY <1>3, <3>1, <3>2, Zenon
  <2>2. OctetAhead(r, 3, dashed, d)
    BY <1>1a, <1>4, <1>4a, <2>1 DEF OctetAhead
  <2>3. OctetTaken(r, ScanNext(r, 3, dashed), 3, d)
    BY <2>2, OneOctet
  <2>4. QED
    BY <1>2, <2>3 DEF q, r, OctetTaken
<1>6. /\ q.rest \in Rest /\ Len(q.rest) = 2 /\ q.rest[1] = t[3] /\ q.rest[2] = t[4]
      /\ q.uu = [kBase EXCEPT ![3] = a]
  <2>1. Len(r.rest) - (2 + d) = 2 /\ 1 + (2 + d) = 3 /\ 2 + (2 + d) = 4
    BY <1>4, <1>4a
  <2>2. 1 \in 1 .. 2 /\ 2 \in 1 .. 2
    OBVIOUS
  <2>3. QED
    BY <1>4, <1>5, <2>1, <2>2
<1>7. o.uu = [q.uu EXCEPT ![4] = q.rest[1] * 16 + q.rest[2]]
  <2>1. Len(q.rest) >= 2 /\ q.rest[1] \in 0 .. 15 /\ q.rest[2] \in 0 .. 15
    BY <1>3, <1>6
  <2>2. OctetAhead(q, 4, dashed, d)
    BY <1>1a, <1>4a, <1>5, <1>6, <2>1 DEF OctetAhead
  <2>3. OctetTaken(q, ScanNext(q, 4, dashed), 4, d)
    BY <2>2, OneOctet
  <2>4. QED
    BY <1>2, <2>3 DEF q, o, OctetTaken
<1>8. o.uu = [kBase EXCEPT ![3] = a, ![4] = b]
  BY <1>6, <1>7
<1>9. FromString(t, 0).uu = o.uu
  <2>1. Places(Len(t)) = p
    BY <1>1
  <2>2. Scan(t, Places(Len(t)), Len(t) = 36)[Len(Places(Len(t)))] = o
    BY <1>1, <2>1 DEF s, o, dashed
  <2>3. QED
    BY <2>1, <2>2, Zenon DEF FromString
<1> DEFINE n == ((t[1] * 16 + t[2]) * 16 + t[3]) * 16 + t[4]
<1>10. a \in 0 .. 255 /\ b \in 0 .. 255 /\ n = a * 256 + b
  <2> DEFINE e == t[1]
             f == t[2]
             g == t[3]
             h == t[4]
  <2>1. e \in 0 .. 15 /\ f \in 0 .. 15 /\ g \in 0 .. 15 /\ h \in 0 .. 15
    BY <1>3
  <2> HIDE DEF e, f, g, h
  <2>2. /\ e * 16 + f \in 0 .. 255 /\ g * 16 + h \in 0 .. 255
        /\ ((e * 16 + f) * 16 + g) * 16 + h = (e * 16 + f) * 256 + (g * 16 + h)
    BY <2>1
  <2>3. QED
    BY <2>2 DEF e, f, g, h
<1> HIDE DEF a, b, n
<1>11. n \div 256 = a /\ n % 256 = b
  BY <1>10, TwoOctets
<1>12. From16Bit(n) = o.uu
  BY <1>8, <1>11 DEF From16Bit
<1>13. QED
  BY <1>9, <1>12 DEF n
-----------------------------------------------------------------------------
\* Every input is a UUID with its text, or a short text.
UuidIInv ==
  /\ uuidInput.uu \in [1 .. 16 -> 0 .. 255]
  /\ \/ uuidInput.text = <<>>
     \/ uuidInput.text = UuidText(uuidInput.uu)
     \/ uuidInput.text \in Rest /\ Len(uuidInput.text) = 4

LEMMA UuidsAreOctets == Uuids \subseteq [1 .. 16 -> 0 .. 255]
<1>0. SUFFICES ASSUME NEW u \in Uuids
               PROVE  u \in [1 .. 16 -> 0 .. 255]
  OBVIOUS
<1>1. PICK first \in [1 .. 4 -> Octets], t \in Tails : u = first \o t
  BY DEF Uuids
<1> DEFINE O == 0 .. 255
           s == SubSeq(kBase, 5, 16)
           z == [i \in 1 .. 12 |-> 0]
           h == first
<1>2. s \in Seq(O) /\ Len(s) = 12
  <2>1. 5 \in Int /\ 16 \in Int /\ \A i \in 5 .. 16 : kBase[i] \in O
    <3>1. \A i \in 5 .. 16 : i \in 1 .. 16
      OBVIOUS
    <3>2. QED
      BY <3>1, BaseOctets
  <2>2. s \in Seq(O) /\ Len(s) = IF 5 <= 16 THEN 16 - 5 + 1 ELSE 0
    BY <2>1, SubSeqProperties
  <2>3. QED
    BY <2>2
<1>3. z \in Seq(O) /\ Len(z) = 12
  <2> DEFINE n == 12
  <2>1. n \in Nat /\ z \in [1 .. n -> O]
    OBVIOUS
  <2> HIDE DEF n, z, O
  <2>2. z \in Seq(O) /\ Len(z) = n
    BY <2>1, FunctionIsList
  <2>3. QED
    BY <2>2 DEF n
<1> HIDE DEF s, z
<1>4. [s EXCEPT ![12] = 0] \in Seq(O) /\ Len([s EXCEPT ![12] = 0]) = 12
  <2>1. s \in [1 .. 12 -> O]
    <3> HIDE DEF O
    <3>1. s \in [1 .. Len(s) -> O]
      BY <1>2, LenProperties
    <3>2. QED
      BY <1>2, <3>1
  <2> DEFINE n == 12
             e == [s EXCEPT ![12] = 0]
  <2>2. n \in Nat /\ e \in [1 .. n -> O]
    BY <2>1
  <2> HIDE DEF n, e, O
  <2>3. e \in Seq(O) /\ Len(e) = n
    BY <2>2, FunctionIsList
  <2>4. QED
    BY <2>3 DEF n, e
<1>5. t \in Seq(O) /\ Len(t) = 12
  <2>1. t = s \/ t = z \/ t = [s EXCEPT ![12] = 0]
    BY DEF Tails, s, z
  <2>2. QED
    BY <1>2, <1>3, <1>4, <2>1
<1>6. h \in Seq(O) /\ Len(h) = 4
  <2> DEFINE n == 4
  <2>1. n \in Nat /\ h \in [1 .. n -> O]
    BY UuidAssumption
  <2> HIDE DEF n, h, O
  <2>2. h \in Seq(O) /\ Len(h) = n
    BY <2>1, FunctionIsList
  <2>3. QED
    BY <2>2 DEF n
<1> HIDE DEF h
<1>7. h \o t \in Seq(O) /\ Len(h \o t) = 4 + 12
  <2> HIDE DEF O
  <2>1. h \o t \in Seq(O) /\ Len(h \o t) = Len(h) + Len(t)
    BY <1>5, <1>6, ConcatProperties
  <2>2. QED
    BY <1>5, <1>6, <2>1
<1>8. h \o t \in [1 .. Len(h \o t) -> O]
  <2> HIDE DEF O
  <2>1. QED
    BY <1>7, LenProperties
<1>9. 4 + 12 = 16
  OBVIOUS
<1>10. QED
  BY <1>1, <1>7, <1>8, <1>9 DEF h

LEMMA UuidStart ==
  ASSUME UuidInit
  PROVE  UuidIInv
BY BaseOctets DEF UuidInit, UuidIInv

LEMMA UuidStep ==
  ASSUME UuidIInv, [UuidNext]_uuidInput
  PROVE  UuidIInv'
<1>1. ASSUME NEW u \in Uuids, Convert(u)
      PROVE  UuidIInv'
  <2>1. u \in [1 .. 16 -> 0 .. 255]
    BY UuidsAreOctets
  <2>2. uuidInput'.uu = u /\ uuidInput'.text = UuidText(u)
    BY <1>1 DEF Convert
  <2>3. QED
    BY <2>1, <2>2 DEF UuidIInv, UuidText
<1>2. ASSUME NEW text \in ShortTexts, NEW garbage \in {0, 1}, Read(text, garbage)
      PROVE  UuidIInv'
  <2>1. uuidInput'.uu = kBase /\ uuidInput'.text = text
    BY <1>2 DEF Read
  <2>2. text \in Rest /\ Len(text) = 4
    <3> DEFINE n == 4
               S == 0 .. 18
    <3>1. n \in Nat /\ text \in [1 .. n -> S]
      BY UuidAssumption DEF ShortTexts
    <3> HIDE DEF n, S
    <3>2. text \in Seq(S) /\ Len(text) = n
      BY <3>1, FunctionIsList
    <3>3. QED
      BY <3>2 DEF n, S, Rest
  <2>3. QED
    BY <2>1, <2>2, BaseOctets DEF UuidIInv
<1>3. ASSUME UNCHANGED uuidInput
      PROVE  UuidIInv'
  BY <1>3 DEF UuidIInv, UuidText
<1>4. QED
  BY <1>1, <1>2, <1>3 DEF UuidNext

LEMMA TextsAreReadBack ==
  ASSUME UuidIInv
  PROVE  ShortestIsEnough /\ TextIsReadBack
<1> DEFINE uu == uuidInput.uu
           text == uuidInput.text
<1>1. uu \in [1 .. 16 -> 0 .. 255]
  BY DEF UuidIInv
<1>2. ShortestIsEnough
  BY <1>1, ShortestOf DEF ShortestIsEnough
<1>3. /\ text = <<>> => Len(text) = 0
      /\ text = UuidText(uu) => Len(text) = 36
  <2> HIDE DEF uu
  <2>1. Len(UuidText(uu)) = 36
    BY <1>1, LongLayout DEF LaidOut
  <2>2. QED
    BY <2>1
<1>4. ASSUME Len(text) = 36
      PROVE  FromString(text, 0) = [uu |-> uu, valid |-> TRUE]
  <2>1. text = UuidText(uu)
    BY <1>3, <1>4 DEF UuidIInv
  <2> HIDE DEF uu, text
  <2>2. QED
    BY <1>1, <2>1, LongIsReadBack
<1>5. ASSUME Len(text) = 4, \A i \in 1 .. 4 : IsDigit(text[i])
      PROVE  FromString(text, 0).uu
               = From16Bit(((text[1] * 16 + text[2]) * 16 + text[3]) * 16 + text[4])
  <2>1. text \in Rest
    BY <1>3, <1>5 DEF UuidIInv
  <2>2. \A i \in 1 .. 4 : text[i] \in 0 .. 15
    BY <1>5 DEF IsDigit
  <2> HIDE DEF text
  <2>3. QED
    BY <1>5, <2>1, <2>2, ShortIsRead
<1>6. QED
  BY <1>2, <1>4, <1>5 DEF TextIsReadBack

-----------------------------------------------------------------------------
(* The text of an address.                                                   *)

\* The loop of FromString has a result for every text.
CharByChar(r, text) ==
  /\ r[0] = [byte_tokens |-> <<>>, temp |-> <<>>]
  /\ \A k \in 1 .. Len(text) : r[k] = TakeCharacter(r[k - 1], text[k])

LEMMA TokenSteps ==
  ASSUME NEW text, Len(text) \in Nat
  PROVE  CharByChar(TokenLoop(text), text)
<1> DEFINE base == [byte_tokens |-> <<>>, temp |-> <<>>]
           n == Len(text)
           Good(f, m) == f = [k \in 0 .. m |-> IF k = 0 THEN base
                                               ELSE TakeCharacter(f[k - 1], text[k])]
           T == {m \in 0 .. n : ~ \E f : Good(f, m)}
           loop[k \in 0 .. n] ==
             IF k = 0 THEN base ELSE TakeCharacter(loop[k - 1], text[k])
<1>1. TokenLoop(text) = loop
  BY DEF TokenLoop
<1>2. T = {}
  <2>1. ASSUME T # {}
        PROVE  FALSE
    <3>1. T \subseteq Nat
      OBVIOUS
    <3>2. PICK m \in T : \A j \in T : m <= j
      <4> HIDE DEF T
      <4>1. QED
        BY <2>1, <3>1, LeastNatural
    <3>3. m \in 0 .. n /\ ~ \E f : Good(f, m)
      OBVIOUS
    <3> HIDE DEF base
    <3>4. m # 0
      <4> DEFINE f == [k \in 0 .. 0 |-> base]
      <4>1. Good(f, 0)
        OBVIOUS
      <4> HIDE DEF f, Good
      <4>2. QED
        BY <3>3, <4>1
    <3>5. m - 1 \in 0 .. n /\ ~ (m <= m - 1)
      BY <3>3, <3>4
    <3>6. PICK f : Good(f, m - 1)
      <4>1. m - 1 \notin T
        BY <3>2, <3>5
      <4> HIDE DEF Good
      <4>2. QED
        BY <3>5, <4>1
    <3>7. \A k \in 0 .. m - 1 :
             f[k] = IF k = 0 THEN base ELSE TakeCharacter(f[k - 1], text[k])
      BY <3>6
    <3> DEFINE g == [k \in 0 .. m |-> IF k = m THEN TakeCharacter(f[m - 1], text[m])
                                      ELSE f[k]]
    <3>8. \A k \in 0 .. m : k = m \/ (k \in 0 .. m - 1 /\ k # m)
      BY <3>3
    <3>9. \A k \in 0 .. m : k # 0 => k - 1 \in 0 .. m /\ k - 1 # m /\ g[k - 1] = f[k - 1]
      BY <3>3
    <3>10. \A k \in 0 .. m : g[k] = IF k = 0 THEN base ELSE TakeCharacter(g[k - 1], text[k])
      <4> SUFFICES ASSUME NEW k \in 0 .. m
                   PROVE  g[k] = IF k = 0 THEN base ELSE TakeCharacter(g[k - 1], text[k])
        OBVIOUS
      <4>1. k = m => g[k] = TakeCharacter(f[m - 1], text[m])
        OBVIOUS
      <4>2. k # m => g[k] = f[k] /\ k \in 0 .. m - 1
        BY <3>8
      <4> HIDE DEF g
      <4>3. QED
        BY <3>4, <3>7, <3>9, <4>1, <4>2
    <3>11. g = [k \in 0 .. m |-> g[k]]
      OBVIOUS
    <3> HIDE DEF g
    <3>12. g = [k \in 0 .. m |-> IF k = 0 THEN base ELSE TakeCharacter(g[k - 1], text[k])]
      BY <3>10, <3>11, Zenon
    <3>13. Good(g, m)
      BY <3>12
    <3> HIDE DEF Good
    <3>14. QED
      BY <3>3, <3>13
  <2>2. QED
    BY <2>1
<1>3. \E f : Good(f, n)
  <2>1. n \in 0 .. n
    OBVIOUS
  <2> HIDE DEF n, Good
  <2>2. QED
    BY <1>2, <2>1
<1>4. loop = [k \in 0 .. n |-> IF k = 0 THEN base
                                  ELSE TakeCharacter(loop[k - 1], text[k])]
  <2> HIDE DEF n, base
  <2>1. QED
    BY <1>3, Zenon
<1> HIDE DEF loop, base
<1>5. \A k \in 0 .. n : loop[k] = IF k = 0 THEN base
                                     ELSE TakeCharacter(loop[k - 1], text[k])
  BY <1>4, Zenon
<1>6. 0 \in 0 .. n /\ \A k \in 1 .. n : k \in 0 .. n /\ k # 0
  OBVIOUS
<1>7. loop[0] = base
  BY <1>5, <1>6
<1>8. \A k \in 1 .. n : loop[k] = TakeCharacter(loop[k - 1], text[k])
  BY <1>5, <1>6
<1>9. QED
  BY <1>1, <1>7, <1>8, Zenon DEF base, CharByChar

Marks == 0 .. 19
AllTwo(tokens) == \A x \in 1 .. Len(tokens) : Len(tokens[x]) = 2

\* The tokens lie in the text three places apart, a colon behind each.
Aligned(t, tokens, temp) ==
  /\ \A x \in 1 .. Len(tokens) :
       /\ tokens[x][1] = t[3 * x - 2] /\ tokens[x][1] # Colon
       /\ tokens[x][2] = t[3 * x - 1] /\ tokens[x][2] # Colon
       /\ t[3 * x] = Colon
  /\ \A y \in 1 .. Len(temp) : temp[y] = t[3 * Len(tokens) + y] /\ temp[y] # Colon

\* After n characters: tokens of two take three characters each, or more where
\* colons follow each other.
ReadTo(t, r, n) ==
  /\ r.byte_tokens \in Seq(Seq(Marks)) /\ r.temp \in Seq(Marks)
  /\ AllTwo(r.byte_tokens) =>
       /\ 3 * Len(r.byte_tokens) + Len(r.temp) <= n
       /\ 3 * Len(r.byte_tokens) + Len(r.temp) = n => Aligned(t, r.byte_tokens, r.temp)

\* In a proper text no colon is lost.
ReadExactly(t, r, n) ==
  AllTwo(r.byte_tokens) /\ 3 * Len(r.byte_tokens) + Len(r.temp) = n /\ Len(r.temp) <= 2

LEMMA ReadsOneCharacter ==
  ASSUME NEW t \in Seq(Marks), NEW n \in 1 .. Len(t), NEW r, ReadTo(t, r, n - 1)
  PROVE  /\ ReadTo(t, TakeCharacter(r, t[n]), n)
         /\ ReadExactly(t, r, n - 1) /\ (t[n] = Colon <=> n % 3 = 0) =>
              ReadExactly(t, TakeCharacter(r, t[n]), n)
<1> DEFINE a == r.byte_tokens
           b == r.temp
           ch == t[n]
           q == TakeCharacter(r, ch)
           k == Len(a)
           j == Len(b)
<1>1. /\ a \in Seq(Seq(Marks)) /\ b \in Seq(Marks)
      /\ AllTwo(a) => 3 * k + j <= n - 1 /\ (3 * k + j = n - 1 => Aligned(t, a, b))
  BY DEF ReadTo
<1>2. ch \in Marks /\ n \in Nat
  <2>1. Len(t) \in Nat /\ t \in [1 .. Len(t) -> Marks]
    BY LenProperties
  <2>2. QED
    BY <2>1
<1>3. k \in Nat /\ j \in Nat
  BY <1>1, LenProperties
<1>4. q = CASE ch # Colon -> [r EXCEPT !.temp = Append(b, ch)]
            [] ch = Colon /\ b = <<>> -> r
            [] OTHER -> [byte_tokens |-> Append(a, b), temp |-> <<>>]
  BY DEF TakeCharacter
<1> HIDE DEF q
<1>5. CASE ch # Colon
  <2> DEFINE c == Append(b, ch)
  <2>1. q = [r EXCEPT !.temp = c]
    BY <1>4, <1>5
  <2>2. c \in Seq(Marks) /\ Len(c) = j + 1 /\ (\A y \in 1 .. j : c[y] = b[y]) /\ c[j + 1] = ch
    <3> HIDE DEF ch, b
    <3>1. QED
      BY <1>1, <1>2, AppendProperties DEF j
  <2> HIDE DEF c
  <2>3. q.byte_tokens = a /\ q.temp = c
    BY <2>1
  <2>4. ASSUME AllTwo(a)
        PROVE  /\ 3 * k + (j + 1) <= n
               /\ 3 * k + (j + 1) = n => Aligned(t, a, c)
    <3>1. 3 * k + j <= n - 1 /\ (3 * k + j = n - 1 => Aligned(t, a, b))
      BY <1>1, <2>4
    <3> HIDE DEF a, b, ch, k, j
    <3>2. ASSUME 3 * k + (j + 1) = n
          PROVE  Aligned(t, a, c)
      <4>1. 3 * k + j = n - 1
        BY <1>2, <1>3, <3>2
      <4>2. Aligned(t, a, b)
        BY <3>1, <4>1
      <4>3. /\ \A x \in 1 .. Len(a) : /\ a[x][1] = t[3 * x - 2] /\ a[x][1] # Colon
                                      /\ a[x][2] = t[3 * x - 1] /\ a[x][2] # Colon
                                      /\ t[3 * x] = Colon
            /\ \A y \in 1 .. Len(b) : b[y] = t[3 * Len(a) + y] /\ b[y] # Colon
        BY <4>2, Zenon DEF Aligned
      <4>4. \A y \in 1 .. Len(c) : c[y] = t[3 * Len(a) + y] /\ c[y] # Colon
        <5>1. SUFFICES ASSUME NEW y \in 1 .. Len(c)
                       PROVE  c[y] = t[3 * Len(a) + y] /\ c[y] # Colon
          OBVIOUS
        <5>2. CASE y \in 1 .. j
          BY <2>2, <4>3, <5>2 DEF j
        <5>3. CASE y = j + 1
          <6>1. 3 * Len(a) + y = n
            BY <3>2, <5>3 DEF k
          <6>2. QED
            BY <1>5, <2>2, <5>3, <6>1 DEF ch
        <5>4. y \in 1 .. j \/ y = j + 1
          BY <1>3, <2>2
        <5>5. QED
          BY <5>2, <5>3, <5>4
      <4>5. QED
        BY <4>3, <4>4, Zenon DEF Aligned
    <3>3. 3 * k + (j + 1) <= n
      BY <1>2, <1>3, <3>1
    <3>4. QED
      BY <3>2, <3>3
  <2>5. ReadTo(t, q, n)
    BY <1>1, <2>2, <2>3, <2>4 DEF ReadTo
  <2>6. ASSUME ReadExactly(t, r, n - 1), ch = Colon <=> n % 3 = 0
        PROVE  ReadExactly(t, q, n)
    <3>1. AllTwo(a) /\ 3 * k + j = n - 1 /\ j <= 2
      BY <2>6 DEF ReadExactly
    <3>2. n % 3 # 0
      BY <1>5, <2>6
    <3> HIDE DEF a, b, ch, k, j
    <3>3. j # 2
      BY <1>2, <1>3, <3>1, <3>2
    <3>4. 3 * k + (j + 1) = n /\ j + 1 <= 2
      BY <1>2, <1>3, <3>1, <3>3
    <3>5. QED
      BY <2>2, <2>3, <3>1, <3>4 DEF ReadExactly, k
  <2>7. QED
    BY <2>5, <2>6 DEF q
<1>6. CASE ch = Colon /\ b = <<>>
  <2>1. q = r
    BY <1>4, <1>6
  <2>2. j = 0
    BY <1>6
  <2>3. AllTwo(a) => 3 * k + j <= n /\ 3 * k + j # n
    <3> HIDE DEF a, b, k, j, ch
    <3>1. ASSUME AllTwo(a)
          PROVE  3 * k + j <= n /\ 3 * k + j # n
      <4>1. 3 * k + j <= n - 1
        BY <1>1, <3>1
      <4>2. QED
        BY <1>2, <1>3, <4>1
    <3>2. QED
      BY <3>1
  <2>4. ReadTo(t, q, n)
    BY <1>1, <2>1, <2>3 DEF ReadTo
  <2>5. ASSUME ReadExactly(t, r, n - 1), ch = Colon <=> n % 3 = 0
        PROVE  FALSE
    <3>1. 3 * k + j = n - 1
      BY <2>5 DEF ReadExactly
    <3>2. n % 3 = 0
      BY <1>6, <2>5
    <3> HIDE DEF a, b, ch, k, j
    <3>3. QED
      BY <1>2, <1>3, <2>2, <3>1, <3>2
  <2>6. QED
    BY <2>4, <2>5 DEF q
<1>7. CASE ch = Colon /\ b # <<>>
  <2> DEFINE c == Append(a, b)
  <2>1. q = [byte_tokens |-> c, temp |-> <<>>]
    BY <1>4, <1>7
  <2>2. c \in Seq(Seq(Marks)) /\ Len(c) = k + 1 /\ (\A x \in 1 .. k : c[x] = a[x]) /\ c[k + 1] = b
    <3> DEFINE S == Seq(Marks)
    <3>1. a \in Seq(S) /\ b \in S
      BY <1>1
    <3> HIDE DEF a, b, S
    <3>2. c \in Seq(S) /\ Len(c) = k + 1 /\ (\A x \in 1 .. k : c[x] = a[x]) /\ c[k + 1] = b
      BY <3>1, AppendProperties DEF k
    <3>3. QED
      BY <3>2 DEF S
  <2> HIDE DEF c
  <2>3. q.byte_tokens = c /\ q.temp = <<>> /\ <<>> \in Seq(Marks) /\ Len(<<>>) = 0
    BY <2>1
  <2>4. AllTwo(c) <=> AllTwo(a) /\ j = 2
    <3> HIDE DEF a, b, k, j
    <3>1. \A x \in 1 .. k + 1 : x \in 1 .. k \/ x = k + 1
      BY <1>3
    <3>2. k + 1 \in 1 .. k + 1 /\ \A x \in 1 .. k : x \in 1 .. k + 1
      BY <1>3
    <3>3. QED
      BY <2>2, <3>1, <3>2 DEF AllTwo, k, j
  <2>5. ASSUME AllTwo(c)
        PROVE  /\ 3 * Len(c) + Len(<<>>) <= n
               /\ 3 * Len(c) + Len(<<>>) = n => Aligned(t, c, <<>>)
    <3>1. 3 * k + j <= n - 1 /\ (3 * k + j = n - 1 => Aligned(t, a, b)) /\ j = 2
      BY <1>1, <2>4, <2>5
    <3> HIDE DEF a, b, ch, k, j
    <3>2. 3 * Len(c) + Len(<<>>) = 3 * k + 3
      BY <1>3, <2>2, <2>3
    <3>3. ASSUME 3 * k + 3 = n
          PROVE  Aligned(t, c, <<>>)
      <4>1. 3 * k + j = n - 1
        BY <1>2, <1>3, <3>1, <3>3
      <4>2. Aligned(t, a, b)
        BY <3>1, <4>1
      <4>3. /\ \A x \in 1 .. Len(a) : /\ a[x][1] = t[3 * x - 2] /\ a[x][1] # Colon
                                      /\ a[x][2] = t[3 * x - 1] /\ a[x][2] # Colon
                                      /\ t[3 * x] = Colon
            /\ \A y \in 1 .. Len(b) : b[y] = t[3 * Len(a) + y] /\ b[y] # Colon
        BY <4>2, Zenon DEF Aligned
      <4>4. /\ b[1] = t[3 * k + 1] /\ b[1] # Colon
            /\ b[2] = t[3 * k + 2] /\ b[2] # Colon
        BY <3>1, <4>3 DEF j, k
      <4>5. /\ 3 * (k + 1) - 2 = 3 * k + 1 /\ 3 * (k + 1) - 1 = 3 * k + 2
            /\ 3 * (k + 1) = n
        BY <1>3, <3>3
      <4>6. \A x \in 1 .. Len(c) : /\ c[x][1] = t[3 * x - 2] /\ c[x][1] # Colon
                                   /\ c[x][2] = t[3 * x - 1] /\ c[x][2] # Colon
                                   /\ t[3 * x] = Colon
        <5>1. SUFFICES ASSUME NEW x \in 1 .. Len(c)
                       PROVE  /\ c[x][1] = t[3 * x - 2] /\ c[x][1] # Colon
                              /\ c[x][2] = t[3 * x - 1] /\ c[x][2] # Colon
                              /\ t[3 * x] = Colon
          OBVIOUS
        <5>2. CASE x \in 1 .. k
          BY <2>2, <4>3, <5>2 DEF k
        <5>3. CASE x = k + 1
          <6>1. t[3 * x] = Colon
            BY <1>7, <4>5, <5>3 DEF ch
          <6>2. 3 * x - 2 = 3 * k + 1 /\ 3 * x - 1 = 3 * k + 2
            BY <4>5, <5>3
          <6>3. c[x] = b
            BY <2>2, <5>3
          <6>4. QED
            BY <4>4, <6>1, <6>2, <6>3
        <5>4. x \in 1 .. k \/ x = k + 1
          BY <1>3, <2>2
        <5>5. QED
          BY <5>2, <5>3, <5>4
      <4>7. \A y \in 1 .. Len(<<>>) : FALSE
        BY <2>3
      <4>8. QED
        BY <4>6, <4>7, Zenon DEF Aligned
    <3>4. 3 * k + 3 <= n
      BY <1>2, <1>3, <3>1
    <3>5. QED
      BY <3>2, <3>3, <3>4
  <2>6. ReadTo(t, q, n)
    BY <2>2, <2>3, <2>5 DEF ReadTo
  <2>7. ASSUME ReadExactly(t, r, n - 1), ch = Colon <=> n % 3 = 0
        PROVE  ReadExactly(t, q, n)
    <3>1. AllTwo(a) /\ 3 * k + j = n - 1 /\ j <= 2
      BY <2>7 DEF ReadExactly
    <3>2. n % 3 = 0
      BY <1>7, <2>7
    <3> HIDE DEF a, b, ch, k, j
    <3>3. j = 2
      BY <1>2, <1>3, <3>1, <3>2
    <3>4. 3 * Len(c) + Len(<<>>) = n /\ Len(<<>>) <= 2
      BY <1>2, <1>3, <2>2, <2>3, <3>1, <3>3
    <3>5. QED
      BY <2>3, <2>4, <3>1, <3>3, <3>4 DEF ReadExactly
  <2>8. QED
    BY <2>6, <2>7 DEF q
<1>8. QED
  BY <1>5, <1>6, <1>7

LEMMA Thirds ==
  /\ \A i \in 1 .. 17 :
       LET x == (i + 2) \div 3
       IN  /\ x \in 1 .. 6 /\ i % 3 \in 0 .. 2
           /\ i % 3 = 1 => i = 3 * x - 2
           /\ i % 3 = 2 => i = 3 * x - 1
           /\ i % 3 = 0 => i = 3 * x /\ x \in 1 .. 5
  /\ \A x \in 1 .. 6 : /\ 3 * x - 2 \in 1 .. 17 /\ (3 * x - 2) % 3 # 0
                       /\ 3 * x - 1 \in 1 .. 17 /\ (3 * x - 1) % 3 # 0
OBVIOUS

\* The loop, read to the end: six tokens of two come only from a text with its
\* colons in place, and from every such text.
ColonsPlaced(t) == \A i \in 1 .. 17 : t[i] = Colon <=> i % 3 = 0

TokensFit(s, t) ==
  \A x \in 1 .. 6 :
    /\ s[x][1] = t[3 * x - 2] /\ s[x][1] # Colon
    /\ s[x][2] = t[3 * x - 1] /\ s[x][2] # Colon
    /\ x <= 5 => t[3 * x] = Colon

LEMMA TokensLie ==
  ASSUME NEW t \in Seq(Marks), Len(t) = 17
  PROVE  /\ Tokens(t) \in Seq(Seq(Marks))
         /\ Len(Tokens(t)) = 6 /\ AllTwo(Tokens(t)) => TokensFit(Tokens(t), t)
         /\ ColonsPlaced(t) => Len(Tokens(t)) = 6 /\ AllTwo(Tokens(t))
<1> DEFINE l == TokenLoop(t)
           r == l[17]
           a == r.byte_tokens
           b == r.temp
           s == Append(a, b)
           Placed == ColonsPlaced(t)
           Good(n) == ReadTo(t, l[n], n) /\ (Placed => ReadExactly(t, l[n], n))
<1>1. /\ l[0] = [byte_tokens |-> <<>>, temp |-> <<>>]
      /\ \A n \in 1 .. 17 : l[n] = TakeCharacter(l[n - 1], t[n])
  <2>1. Len(t) \in Nat
    OBVIOUS
  <2>2. CharByChar(l, t)
    BY <2>1, TokenSteps
  <2> HIDE DEF l
  <2>3. QED
    BY <2>2, Zenon DEF CharByChar
<1> HIDE DEF l
<1>2. Good(0)
  <2>1. l[0].byte_tokens = <<>> /\ l[0].temp = <<>> /\ Len(<<>>) = 0
    BY <1>1
  <2>2. AllTwo(<<>>) /\ Aligned(t, <<>>, <<>>)
    BY DEF AllTwo, Aligned
  <2>3. <<>> \in Seq(Seq(Marks)) /\ <<>> \in Seq(Marks) /\ 3 * 0 + 0 = 0
    OBVIOUS
  <2>4. ReadTo(t, l[0], 0)
    BY <2>1, <2>2, <2>3 DEF ReadTo
  <2>5. ReadExactly(t, l[0], 0)
    BY <2>1, <2>2, <2>3 DEF ReadExactly
  <2>6. QED
    BY <2>4, <2>5
<1>3. ASSUME NEW n \in 1 .. 17, Good(n - 1)
      PROVE  Good(n)
  <2>0. Placed => (t[n] = Colon <=> n % 3 = 0)
    BY DEF ColonsPlaced
  <2>1. n \in 1 .. Len(t) /\ ReadTo(t, l[n - 1], n - 1)
    BY <1>3
  <2>2. /\ ReadTo(t, TakeCharacter(l[n - 1], t[n]), n)
        /\ ReadExactly(t, l[n - 1], n - 1) /\ (t[n] = Colon <=> n % 3 = 0) =>
             ReadExactly(t, TakeCharacter(l[n - 1], t[n]), n)
    BY <2>1, ReadsOneCharacter
  <2>3. l[n] = TakeCharacter(l[n - 1], t[n])
    BY <1>1
  <2>4. QED
    BY <1>3, <2>0, <2>2, <2>3
<1>4. Good(17)
  <2> DEFINE T == {n \in 0 .. 17 : ~ Good(n)}
  <2> HIDE DEF Good
  <2>1. ASSUME T # {}
        PROVE  FALSE
    <3>1. T \subseteq Nat
      OBVIOUS
    <3>2. PICK n \in T : \A i \in T : n <= i
      <4> HIDE DEF T
      <4>1. QED
        BY <2>1, <3>1, LeastNatural
    <3>3. n \in 0 .. 17 /\ ~ Good(n)
      OBVIOUS
    <3>4. n \in 1 .. 17 /\ n - 1 \in 0 .. 17 /\ ~ (n <= n - 1)
      BY <1>2, <3>3
    <3>5. Good(n - 1)
      BY <3>2, <3>4
    <3>6. QED
      BY <1>3, <3>3, <3>4, <3>5
  <2>2. 17 \in 0 .. 17
    OBVIOUS
  <2>3. QED
    BY <2>1, <2>2
<1>5. Tokens(t) = s
  BY DEF Tokens, l
<1> DEFINE k == Len(a)
           j == Len(b)
<1>6. /\ a \in Seq(Seq(Marks)) /\ b \in Seq(Marks)
      /\ AllTwo(a) => 3 * k + j <= 17 /\ (3 * k + j = 17 => Aligned(t, a, b))
      /\ Placed => AllTwo(a) /\ 3 * k + j = 17 /\ j <= 2
  BY <1>4 DEF ReadTo, ReadExactly
<1>7. k \in Nat /\ j \in Nat
  BY <1>6, LenProperties
<1> HIDE DEF r, a, b
<1>8. s \in Seq(Seq(Marks)) /\ Len(s) = k + 1 /\ (\A x \in 1 .. k : s[x] = a[x]) /\ s[k + 1] = b
  <2> DEFINE S == Seq(Marks)
  <2>1. a \in Seq(S) /\ b \in S
    BY <1>6
  <2> HIDE DEF S
  <2>2. s \in Seq(S) /\ Len(s) = k + 1 /\ (\A x \in 1 .. k : s[x] = a[x]) /\ s[k + 1] = b
    BY <2>1, AppendProperties
  <2>3. QED
    BY <2>2 DEF S
<1> HIDE DEF s
<1>9. AllTwo(s) <=> AllTwo(a) /\ j = 2
  <2> HIDE DEF k, j
  <2>1. \A x \in 1 .. k + 1 : x \in 1 .. k \/ x = k + 1
    BY <1>7
  <2>2. k + 1 \in 1 .. k + 1 /\ \A x \in 1 .. k : x \in 1 .. k + 1
    BY <1>7
  <2>3. QED
    BY <1>8, <2>1, <2>2 DEF AllTwo, k, j
<1>10. ASSUME Len(s) = 6, AllTwo(s)
       PROVE  TokensFit(s, t)
  <2> HIDE DEF k, j
  <2>0. Len(s) = k + 1 /\ k \in Nat /\ AllTwo(a) /\ j = 2
    BY <1>7, <1>8, <1>9, <1>10
  <2>1. k = 5 /\ j = 2 /\ 3 * k + j = 17
    <3>1. k + 1 = 6
      BY <1>10, <2>0
    <3>2. k = 5
      BY <2>0, <3>1
    <3>3. QED
      BY <2>0, <3>2
  <2>2. Aligned(t, a, b)
    BY <1>6, <1>9, <1>10, <2>1
  <2>3. /\ \A x \in 1 .. Len(a) : /\ a[x][1] = t[3 * x - 2] /\ a[x][1] # Colon
                                  /\ a[x][2] = t[3 * x - 1] /\ a[x][2] # Colon
                                  /\ t[3 * x] = Colon
        /\ \A y \in 1 .. Len(b) : b[y] = t[3 * Len(a) + y] /\ b[y] # Colon
    BY <2>2, Zenon DEF Aligned
  <2>4. b[1] = t[3 * 5 + 1] /\ b[1] # Colon /\ b[2] = t[3 * 5 + 2] /\ b[2] # Colon
    BY <2>1, <2>3 DEF k, j
  <2>5. SUFFICES ASSUME NEW x \in 1 .. 6
                 PROVE  /\ s[x][1] = t[3 * x - 2] /\ s[x][1] # Colon
                        /\ s[x][2] = t[3 * x - 1] /\ s[x][2] # Colon
                        /\ x <= 5 => t[3 * x] = Colon
    BY Zenon DEF TokensFit
  <2>6. CASE x \in 1 .. 5
    BY <1>8, <2>1, <2>3, <2>6 DEF k
  <2>7. CASE x = 6
    <3>1. s[x] = b
      BY <1>8, <2>1, <2>7
    <3>2. 3 * x - 2 = 3 * 5 + 1 /\ 3 * x - 1 = 3 * 5 + 2 /\ ~ (x <= 5)
      BY <2>7
    <3>3. QED
      BY <2>4, <3>1, <3>2
  <2>8. x \in 1 .. 5 \/ x = 6
    OBVIOUS
  <2>9. QED
    BY <2>6, <2>7, <2>8
<1>11. ASSUME Placed
       PROVE  Len(s) = 6 /\ AllTwo(s)
  <2>1. AllTwo(a) /\ 3 * k + j = 17 /\ j <= 2
    BY <1>6, <1>11
  <2> HIDE DEF k, j, Placed
  <2>2. k = 5 /\ j = 2
    BY <1>7, <2>1
  <2>3. QED
    BY <1>8, <1>9, <2>1, <2>2
<1>12. QED
  BY <1>5, <1>8, <1>10, <1>11

AddressIInv == addressInput \in Seq(Marks)

\* A sequence of two digits, or of what strtol takes for them
LEMMA TwoOfToken ==
  ASSUME NEW s \in Seq(Marks), Len(s) = 2
  PROVE  /\ Strtol(s) # -1 => s[2] \in Digits
         /\ s[1] \in Digits /\ s[2] \in Digits => Strtol(s) = s[1] * 16 + s[2]
<1> DEFINE A == s[1] \in 0 .. 15 /\ s[2] \in 0 .. 15
           B == s[1] = Space /\ s[2] \in 0 .. 15
           C == s[1] = Sign /\ s[2] \in 0 .. 15
           two == s[1] * 16 + s[2]
           less == (256 - s[2]) % 256
<1>1. Strtol(s) = CASE A -> two [] B -> s[2] [] C -> less [] OTHER -> -1
  BY Zenon DEF Strtol
<1>2. A => ~B /\ ~C
  BY DEF Space, Sign
<1>3. (A \/ B \/ C) => s[2] \in Digits
  BY DEF Digits
<1>4. s[1] \in Digits /\ s[2] \in Digits => A
  BY DEF Digits
<1> HIDE DEF A, B, C, two, less
<1>5. Strtol(s) # -1 => A \/ B \/ C
  BY <1>1
<1>6. A => Strtol(s) = two
  BY <1>1, <1>2
<1>7. QED
  BY <1>3, <1>4, <1>5, <1>6 DEF two

LEMMA AddressesRead ==
  ASSUME AddressIInv
  PROVE  AddressIsReadBack
<1> DEFINE t == addressInput
           s == Tokens(t)
           a == AddressFromString(t)
           Bad == \/ Len(t) # 17 \/ Len(s) # 6
                  \/ \E i \in 1 .. 6 : Len(s[i]) # 2 \/ Strtol(s[i]) = -1
           f == [i \in 1 .. 6 |-> Strtol(s[i])]
<1>1. t \in Seq(Marks)
  BY DEF AddressIInv
<1>2. a = IF Bad THEN <<>> ELSE f
  BY Zenon DEF AddressFromString
<1>3. f # <<>>
  <2>1. 1 \in DOMAIN f /\ 1 \notin DOMAIN <<>>
    OBVIOUS
  <2> HIDE DEF f
  <2>2. QED
    BY <2>1
<1>4. Len(t) = 17 => /\ s \in Seq(Seq(Marks))
                     /\ Len(s) = 6 /\ AllTwo(s) => TokensFit(s, t)
                     /\ ColonsPlaced(t) => Len(s) = 6 /\ AllTwo(s)
  <2> HIDE DEF t
  <2>1. QED
    BY <1>1, TokensLie
<1> HIDE DEF s, a, t
<1>5. Len(s) = 6 => (AllTwo(s) <=> \A i \in 1 .. 6 : Len(s[i]) = 2)
  BY DEF AllTwo
<1>6. ASSUME Len(t) = 17, Len(s) = 6
      PROVE  \A i \in 1 .. 6 : s[i] \in Seq(Marks)
  <2> DEFINE S == Seq(Marks)
  <2>1. s \in Seq(S)
    BY <1>4, <1>6
  <2> HIDE DEF S
  <2>2. s \in [1 .. Len(s) -> S]
    BY <2>1, LenProperties
  <2>3. QED
    BY <1>6, <2>2 DEF S
<1>7. ASSUME a # <<>>
      PROVE  \A i \in 1 .. 17 : /\ (t[i] = Colon <=> i % 3 = 0)
                                /\ i % 3 = 2 => t[i] \in Digits
  <2>1. Len(t) = 17 /\ Len(s) = 6 /\ \A i \in 1 .. 6 : Len(s[i]) = 2 /\ Strtol(s[i]) # -1
    BY <1>2, <1>7
  <2>2. TokensFit(s, t)
    BY <1>4, <1>5, <2>1
  <2>3. \A x \in 1 .. 6 : s[x][2] \in Digits
    BY <1>6, <2>1, TwoOfToken
  <2>4. SUFFICES ASSUME NEW i \in 1 .. 17
                 PROVE  (t[i] = Colon <=> i % 3 = 0) /\ (i % 3 = 2 => t[i] \in Digits)
    OBVIOUS
  <2> DEFINE x == (i + 2) \div 3
             m == i % 3
  <2>5. /\ x \in 1 .. 6 /\ m \in 0 .. 2
        /\ m = 1 => i = 3 * x - 2
        /\ m = 2 => i = 3 * x - 1
        /\ m = 0 => i = 3 * x /\ x \in 1 .. 5
    BY Thirds
  <2> HIDE DEF x, m
  <2>6. /\ s[x][1] = t[3 * x - 2] /\ s[x][1] # Colon
        /\ s[x][2] = t[3 * x - 1] /\ s[x][2] # Colon
        /\ x <= 5 => t[3 * x] = Colon
    BY <2>2, <2>5, Zenon DEF TokensFit
  <2>7. CASE m = 0
    BY <2>5, <2>6, <2>7 DEF m
  <2>8. CASE m = 1
    BY <2>5, <2>6, <2>8 DEF m
  <2>9. CASE m = 2
    BY <2>3, <2>5, <2>6, <2>9 DEF m
  <2>10. QED
    BY <2>5, <2>7, <2>8, <2>9
<1>8. ASSUME ProperText(t)
      PROVE  a # <<>> /\ AddressText(a) = t
  <2>1. Len(t) = 17 /\ \A i \in 1 .. 17 : IF i % 3 = 0 THEN t[i] = Colon ELSE t[i] \in Digits
    BY <1>8, Zenon DEF ProperText
  <2>2. ColonsPlaced(t)
    <3>1. Colon \notin Digits
      BY DEF Colon, Digits
    <3>2. QED
      BY <2>1, <3>1 DEF ColonsPlaced
  <2>3. Len(s) = 6 /\ AllTwo(s) /\ TokensFit(s, t)
    BY <1>4, <2>1, <2>2
  <2>4. \A x \in 1 .. 6 : /\ s[x] \in Seq(Marks) /\ Len(s[x]) = 2
                          /\ s[x][1] = t[3 * x - 2] /\ s[x][2] = t[3 * x - 1]
                          /\ x <= 5 => t[3 * x] = Colon
    BY <1>5, <1>6, <2>1, <2>3 DEF TokensFit
  <2>5. \A x \in 1 .. 6 : t[3 * x - 2] \in Digits /\ t[3 * x - 1] \in Digits
    BY <2>1, Thirds
  <2>6. \A x \in 1 .. 6 : Strtol(s[x]) = t[3 * x - 2] * 16 + t[3 * x - 1]
    BY <2>4, <2>5, TwoOfToken
  <2>7. \A x \in 1 .. 6 : Strtol(s[x]) # -1
    <3>1. SUFFICES ASSUME NEW x \in 1 .. 6
                   PROVE  Strtol(s[x]) # -1
      OBVIOUS
    <3> DEFINE c == t[3 * x - 2]
               d == t[3 * x - 1]
    <3>2. c \in 0 .. 15 /\ d \in 0 .. 15 /\ Strtol(s[x]) = c * 16 + d
      BY <2>5, <2>6 DEF Digits
    <3> HIDE DEF c, d
    <3>3. QED
      BY <3>2
  <2>8. a = f
    BY <1>2, <2>1, <2>3, <2>4, <2>7
  <2>9. \A i \in 1 .. 17 : AddressText(a)[i] = t[i]
    <3>1. SUFFICES ASSUME NEW i \in 1 .. 17
                   PROVE  AddressText(a)[i] = t[i]
      OBVIOUS
    <3> DEFINE x == (i + 2) \div 3
               m == i % 3
               o == a[x]
    <3>2. /\ x \in 1 .. 6 /\ m \in 0 .. 2
          /\ m = 1 => i = 3 * x - 2
          /\ m = 2 => i = 3 * x - 1
          /\ m = 0 => i = 3 * x /\ x \in 1 .. 5
      BY Thirds
    <3>3. AddressText(a)[i] = CASE m = 1 -> o \div 16 [] m = 2 -> o % 16 [] OTHER -> Colon
      BY Zenon DEF AddressText
    <3> DEFINE c == t[3 * x - 2]
               d == t[3 * x - 1]
    <3> HIDE DEF x, m
    <3>4. o = c * 16 + d /\ c \in 0 .. 15 /\ d \in 0 .. 15
      BY <2>5, <2>6, <2>8, <3>2 DEF Digits
    <3>5. m = 0 => t[i] = Colon
      BY <2>4, <3>2
    <3>6. (m = 1 => t[i] = c) /\ (m = 2 => t[i] = d)
      BY <3>2
    <3> HIDE DEF c, d, o
    <3>7. o \div 16 = c /\ o % 16 = d
      BY <3>4
    <3>8. QED
      BY <3>2, <3>3, <3>5, <3>6, <3>7
  <2>10. t = [i \in 1 .. 17 |-> t[i]]
    BY <1>1, <2>1, LenProperties
  <2>11. AddressText(a) = [i \in 1 .. 17 |-> AddressText(a)[i]]
    BY DEF AddressText
  <2>12. AddressText(a) = t
    BY <2>9, <2>10, <2>11
  <2>13. QED
    BY <1>3, <2>8, <2>12
<1>9. QED
  BY <1>7, <1>8 DEF AddressIsReadBack, a, t
-----------------------------------------------------------------------------
LEMMA AddressTextIs ==
  ASSUME NEW a, \A i \in 1 .. 6 : a[i] \in 0 .. 255
  PROVE  AddressText(a) \in Seq(Marks) /\ Len(AddressText(a)) = 17
<1> DEFINE t == AddressText(a)
<1>1. \A i \in 1 .. 17 : t[i] \in Marks
  <2>1. SUFFICES ASSUME NEW i \in 1 .. 17
                 PROVE  t[i] \in Marks
    OBVIOUS
  <2> DEFINE o == a[(i + 2) \div 3]
  <2>2. (i + 2) \div 3 \in 1 .. 6
    BY Thirds
  <2>3. o \in 0 .. 255
    BY <2>2
  <2>4. t[i] = CASE i % 3 = 1 -> o \div 16 [] i % 3 = 2 -> o % 16 [] OTHER -> Colon
    BY Zenon DEF AddressText
  <2> HIDE DEF o, t
  <2>5. o \div 16 \in Marks /\ o % 16 \in Marks /\ Colon \in Marks
    BY <2>3 DEF Marks, Colon
  <2>6. i % 3 = 1 => ~ (i % 3 = 2)
    OBVIOUS
  <2>7. QED
    BY <2>4, <2>5, <2>6
<1>2. t = [i \in 1 .. 17 |-> t[i]]
  BY DEF AddressText
<1> DEFINE n == 17
<1>3. n \in Nat /\ t \in [1 .. n -> Marks]
  BY <1>1, <1>2
<1> HIDE DEF n, t
<1>4. t \in Seq(Marks) /\ Len(t) = n
  BY <1>3, FunctionIsList
<1>5. QED
  BY <1>4 DEF n, t

LEMMA AddressStart ==
  ASSUME AddressInit
  PROVE  AddressIInv
BY DEF AddressInit, AddressIInv

LEMMA AddressStep ==
  ASSUME AddressIInv, [AddressNext]_addressInput
  PROVE  AddressIInv'
<1>0. \A a \in Addresses : \A i \in 1 .. 6 : a[i] \in 0 .. 255
  <2>1. SUFFICES ASSUME NEW e \in Addresses
                 PROVE  \A i \in 1 .. 6 : e[i] \in 0 .. 255
    OBVIOUS
  <2>2. PICK a \in AddressOctets, b \in AddressOctets, c \in AddressOctets : e = <<a, b, a, b, c, c>>
    BY DEF Addresses
  <2>3. a \in 0 .. 255 /\ b \in 0 .. 255 /\ c \in 0 .. 255
    BY AddressAssumption
  <2>4. QED
    BY <2>2, <2>3
<1>1. ASSUME NEW a \in Addresses, PrintAddress(a)
      PROVE  AddressIInv'
  BY <1>0, <1>1, AddressTextIs DEF PrintAddress, AddressIInv
<1>2. ASSUME NEW a \in Addresses, NEW ch \in Misprints, ReadCut(a, ch)
      PROVE  AddressIInv'
  <2> DEFINE t == AddressText(a)
  <2>1. t \in Seq(Marks) /\ Len(t) = 17
    BY <1>0, AddressTextIs
  <2>2. ch \in Marks
    BY AddressAssumption DEF Marks
  <2>3. addressInput' = SubSeq(t, 1, Len(t) - 1) \/ addressInput' = Append(t, ch)
    BY <1>2 DEF ReadCut, Front
  <2> HIDE DEF t
  <2>4. Append(t, ch) \in Seq(Marks)
    BY <2>1, <2>2, AppendProperties
  <2>5. SubSeq(t, 1, Len(t) - 1) \in Seq(Marks)
    <3>1. 1 \in Int /\ Len(t) - 1 \in Int /\ \A i \in 1 .. Len(t) - 1 : t[i] \in Marks
      <4>1. \A i \in 1 .. Len(t) - 1 : i \in 1 .. Len(t)
        BY <2>1
      <4>2. \A i \in 1 .. Len(t) : t[i] \in Marks
        BY <2>1, ElementOfSeq
      <4>3. 1 \in Int /\ Len(t) - 1 \in Int
        BY <2>1
      <4>4. QED
        BY <4>1, <4>2, <4>3
    <3>2. QED
      BY <3>1, SubSeqProperties
  <2>6. QED
    BY <2>3, <2>4, <2>5 DEF AddressIInv
<1>3. ASSUME NEW i \in 1 .. 17, NEW j \in 1 .. 17, NEW ch \in Misprints, NEW dh \in Misprints,
             ReadMisprinted(<<1, 2, 3, 4, 171, 6>>, i, j, ch, dh)
      PROVE  AddressIInv'
  <2> DEFINE a == <<1, 2, 3, 4, 171, 6>>
             t == AddressText(a)
             u == [t EXCEPT ![i] = ch, ![j] = dh]
             n == 17
  <2>1. \A k \in 1 .. 6 : a[k] \in 0 .. 255
    OBVIOUS
  <2>2. t \in Seq(Marks) /\ Len(t) = 17
    BY <2>1, AddressTextIs
  <2>3. ch \in Marks /\ dh \in Marks
    BY AddressAssumption DEF Marks
  <2>4. addressInput' = u
    BY <1>3 DEF ReadMisprinted
  <2> HIDE DEF t
  <2>5. t \in [1 .. 17 -> Marks]
    BY <2>2, LenProperties
  <2>6. n \in Nat /\ u \in [1 .. n -> Marks]
    BY <2>3, <2>5
  <2> HIDE DEF n, u
  <2>7. u \in Seq(Marks)
    BY <2>6, FunctionIsList
  <2>8. QED
    BY <2>4, <2>7 DEF AddressIInv
<1>4. ASSUME UNCHANGED addressInput
      PROVE  AddressIInv'
  BY <1>4 DEF AddressIInv
<1>5. QED
  BY <1>1, <1>2, <1>3, <1>4 DEF AddressNext

-----------------------------------------------------------------------------
(* The configuration of a codec.                                             *)

Respects(t) == [codecType : {t}, priority : Int, sampleRate : 0 .. 63,
                bitsPerSample : 0 .. 3, channelMode : 0 .. 3, specific : {0, 1}]

CodecIInv == (\E t : mine \in Respects(t)) /\ (\E t : other \in Respects(t))

LEMMA CodecStep == CodecIInv /\ [CodecNext]_codecVars => CodecIInv'
<1> SUFFICES ASSUME CodecIInv, [CodecNext]_codecVars
             PROVE  CodecIInv'
  OBVIOUS
<1>1. /\ Masks \subseteq 0 .. 63 /\ SmallMasks \subseteq 0 .. 3
      /\ CODEC_PRIORITY_DEFAULT \in Int /\ CODEC_PRIORITY_DISABLED \in Int
  BY CodecAssumption DEF CODEC_PRIORITY_DEFAULT, CODEC_PRIORITY_DISABLED
<1>2. CASE \E type \in CodecTypes, rates \in Masks, bits, channels \in SmallMasks,
              specific \in {0, 1} : Assign(type, rates, bits, channels, specific)
  <2>1. PICK type \in CodecTypes, rates \in Masks, bits \in SmallMasks, channels \in SmallMasks,
             specific \in {0, 1} : Assign(type, rates, bits, channels, specific)
    BY <1>2
  <2>2. mine' \in Respects(type) /\ other' = other
    BY <1>1, <2>1 DEF Assign, Configuration, Respects
  <2>3. QED
    BY <2>2 DEF CodecIInv
<1>3. CASE \E config \in Variants(mine) : CopyAndChange(config)
  <2>1. PICK config \in Variants(mine) : CopyAndChange(config)
    BY <1>3
  <2>2. PICK t : mine \in Respects(t)
    BY DEF CodecIInv
  <2>3. \E u : config \in Respects(u)
    BY <1>1, <2>1, <2>2 DEF Variants, Respects
  <2>4. other' = config /\ mine' = mine
    BY <2>1 DEF CopyAndChange
  <2>5. QED
    BY <2>2, <2>3, <2>4 DEF CodecIInv
<1>4. CASE Clear
  <2>1. Cleared \in Respects(SOURCE_CODEC_TYPE_INVALID)
    BY <1>1 DEF Cleared, Configuration, Respects
  <2>2. other' = Cleared /\ mine' = mine
    BY <1>4 DEF Clear
  <2>3. QED
    BY <2>1, <2>2 DEF CodecIInv
<1>5. CASE UNCHANGED codecVars
  BY <1>5 DEF codecVars, CodecIInv
<1>6. QED
  BY <1>2, <1>3, <1>4, <1>5 DEF CodecNext

LEMMA CodecStart == CodecInit => CodecIInv
<1>1. Default(SOURCE_CODEC_TYPE_INVALID) \in Respects(SOURCE_CODEC_TYPE_INVALID)
  BY DEF Default, Configuration, Respects, CODEC_PRIORITY_DEFAULT
<1>2. QED
  BY <1>1 DEF CodecInit, CodecIInv

LEMMA SimilarByFields ==
  ASSUME NEW a, NEW b
  PROVE  similarCodecFeedingParameters(a, b) <=>
           /\ a.codecType = b.codecType
           /\ a.sampleRate = 0 \/ b.sampleRate = 0 \/ a.sampleRate = b.sampleRate
           /\ a.bitsPerSample = 0 \/ b.bitsPerSample = 0 \/ a.bitsPerSample = b.bitsPerSample
           /\ a.channelMode = 0 \/ b.channelMode = 0 \/ a.channelMode = b.channelMode
BY DEF similarCodecFeedingParameters, sameAudioFeedingParameters, Configuration, Feeding

LEMMA SimilarBothWays == SimilarIsMutual
<1>1. \A field \in {"sampleRate", "bitsPerSample", "channelMode"} :
         field = "sampleRate" \/ field = "bitsPerSample" \/ field = "channelMode"
  OBVIOUS
<1>2. (\A field \in {"sampleRate", "bitsPerSample", "channelMode"} :
          0 \in {mine[field], other[field]} \/ mine[field] = other[field])
      <=> /\ mine.sampleRate = 0 \/ other.sampleRate = 0 \/ mine.sampleRate = other.sampleRate
          /\ mine.bitsPerSample = 0 \/ other.bitsPerSample = 0
                \/ mine.bitsPerSample = other.bitsPerSample
          /\ mine.channelMode = 0 \/ other.channelMode = 0
                \/ mine.channelMode = other.channelMode
  BY <1>1
<1>3. sameCodecSpecificParameters(mine, other) <=> sameCodecSpecificParameters(other, mine)
  BY DEF sameCodecSpecificParameters
<1>4. similarCodecFeedingParameters(mine, other) <=> similarCodecFeedingParameters(other, mine)
  BY SimilarByFields
<1>5. similarCodecFeedingParameters(mine, other) <=>
        mine.codecType = other.codecType
        /\ \A field \in {"sampleRate", "bitsPerSample", "channelMode"} :
             0 \in {mine[field], other[field]} \/ mine[field] = other[field]
  BY <1>2, SimilarByFields
<1>6. QED
  BY <1>3, <1>4, <1>5 DEF SimilarIsMutual

\* A set of rates and its bits
LEMMA SixPlaces ==
  /\ 1 .. 6 = {1, 2, 3, 4, 5, 6}
  /\ Bit[1] = 1 /\ Bit[2] = 2 /\ Bit[3] = 4 /\ Bit[4] = 8 /\ Bit[5] = 16 /\ Bit[6] = 32
BY DEF Bit

Digit(n, i) == (n \div Bit[i]) % 2

LEMMA SixDigits ==
  ASSUME NEW n \in 0 .. 63
  PROVE  /\ \A i \in 1 .. 6 : Digit(n, i) \in {0, 1}
         /\ n = Digit(n, 1) + 2 * Digit(n, 2) + 4 * Digit(n, 3) + 8 * Digit(n, 4)
                + 16 * Digit(n, 5) + 32 * Digit(n, 6)
<1>1. \A k \in Nat : k % 2 \in {0, 1} /\ k = 2 * (k \div 2) + (k % 2) /\ k \div 2 \in Nat
  <2> SUFFICES ASSUME NEW k \in Nat
               PROVE  k % 2 \in {0, 1} /\ k = 2 * (k \div 2) + (k % 2) /\ k \div 2 \in Nat
    OBVIOUS
  <2>1. k % 2 \in {0, 1}
    OBVIOUS
  <2>2. k = 2 * (k \div 2) + (k % 2)
    OBVIOUS
  <2>3. k \div 2 \in Nat
    OBVIOUS
  <2>4. QED
    BY <2>1, <2>2, <2>3
<1>2. /\ n \in Nat /\ n \div 1 = n
      /\ n \div 4 = (n \div 2) \div 2 /\ n \div 8 = (n \div 4) \div 2
      /\ n \div 16 = (n \div 8) \div 2 /\ n \div 32 = (n \div 16) \div 2
      /\ (n \div 32) \div 2 = 0
  OBVIOUS
<1> DEFINE a == n \div 2
           b == a \div 2
           c == b \div 2
           d == c \div 2
           e == d \div 2
<1>3. a \in Nat /\ b \in Nat /\ c \in Nat /\ d \in Nat /\ e \in Nat
  BY <1>2
<1>4. n \div 4 = b /\ n \div 8 = c /\ n \div 16 = d /\ n \div 32 = e
  BY <1>2
<1>5. /\ Digit(n, 1) = n % 2 /\ Digit(n, 2) = a % 2 /\ Digit(n, 3) = b % 2
      /\ Digit(n, 4) = c % 2 /\ Digit(n, 5) = d % 2 /\ Digit(n, 6) = e % 2
  BY <1>2, <1>4, SixPlaces DEF Digit
<1>6. e \div 2 = 0
  BY <1>2, <1>4
<1>7. /\ n = 2 * a + (n % 2) /\ a = 2 * b + (a % 2) /\ b = 2 * c + (b % 2) /\ c = 2 * d + (c % 2)
      /\ d = 2 * e + (d % 2) /\ e = 2 * (e \div 2) + (e % 2)
  BY <1>1, <1>2, <1>3
<1>8. /\ n % 2 \in {0, 1} /\ a % 2 \in {0, 1} /\ b % 2 \in {0, 1} /\ c % 2 \in {0, 1}
      /\ d % 2 \in {0, 1} /\ e % 2 \in {0, 1}
  BY <1>1, <1>2, <1>3
<1> HIDE DEF a, b, c, d, e
<1>9. \A i \in 1 .. 6 : Digit(n, i) \in {0, 1}
  BY <1>5, <1>8, SixPlaces
<1> DEFINE n1 == Digit(n, 1)
           n2 == Digit(n, 2)
           n3 == Digit(n, 3)
           n4 == Digit(n, 4)
           n5 == Digit(n, 5)
           n6 == Digit(n, 6)
<1>10. /\ n1 = n % 2 /\ n2 = a % 2 /\ n3 = b % 2 /\ n4 = c % 2 /\ n5 = d % 2 /\ n6 = e % 2
  BY <1>5
<1> HIDE DEF n1, n2, n3, n4, n5, n6
<1>11. /\ n = 2 * a + n1 /\ a = 2 * b + n2 /\ b = 2 * c + n3 /\ c = 2 * d + n4
       /\ d = 2 * e + n5 /\ e = n6
  BY <1>3, <1>6, <1>7, <1>8, <1>10
<1>12. n = n1 + 2 * n2 + 4 * n3 + 8 * n4 + 16 * n5 + 32 * n6
  BY <1>3, <1>8, <1>10, <1>11
<1>13. QED
  BY <1>9, <1>12 DEF n1, n2, n3, n4, n5, n6

LEMMA BitsAreDigits ==
  ASSUME NEW n
  PROVE  /\ Bits(n) \subseteq 1 .. 6
         /\ \A i \in 1 .. 6 : i \in Bits(n) <=> Digit(n, i) = 1
BY DEF Bits, Digit

LEMMA BitsTell ==
  ASSUME NEW m \in 0 .. 63, NEW n \in 0 .. 63, Bits(m) = Bits(n)
  PROVE  m = n
<1>1. \A i \in 1 .. 6 : Digit(m, i) = Digit(n, i)
  <2>1. \A i \in 1 .. 6 : Digit(m, i) \in {0, 1} /\ Digit(n, i) \in {0, 1}
    BY SixDigits
  <2>2. \A i \in 1 .. 6 : Digit(m, i) = 1 <=> Digit(n, i) = 1
    BY BitsAreDigits
  <2>3. QED
    BY <2>1, <2>2
<1>2. /\ Digit(m, 1) = Digit(n, 1) /\ Digit(m, 2) = Digit(n, 2) /\ Digit(m, 3) = Digit(n, 3)
      /\ Digit(m, 4) = Digit(n, 4) /\ Digit(m, 5) = Digit(n, 5) /\ Digit(m, 6) = Digit(n, 6)
  BY <1>1, SixPlaces
<1>3. QED
  BY <1>2, SixDigits

\* The set and the set less one share no bit: one bit, or none.
LEMMA OneBit ==
  ASSUME NEW n \in 1 .. 63
  PROVE  ~CommonBit(n, n - 1) <=> \E i \in 1 .. 6 : Bits(n) = {i}
<1> DEFINE N == [i \in 1 .. 6 |-> Digit(n, i)]
           M == [i \in 1 .. 6 |-> Digit(n - 1, i)]
<1>1. n \in 0 .. 63 /\ n - 1 \in 0 .. 63
  OBVIOUS
<1>2. /\ \A i \in 1 .. 6 : N[i] \in {0, 1} /\ M[i] \in {0, 1}
      /\ n = N[1] + 2 * N[2] + 4 * N[3] + 8 * N[4] + 16 * N[5] + 32 * N[6]
      /\ n - 1 = M[1] + 2 * M[2] + 4 * M[3] + 8 * M[4] + 16 * M[5] + 32 * M[6]
  <2>1. /\ \A i \in 1 .. 6 : Digit(n, i) \in {0, 1}
        /\ n = Digit(n, 1) + 2 * Digit(n, 2) + 4 * Digit(n, 3) + 8 * Digit(n, 4)
                + 16 * Digit(n, 5) + 32 * Digit(n, 6)
    BY <1>1, SixDigits
  <2> DEFINE m == n - 1
  <2>2. /\ \A i \in 1 .. 6 : Digit(m, i) \in {0, 1}
        /\ m = Digit(m, 1) + 2 * Digit(m, 2) + 4 * Digit(m, 3) + 8 * Digit(m, 4)
                + 16 * Digit(m, 5) + 32 * Digit(m, 6)
    <3>1. m \in 0 .. 63
      BY <1>1
    <3> HIDE DEF m
    <3>2. QED
      BY <3>1, SixDigits
  <2>3. 1 \in 1 .. 6 /\ 2 \in 1 .. 6 /\ 3 \in 1 .. 6 /\ 4 \in 1 .. 6 /\ 5 \in 1 .. 6 /\ 6 \in 1 .. 6
    OBVIOUS
  <2>4. \A i \in 1 .. 6 : N[i] = Digit(n, i) /\ M[i] = Digit(m, i)
    OBVIOUS
  <2> HIDE DEF N, M
  <2>5. QED
    BY <2>1, <2>2, <2>3, <2>4
<1>3. /\ \A i \in 1 .. 6 : i \in Bits(n) <=> N[i] = 1
      /\ \A i \in 1 .. 6 : i \in Bits(n - 1) <=> M[i] = 1
      /\ Bits(n) \subseteq 1 .. 6 /\ Bits(n - 1) \subseteq 1 .. 6
  BY BitsAreDigits
<1> HIDE DEF N, M
<1>4. CommonBit(n, n - 1) <=> \E i \in 1 .. 6 : N[i] = 1 /\ M[i] = 1
  BY <1>3 DEF CommonBit
<1>5. (\E i \in 1 .. 6 : Bits(n) = {i}) <=>
        \E i \in 1 .. 6 : N[i] = 1 /\ \A j \in 1 .. 6 : j # i => N[j] # 1
  BY <1>3
<1>6. (\E i \in 1 .. 6 : N[i] = 1 /\ M[i] = 1) <=>
        \/ N[1] = 1 /\ M[1] = 1
        \/ N[2] = 1 /\ M[2] = 1
        \/ N[3] = 1 /\ M[3] = 1
        \/ N[4] = 1 /\ M[4] = 1
        \/ N[5] = 1 /\ M[5] = 1
        \/ N[6] = 1 /\ M[6] = 1
  BY SixPlaces
<1>7. QED
  BY <1>2, <1>4, <1>5, <1>6, SixPlaces

\* The rates of a set are named one by one.
LEMMA NamesOfRates ==
  ASSUME NEW c, c.sampleRate \in 0 .. 63
  PROVE  /\ c.sampleRate = 0 => RatesText(c) = {"NONE"}
         /\ c.sampleRate # 0 =>
              /\ RatesText(c) = {SampleRates[i] : i \in Bits(c.sampleRate)}
              /\ "NONE" \notin RatesText(c)
              /\ \A i \in 1 .. 6 : i \in Bits(c.sampleRate) <=> SampleRates[i] \in RatesText(c)
<1> DEFINE n == c.sampleRate
<1>1. DOMAIN SampleRates = 1 .. 6
  BY DEF SampleRates
<1>2. \A i \in 1 .. 6 : SampleRates[i] # "NONE" /\ \A j \in 1 .. 6 : i # j => SampleRates[i] # SampleRates[j]
  BY SixPlaces DEF SampleRates
<1>3. \A i \in 1 .. 6 : Bits(Bit[i]) = {i}
  <2> SUFFICES ASSUME NEW i \in 1 .. 6
               PROVE  Bits(Bit[i]) = {i}
    OBVIOUS
  <2>1. \A j \in 1 .. 6 : (Bit[i] \div Bit[j]) % 2 = 1 <=> j = i
    BY SixPlaces
  <2>2. QED
    BY <2>1 DEF Bits
<1>4. \A i \in 1 .. 6 : CommonBit(n, Bit[i]) <=> i \in Bits(n)
  BY <1>3 DEF CommonBit
<1>5. {i \in DOMAIN SampleRates : CommonBit(n, Bit[i])} = Bits(n)
  BY <1>1, <1>4, BitsAreDigits
<1>6. n = 0 => RatesText(c) = {"NONE"}
  BY DEF RatesText, Capabilities
<1>7. n # 0 => RatesText(c) = {SampleRates[i] : i \in Bits(n)}
  BY <1>5 DEF RatesText, Capabilities
<1>8. Bits(n) \subseteq 1 .. 6
  BY BitsAreDigits
<1> HIDE DEF n
<1>9. n # 0 => "NONE" \notin RatesText(c)
  BY <1>2, <1>7, <1>8
<1>10. n # 0 => \A i \in 1 .. 6 : i \in Bits(n) <=> SampleRates[i] \in RatesText(c)
  BY <1>2, <1>7, <1>8
<1>11. QED
  BY <1>6, <1>7, <1>9, <1>10 DEF n

LEMMA RatesAreTold ==
  ASSUME mine.sampleRate \in 0 .. 63, other.sampleRate \in 0 .. 63
  PROVE  TextTellsRates
<1> DEFINE m == mine.sampleRate
           n == other.sampleRate
<1>1. ASSUME RatesText(mine) = RatesText(other)
      PROVE  m = n
  <2>1. m = 0 => n = 0
    BY <1>1, NamesOfRates
  <2>2. n = 0 => m = 0
    BY <1>1, NamesOfRates
  <2>3. CASE m # 0 /\ n # 0
    <3>1. \A i \in 1 .. 6 : i \in Bits(m) <=> i \in Bits(n)
      BY <1>1, <2>3, NamesOfRates
    <3>2. Bits(m) = Bits(n)
      BY <3>1, BitsAreDigits
    <3>3. QED
      BY <3>2, BitsTell
  <2>4. QED
    BY <2>1, <2>2, <2>3
<1>2. hasSingleBit(m) <=> Cardinality(RatesText(mine)) = 1
  <2>1. CASE m = 0
    <3>1. RatesText(mine) = {"NONE"}
      BY <2>1, NamesOfRates
    <3>2. Cardinality({"NONE"}) = 1
      BY FS_Singleton
    <3>3. QED
      BY <2>1, <3>1, <3>2 DEF hasSingleBit
  <2>2. CASE m # 0
    <3>1. m \in 1 .. 63
      BY <2>2
    <3>2. hasSingleBit(m) <=> \E i \in 1 .. 6 : Bits(m) = {i}
      BY <2>2, <3>1, OneBit DEF hasSingleBit
    <3>3. RatesText(mine) = {SampleRates[i] : i \in Bits(m)} /\ Bits(m) \subseteq 1 .. 6
      BY <2>2, NamesOfRates, BitsAreDigits
    <3>4. IsFiniteSet(RatesText(mine))
      <4> DEFINE three == {SampleRates[1]} \cup {SampleRates[2]} \cup {SampleRates[3]}
                 six == three \cup {SampleRates[4]} \cup {SampleRates[5]} \cup {SampleRates[6]}
      <4>1. IsFiniteSet(three)
        BY FS_Singleton, FS_Union
      <4> HIDE DEF three
      <4>2. IsFiniteSet(six)
        BY <4>1, FS_Singleton, FS_Union
      <4>3. RatesText(mine) \subseteq six
        BY <3>3, SixPlaces DEF three
      <4> HIDE DEF six
      <4>4. QED
        BY <4>2, <4>3, FS_Subset
    <3>5. \A i, j \in 1 .. 6 : SampleRates[i] = SampleRates[j] => i = j
      BY SixPlaces DEF SampleRates
    <3>6. (\E i \in 1 .. 6 : Bits(m) = {i}) <=> \E x : RatesText(mine) = {x}
      <4>1. ASSUME NEW i \in 1 .. 6, Bits(m) = {i}
            PROVE  \E x : RatesText(mine) = {x}
        <5>1. RatesText(mine) = {SampleRates[i]}
          BY <3>3, <4>1
        <5>2. QED
          BY <5>1
      <4>2. ASSUME NEW x, RatesText(mine) = {x}
            PROVE  \E i \in 1 .. 6 : Bits(m) = {i}
        <5>1. PICK i \in Bits(m) : x = SampleRates[i]
          BY <3>3, <4>2
        <5>2. \A j \in Bits(m) : j = i
          BY <3>3, <3>5, <4>2, <5>1
        <5>3. QED
          BY <3>3, <5>1, <5>2
      <4>3. QED
        BY <4>1, <4>2
    <3>7. QED
      BY <3>2, <3>4, <3>6, FS_Singleton
  <2>3. QED
    BY <2>1, <2>2
<1>3. QED
  BY <1>1, <1>2 DEF TextTellsRates

-----------------------------------------------------------------------------
(* All of them together.                                                     *)

\* Everything the run of the library asks of each of its states, of the parts
\* as their own modules specify them, each with all of its events (ConfirmPage,
\* OptionContent, KeyboardReader, StateMachine).
THEOREM LibraryIsSafe == Spec /\ OptionsSpec /\ ReaderSpec /\ SmSpec => []LibraryInv
<1>1. DialogIInv => TypeOK
  BY DEF DialogIInv
<1>2. ReaderIInv => ReaderTypeOK
  BY DEF ReaderIInv
<1>3. OptionsIInv => OptionsTypeOK
  BY DEF OptionsIInv
<1>4. /\ TypeOK /\ DialogIsOpenQuestion
      /\ OptionsTypeOK /\ PrintedNumbersGrow
      /\ ReaderTypeOK /\ InventedWhileStopping
      /\ SmTypeOK /\ ActiveIsPath
      => LibraryInv
  BY DEF LibraryInv
<1>5. QED
  BY <1>1, <1>2, <1>3, <1>4, DialogHolds, DialogIsQuestion, OptionsHold, NumbersGrow, ReaderHolds,
     InventsOnlyWhileStopping, MachineTypes, ActiveStatesArePath, PTL

\* The composition TLC runs, its parts left out, is a case of it.
COROLLARY LibraryRunIsSafe == LibrarySpec => []LibraryInv
<1>1. LibraryInit => Init /\ OptionsInit /\ ReaderInit /\ SmInit
  BY DEF LibraryInit
<1>2. [LibraryNext]_<<part, console, smVars, values>> =>
         [Next]_vars /\ [OptionsNext]_optionVars /\ [ReaderNext]_readerVars /\ [SmNext]_smVars
  BY DEF LibraryNext, console, dialog
<1>3. LibrarySpec => Spec /\ OptionsSpec /\ ReaderSpec /\ SmSpec
  BY <1>1, <1>2, PTL DEF LibrarySpec, Spec, OptionsSpec, ReaderSpec, SmSpec
<1>4. QED
  BY <1>3, LibraryIsSafe, PTL

\* The menu and the values, each with all of its inputs.
ValuesSpec ==
    /\ MenuInit /\ [][MenuNext]_menuVars
    /\ UuidInit /\ [][UuidNext]_uuidInput
    /\ AddressInit /\ [][AddressNext]_addressInput
    /\ CodecInit /\ [][CodecNext]_codecVars

\* The letter in brackets is the key, the values are read back as they were
\* printed, codecs are compared and named as they are (Menu::OnEvent,
\* BluetoothUuid.cpp, BluetoothAddress.cpp, BluetoothCodecConfig.cpp).  The
\* inputs the modules enumerate do not matter: the lemmas ask of a UUID only
\* that it is sixteen octets, of an address's text that it is a list of
\* characters, of the names of actions that they have no bracket.
THEOREM ValuesReadAsPrinted == ValuesSpec => []ReadAsPrinted
<1> DEFINE ValuesIInv == MenuIInv /\ UuidIInv /\ AddressIInv /\ CodecIInv
<1>1. MenuInit /\ UuidInit /\ AddressInit /\ CodecInit => ValuesIInv
  BY MenuStart, UuidStart, AddressStart, CodecStart
<1>2. /\ ValuesIInv
      /\ [MenuNext]_menuVars /\ [UuidNext]_uuidInput
      /\ [AddressNext]_addressInput /\ [CodecNext]_codecVars
      => ValuesIInv'
  BY MenuStep, UuidStep, AddressStep, CodecStep
<1>3. ValuesIInv => ReadAsPrinted
  <2> SUFFICES ASSUME ValuesIInv
               PROVE  ReadAsPrinted
    OBVIOUS
  <2>1. ShownKeyActivates /\ SpacesDoNotMatter
    BY ShownKeys DEF MenuIInv
  <2>2. ShortestIsEnough /\ TextIsReadBack
    BY TextsAreReadBack
  <2>3. AddressIsReadBack
    BY AddressesRead
  <2>4. SimilarIsMutual
    BY SimilarBothWays
  <2>5. TextTellsRates
    BY RatesAreTold DEF CodecIInv, Respects
  <2>6. QED
    BY <2>1, <2>2, <2>3, <2>4, <2>5 DEF ReadAsPrinted
<1> HIDE DEF ValuesIInv
<1>4. QED
  BY <1>1, <1>2, <1>3, PTL DEF ValuesSpec

\* The composition TLC runs is a case of it.
COROLLARY RunReadsAsPrinted == LibrarySpec => []ReadAsPrinted
<1>1. LibraryInit => MenuInit /\ UuidInit /\ AddressInit /\ CodecInit
  BY DEF LibraryInit
<1>2. [LibraryNext]_<<part, console, smVars, values>> =>
         /\ [MenuNext]_menuVars /\ [UuidNext]_uuidInput
         /\ [AddressNext]_addressInput /\ [CodecNext]_codecVars
  BY DEF LibraryNext, console, values
<1>3. LibrarySpec => ValuesSpec
  BY <1>1, <1>2, PTL DEF LibrarySpec, ValuesSpec
<1>4. QED
  BY <1>3, ValuesReadAsPrinted, PTL

=============================================================================
