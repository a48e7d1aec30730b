--------------------------- MODULE OptionContent ---------------------------
(***************************************************************************)
(* The numbered options of a page (src/Zhen/OptionContent.cpp): the user    *)
(* types a number and the option that carries it is invoked.  Options are   *)
(* added, hidden and disabled at any time, and renumbered on the way.       *)
(***************************************************************************)
EXTENDS Naturals, Sequences, FiniteSets

CONSTANT MaxOptions   \* bound of the model: options ever added

ASSUME MaxOptionsAssumption == MaxOptions \in Nat \ {0}

VARIABLES
    m_options,      \* records of id, cmd_index, visiable and enabled
    m_current_id,
    invoked         \* ids whose callback the last keyboard event called

optionVars == <<m_options, m_current_id, invoked>>

Ids == 1 .. MaxOptions

Option == [id : Ids, cmd_index : 1 .. MaxOptions, visiable : BOOLEAN,
           enabled : BOOLEAN]

OptionsTypeOK ==
    /\ m_options \in Seq(Option)
    /\ m_current_id \in 1 .. MaxOptions + 1
    /\ invoked \in SUBSET Ids

OptionsInit ==
    /\ m_options = <<>>
    /\ m_current_id = 1
    /\ invoked = {}

AddOption ==
    /\ m_current_id <= MaxOptions
    /\ m_options' = Append(m_options,
                           [id |-> m_current_id, cmd_index |-> Len(m_options) + 1,
                            visiable |-> TRUE, enabled |-> TRUE])
    /\ m_current_id' = m_current_id + 1
    /\ invoked' = {}

\* the content is rebuilt, as PageDeviceList does on every drawing
ClearOption ==
    /\ m_options' = <<>>
    /\ invoked' = {}
    /\ UNCHANGED m_current_id

\* The enabled options are counted, hidden or not; a disabled one keeps the
\* number it had.
GenerateCommandIndex(options) ==
    [i \in DOMAIN options |->
        IF options[i].enabled
        THEN [options[i] EXCEPT !.cmd_index =
                 Cardinality({j \in 1 .. i : options[j].enabled})]
        ELSE options[i]]

SetVisiable(i, visiable) ==
    /\ m_options[i].visiable # visiable
    /\ m_options' = GenerateCommandIndex([m_options EXCEPT ![i].visiable = visiable])
    /\ invoked' = {}
    /\ UNCHANGED m_current_id

SetOptionEnable(i, enable) ==
    /\ m_options[i].enabled # enable
    /\ m_options' = GenerateCommandIndex([m_options EXCEPT ![i].enabled = enable])
    /\ invoked' = {}
    /\ UNCHANGED m_current_id

\* A slip: hidden options match too.
MatchingHidden(input) == {i \in DOMAIN m_options : m_options[i].cmd_index = input}

\* the first visible option with that number; whether it is enabled is not asked
Matching(input) == {i \in DOMAIN m_options :
                       m_options[i].visiable /\ m_options[i].cmd_index = input}

OnEvent(input) ==
    /\ invoked' = {m_options[i].id : i \in {j \in Matching(input) :
                                               \A k \in Matching(input) : j <= k}}
    /\ UNCHANGED <<m_options, m_current_id>>

OptionsNext ==
    \/ AddOption
    \/ ClearOption
    \/ \E i \in DOMAIN m_options, b \in BOOLEAN : SetVisiable(i, b) \/ SetOptionEnable(i, b)
    \/ \E input \in 1 .. MaxOptions : OnEvent(input)

OptionsSpec == OptionsInit /\ [][OptionsNext]_optionVars

-----------------------------------------------------------------------------
\* the options GetPrintableString prints
PrintedOptions == {i \in DOMAIN m_options : m_options[i].visiable /\ m_options[i].enabled}

\* Whatever was hidden, disabled and added in between, two options on the
\* screen never carry the same number, and the numbers go up the screen.
PrintedNumbersGrow ==
    \A i, j \in PrintedOptions : i < j => m_options[i].cmd_index < m_options[j].cmd_index

\* Hiding alone never breaks the dialog with the user: as long as no option is
\* disabled, every number on the screen calls the option it stands at and
\* every other number calls nothing.
NumbersCallWhatTheyStandAt ==
    [][\A input \in 1 .. MaxOptions :
          OnEvent(input) /\ (\A i \in DOMAIN m_options : m_options[i].enabled)
              => invoked' = {m_options[i].id : i \in
                               {j \in PrintedOptions : m_options[j].cmd_index = input}}]_optionVars

\* "type the index then the callback will be invoked"
\* (src/Zhen/OptionContent.h:70): also when some option is disabled.
PrintedIndexIsInvoked ==
    [][\A i \in PrintedOptions :
          OnEvent(m_options[i].cmd_index) => invoked' = {m_options[i].id}]_optionVars

=============================================================================
