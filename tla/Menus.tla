---------------------------------- MODULE Menus ----------------------------------
(***************************************************************************)
(* A page's menu (menu.h, menu.cpp) and the line the user types at it      *)
(* (ReadLineEventCooker): a line of one character activates the first      *)
(* visible action with that letter; the letter is shown in brackets where  *)
(* the name has it.  A character is a letter's number, its capital plus    *)
(* 100, or one of the three below.                                         *)
(***************************************************************************)
EXTENDS Naturals, Sequences, SequencesExt

CONSTANTS
  Letters,       \* the letters of names and keys
  ActionNames,   \* the names given to actions
  MaxActions,    \* bound: actions in a menu
  MaxTyped       \* bound: characters of a line

OpenBracket  == 201
CloseBracket == 202
Gap          == 203

ASSUME MenuAssumption == Letters \subseteq 1..50 /\ {MaxActions, MaxTyped} \subseteq Nat

VARIABLES
  m_actions,     \* a sequence of [name, target, visible]
  cmd,           \* the line the last key event carries, as ReadLineEventCooker left it
  typedLine,     \* the line as it was typed
  activated      \* the action the line activated, or 0

menuVars == <<m_actions, cmd, typedLine, activated>>

Chars == Letters \cup {l + 100 : l \in Letters}
ToUpper(ch) == IF ch \in Letters THEN ch + 100 ELSE ch

\* No name of the program's actions has a bracket.
ASSUME MenuNamesAssumption == ActionNames \subseteq Seq(Chars \cup {Gap})
-----------------------------------------------------------------------------
KeyPlace(name, target) == SelectInSeq(name, LAMBDA ch : ToUpper(ch) = ToUpper(target))

\* GenerateShowString: a name that has a bracket is left as it is.
GenerateShowString(name, target) ==
  LET i == KeyPlace(name, target)
  IN  IF OpenBracket \in ToSet(name) \/ i = 0 THEN name
      ELSE SubSeq(name, 1, i - 1) \o <<OpenBracket, name[i], CloseBracket>> \o SubSeq(name, i + 1, Len(name))

\* ReadLineEventCooker, first half: a line of spaces only is left whole.
DropLeading(text) ==
  LET first == SelectInSeq(text, LAMBDA ch : ch # Gap)
  IN  IF first = 0 THEN text ELSE SubSeq(text, first, Len(text))

\* The second half: what follows the last character that is no space is erased.
DropTrailing(text) == SubSeq(text, 1, SelectLastInSeq(text, LAMBDA ch : ch # Gap))

\* Menu::OnEvent: the action that handles a character (HandleEventChar).
FirstWithKey(ch) ==
  SelectInSeq(m_actions, LAMBDA a : a.visible /\ ToUpper(a.target) = ToUpper(ch))
-----------------------------------------------------------------------------
MenuInit == m_actions = <<>> /\ cmd = <<>> /\ typedLine = <<>> /\ activated = 0

\* AddMenuAction with a new action; the name is kept as it will be shown.
AddAction(name, target) ==
  /\ Len(m_actions) < MaxActions
  /\ m_actions' = Append(m_actions, [name |-> GenerateShowString(name, target), target |-> target,
                                     visible |-> TRUE])
  /\ cmd' = <<>> /\ typedLine' = <<>> /\ activated' = 0

SetActionVisiable(i, visible) ==
  /\ m_actions[i].visible # visible
  /\ m_actions' = [m_actions EXCEPT ![i].visible = visible]
  /\ cmd' = <<>> /\ typedLine' = <<>> /\ activated' = 0

\* The user types a line.
TypeLine(text) ==
  /\ typedLine = <<>> /\ typedLine' = text
  /\ cmd' = DropTrailing(DropLeading(text))
  /\ activated' = IF Len(cmd') = 1 THEN FirstWithKey(cmd'[1]) ELSE 0
  /\ UNCHANGED m_actions

MenuNext ==
  \/ \E name \in ActionNames, target \in Chars : AddAction(name, target)
  \/ \E i \in DOMAIN m_actions, visible \in BOOLEAN : SetActionVisiable(i, visible)
  \/ \E n \in 0..MaxTyped : \E text \in [1..n -> Chars \cup {Gap}] : TypeLine(text)
-----------------------------------------------------------------------------
\* The letter a menu shows in brackets is one that activates the action, unless
\* an earlier visible action has it; and an action whose name has its letter, in
\* either case, shows it (GenerateShowString, Menu::OnEvent).
ShownKeyActivates ==
  \A i \in DOMAIN m_actions :
    LET name == m_actions[i].name
        at == SelectInSeq(name, LAMBDA ch : ch = OpenBracket)
    IN  IF at = 0 THEN \A ch \in ToSet(name) : ToUpper(ch) # ToUpper(m_actions[i].target)
        ELSE m_actions[i].visible => FirstWithKey(name[at + 1]) \in 1..i

\* Spaces around a key do not matter, and nothing else is a key: a line
\* activates the first visible action whose letter is the only character on it
\* that is no space, and none when there are more or none.
SpacesDoNotMatter ==
  LET keys == {i \in DOMAIN typedLine : typedLine[i] # Gap}
      wanted == {i \in DOMAIN m_actions :
                   /\ m_actions[i].visible
                   /\ \A k \in keys : ToUpper(m_actions[i].target) = ToUpper(typedLine[k])}
  IN  IF (\E k \in keys : keys = {k}) /\ wanted # {}
      THEN activated \in wanted /\ \A i \in wanted : activated <= i
      ELSE activated = 0
=============================================================================
