------------------------------ MODULE BluetoothUuid ------------------------------
(***************************************************************************)
(* The conversions of BluetoothUuid.cpp, on the inputs of a bounded set.   *)
(* A UUID is the sequence of its 16 octets, the first being the highest;   *)
(* uu[i] of the code is uu[i + 1] here.  A 32-bit number is the pair of    *)
(* its halves.  A character is a hexadecimal digit's value or one of the   *)
(* three numbers below.                                                    *)
(***************************************************************************)
EXTENDS Integers, Sequences, SequencesExt

CONSTANTS
  Octets,       \* the octets that the inputs are made of
  Characters    \* the characters that the short texts are made of

ASSUME UuidAssumption ==
  /\ Octets \subseteq 0..255
  /\ Characters \subseteq 0..18

Dash  == 16
Blank == 17
Other == 18

VARIABLE uuidInput    \* [uu, text, garbage], one input of the conversions
-----------------------------------------------------------------------------
kBase  == <<0, 0, 0, 0, 0, 0, 16, 0, 128, 0, 0, 128, 95, 155, 52, 251>>

\* A slip: the upper half of a 32-bit number is not looked at.
ShortestIgnoringUpper(uu) == IF SubSeq(uu, 5, 16) # SubSeq(kBase, 5, 16) THEN 16 ELSE 2

GetShortestRepresentationSize(uu) ==
  IF SubSeq(uu, 5, 16) # SubSeq(kBase, 5, 16) THEN 16
  ELSE IF uu[1] = 0 /\ uu[2] = 0 THEN 2 ELSE 4

As16Bit(uu) == uu[3] * 256 + uu[4]
As32Bit(uu) == <<uu[1] * 256 + uu[2], uu[3] * 256 + uu[4]>>

From16Bit(n) == [kBase EXCEPT ![3] = n \div 256, ![4] = n % 256]
From32Bit(n) == [kBase EXCEPT ![1] = n[1] \div 256, ![2] = n[1] % 256,
                              ![3] = n[2] \div 256, ![4] = n[2] % 256]

\* ToString, its text as two digits an octet with the dashes of the format.
DashAfter == {4, 6, 8, 10}
UuidText(uu) ==
  LET h(i) == uu[i] \div 16
      l(i) == uu[i] % 16
  IN  <<h(1), l(1), h(2), l(2), h(3), l(3), h(4), l(4), Dash, h(5), l(5), h(6), l(6), Dash,
        h(7), l(7), h(8), l(8), Dash, h(9), l(9), h(10), l(10), Dash, h(11), l(11), h(12), l(12),
        h(13), l(13), h(14), l(14), h(15), l(15), h(16), l(16)>>
-----------------------------------------------------------------------------
(* FromString.  One conversion "%02hhx" of sscanf (external): blanks are   *)
(* skipped, then at most two characters are taken, the first of which may  *)
(* be a sign.                                                              *)
IsDigit(ch) == ch \in 0..15

ScanOctet(text) ==
  LET rest == SelectInSeq(text, LAMBDA ch : ch # Blank)
      t    == IF rest = 0 THEN <<>> ELSE SubSeq(text, rest, Len(text))
      digitAt(i) == i <= Len(t) /\ IsDigit(t[i])
      took(n, value) == [ok |-> TRUE, value |-> value, rest |-> SubSeq(t, n + 1, Len(t))]
  IN  CASE digitAt(1) /\ digitAt(2) -> took(2, t[1] * 16 + t[2])
        [] digitAt(1) /\ ~digitAt(2) -> took(1, t[1])
        [] Len(t) >= 1 /\ t[1] = Dash /\ digitAt(2) -> took(2, (256 - t[2]) % 256)
        [] OTHER                    -> [ok |-> FALSE, value |-> 0, rest |-> t]

\* One conversion of the format, then the dash behind it where there is one.
\* After one that fails nothing more is read.
ScanNext(r, at, dashed) ==
  LET s == ScanOctet(r.rest)
      stored == [r.uu EXCEPT ![at] = s.value]
      needsDash == dashed /\ at \in DashAfter
      hasDash == s.rest # <<>> /\ Head(s.rest) = Dash
  IN  CASE ~r.ok -> r
        [] r.ok /\ ~s.ok -> [r EXCEPT !.ok = FALSE]
        [] OTHER -> [uu |-> stored, ok |-> needsDash => hasDash,
                     rest |-> IF needsDash /\ hasDash THEN Tail(s.rest) ELSE s.rest]

\* What is stored, and left of the text, when the first octets of these
\* places have been read.
Scan(text, places, dashed) ==
  LET scanned[k \in 0..Len(places)] ==
        IF k = 0 THEN [uu |-> kBase, ok |-> TRUE, rest |-> text]
        ELSE ScanNext(scanned[k - 1], places[k], dashed)
  IN  scanned

Places(n) == CASE n = 36 -> [i \in 1..16 |-> i]
               [] n = 8  -> <<1, 2, 3, 4>>
               [] n = 4  -> <<3, 4>>
               [] OTHER  -> <<>>

\* The result, and is_valid.  When the text is used up, the conversion "%c" has
\* stored nothing and the test of c reads what was in memory: garbage, a zero or not.
FromString(text, garbage) ==
  LET places == Places(Len(text))
      s == Scan(text, places, Len(text) = 36)[Len(places)]
  IN  [uu |-> s.uu, valid |-> places # <<>> /\ s.ok /\ s.rest = <<>> /\ garbage = 0]
-----------------------------------------------------------------------------
Tails == {SubSeq(kBase, 5, 16), [i \in 1..12 |-> 0], [SubSeq(kBase, 5, 16) EXCEPT ![12] = 0]}
Uuids == {first \o last : first \in [1..4 -> Octets], last \in Tails}
ShortTexts == [1..4 -> Characters]

UuidInit == uuidInput = [uu |-> kBase, text |-> <<>>, garbage |-> 0]

\* The program converts a UUID, or reads a text.
Convert(uu) == uuidInput.text = <<>> /\ uuidInput' = [uu |-> uu, text |-> UuidText(uu), garbage |-> 0]
Read(text, garbage) == uuidInput.text = <<>> /\ uuidInput' = [uu |-> kBase, text |-> text, garbage |-> garbage]

UuidNext == \/ \E uu \in Uuids : Convert(uu)
            \/ \E text \in ShortTexts, garbage \in {0, 1} : Read(text, garbage)
-----------------------------------------------------------------------------
\* The size said to be enough is enough, and the least (GetShortestRepresentationSize,
\* which As16Bit and As32Bit ask their callers to use first).
ShortestIsEnough ==
  LET uu == uuidInput.uu IN
  GetShortestRepresentationSize(uu) =
    IF From16Bit(As16Bit(uu)) = uu THEN 2 ELSE IF From32Bit(As32Bit(uu)) = uu THEN 4 ELSE 16

\* What ToString prints FromString reads back, and a short text of digits is
\* the number it shows, whatever is_valid says.
TextIsReadBack ==
  LET uu == uuidInput.uu
      text == uuidInput.text
  IN  /\ Len(text) = 36 => FromString(text, 0) = [uu |-> uu, valid |-> TRUE]
      /\ Len(text) = 4 /\ (\A i \in 1..4 : IsDigit(text[i])) =>
           FromString(text, 0).uu = From16Bit(((text[1] * 16 + text[2]) * 16 + text[3]) * 16 + text[4])

=============================================================================
