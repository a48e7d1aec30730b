----------------------------- MODULE BluetoothAddress -----------------------------
(***************************************************************************)
(* The text of a device's address and back (BluetoothAddress.cpp), on      *)
(* texts that differ from a proper one in at most two places.  A character *)
(* is a hexadecimal digit's value or one of the numbers below.             *)
(***************************************************************************)
EXTENDS Integers, Sequences, SequencesExt

CONSTANTS
  AddressOctets,   \* the octets the addresses are made of
  Misprints        \* the characters that take the place of proper ones

Colon == 16
Space == 17
Sign  == 18      \* "-"
Junk  == 19

ASSUME AddressAssumption == AddressOctets \subseteq 0..255 /\ Misprints \subseteq 0..19

VARIABLE addressInput   \* a text
-----------------------------------------------------------------------------
\* ToString: two digits an octet, five colons.
AddressText(a) ==
  [i \in 1..17 |-> LET octet == a[(i + 2) \div 3] IN
     CASE i % 3 = 1 -> octet \div 16 [] i % 3 = 2 -> octet % 16 [] OTHER -> Colon]

\* The loop of FromString, one character: a colon ends a token, an empty one is
\* left out.
TakeCharacter(r, ch) ==
  CASE ch # Colon -> [r EXCEPT !.temp = Append(@, ch)]
    [] ch = Colon /\ r.temp = <<>> -> r
    [] OTHER -> [byte_tokens |-> Append(r.byte_tokens, r.temp), temp |-> <<>>]

\* After each character.
TokenLoop(from) ==
  LET loop[n \in 0..Len(from)] ==
        IF n = 0 THEN [byte_tokens |-> <<>>, temp |-> <<>>]
        ELSE TakeCharacter(loop[n - 1], from[n])
  IN  loop

\* The last token is kept, empty or not.
Tokens(from) ==
  LET end == TokenLoop(from)[Len(from)] IN Append(end.byte_tokens, end.temp)

\* strtol of two characters to base 16, stored in an octet (external): a space
\* or a sign may come first; -1 when something is left over.  A lone space or
\* sign converts nothing and leaves it all.
Strtol(t) ==
  LET isDigit(ch) == ch \in 0..15 IN
  CASE isDigit(t[1]) /\ isDigit(t[2])  -> t[1] * 16 + t[2]
    [] t[1] = Space /\ isDigit(t[2])   -> t[2]
    [] t[1] = Sign /\ isDigit(t[2])    -> (256 - t[2]) % 256
    [] OTHER -> -1

\* FromString: the address, or <<>> when it returns false.
AddressFromString(from) ==
  LET tokens == Tokens(from) IN
  IF \/ Len(from) # 17 \/ Len(tokens) # 6
     \/ \E i \in 1..6 : Len(tokens[i]) # 2 \/ Strtol(tokens[i]) = -1
  THEN <<>> ELSE [i \in 1..6 |-> Strtol(tokens[i])]
-----------------------------------------------------------------------------
Addresses == {<<a, b, a, b, c, c>> : a \in AddressOctets, b \in AddressOctets, c \in AddressOctets}

AddressInit == addressInput = <<>>

\* An address is printed, or a text with up to two misprints is read.
PrintAddress(a) == addressInput = <<>> /\ addressInput' = AddressText(a)

ReadMisprinted(a, i, j, ch, dh) ==
  /\ addressInput = <<>>
  /\ addressInput' = [AddressText(a) EXCEPT ![i] = ch, ![j] = dh]

\* A text one character too short or too long.
ReadCut(a, ch) ==
  /\ addressInput = <<>>
  /\ addressInput' \in {Front(AddressText(a)), Append(AddressText(a), ch)}

AddressNext ==
  \/ \E a \in Addresses : PrintAddress(a)
  \/ \E a \in Addresses, ch \in Misprints : ReadCut(a, ch)
  \/ \E i, j \in 1..17, ch, dh \in Misprints :
       ReadMisprinted(<<1, 2, 3, 4, 171, 6>>, i, j, ch, dh)
-----------------------------------------------------------------------------
Digits == 0..15

\* The format of an address's text, place by place.
ProperText(text) ==
  Len(text) = 17 /\ \A i \in 1..17 : IF i % 3 = 0 THEN text[i] = Colon ELSE text[i] \in Digits

\* A proper text is read as the address that prints it, and a text that is
\* accepted has its colons where a proper one has them, and a digit before each:
\* no token is lost where two colons follow each other (FromString, ToString).
AddressIsReadBack ==
  LET a == AddressFromString(addressInput) IN
  /\ ProperText(addressInput) => a # <<>> /\ AddressText(a) = addressInput
  /\ a # <<>> => \A i \in 1..17 : /\ addressInput[i] = Colon <=> i % 3 = 0
                                  /\ i % 3 = 2 => addressInput[i] \in Digits

=============================================================================
