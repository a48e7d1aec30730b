----------------------------- MODULE MCLibrary -----------------------------
(* What stands alone, for TLC: of the library Zhen the dialog, the options, *)
(* a menu, the keyboard reader and two timers of the list; of the Bluetooth *)
(* program the state machine and the values.  No two of them share a        *)
(* variable and every property is about one, so one of them moves in each   *)
(* behaviour: part says which.                                              *)
EXTENDS ConfirmPage, OptionContent, Menus, KeyboardReader, StateMachine,
        BluetoothUuid, BluetoothAddress, BluetoothCodecConfig, TLC

CONSTANTS c1, c2, NoEntry, parent, left, right, single

VARIABLES part, gTimers, due, milliseconds, combine, connections, connection, since, alarm,
          operatorPc, iter, connectionIter, elapsed

Timers == INSTANCE GeneralTimer WITH Conns <- {c1, c2}, Periods <- {2, 3}, Grace <- 1, MaxLate <- 2,
              state <- connection, pc <- operatorPc, at <- connectionIter

(* A small hierarchy: two children of one parent, and a single state. *)
FourStates == {parent, left, right, single}
ParentOfFour == (left :> parent) @@ (right :> parent) @@ (parent :> NoState)
                @@ (single :> NoState)

(* The letter 1 in lower case and in upper case; the letter 2 in one name only. *)
TwoNames == {<<1, 2>>, <<101>>}

(* The machine's bounds are tried one at a time: messages at the end of the *)
(* queue, deferred; at its front, with transitions asked for in enter();     *)
(* both, with none deferred.                                                 *)
MachineParts == {"deferring", "urgent", "transitions"}
MachineBounds ==
    /\ part = "deferring" => urgent' = {} /\ hops' = 0
    /\ part = "urgent" => defers' <= 1 /\ urgent' = 1 .. sent'
    /\ part = "transitions" => defers' = 0

dialog == vars
timers == <<gTimers, due, milliseconds, combine, connections, connection, since, alarm,
            operatorPc, iter, connectionIter, elapsed>>
values == <<uuidInput, addressInput, codecVars>>
console == <<dialog, timers, optionVars, menuVars, readerVars>>

LibraryInit ==
    /\ part \in {"dialog", "timers", "options", "menu", "reader", "uuid", "address", "codec"}
                \cup MachineParts
    /\ Init /\ Timers!Init /\ OptionsInit /\ MenuInit /\ ReaderInit /\ SmInit
    /\ UuidInit /\ AddressInit /\ CodecInit

LibraryNext ==
    /\ UNCHANGED part
    /\ \/ /\ part = "dialog" /\ Next
          /\ UNCHANGED <<timers, optionVars, menuVars, readerVars, smVars, values>>
       \/ /\ part = "timers" /\ Timers!Next
          /\ UNCHANGED <<dialog, optionVars, menuVars, readerVars, smVars, values>>
       \/ /\ part = "options" /\ OptionsNext
          /\ UNCHANGED <<dialog, timers, menuVars, readerVars, smVars, values>>
       \/ /\ part = "menu" /\ MenuNext
          /\ UNCHANGED <<dialog, timers, optionVars, readerVars, smVars, values>>
       \/ /\ part = "reader" /\ ReaderNext
          /\ UNCHANGED <<dialog, timers, optionVars, menuVars, smVars, values>>
       \/ part \in MachineParts /\ SmNext /\ MachineBounds /\ UNCHANGED <<console, values>>
       \/ part = "uuid" /\ UuidNext /\ UNCHANGED <<console, smVars, addressInput, codecVars>>
       \/ part = "address" /\ AddressNext /\ UNCHANGED <<console, smVars, uuidInput, codecVars>>
       \/ part = "codec" /\ CodecNext /\ UNCHANGED <<console, smVars, uuidInput, addressInput>>

(* Fairness of the modules.  Where an action is enabled before its part has *)
(* moved, it binds only when that part moves; no other is.                  *)
LibraryFairness ==
    /\ WF_dialog(part = "dialog" /\ Tick) /\ WF_dialog(CountDown \/ TimeIsUp)
    /\ WF_timers(part = "timers" /\ Timers!Tick) /\ WF_timers(Timers!OperatorStep)
    /\ WF_timers(alarm <= 0 /\ Timers!TimerEvent)
    /\ ReaderFairness /\ SmFairness

LibrarySpec == LibraryInit /\ [][LibraryNext]_<<part, console, smVars, values>> /\ LibraryFairness
-----------------------------------------------------------------------------
\* The invariants of the parts: their types; the dialog is on the stack only as
\* an open question (ConfirmPage.cpp); printed numbers grow down the screen
\* (OptionContent.cpp); an empty line nobody typed is posted only while the
\* reader is being stopped (KeyboardReader.cpp); between two messages the
\* machine's active states are a path from a root (StateMachine.h).
LibraryInv ==
    /\ TypeOK /\ DialogIsOpenQuestion
    /\ OptionsTypeOK /\ PrintedNumbersGrow
    /\ ReaderTypeOK /\ InventedWhileStopping
    /\ SmTypeOK /\ ActiveIsPath

\* What is printed is what is read: the letter in brackets is the key, spaces
\* round it do not matter (Menu::OnEvent, Action::GenerateShowString), and the
\* values are read back and compared as their comments say (BluetoothUuid.cpp,
\* BluetoothAddress.cpp, BluetoothCodecConfig.cpp).
ReadAsPrinted ==
    /\ ShownKeyActivates /\ SpacesDoNotMatter
    /\ ShortestIsEnough /\ TextIsReadBack /\ AddressIsReadBack
    /\ SimilarIsMutual /\ TextTellsRates

\* An open dialog gives the user the full time, then goes away by itself, and
\* so does the timer it may leave behind (ConfirmPage.cpp).
DialogTakesItsTime == TimeToDecide /\ DialogCloses /\ TimerEnds

\* Every connected slot is called again and again until it leaves
\* (Timer::operator()).
KeepsFiring == Timers!KeepsFiring
=============================================================================
