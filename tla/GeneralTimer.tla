---------------------------- MODULE GeneralTimer ----------------------------
(***************************************************************************)
(* The timer list of Zhen (src/Zhen/GeneralTimer.cpp): Timer::connectTo and *)
(* Timer::operator(), both on the loop thread.  operator() calls the slots  *)
(* one by one, a slot takes time, and while it runs it may connect further  *)
(* timers or disconnect any, so the list changes under the iteration.       *)
(*                                                                         *)
(* A connection is one call of connectTo; an entry of the list is named     *)
(* after the connection that created it.  Time is relative: due[e] is the   *)
(* time left until timeToExecute of entry e.                                *)
(***************************************************************************)
EXTENDS Integers, Sequences, SequencesExt

CONSTANTS
    Conns,     \* connections, each made by one call of connectTo
    Periods,   \* the values of aMilliseconds
    Grace,     \* 10 milliseconds: an entry may fire that much early
    MaxLate,   \* bound of the model: how late the loop thread may be
    NoEntry    \* end() of the list

ASSUME GraceAssumption == Grace \in Nat /\ MaxLate \in Nat
\* Every timer of the repository has a period of 100 ms or more, and a period
\* is an unsigned int: there is a longest.
ASSUME PeriodAssumption ==
    /\ \A p \in Periods : p \in Nat /\ p > Grace
    /\ \E p \in Periods : \A q \in Periods : q <= p
ASSUME NoEntryAssumption == NoEntry \notin Conns

VARIABLES
    gTimers,       \* entries, in the order of the list
    due,           \* per entry: timeToExecute
    milliseconds,  \* per entry
    combine,       \* per entry
    connections,   \* per entry: its connections, in order
    state,         \* per connection
    since,         \* history, per entry: time since it was made or last begun
    alarm,         \* what mSetTimer was called with last
    pc,            \* where operator() is
    iter,          \* the entry operator() is at
    at,            \* the index of connectionIter in its connections
    elapsed        \* time since operator() read curTime

entryVars == <<gTimers, due, milliseconds, combine, connections>>
passVars == <<pc, iter, at, elapsed>>
vars == <<entryVars, state, since, alarm, passVars>>

MaxPeriod == CHOOSE p \in Periods : \A q \in Periods : q <= p

TypeOK ==
    /\ gTimers \in Seq(Conns)
    /\ due \in [Conns -> -MaxLate .. MaxPeriod]
    /\ milliseconds \in [Conns -> Periods \cup {0}]
    /\ combine \in [Conns -> BOOLEAN]
    /\ connections \in [Conns -> Seq(Conns)]
    /\ state \in [Conns -> {"new", "connected", "disconnected", "deleted"}]
    /\ since \in [Conns -> 0 .. MaxPeriod]
    /\ alarm \in -MaxLate .. MaxPeriod
    /\ pc \in {"idle", "entry", "connection", "slot"}
    /\ iter \in Conns \cup {NoEntry}
    /\ at \in Nat \ {0}
    /\ elapsed \in 0 .. MaxLate

Init ==
    /\ gTimers = <<>>
    /\ due = [c \in Conns |-> 0]
    /\ milliseconds = [c \in Conns |-> 0]
    /\ combine = [c \in Conns |-> FALSE]
    /\ connections = [c \in Conns |-> <<>>]
    /\ state = [c \in Conns |-> "new"]
    /\ since = [c \in Conns |-> 0]
    /\ alarm = MaxPeriod
    /\ pc = "idle"
    /\ iter = NoEntry
    /\ at = 1
    /\ elapsed = 0

Listed == ToSet(gTimers)

\* list::sort with TimerEntryComparator, which is stable: p puts the places of
\* q in the order of d and leaves equals as they were.
Sorts(p, q, d) ==
    \A i, j \in DOMAIN q : i < j =>
        \/ d[q[p[i]]] < d[q[p[j]]]
        \/ d[q[p[i]]] = d[q[p[j]]] /\ p[i] < p[j]

SortedByDue(q, d) ==
    LET p == CHOOSE p \in Bijection(DOMAIN q, DOMAIN q) : Sorts(p, q, d)
    IN  [i \in DOMAIN q |-> q[p[i]]]

\* the list iterator that stands at e
PlaceOf(e) == CHOOSE i \in DOMAIN gTimers : gTimers[i] = e

\* the entry after e, or end()
NextEntry(e) == IF PlaceOf(e) = Len(gTimers) THEN NoEntry ELSE gTimers[PlaceOf(e) + 1]

(***************************************************************************)
(* connectTo, from anywhere on the loop thread, also from inside a slot.    *)
(***************************************************************************)
Combinable(m) == {i \in DOMAIN gTimers :
                     combine[gTimers[i]] /\ milliseconds[gTimers[i]] = m}

JoinEntry(c, m) ==
    LET e == gTimers[CHOOSE i \in Combinable(m) :
                        \A j \in Combinable(m) : i <= j]
    IN  /\ connections' = [connections EXCEPT ![e] = Append(@, c)]
        /\ UNCHANGED <<gTimers, due, milliseconds, combine, since, alarm>>

\* A slip: the alarm is set for the first timer only.
NewEntryLate(c, m, comb) ==
    /\ since' = [since EXCEPT ![c] = 0]
    /\ due' = [due EXCEPT ![c] = m]
    /\ milliseconds' = [milliseconds EXCEPT ![c] = m]
    /\ combine' = [combine EXCEPT ![c] = comb]
    /\ connections' = [connections EXCEPT ![c] = <<c>>]
    /\ gTimers' = SortedByDue(<<c>> \o gTimers, due')
    /\ alarm' = IF gTimers = <<>> THEN due'[c] ELSE alarm

NewEntry(c, m, comb) ==
    /\ since' = [since EXCEPT ![c] = 0]
    /\ due' = [due EXCEPT ![c] = m]
    /\ milliseconds' = [milliseconds EXCEPT ![c] = m]
    /\ combine' = [combine EXCEPT ![c] = comb]
    /\ connections' = [connections EXCEPT ![c] = <<c>>]
    /\ gTimers' = SortedByDue(<<c>> \o gTimers, due')
    /\ alarm' = IF gTimers = <<>> \/ due'[Head(gTimers')] < due[Head(gTimers)]
                THEN due'[Head(gTimers')] ELSE alarm

ConnectTo(c, m, comb) ==
    /\ pc \in {"idle", "slot"}
    /\ state[c] = "new"
    /\ state' = [state EXCEPT ![c] = "connected"]
    /\ IF comb /\ Combinable(m) # {} THEN JoinEntry(c, m) ELSE NewEntry(c, m, comb)
    /\ UNCHANGED passVars

\* boost::signals2::connection::disconnect by the owner of the connection
Disconnect(c) ==
    /\ pc \in {"idle", "slot"}
    /\ state[c] = "connected"
    /\ state' = [state EXCEPT ![c] = "disconnected"]
    /\ UNCHANGED <<entryVars, since, alarm, passVars>>

(***************************************************************************)
(* operator(), run by the event that the timer thread posts.                *)
(***************************************************************************)
TimerEvent ==
    /\ pc = "idle"
    /\ gTimers # <<>>
    /\ pc' = "entry"
    /\ iter' = Head(gTimers)
    /\ UNCHANGED <<entryVars, state, since, alarm, at, elapsed>>

\* mSetTimer(UINT_MAX): as late as anything
TimerEventEmpty ==
    /\ pc = "idle"
    /\ gTimers = <<>>
    /\ alarm' = MaxPeriod
    /\ UNCHANGED <<entryVars, state, since, passVars>>

\* A slip: every entry of the list is executed.
EntryIsThere == iter # NoEntry

EntryIsDue == iter # NoEntry /\ due[iter] <= Grace

\* curTime is read here and used for the new timeToExecute after the slots
BeginEntry ==
    /\ pc = "entry"
    /\ EntryIsDue
    /\ elapsed' = 0
    /\ since' = [since EXCEPT ![iter] = 0]
    /\ at' = 1
    /\ pc' = "connection"
    /\ UNCHANGED <<entryVars, state, alarm, iter>>

CallSlot ==
    /\ pc = "connection"
    /\ at <= Len(connections[iter])
    /\ state[connections[iter][at]] = "connected"
    /\ pc' = "slot"
    /\ UNCHANGED <<entryVars, state, since, alarm, iter, at, elapsed>>

DeleteAt(i) ==
    /\ connections' = [connections EXCEPT ![iter] = RemoveAt(@, i)]
    /\ state' = [state EXCEPT ![connections[iter][i]] = "deleted"]
    /\ UNCHANGED <<gTimers, due, milliseconds, combine>>

DropDisconnected ==
    /\ pc = "connection"
    /\ at <= Len(connections[iter])
    /\ state[connections[iter][at]] # "connected"
    /\ DeleteAt(at)
    /\ UNCHANGED <<since, alarm, passVars>>

\* the slot returned true: it wants to be called again
SlotKeeps ==
    /\ pc = "slot"
    /\ at' = at + 1
    /\ pc' = "connection"
    /\ UNCHANGED <<entryVars, state, since, alarm, iter, elapsed>>

\* the slot returned false
SlotLeaves ==
    /\ pc = "slot"
    /\ DeleteAt(at)
    /\ pc' = "connection"
    /\ UNCHANGED <<since, alarm, iter, at, elapsed>>

\* A slip: the entry is erased whether or not it is empty.
EndEntryErase ==
    /\ pc = "connection"
    /\ at > Len(connections[iter])
    /\ gTimers' = RemoveAt(gTimers, PlaceOf(iter))
    /\ iter' = NextEntry(iter)
    /\ at' = 1
    /\ elapsed' = 0
    /\ pc' = "entry"
    /\ UNCHANGED <<due, milliseconds, combine, connections, state, since, alarm>>

EndEntry ==
    /\ pc = "connection"
    /\ at > Len(connections[iter])
    /\ \/ /\ connections[iter] # <<>>
          /\ due' = [due EXCEPT ![iter] = milliseconds[iter] - elapsed]
          /\ UNCHANGED <<gTimers, milliseconds, combine, since>>
       \/ /\ connections[iter] = <<>>
          /\ gTimers' = RemoveAt(gTimers, PlaceOf(iter))
          /\ due' = [due EXCEPT ![iter] = 0]
          /\ milliseconds' = [milliseconds EXCEPT ![iter] = 0]
          /\ combine' = [combine EXCEPT ![iter] = FALSE]
          /\ since' = [since EXCEPT ![iter] = 0]
    /\ iter' = NextEntry(iter)
    /\ at' = 1
    /\ elapsed' = 0
    /\ pc' = "entry"
    /\ UNCHANGED <<connections, state, alarm>>

\* re-sort, and set the timer unless the list has become empty
OperatorReturn ==
    /\ pc = "entry"
    /\ ~EntryIsDue
    /\ gTimers' = SortedByDue(gTimers, due)
    /\ alarm' = IF gTimers = <<>> THEN alarm ELSE due[Head(gTimers')]
    /\ iter' = NoEntry
    /\ pc' = "idle"
    /\ UNCHANGED <<due, milliseconds, combine, connections, state, since, at,
                   elapsed>>

\* Time passes anywhere, a slot may be slow.  MaxLate bounds how late.
Tick ==
    /\ \A e \in Listed : due[e] > -MaxLate
    /\ pc \in {"connection", "slot"} => elapsed < MaxLate
    /\ due' = [c \in Conns |-> IF c \in Listed THEN due[c] - 1 ELSE due[c]]
    /\ alarm' = IF alarm > -MaxLate THEN alarm - 1 ELSE alarm
    /\ since' = [c \in Conns |-> IF c \in Listed /\ since[c] < MaxPeriod
                                THEN since[c] + 1 ELSE since[c]]
    /\ elapsed' = IF pc \in {"connection", "slot"} THEN elapsed + 1 ELSE elapsed
    /\ UNCHANGED <<gTimers, milliseconds, combine, connections, state, pc, iter,
                   at>>

OperatorStep ==
    \/ BeginEntry \/ CallSlot \/ DropDisconnected \/ SlotKeeps \/ SlotLeaves
    \/ EndEntry \/ OperatorReturn

Next ==
    \/ \E c \in Conns, m \in Periods, comb \in BOOLEAN : ConnectTo(c, m, comb)
    \/ \E c \in Conns : Disconnect(c)
    \/ TimerEvent \/ TimerEventEmpty
    \/ OperatorStep
    \/ Tick

Spec == Init /\ [][Next]_vars

\* Time passes, slots return, and an alarm that has gone off reaches the loop
\* as an event (what TimerThread promises, and EventLoop delivers).
Fairness ==
    /\ WF_vars(Tick)
    /\ WF_vars(OperatorStep)
    /\ WF_vars(alarm <= 0 /\ TimerEvent)

FairSpec == Spec /\ Fairness

-----------------------------------------------------------------------------
\* Outside operator() the list is in the order of timeToExecute and the alarm
\* stands at its front, whoever connected what in the meantime.
AlarmIsFront ==
    pc = "idle" /\ gTimers # <<>> =>
        /\ alarm = due[Head(gTimers)]
        /\ \A i, j \in DOMAIN gTimers : i < j => due[gTimers[i]] <= due[gTimers[j]]

\* A connection that nobody disconnected is in exactly one entry of the list,
\* once: no callback is dropped or doubled while the list changes under the
\* iteration.
ConnectedIsListed ==
    \A c \in Conns : state[c] = "connected" =>
        \E e \in Listed : \E i \in DOMAIN connections[e] :
            /\ connections[e][i] = c
            /\ \A f \in Listed : \A j \in DOMAIN connections[f] :
                   connections[f][j] = c => f = e /\ j = i

\* There is never more than one combined entry of a period, so timers that
\* may fire together do.
OneCombinedEntry ==
    \A i, j \in DOMAIN gTimers :
        /\ combine[gTimers[i]] /\ combine[gTimers[j]]
        /\ milliseconds[gTimers[i]] = milliseconds[gTimers[j]]
        => i = j

\* The list is in order, whole, and combined as far as it can be.
ListInv == TypeOK /\ AlarmIsFront /\ ConnectedIsListed /\ OneCombinedEntry

\* "If you expect the timer to fire at the specified aMilliseconds duration
\* from connection time then aCombine should be set to false"
\* (src/Zhen/GeneralTimer.cpp:86): an entry begins no earlier than its period
\* after it was made or began last, less the 10 ms.
PeriodKept == [][BeginEntry => since[iter] >= milliseconds[iter] - Grace]_vars

\* Every connected slot is called again and again until it leaves.
KeepsFiring ==
    \A c \in Conns :
        (state[c] = "connected")
            ~> (state[c] # "connected" \/ (pc = "slot" /\ connections[iter][at] = c))

=============================================================================
