--------------------------- MODULE ProfilesProofs ---------------------------
(***************************************************************************)
(* Proofs about the profiles: the Apple notification client, the Kanban     *)
(* server, the pages that connect and the remote control.  Each is a        *)
(* specification of its own; they share no variable.                        *)
(***************************************************************************)
EXTENDS MCProfiles, SequenceLemmas, FiniteSetTheorems

(***************************************************************************)
(* The Apple notification client: its queue of commands.                    *)
(***************************************************************************)
Writes == [what : Commands, overtaken : BOOLEAN]
CommandQueues ==
    [queue : Seq(Commands), executing : BOOLEAN, registered : BOOLEAN, timer : BOOLEAN,
     writes : Seq(Writes), configured : SUBSET Configs, handles : BOOLEAN]

\* One write at most is waited for, and then m_cmdExecuting says so.
WaitsForOne(g) ==
    \A i, j \in DOMAIN g.writes :
        ~g.writes[i].overtaken /\ ~g.writes[j].overtaken => i = j /\ g.executing

QueueWhole(g) ==
    /\ g \in CommandQueues
    /\ g.queue # <<>> => g.timer
    /\ WaitsForOne(g)

\* Nothing is under way that is waited for, so the front may run.
LEMMA FrontKeepsWhole ==
  ASSUME NEW g, QueueWhole(g), g.queue # <<>>, ~g.executing
  PROVE  QueueWhole(RunFront(g))
<1> DEFINE h == [g EXCEPT !.queue = Tail(@), !.executing = TRUE,
                          !.registered = @ \/ Head(g.queue) = "notify"]
           cmd == Head(g.queue)
           w == [what |-> cmd, overtaken |-> FALSE]
           u == Append(g.writes, w)
           n == Len(g.writes)
<1>1. g \in CommandQueues /\ g.timer
  BY DEF QueueWhole
<1>2. cmd \in Commands /\ Tail(g.queue) \in Seq(Commands)
  BY <1>1, HeadTailProperties DEF CommandQueues
<1>3. h \in CommandQueues /\ h.timer /\ h.executing /\ h.writes = g.writes
  BY <1>1, <1>2 DEF CommandQueues
<1>4. g.writes \in Seq(Writes) /\ n \in Nat /\ DOMAIN g.writes = 1 .. n
  BY <1>1, LenProperties DEF CommandQueues
<1>5. \A i \in 1 .. n : g.writes[i].overtaken
  <2>1. \A i \in 1 .. n : g.writes[i] \in Writes
    BY <1>4, ElementOfSeq
  <2>2. \A i \in 1 .. n : g.writes[i].overtaken \in BOOLEAN
    BY <2>1 DEF Writes
  <2>3. QED
    BY <1>4, <2>2 DEF QueueWhole, WaitsForOne
<1>6. w \in Writes /\ ~w.overtaken
  BY <1>2 DEF Writes
<1>7. u \in Seq(Writes) /\ Len(u) = n + 1 /\ u[n + 1] = w /\ \A i \in 1 .. n : u[i] = g.writes[i]
  <2> HIDE DEF w
  <2>1. QED
    BY <1>4, <1>6, AppendProperties
<1>8. DOMAIN u = 1 .. n + 1
  BY <1>7, LenProperties
<1>9. \A i, j \in DOMAIN u : ~u[i].overtaken /\ ~u[j].overtaken => i = j
  <2> HIDE DEF u, w
  <2>1. \A i \in 1 .. n + 1 : ~u[i].overtaken => i = n + 1
    BY <1>4, <1>5, <1>7
  <2>2. QED
    BY <1>8, <2>1
<1>10. CASE ~ancsLink.up
  <2>1. RunFront(g) = h
    BY <1>10 DEF RunFront, Write
  <2>2. \A i, j \in DOMAIN h.writes : ~(~h.writes[i].overtaken /\ ~h.writes[j].overtaken)
    <3> HIDE DEF h
    <3>1. QED
      BY <1>3, <1>4, <1>5
  <2>3. WaitsForOne(h)
    BY <2>2 DEF WaitsForOne
  <2> HIDE DEF h
  <2>4. QED
    BY <1>3, <2>1, <2>3 DEF QueueWhole
<1>11. CASE ancsLink.up
  <2> DEFINE r == RunFront(g)
             c == r.configured
  <2>1. r = [h EXCEPT !.writes = Append(@, [what |-> cmd, overtaken |-> FALSE]),
                      !.configured = IF h.handles
                                     THEN @ \cup (CASE cmd = "byHand" -> {"notify"}
                                                    [] OTHER -> {cmd} \cap Configs)
                                     ELSE @]
    BY <1>11 DEF RunFront, Write
  <2>2. (CASE cmd = "byHand" -> {"notify"} [] OTHER -> {cmd} \cap Configs) \subseteq Configs
    BY DEF Configs
  <2> HIDE DEF h, r, cmd
  <2>3. r.writes = Append(h.writes, w) /\ r.executing = h.executing /\ r.timer = h.timer
    BY <1>3, <2>1 DEF CommandQueues
  <2>4. r.writes = u
    BY <1>3, <2>3
  <2>5. r \in CommandQueues
    <3> HIDE DEF u
    <3>1. h.configured \subseteq Configs
      BY <1>3 DEF CommandQueues
    <3>2. c \subseteq Configs
      BY <1>3, <2>1, <2>2, <3>1 DEF CommandQueues
    <3>3. r = [h EXCEPT !.writes = u, !.configured = c]
      <4>1. r = [h EXCEPT !.writes = r.writes, !.configured = c]
        BY <1>3, <2>1 DEF CommandQueues
      <4>2. QED
        BY <2>4, <4>1
    <3> HIDE DEF c
    <3>4. QED
      BY <1>3, <1>7, <3>2, <3>3 DEF CommandQueues
  <2>6. WaitsForOne(r)
    <3> HIDE DEF u
    <3>1. QED
      BY <1>3, <1>9, <2>3, <2>4 DEF WaitsForOne
  <2>7. QED
    BY <1>3, <2>3, <2>5, <2>6 DEF QueueWhole, r
<1>12. QED
  BY <1>10, <1>11

LEMMA NextKeepsWhole ==
  ASSUME NEW g, QueueWhole(g)
  PROVE  QueueWhole(HandelNextGattCommand(g))
<1>1. CASE g.queue = <<>>
  <2> DEFINE h == [g EXCEPT !.timer = FALSE]
  <2>1. h \in CommandQueues /\ h.queue = <<>> /\ h.writes = g.writes /\ h.executing = g.executing
    BY <1>1 DEF QueueWhole, CommandQueues
  <2> HIDE DEF h
  <2>2. QueueWhole(h)
    BY <2>1 DEF QueueWhole, WaitsForOne
  <2>3. QED
    BY <1>1, <2>2 DEF HandelNextGattCommand, h
<1>2. CASE g.queue # <<>> /\ g.executing
  BY <1>2 DEF HandelNextGattCommand
<1>3. CASE g.queue # <<>> /\ ~g.executing
  BY <1>3, FrontKeepsWhole DEF HandelNextGattCommand
<1>4. QED
  BY <1>1, <1>2, <1>3

LEMMA EnqueueKeepsWhole ==
  ASSUME NEW g, QueueWhole(g), NEW cmd \in Commands, NEW postToLast \in BOOLEAN
  PROVE  QueueWhole(EnqueueCommandTask(g, cmd, postToLast))
<1> DEFINE s == IF postToLast THEN Append(g.queue, cmd) ELSE <<cmd>> \o g.queue
           q == [g EXCEPT !.timer = TRUE, !.queue = s]
<1>1. g \in CommandQueues /\ g.queue \in Seq(Commands)
  BY DEF QueueWhole, CommandQueues
<1>2. s \in Seq(Commands)
  <2>1. Append(g.queue, cmd) \in Seq(Commands)
    BY <1>1, AppendProperties
  <2>2. <<cmd>> \in Seq(Commands)
    OBVIOUS
  <2>3. <<cmd>> \o g.queue \in Seq(Commands)
    BY <1>1, <2>2, ConcatProperties
  <2>4. QED
    BY <2>1, <2>3
<1> HIDE DEF s
<1>3. q \in CommandQueues /\ q.timer /\ q.writes = g.writes /\ q.executing = g.executing
  BY <1>1, <1>2 DEF CommandQueues
<1> HIDE DEF q
<1>4. QueueWhole(q)
  BY <1>3 DEF QueueWhole, WaitsForOne
<1>5. EnqueueCommandTask(g, cmd, postToLast)
        = IF q.registered /\ ~q.executing THEN HandelNextGattCommand(q) ELSE q
  <2>1. [g EXCEPT !.timer = TRUE,
                  !.queue = IF postToLast THEN Append(@, cmd) ELSE <<cmd>> \o @] = q
    BY DEF q, s
  <2>2. QED
    BY <2>1 DEF EnqueueCommandTask
<1>6. QED
  BY <1>4, <1>5, NextKeepsWhole

\* m_cmdExecuting is cleared: nothing is waited for.
LEMMA OvertakeKeepsWhole ==
  ASSUME NEW g \in CommandQueues, g.queue # <<>> => g.timer
  PROVE  QueueWhole(Overtake(g))
<1> DEFINE n == Len(g.writes)
           u == [i \in DOMAIN g.writes |-> [g.writes[i] EXCEPT !.overtaken = TRUE]]
           h == [g EXCEPT !.executing = FALSE, !.writes = u]
<1>1. g.writes \in Seq(Writes) /\ n \in Nat /\ DOMAIN g.writes = 1 .. n
  BY LenProperties DEF CommandQueues
<1>2. \A i \in 1 .. n : g.writes[i] \in Writes
  BY <1>1, ElementOfSeq
<1>3. \A i \in 1 .. n : /\ [g.writes[i] EXCEPT !.overtaken = TRUE] \in Writes
                        /\ [g.writes[i] EXCEPT !.overtaken = TRUE].overtaken
  BY <1>2 DEF Writes
<1>4. u \in [1 .. n -> Writes] /\ \A i \in 1 .. n : u[i].overtaken
  BY <1>1, <1>3
<1>5. u \in Seq(Writes)
  <2> HIDE DEF u, n
  <2>1. QED
    BY <1>1, <1>4, FunctionIsList
<1>6. DOMAIN u = 1 .. n
  BY <1>1
<1>7. Overtake(g) = h
  BY DEF Overtake
<1> HIDE DEF u
<1>8. h \in CommandQueues /\ h.writes = u /\ h.queue = g.queue /\ h.timer = g.timer
  BY <1>5 DEF CommandQueues
<1> HIDE DEF h
<1>9. WaitsForOne(h)
  BY <1>4, <1>6, <1>8 DEF WaitsForOne
<1>10. QED
  BY <1>7, <1>8, <1>9 DEF QueueWhole

\* What a connection, a loss and the found handles change of the record.
LEMMA FieldsKeepWhole ==
  ASSUME NEW g, QueueWhole(g)
  PROVE  /\ QueueWhole([g EXCEPT !.configured = {}])
         /\ QueueWhole([g EXCEPT !.writes = <<>>])
         /\ QueueWhole([g EXCEPT !.handles = TRUE])
         /\ QueueWhole([g EXCEPT !.registered = TRUE])
<1>1. g \in CommandQueues
  BY DEF QueueWhole
<1>2. QueueWhole([g EXCEPT !.configured = {}])
  <2> DEFINE h == [g EXCEPT !.configured = {}]
  <2>1. h \in CommandQueues /\ h.queue = g.queue /\ h.timer = g.timer /\ h.writes = g.writes
        /\ h.executing = g.executing
    BY <1>1 DEF CommandQueues
  <2> HIDE DEF h
  <2>2. QueueWhole(h)
    BY <2>1 DEF QueueWhole, WaitsForOne
  <2>3. QED
    BY <2>2 DEF h
<1>3. QueueWhole([g EXCEPT !.writes = <<>>])
  <2> DEFINE h == [g EXCEPT !.writes = <<>>]
  <2>0. <<>> \in Seq(Writes)
    OBVIOUS
  <2>1. h \in CommandQueues /\ h.queue = g.queue /\ h.timer = g.timer /\ h.writes = <<>>
    BY <1>1, <2>0 DEF CommandQueues
  <2> HIDE DEF h
  <2>2. QueueWhole(h)
    BY <2>1 DEF QueueWhole, WaitsForOne
  <2>3. QED
    BY <2>2 DEF h
<1>4. QueueWhole([g EXCEPT !.handles = TRUE])
  <2> DEFINE h == [g EXCEPT !.handles = TRUE]
  <2>1. h \in CommandQueues /\ h.queue = g.queue /\ h.timer = g.timer /\ h.writes = g.writes
        /\ h.executing = g.executing
    BY <1>1 DEF CommandQueues
  <2> HIDE DEF h
  <2>2. QueueWhole(h)
    BY <2>1 DEF QueueWhole, WaitsForOne
  <2>3. QED
    BY <2>2 DEF h
<1>5. QueueWhole([g EXCEPT !.registered = TRUE])
  <2> DEFINE h == [g EXCEPT !.registered = TRUE]
  <2>1. h \in CommandQueues /\ h.queue = g.queue /\ h.timer = g.timer /\ h.writes = g.writes
        /\ h.executing = g.executing
    BY <1>1 DEF CommandQueues
  <2> HIDE DEF h
  <2>2. QueueWhole(h)
    BY <2>1 DEF QueueWhole, WaitsForOne
  <2>3. QED
    BY <2>2 DEF h
<1>6. QED
  BY <1>2, <1>3, <1>4, <1>5

(* The page's invariant.  A search and two reads at most for each of the    *)
(* connections made: those bound what the stack still has to answer.        *)
AncsLinkInv ==
    /\ m_interfaceNumber \in {0, 1}
    /\ ancsLink \in [id : 0 .. MaxLinks, up : BOOLEAN]
    /\ discoveries \in Nat /\ searches \in Nat /\ reads \in Nat
    /\ 2 * (discoveries + searches) + reads <= 2 * ancsLink.id

AncsListInv ==
    /\ asked \subseteq {"detail", "name"}
    /\ named \in BOOLEAN /\ ancsFresh \in BOOLEAN
    /\ m_detailMessages \in Seq(AncsUids) /\ UidListedOnce
    /\ m_currentNotifyIndex \in Nat
    /\ m_currentNotifyIndex = 0 \/ m_currentNotifyIndex < Len(m_detailMessages)
    /\ offered = UpdateNextPreActionVisiable(Len(m_detailMessages), m_currentNotifyIndex)

AncsIInv == AncsLinkInv /\ QueueWhole(gatt) /\ AncsListInv

LEMMA AncsInvAtStart == AncsInit => AncsIInv
<1> SUFFICES ASSUME AncsInit
             PROVE  AncsIInv
  OBVIOUS
<1> USE AncsAssumption
<1>0. <<>> \in Seq(Commands) /\ <<>> \in Seq(Writes) /\ <<>> \in Seq(AncsUids)
  OBVIOUS
<1>1. 0 \in 0 .. MaxLinks
  OBVIOUS
<1>2. AncsLinkInv
  BY <1>1 DEF AncsInit, AncsLinkInv
<1>3. gatt \in CommandQueues
  BY <1>0 DEF AncsInit, GattStart, CommandQueues
<1>4. QueueWhole(gatt)
  BY <1>3 DEF AncsInit, GattStart, QueueWhole, WaitsForOne
<1>5. Len(m_detailMessages) = 0 /\ IsInjective(m_detailMessages)
  BY DEF AncsInit, IsInjective
<1>6. AncsListInv
  <2>1. offered = UpdateNextPreActionVisiable(Len(m_detailMessages), m_currentNotifyIndex)
    <3>1. \A i : UpdateNextPreActionVisiable(0, i) = {}
      BY DEF UpdateNextPreActionVisiable
    <3>2. QED
      BY <1>5, <3>1 DEF AncsInit
  <2>2. QED
    BY <1>0, <1>5, <2>1 DEF AncsInit, AncsListInv, UidListedOnce
<1>7. QED
  BY <1>2, <1>4, <1>6 DEF AncsIInv

LEMMA AncsLinkStep == AncsLinkInv /\ [AncsNext]_ancsVars => AncsLinkInv'
<1> SUFFICES ASSUME AncsLinkInv, [AncsNext]_ancsVars
             PROVE  AncsLinkInv'
  OBVIOUS
<1> USE AncsAssumption
<1>0. MaxLinks \in Nat /\ ancsLink.id \in 0 .. MaxLinks
  BY DEF AncsLinkInv
<1>1. CASE HandleClientRegistered
  BY <1>1 DEF AncsLinkInv, HandleClientRegistered
<1>2. CASE AncsConnected
  <2>1. ancsLink.id + 1 \in 0 .. MaxLinks
    BY <1>0, <1>2 DEF AncsConnected
  <2>2. ancsLink' \in [id : 0 .. MaxLinks, up : BOOLEAN] /\ ancsLink'.id = ancsLink.id + 1
    BY <1>2, <2>1 DEF AncsConnected
  <2>3. QED
    BY <1>0, <1>2, <2>2 DEF AncsLinkInv, AncsConnected
<1>3. CASE AncsDisconnected
  <2>1. ancsLink' \in [id : 0 .. MaxLinks, up : BOOLEAN] /\ ancsLink'.id = ancsLink.id
    BY <1>3 DEF AncsDisconnected, AncsLinkInv
  <2>2. CASE UNCHANGED <<gatt, searches, reads>>
    BY <1>0, <1>3, <2>1, <2>2 DEF AncsLinkInv, AncsDisconnected
  <2>3. CASE searches' = 0 /\ reads' = 0
    BY <1>0, <1>3, <2>1, <2>3 DEF AncsLinkInv, AncsDisconnected
  <2>4. QED
    BY <1>3, <2>2, <2>3 DEF AncsDisconnected
<1>4. CASE HandleDiscoveryANCSService
  BY <1>0, <1>4 DEF AncsLinkInv, HandleDiscoveryANCSService
<1>5. CASE HandleServiceDetailSearched
  BY <1>0, <1>5 DEF AncsLinkInv, HandleServiceDetailSearched
<1>6. CASE HandleDescriptorReadCompleted
  BY <1>0, <1>6 DEF AncsLinkInv, HandleDescriptorReadCompleted
<1>7. CASE UNCHANGED ancsStackVars
  BY <1>7 DEF AncsLinkInv, ancsStackVars
<1>8. QED
  BY <1>1, <1>2, <1>3, <1>4, <1>5, <1>6, <1>7
     DEF AncsNext, ancsVars, ancsStackVars, HandleCharacteristicWriteCompleted,
         HandleClientCallbackMessage, TimerTick, ConfigureANCSNotification, RetrieveDetailMassge, ParseDataSource,
         ParseApplicationAttribute, Turn, UpdateStatusContent

LEMMA AncsQueueStep == QueueWhole(gatt) /\ [AncsNext]_ancsVars => QueueWhole(gatt)'
<1> SUFFICES ASSUME QueueWhole(gatt), [AncsNext]_ancsVars
             PROVE  QueueWhole(gatt)'
  OBVIOUS
<1>1. (gatt' = gatt \/ QueueWhole(gatt')) => QueueWhole(gatt)'
  BY DEF QueueWhole, WaitsForOne
<1>2. Configs \subseteq Commands /\ {"byHand", "detail", "name"} \subseteq Commands
  BY DEF Commands, Configs
<1>3. gatt \in CommandQueues /\ (gatt.queue # <<>> => gatt.timer)
  BY DEF QueueWhole
<1>4. CASE AncsConnected
  BY <1>1, <1>4, FieldsKeepWhole DEF AncsConnected
<1>5. CASE AncsDisconnected
  BY <1>1, <1>5, FieldsKeepWhole DEF AncsDisconnected
<1>6. CASE HandleServiceDetailSearched
  <2> DEFINE g == [gatt EXCEPT !.handles = TRUE]
             h == EnqueueCommandTask(g, "notify", FALSE)
  <2>1. QueueWhole(g)
    BY FieldsKeepWhole
  <2>2. "notify" \in Commands /\ "data" \in Commands
    BY DEF Commands, Configs
  <2> HIDE DEF g
  <2>3. QueueWhole(h)
    BY <2>1, <2>2, EnqueueKeepsWhole
  <2> HIDE DEF h
  <2>4. QueueWhole(EnqueueCommandTask(h, "data", FALSE))
    BY <2>2, <2>3, EnqueueKeepsWhole
  <2>5. gatt' = EnqueueCommandTask(h, "data", FALSE)
    BY <1>6 DEF HandleServiceDetailSearched, h, g
  <2>6. QED
    BY <1>1, <2>4, <2>5
<1>7. CASE HandleDescriptorReadCompleted
  BY <1>1, <1>3, <1>7, OvertakeKeepsWhole DEF HandleDescriptorReadCompleted
<1>8. CASE HandleCharacteristicWriteCompleted
  <2> DEFINE g == [gatt EXCEPT !.writes = Tail(@)]
  <2>1. gatt.writes \in Seq(Writes) /\ gatt.writes # <<>>
    BY <1>3, <1>8 DEF HandleCharacteristicWriteCompleted, CommandQueues
  <2>2. Tail(gatt.writes) \in Seq(Writes)
    BY <2>1, HeadTailProperties
  <2>3. g \in CommandQueues /\ (g.queue # <<>> => g.timer)
    BY <1>3, <2>2 DEF CommandQueues
  <2>4. gatt' = Overtake(g)
    BY <1>8 DEF HandleCharacteristicWriteCompleted
  <2> HIDE DEF g
  <2>5. QED
    BY <1>1, <2>3, <2>4, OvertakeKeepsWhole
<1>9. CASE TimerTick
  BY <1>1, <1>9, NextKeepsWhole DEF TimerTick
<1>10. CASE ConfigureANCSNotification
  <2> DEFINE g == EnqueueCommandTask(gatt, "byHand", FALSE)
             h == EnqueueCommandTask(g, "data", FALSE)
  <2>1. "byHand" \in Commands /\ "data" \in Commands
    BY DEF Commands, Configs
  <2>2. QueueWhole(g)
    BY <2>1, EnqueueKeepsWhole
  <2> HIDE DEF g
  <2>3. QueueWhole(h)
    BY <2>1, <2>2, EnqueueKeepsWhole
  <2>4. gatt' = [h EXCEPT !.registered = TRUE]
    BY <1>10 DEF ConfigureANCSNotification, g
  <2> HIDE DEF h
  <2>5. QED
    BY <1>1, <2>3, <2>4, FieldsKeepWhole
<1>11. CASE RetrieveDetailMassge
  BY <1>1, <1>2, <1>11, EnqueueKeepsWhole DEF RetrieveDetailMassge
<1>12. CASE UpdateStatusContent
  BY <1>1, <1>2, <1>12, EnqueueKeepsWhole DEF UpdateStatusContent
<1>13. CASE HandleClientCallbackMessage
  BY <1>1, <1>3, <1>13, OvertakeKeepsWhole DEF HandleClientCallbackMessage
<1>14. CASE UNCHANGED gatt
  BY <1>1, <1>14
<1>15. QED
  BY <1>4, <1>5, <1>6, <1>7, <1>8, <1>9, <1>10, <1>11, <1>12, <1>13, <1>14
     DEF AncsNext, ancsVars, HandleClientRegistered, HandleDiscoveryANCSService, ParseDataSource,
         ParseApplicationAttribute, Turn

LEMMA AncsListStep == AncsListInv /\ QueueWhole(gatt) /\ [AncsNext]_ancsVars => AncsListInv'
<1> SUFFICES ASSUME AncsListInv, QueueWhole(gatt), [AncsNext]_ancsVars
             PROVE  AncsListInv'
  OBVIOUS
<1> DEFINE n == Len(m_detailMessages)
<1>0. n \in Nat /\ DOMAIN m_detailMessages = 1 .. n
  BY LenProperties DEF AncsListInv
<1>1. ASSUME NEW uid \in AncsUids, ParseDataSource(uid)
      PROVE  AncsListInv'
  <2>1. CASE uid \in ToSet(m_detailMessages)
    <3>1. m_detailMessages' = m_detailMessages
      BY <1>1, <2>1 DEF ParseDataSource, Listed
    <3>2. QED
      BY <1>1, <3>1 DEF AncsListInv, ParseDataSource, UidListedOnce
  <2>2. CASE uid \notin ToSet(m_detailMessages)
    <3>1. m_detailMessages' = Append(m_detailMessages, uid)
      BY <1>1, <2>2 DEF ParseDataSource, Listed
    <3>2. uid \notin Range(m_detailMessages)
      BY <2>2 DEF ToSet, Range
    <3>3. Append(m_detailMessages, uid) \in Seq(AncsUids)
          /\ Len(Append(m_detailMessages, uid)) = n + 1
          /\ IsInjective(Append(m_detailMessages, uid))
      BY <3>2, AppendKeepsOnce, AppendProperties DEF AncsListInv, UidListedOnce
    <3>4. m_detailMessages' \in Seq(AncsUids) /\ Len(m_detailMessages') = n + 1
          /\ IsInjective(m_detailMessages')
      BY <3>1, <3>3
    <3>5. UidListedOnce'
      BY <3>4 DEF UidListedOnce
    <3>6. QED
      BY <1>0, <1>1, <3>4, <3>5 DEF AncsListInv, ParseDataSource
  <2>3. QED
    BY <2>1, <2>2
<1>2. ASSUME NEW action, Turn(action)
      PROVE  AncsListInv'
  <2>1. m_currentNotifyIndex' \in Nat
        /\ (m_currentNotifyIndex' = 0 \/ m_currentNotifyIndex' < n)
    BY <1>0, <1>2 DEF AncsListInv, Turn
  <2>2. QED
    BY <1>2, <2>1 DEF AncsListInv, Turn, UidListedOnce
<1>3. CASE ParseApplicationAttribute
  BY <1>3 DEF AncsListInv, ParseApplicationAttribute, UidListedOnce
<1>4. CASE HandleCharacteristicWriteCompleted
  <2>1. Commands \ (Configs \cup {"byHand"}) \subseteq {"detail", "name"}
    BY DEF Commands, Configs
  <2>2. gatt.writes \in Seq(Writes) /\ gatt.writes # <<>>
    BY <1>4 DEF HandleCharacteristicWriteCompleted, QueueWhole, CommandQueues
  <2>3. Head(gatt.writes) \in Writes
    BY <2>2, HeadTailProperties
  <2>4. Head(gatt.writes).what \in Commands
    BY <2>3 DEF Writes
  <2>5. asked' \subseteq {"detail", "name"}
    BY <1>4, <2>1, <2>4 DEF AncsListInv, HandleCharacteristicWriteCompleted
  <2>6. QED
    BY <1>4, <2>5 DEF AncsListInv, HandleCharacteristicWriteCompleted, ancsPageVars, UidListedOnce
<1>5. CASE UNCHANGED <<asked, ancsPageVars>> /\ ancsFresh' \in BOOLEAN
  BY <1>5 DEF AncsListInv, ancsPageVars, UidListedOnce
<1>6. CASE AncsDisconnected
  BY <1>6 DEF AncsListInv, AncsDisconnected, ancsPageVars, UidListedOnce
<1>7. CASE UNCHANGED ancsVars
  BY <1>7 DEF AncsListInv, ancsVars, UidListedOnce
<1>8. CASE \/ HandleClientRegistered \/ AncsConnected
           \/ HandleDiscoveryANCSService \/ HandleServiceDetailSearched
           \/ HandleDescriptorReadCompleted \/ HandleClientCallbackMessage \/ TimerTick
           \/ ConfigureANCSNotification \/ RetrieveDetailMassge \/ UpdateStatusContent
  <2>1. UNCHANGED <<asked, ancsPageVars>>
    BY <1>8 DEF HandleClientRegistered, AncsConnected, HandleDiscoveryANCSService,
         HandleServiceDetailSearched, HandleDescriptorReadCompleted, HandleClientCallbackMessage,
         TimerTick, ConfigureANCSNotification, RetrieveDetailMassge, UpdateStatusContent
  <2>2. ancsFresh' \in {ancsFresh, TRUE, FALSE, ancsFresh \/ NotifyIsNext,
                        ancsFresh \/ (gatt.registered /\ NotifyIsNext)}
    BY <1>8 DEF HandleClientRegistered, AncsConnected, HandleDiscoveryANCSService,
         HandleServiceDetailSearched, HandleDescriptorReadCompleted, HandleClientCallbackMessage,
         TimerTick, ConfigureANCSNotification, RetrieveDetailMassge, UpdateStatusContent
  <2>3. ancsFresh' \in BOOLEAN
    BY <2>2, ZenonT(30) DEF AncsListInv
  <2>4. QED
    BY <1>5, <2>1, <2>3
<1>9. QED
  BY <1>1, <1>2, <1>3, <1>4, <1>6, <1>7, <1>8 DEF AncsNext

LEMMA TurnsFollow ==
  AncsListInv => TurnsAreOffered
<1> SUFFICES ASSUME AncsListInv
             PROVE  TurnsAreOffered
  OBVIOUS
<1> DEFINE n == Len(m_detailMessages)
           i == m_currentNotifyIndex
<1>1. n \in Nat /\ i \in Nat /\ (i = 0 \/ i < n)
  BY LenProperties DEF AncsListInv
<1>2. offered = IF n <= 1 THEN {} ELSE IF i + 1 = n THEN {"previous"}
                ELSE IF i = 0 THEN {"next"} ELSE {"next", "previous"}
  BY DEF AncsListInv, UpdateNextPreActionVisiable
<1> HIDE DEF n, i
<1>3. ("next" \in offered <=> i + 1 < n) /\ ("previous" \in offered <=> i > 0)
  BY <1>1, <1>2
<1>4. QED
  BY <1>3 DEF TurnsAreOffered, n, i

LEMMA AncsTypes == AncsIInv => AncsTypeOK
<1> SUFFICES ASSUME AncsIInv
             PROVE  AncsTypeOK
  OBVIOUS
<1> USE AncsAssumption
<1>1. gatt \in CommandQueues /\ (gatt.queue # <<>> => gatt.timer)
  BY DEF AncsIInv, QueueWhole
<1>2. /\ gatt.queue \in Seq(Commands) /\ gatt.configured \subseteq Configs
      /\ gatt.writes \in Seq(Writes)
  BY <1>1 DEF CommandQueues
<1>3. \A f \in {"executing", "registered", "timer", "handles"} : gatt[f] \in BOOLEAN
  BY <1>1 DEF CommandQueues
<1>4. /\ MaxLinks \in Nat /\ ancsLink.id \in 0 .. MaxLinks
      /\ ancsLink \in [id : 0 .. MaxLinks, up : BOOLEAN] /\ m_interfaceNumber \in {0, 1}
  BY DEF AncsIInv, AncsLinkInv
<1>5. discoveries \in 0 .. MaxLinks /\ searches \in 0 .. MaxLinks /\ reads \in 0 .. 2 * MaxLinks
  BY <1>4 DEF AncsIInv, AncsLinkInv
<1>6. /\ asked \subseteq {"detail", "name"} /\ {named, ancsFresh} \subseteq BOOLEAN
      /\ m_detailMessages \in Seq(AncsUids) /\ m_currentNotifyIndex \in Nat
  BY DEF AncsIInv, AncsListInv
<1>7. m_detailMessages # <<>> => m_currentNotifyIndex < Len(m_detailMessages)
  <2>1. m_detailMessages # <<>> => Len(m_detailMessages) \in Nat \ {0}
    BY <1>6, LenProperties, EmptySeq
  <2>2. QED
    BY <1>6, <2>1 DEF AncsIInv, AncsListInv
<1>8. QED
  BY <1>1, <1>2, <1>3, <1>4, <1>5, <1>6, <1>7 DEF AncsTypeOK, Writes

\* A command is written only when the one before it has been answered, unless
\* an answer to something else cleared m_cmdExecuting in between; and what
\* waits has a timer that will run it (PageAppleANCS::EnqueueCommandTask).
THEOREM OneCommandAtATime == AncsSpec => []CommandsOneByOne
<1>1. AncsIInv /\ [AncsNext]_ancsVars => AncsIInv'
  BY AncsLinkStep, AncsQueueStep, AncsListStep DEF AncsIInv
<1>2. AncsIInv => CommandsOneByOne
  BY DEF AncsIInv, QueueWhole, WaitsForOne, CommandsOneByOne
<1>3. QED
  BY AncsInvAtStart, <1>1, <1>2, PTL DEF AncsSpec

\* A waiting command has a timer, a notification is listed once, and the
\* offered turns are those there are (PageAppleANCS::ParseDataSource,
\* UpdateNextPreActionVisiable).
THEOREM NoticesAreListed == AncsSpec => [](AncsTypeOK /\ UidListedOnce /\ TurnsAreOffered)
<1>1. AncsIInv /\ [AncsNext]_ancsVars => AncsIInv'
  BY AncsLinkStep, AncsQueueStep, AncsListStep DEF AncsIInv
<1>2. AncsIInv => AncsTypeOK /\ UidListedOnce /\ TurnsAreOffered
  BY AncsTypes, TurnsFollow DEF AncsIInv, AncsListInv
<1>3. QED
  BY AncsInvAtStart, <1>1, <1>2, PTL DEF AncsSpec

(***************************************************************************)
(* The Kanban server: the list of clients and what the clients were told.   *)
(***************************************************************************)
Entries == [addr : KanbanClients, connected : BOOLEAN, enabled : SUBSET Features]
Belief == [enabled : SUBSET Features, screen : SUBSET BOOLEAN, at : Nat]
Beliefs == [KanbanClients -> Belief]

ListedOnce(c) == \A i, j \in 1 .. Len(c) : c[i].addr = c[j].addr => i = j

HasEntry(c, a) == \E i \in 1 .. Len(c) : c[i].addr = a

\* The list c agrees with what the clients believe, b: those of l are linked,
\* those of e came before the registration and have no entry.
Book(c, b, l, e) ==
    /\ c \in Seq(Entries) /\ ListedOnce(c)
    /\ b \in Beliefs
    /\ l \subseteq KanbanClients /\ e \subseteq l
    /\ \A i \in 1 .. Len(c) : /\ c[i].enabled = b[c[i].addr].enabled
                              /\ c[i].connected <=> c[i].addr \in l
    /\ \A a \in KanbanClients : ~HasEntry(c, a) => b[a].enabled = {} /\ (a \in l => a \in e)
    /\ \A a \in KanbanClients : a \notin l => b[a] = Stranger

LEMMA EntryPlace ==
  ASSUME NEW a, m_kanban_clients \in Seq(Entries)
  PROVE  /\ EntryOf(a) # 0 <=> HasEntry(m_kanban_clients, a)
         /\ EntryOf(a) # 0 => /\ EntryOf(a) \in 1 .. Len(m_kanban_clients)
                              /\ m_kanban_clients[EntryOf(a)].addr = a
<1> DEFINE T == {i \in 1 .. Len(m_kanban_clients) : m_kanban_clients[i].addr = a}
<1>1. EntryOf(a) = IF T # {} THEN Min(T) ELSE 0
  BY DEF EntryOf, SelectInSeq
<1>2. T # {} <=> HasEntry(m_kanban_clients, a)
  BY DEF HasEntry
<1>3. Len(m_kanban_clients) \in Nat
  BY LenProperties
<1>4. T \subseteq Nat
  BY <1>3
<1>5. T # {} => Min(T) \in T
  <2> SUFFICES ASSUME T # {}
               PROVE  Min(T) \in T
    OBVIOUS
  <2>1. \E x \in T : \A y \in T : x <= y
    <3> HIDE DEF T
    <3>1. QED
      BY <1>4, LeastNatural
  <2> HIDE DEF T
  <2>2. QED
    BY <2>1 DEF Min
<1>6. \A i \in T : i # 0 /\ i \in 1 .. Len(m_kanban_clients) /\ m_kanban_clients[i].addr = a
  BY <1>3
<1> HIDE DEF T
<1>7. QED
  BY <1>1, <1>2, <1>5, <1>6

LEMMA BookTypes ==
  ASSUME NEW c, NEW b, NEW l, NEW e, Book(c, b, l, e)
  PROVE  /\ Len(c) \in Nat /\ DOMAIN c = 1 .. Len(c)
         /\ \A i \in 1 .. Len(c) : /\ c[i] \in Entries
                                   /\ c[i].addr \in KanbanClients
                                   /\ c[i].connected \in BOOLEAN
                                   /\ c[i].enabled \in SUBSET Features
<1>1. c \in Seq(Entries)
  BY DEF Book
<1>2. \A i \in 1 .. Len(c) : c[i] \in Entries
  BY <1>1, ElementOfSeq
<1>3. QED
  BY <1>1, <1>2, LenProperties DEF Entries

\* A client that has an entry connects.
LEMMA BookMarks ==
  ASSUME NEW c, NEW b, NEW l, NEW e, Book(c, b, l, e),
         NEW a \in KanbanClients, NEW k \in 1 .. Len(c), c[k].addr = a
  PROVE  Book([c EXCEPT ![k].connected = TRUE], b, l \cup {a}, e)
<1> DEFINE d == [c EXCEPT ![k].connected = TRUE]
           n == Len(c)
<1>1. n \in Nat /\ DOMAIN c = 1 .. n /\ c \in Seq(Entries)
      /\ \A i \in 1 .. n : c[i] \in Entries
  BY BookTypes DEF Book
<1>2. [c[k] EXCEPT !.connected = TRUE] \in Entries
      /\ [c[k] EXCEPT !.connected = TRUE].addr = a
      /\ [c[k] EXCEPT !.connected = TRUE].enabled = c[k].enabled
      /\ [c[k] EXCEPT !.connected = TRUE].connected
  BY <1>1 DEF Entries
<1>3. d = [c EXCEPT ![k] = [c[k] EXCEPT !.connected = TRUE]]
  OBVIOUS
<1>4. d \in Seq(Entries) /\ Len(d) = n
  BY <1>1, <1>2, <1>3, ExceptSeq
<1>5. \A i \in 1 .. n : d[i] = IF i = k THEN [c[k] EXCEPT !.connected = TRUE] ELSE c[i]
  BY <1>1, <1>3
<1> HIDE DEF d
<1>6. \A i \in 1 .. n : d[i].addr = c[i].addr /\ d[i].enabled = c[i].enabled
  BY <1>2, <1>5
<1>7. \A i \in 1 .. n : d[i].connected <=> i = k \/ c[i].connected
  BY <1>2, <1>5
<1>8. \A i \in 1 .. n : c[i].addr = a <=> i = k
  BY DEF Book, ListedOnce
<1>9. ListedOnce(d)
  BY <1>4, <1>6 DEF Book, ListedOnce
<1>10. \A x : HasEntry(d, x) <=> HasEntry(c, x)
  BY <1>4, <1>6 DEF HasEntry
<1>11. \A i \in 1 .. n : d[i].enabled = b[d[i].addr].enabled
  BY <1>6 DEF Book
<1>12. \A i \in 1 .. n : d[i].connected <=> d[i].addr \in l \cup {a}
  BY <1>6, <1>7, <1>8 DEF Book
<1>13. \A x \in KanbanClients : ~HasEntry(c, x) => x # a
  BY DEF HasEntry
<1>14. QED
  <2>1. Book(d, b, l \cup {a}, e)
    BY <1>4, <1>9, <1>10, <1>11, <1>12, <1>13 DEF Book
  <2>2. QED
    BY <2>1 DEF d

\* A client that has none is added, connected or (one that was linked before
\* the registration) gone.
LEMMA BookAdds ==
  ASSUME NEW c, NEW b, NEW l, NEW e, Book(c, b, l, e),
         NEW a \in KanbanClients, ~HasEntry(c, a), NEW on \in BOOLEAN
  PROVE  LET d == Append(c, [addr |-> a, connected |-> on, enabled |-> {}])
             m == IF on THEN l \cup {a} ELSE l \ {a}
             f == IF on THEN e ELSE e \ {a}
             p == IF on THEN b ELSE [b EXCEPT ![a] = Stranger]
         IN  Book(d, p, m, f)
<1> DEFINE r == [addr |-> a, connected |-> on, enabled |-> {}]
           d == Append(c, r)
           n == Len(c)
           m == IF on THEN l \cup {a} ELSE l \ {a}
           f == IF on THEN e ELSE e \ {a}
           p == IF on THEN b ELSE [b EXCEPT ![a] = Stranger]
<1>1. n \in Nat /\ c \in Seq(Entries) /\ \A i \in 1 .. n : c[i].addr \in KanbanClients
  BY BookTypes DEF Book
<1>2. r \in Entries /\ r.addr = a /\ r.enabled = {} /\ (r.connected <=> on)
  BY DEF Entries
<1> HIDE DEF r
<1>3. d \in Seq(Entries) /\ Len(d) = n + 1 /\ d[n + 1] = r /\ \A i \in 1 .. n : d[i] = c[i]
  BY <1>1, <1>2, AppendProperties
<1> HIDE DEF d
<1>4. b \in Beliefs /\ b[a].enabled = {}
  BY DEF Book
<1>5. p \in Beliefs /\ p[a].enabled = {}
      /\ \A x \in KanbanClients : x # a => p[x] = b[x]
  <2>1. Stranger \in Belief /\ Stranger.enabled = {}
    BY DEF Stranger, Belief
  <2> HIDE DEF Stranger
  <2>2. QED
    BY <1>4, <2>1 DEF Beliefs
<1>6. ~on => p[a] = Stranger
  BY <1>4 DEF Beliefs
<1> HIDE DEF p
<1>7. \A i \in 1 .. n : c[i].addr # a
  BY DEF HasEntry
<1>8. \A i \in 1 .. n + 1 : (i \in 1 .. n /\ d[i] = c[i] /\ d[i].addr # a) \/ (i = n + 1 /\ d[i] = r)
  BY <1>1, <1>3, <1>7
<1>9. ListedOnce(d)
  <2>1. \A i, j \in 1 .. n + 1 : d[i].addr = d[j].addr => i = j
    BY <1>2, <1>8 DEF Book, ListedOnce
  <2>2. QED
    BY <1>3, <2>1 DEF ListedOnce
<1>10. \A x \in KanbanClients : ~HasEntry(d, x) => x # a /\ ~HasEntry(c, x)
  <2>1. \A i \in 1 .. n : i \in 1 .. n + 1
    BY <1>1
  <2>2. n + 1 \in 1 .. n + 1
    BY <1>1
  <2>3. QED
    BY <1>2, <1>3, <2>1, <2>2 DEF HasEntry
<1>11. \A i \in 1 .. n + 1 : d[i].enabled = p[d[i].addr].enabled
  <2> SUFFICES ASSUME NEW i \in 1 .. n + 1
               PROVE  d[i].enabled = p[d[i].addr].enabled
    OBVIOUS
  <2>1. CASE i \in 1 .. n /\ d[i] = c[i] /\ d[i].addr # a
    <3>1. c[i].addr \in KanbanClients /\ c[i].enabled = b[c[i].addr].enabled
      BY <1>1, <2>1 DEF Book
    <3>2. QED
      BY <1>5, <2>1, <3>1
  <2>2. CASE d[i] = r
    BY <1>2, <1>5, <2>2
  <2>3. QED
    BY <1>8, <2>1, <2>2
<1>12. \A i \in 1 .. n + 1 : d[i].connected <=> d[i].addr \in m
  BY <1>2, <1>8 DEF Book
<1>13. \A x \in KanbanClients : ~HasEntry(d, x) => p[x].enabled = {} /\ (x \in m => x \in f)
  BY <1>5, <1>10 DEF Book
<1>14. \A x \in KanbanClients : x \notin m => p[x] = Stranger
  <2>1. CASE on
    BY <2>1 DEF Book, p
  <2>2. CASE ~on
    BY <1>5, <1>6, <2>2 DEF Book
  <2>3. QED
    BY <2>1, <2>2
<1>15. m \subseteq KanbanClients /\ f \subseteq m
  BY DEF Book
<1>16. Book(d, p, m, f)
  BY <1>3, <1>5, <1>9, <1>11, <1>12, <1>13, <1>14, <1>15 DEF Book
<1>17. QED
  BY <1>16 DEF d, p, r

\* A client that has an entry goes: its entry is erased, and it forgets.
LEMMA BookErases ==
  ASSUME NEW c, NEW b, NEW l, NEW e, Book(c, b, l, e),
         NEW a \in KanbanClients, NEW k \in 1 .. Len(c), c[k].addr = a
  PROVE  Book(RemoveAt(c, k), [b EXCEPT ![a] = Stranger], l \ {a}, e \ {a})
<1> DEFINE d == RemoveAt(c, k)
           n == Len(c)
           old(j) == IF j < k THEN j ELSE j + 1
           p == [b EXCEPT ![a] = Stranger]
<1>1. n \in Nat /\ c \in Seq(Entries) /\ \A i \in 1 .. n : c[i].addr \in KanbanClients
  BY BookTypes DEF Book
<1>2. d \in Seq(Entries) /\ Len(d) = n - 1
      /\ \A j \in 1 .. n - 1 : d[j] = IF j < k THEN c[j] ELSE c[j + 1]
  BY <1>1, RemoveKeepsList
<1> HIDE DEF d
<1>3. \A j \in 1 .. n - 1 : old(j) \in 1 .. n /\ old(j) # k /\ d[j] = c[old(j)]
  BY <1>1, <1>2
<1>4. \A i, j \in 1 .. n - 1 : old(i) = old(j) => i = j
  BY <1>1
<1>5. \A i \in 1 .. n : i # k => \E j \in 1 .. n - 1 : old(j) = i
  <2> SUFFICES ASSUME NEW i \in 1 .. n, i # k
               PROVE  \E j \in 1 .. n - 1 : old(j) = i
    OBVIOUS
  <2>1. CASE i < k
    <3>1. i \in 1 .. n - 1 /\ old(i) = i
      BY <1>1, <2>1
    <3>2. QED
      BY <3>1
  <2>2. CASE i > k
    <3>1. i - 1 \in 1 .. n - 1 /\ old(i - 1) = i
      BY <1>1, <2>2
    <3>2. QED
      BY <3>1
  <2>3. QED
    BY <1>1, <2>1, <2>2
<1> HIDE DEF old
<1>6. \A i \in 1 .. n : c[i].addr = a <=> i = k
  BY DEF Book, ListedOnce
<1>7. \A j \in 1 .. n - 1 : d[j].addr # a
  BY <1>3, <1>6
<1>8. p \in Beliefs /\ p[a] = Stranger /\ Stranger.enabled = {}
      /\ \A x \in KanbanClients : x # a => p[x] = b[x]
  <2>1. Stranger \in Belief /\ Stranger.enabled = {}
    BY DEF Stranger, Belief
  <2> HIDE DEF Stranger
  <2>2. QED
    BY <2>1 DEF Beliefs, Book
<1> HIDE DEF p
<1>9. ListedOnce(d)
  BY <1>2, <1>3, <1>4 DEF Book, ListedOnce
<1>10. \A x : x # a /\ HasEntry(c, x) => HasEntry(d, x)
  <2> SUFFICES ASSUME NEW x, x # a, HasEntry(c, x)
               PROVE  HasEntry(d, x)
    OBVIOUS
  <2>1. PICK i \in 1 .. n : c[i].addr = x
    BY DEF HasEntry
  <2>2. PICK j \in 1 .. n - 1 : old(j) = i
    BY <1>5, <1>6, <2>1
  <2>3. d[j].addr = x
    BY <1>3, <2>1, <2>2
  <2>4. QED
    BY <1>2, <2>3 DEF HasEntry
<1>11. \A j \in 1 .. n - 1 : /\ d[j].enabled = p[d[j].addr].enabled
                             /\ d[j].connected <=> d[j].addr \in l \ {a}
  BY <1>1, <1>3, <1>7, <1>8 DEF Book
<1>12. \A x \in KanbanClients : ~HasEntry(d, x) =>
         p[x].enabled = {} /\ (x \in l \ {a} => x \in e \ {a})
  BY <1>8, <1>10 DEF Book
<1>13. \A x \in KanbanClients : x \notin l \ {a} => p[x] = Stranger
  BY <1>8 DEF Book
<1>14. l \ {a} \subseteq KanbanClients /\ e \ {a} \subseteq l \ {a}
  BY DEF Book
<1>15. Book(d, p, l \ {a}, e \ {a})
  BY <1>2, <1>8, <1>9, <1>11, <1>12, <1>13, <1>14 DEF Book
<1>16. QED
  BY <1>15 DEF d, p

\* A linked client hears of the screen.
LEMMA BookHears ==
  ASSUME NEW c, NEW b, NEW l, NEW e, Book(c, b, l, e), NEW a \in l, NEW s \in SUBSET BOOLEAN
  PROVE  /\ Book(c, [b EXCEPT ![a].screen = s], l, e)
         /\ [b EXCEPT ![a].screen = s][a].screen = s
<1> DEFINE p == [b EXCEPT ![a].screen = s]
           r == [b[a] EXCEPT !.screen = s]
<1>1. b \in Beliefs /\ a \in KanbanClients /\ b[a] \in Belief
  BY DEF Book, Beliefs
<1>2. r \in Belief /\ r.enabled = b[a].enabled /\ r.screen = s
  BY <1>1 DEF Belief
<1>3. p = [b EXCEPT ![a] = r]
  OBVIOUS
<1> HIDE DEF r, p
<1>4. p \in Beliefs /\ p[a] = r /\ \A x \in KanbanClients : x # a => p[x] = b[x]
  BY <1>1, <1>2, <1>3 DEF Beliefs
<1>5. \A x \in KanbanClients : p[x].enabled = b[x].enabled
  BY <1>2, <1>4
<1>6. \A i \in 1 .. Len(c) : c[i].addr \in KanbanClients
  BY BookTypes
<1>7. \A i \in 1 .. Len(c) : c[i].enabled = p[c[i].addr].enabled
  BY <1>5, <1>6 DEF Book
<1>8. \A x \in KanbanClients : ~HasEntry(c, x) => p[x].enabled = {} /\ (x \in l => x \in e)
  BY <1>5 DEF Book
<1>9. \A x \in KanbanClients : x \notin l => p[x] = Stranger
  BY <1>4 DEF Book
<1>10. Book(c, p, l, e)
  BY <1>4, <1>7, <1>8, <1>9 DEF Book
<1>11. QED
  BY <1>2, <1>4, <1>10 DEF p

\* A client that has an entry enables or disables a feature.
LEMMA BookEnables ==
  ASSUME NEW c, NEW b, NEW l, NEW e, Book(c, b, l, e), NEW a \in l,
         NEW k \in 1 .. Len(c), c[k].addr = a,
         NEW en \in SUBSET Features, NEW s \in SUBSET BOOLEAN, NEW q \in Nat
  PROVE  Book([c EXCEPT ![k].enabled = en],
              [b EXCEPT ![a] = [enabled |-> en, screen |-> s, at |-> q]], l, e)
<1> DEFINE d == [c EXCEPT ![k].enabled = en]
           u == [c[k] EXCEPT !.enabled = en]
           r == [enabled |-> en, screen |-> s, at |-> q]
           p == [b EXCEPT ![a] = r]
           n == Len(c)
<1>1. n \in Nat /\ DOMAIN c = 1 .. n /\ c \in Seq(Entries)
      /\ \A i \in 1 .. n : c[i] \in Entries /\ c[i].addr \in KanbanClients
  BY BookTypes DEF Book
<1>2. u \in Entries /\ u.addr = a /\ u.enabled = en /\ u.connected = c[k].connected
  BY <1>1 DEF Entries
<1>3. d = [c EXCEPT ![k] = u]
  OBVIOUS
<1> HIDE DEF u
<1>4. d \in Seq(Entries) /\ Len(d) = n
  BY <1>1, <1>2, <1>3, ExceptSeq
<1>5. \A i \in 1 .. n : d[i] = IF i = k THEN u ELSE c[i]
  BY <1>1, <1>3
<1>6. r \in Belief /\ r.enabled = en
  BY DEF Belief
<1> HIDE DEF d, r
<1>7. b \in Beliefs /\ a \in KanbanClients
  BY DEF Book
<1>8. p \in Beliefs /\ p[a] = r /\ \A x \in KanbanClients : x # a => p[x] = b[x]
  BY <1>6, <1>7 DEF Beliefs
<1> HIDE DEF p
<1>9. \A i \in 1 .. n : d[i].addr = c[i].addr /\ d[i].connected = c[i].connected
  BY <1>2, <1>5
<1>10. \A i \in 1 .. n : c[i].addr = a <=> i = k
  BY DEF Book, ListedOnce
<1>11. ListedOnce(d)
  BY <1>4, <1>9 DEF Book, ListedOnce
<1>12. \A x : HasEntry(d, x) <=> HasEntry(c, x)
  BY <1>4, <1>9 DEF HasEntry
<1>13. HasEntry(c, a)
  BY DEF HasEntry
<1>14. \A i \in 1 .. n : d[i].enabled = p[d[i].addr].enabled
  <2> SUFFICES ASSUME NEW i \in 1 .. n
               PROVE  d[i].enabled = p[d[i].addr].enabled
    OBVIOUS
  <2>1. CASE i = k
    BY <1>2, <1>5, <1>6, <1>8, <2>1
  <2>2. CASE i # k
    <3>1. d[i] = c[i] /\ c[i].addr # a /\ c[i].addr \in KanbanClients
      BY <1>1, <1>5, <1>10, <2>2
    <3>2. QED
      BY <1>8, <3>1 DEF Book
  <2>3. QED
    BY <2>1, <2>2
<1>15. \A i \in 1 .. n : d[i].connected <=> d[i].addr \in l
  BY <1>9 DEF Book
<1>16. \A x \in KanbanClients : ~HasEntry(d, x) => p[x].enabled = {} /\ (x \in l => x \in e)
  BY <1>8, <1>12, <1>13 DEF Book
<1>17. \A x \in KanbanClients : x \notin l => p[x] = Stranger
  BY <1>8 DEF Book
<1>18. Book(d, p, l, e)
  BY <1>4, <1>8, <1>11, <1>14, <1>15, <1>16, <1>17 DEF Book
<1>19. QED
  BY <1>18 DEF d, p, r

LoneInv ==
    /\ alone \subseteq linked
    /\ alone # {} => linked \subseteq alone
    /\ \A a, b \in alone : a = b

KanbanBook == Book(m_kanban_clients, believes, linked, early)

\* The page's interface is one the stack has answered, the handles it knows are
\* of an interface it had before.
ServiceInv ==
    /\ m_server_if \in Nat /\ mapped \in Nat
    /\ registrations \in [asked : Nat, answered : Nat]
    /\ mapped <= m_server_if /\ m_server_if <= registrations.answered
    /\ registrations.answered <= registrations.asked
    /\ registrations.asked <= MaxRegistrations
    /\ bodies \in Seq(1 .. MaxRegistrations) /\ running \subseteq 1 .. MaxRegistrations

LEMMA ServiceStep == ServiceInv /\ [KanbanNext]_kanbanVars => ServiceInv'
<1> SUFFICES ASSUME ServiceInv, [KanbanNext]_kanbanVars
             PROVE  ServiceInv'
  OBVIOUS
<1>0. MaxRegistrations \in Nat
  BY KanbanAssumption
<1>1. CASE RegisterService
  <2>1. registrations' \in [asked : Nat, answered : Nat]
        /\ registrations'.answered = registrations.answered
        /\ registrations'.asked = registrations.asked + 1
    BY <1>1 DEF RegisterService, ServiceInv
  <2>2. registrations.asked \in Nat /\ registrations.answered \in Nat
        /\ registrations.asked < MaxRegistrations
    BY <1>1 DEF RegisterService, ServiceInv
  <2>3. registrations'.answered <= registrations'.asked /\ registrations'.asked <= MaxRegistrations
    BY <1>0, <2>1, <2>2 DEF ServiceInv
  <2>4. QED
    BY <1>1, <2>1, <2>3 DEF RegisterService, ServiceInv
<1>2. ASSUME NEW ok, handle_register_service_result(ok)
      PROVE  ServiceInv'
  <2>1. registrations' \in [asked : Nat, answered : Nat]
        /\ registrations'.answered = registrations.answered + 1
        /\ registrations'.asked = registrations.asked
    BY <1>2 DEF handle_register_service_result, ServiceInv
  <2>2. registrations.asked \in Nat /\ registrations.answered \in Nat
        /\ registrations.answered < registrations.asked
    BY <1>2 DEF handle_register_service_result, ServiceInv
  <2>3. registrations'.answered <= registrations'.asked /\ registrations'.asked <= MaxRegistrations
        /\ registrations'.answered \in 1 .. MaxRegistrations
        /\ m_server_if <= registrations'.answered
    BY <1>0, <2>1, <2>2 DEF ServiceInv
  <2>4. CASE m_server_if' = registrations'.answered /\ bodies' = Append(bodies, m_server_if')
    <3>1. bodies' \in Seq(1 .. MaxRegistrations)
      BY <2>3, <2>4, AppendProperties DEF ServiceInv
    <3>2. mapped' = mapped /\ running' = running
      BY <1>2 DEF handle_register_service_result
    <3>3. mapped <= m_server_if' /\ m_server_if' \in Nat
      BY <2>1, <2>3, <2>4 DEF ServiceInv
    <3>4. QED
      BY <2>1, <2>3, <2>4, <3>1, <3>2, <3>3 DEF ServiceInv
  <2>5. CASE UNCHANGED <<m_server_if, bodies>>
    <3>1. mapped' = mapped /\ running' = running
      BY <1>2 DEF handle_register_service_result
    <3>2. QED
      BY <2>1, <2>3, <2>5, <3>1 DEF ServiceInv
  <2>6. QED
    BY <1>2, <2>4, <2>5 DEF handle_register_service_result
<1>3. ASSUME NEW ok, handle_service_body_added_result(ok)
      PROVE  ServiceInv'
  <2>1. bodies # <<>> /\ bodies' = Tail(bodies)
        /\ running' \in {running, running \cup {Head(bodies)}}
        /\ mapped' \in {mapped, m_server_if}
        /\ UNCHANGED <<m_server_if, registrations>>
    BY <1>3 DEF handle_service_body_added_result
  <2>2. Head(bodies) \in 1 .. MaxRegistrations /\ Tail(bodies) \in Seq(1 .. MaxRegistrations)
    BY <2>1, HeadTailProperties DEF ServiceInv
  <2>3. QED
    BY <2>1, <2>2 DEF ServiceInv
<1>4. CASE stop_service
  BY <1>4 DEF stop_service, ServiceInv
<1>5. CASE UNCHANGED serviceVars
  BY <1>5 DEF serviceVars, ServiceInv
<1>6. \/ RegisterService \/ stop_service \/ UNCHANGED serviceVars
      \/ \E ok \in BOOLEAN : handle_register_service_result(ok) \/ handle_service_body_added_result(ok)
  <2>1. ASSUME NEW a, ClientConnects(a) \/ ClientGoes(a)
        PROVE  UNCHANGED serviceVars
    BY <2>1 DEF ClientConnects, ClientGoes
  <2>2. ASSUME NEW a, NEW s, NEW attribute, handle_client_read_request(a, s, attribute)
        PROVE  UNCHANGED serviceVars
    BY <2>2 DEF handle_client_read_request
  <2>3. ASSUME NEW a, NEW s, NEW feature, NEW on,
               \/ handle_client_write_characteristic_request(a, s, feature, on)
               \/ handle_client_request_write_descriptor_request(a, s, feature, on)
        PROVE  UNCHANGED serviceVars
    BY <2>3 DEF handle_client_write_characteristic_request,
                handle_client_request_write_descriptor_request
  <2>4. ASSUME NEW on, set_sreen_on_off(on) \/ start_media_test(on)
        PROVE  UNCHANGED serviceVars
    BY <2>4 DEF set_sreen_on_off, start_media_test
  <2>5. handle_indication_notify_sent_done \/ UNCHANGED kanbanVars => UNCHANGED serviceVars
    BY DEF handle_indication_notify_sent_done, kanbanVars, serviceVars
  <2>6. QED
    BY <2>1, <2>2, <2>3, <2>4, <2>5 DEF KanbanNext
<1> HIDE DEF ServiceInv
<1>7. QED
  BY <1>1, <1>2, <1>3, <1>4, <1>5, <1>6

\* No client asked on a service later than the one the page has the handles of.
AskedBefore == \A a \in KanbanClients : believes[a].at <= mapped

\* Clients are listed from the registration on, and it is never taken back.
KanbanIInv ==
    /\ ServiceInv
    /\ m_server_if = 0 => m_kanban_clients = <<>>
    /\ m_screen_on_off \in BOOLEAN
    /\ KanbanBook /\ AskedBefore
    /\ LoneInv /\ LoneClientKnowsScreen /\ UnansweredRightly

LEMMA KanbanInvAtStart == KanbanInit => KanbanIInv
<1> SUFFICES ASSUME KanbanInit
             PROVE  KanbanIInv
  OBVIOUS
<1>1. <<>> \in Seq(Entries) /\ Len(<<>>) = 0
  OBVIOUS
<1>2. believes \in Beliefs
      /\ \A a \in KanbanClients : believes[a] = Stranger /\ believes[a].enabled = {} /\ believes[a].at = 0
  BY DEF KanbanInit, Beliefs, Belief, Stranger
<1>3. m_kanban_clients = <<>> /\ linked = {} /\ early = {} /\ alone = {} /\ request = NoKanbanRequest
      /\ m_server_if = 0 /\ mapped = 0 /\ bodies = <<>> /\ running = {}
  BY DEF KanbanInit
<1>4. KanbanBook
  BY <1>1, <1>2, <1>3 DEF KanbanBook, Book, ListedOnce, HasEntry
<1>5. LoneInv /\ LoneClientKnowsScreen /\ UnansweredRightly
  BY <1>3 DEF LoneInv, LoneClientKnowsScreen, UnansweredRightly
<1>6. ServiceInv
  <2>1. <<>> \in Seq(1 .. MaxRegistrations) /\ MaxRegistrations \in Nat
    BY KanbanAssumption
  <2>2. registrations \in [asked : Nat, answered : Nat]
        /\ registrations.asked = 0 /\ registrations.answered = 0
    BY DEF KanbanInit
  <2>3. QED
    BY <1>3, <2>1, <2>2 DEF ServiceInv
<1>7. AskedBefore
  BY <1>2, <1>3 DEF AskedBefore
<1>8. QED
  BY <1>3, <1>4, <1>5, <1>6, <1>7 DEF KanbanInit, KanbanIInv

LEMMA FirstIsConnected ==
  ASSUME KanbanBook
  PROVE  /\ FirstConnected # 0 => /\ FirstConnected \in 1 .. Len(m_kanban_clients)
                                  /\ m_kanban_clients[FirstConnected].connected
                                  /\ m_kanban_clients[FirstConnected].addr \in linked
         /\ FirstConnected = 0 => \A i \in 1 .. Len(m_kanban_clients) : ~m_kanban_clients[i].connected
<1> DEFINE T == {i \in 1 .. Len(m_kanban_clients) : m_kanban_clients[i].connected}
           k == FirstConnected
<1>1. Len(m_kanban_clients) \in Nat /\ DOMAIN m_kanban_clients = 1 .. Len(m_kanban_clients)
  BY BookTypes DEF KanbanBook
<1>2. k = IF T = {} THEN 0 ELSE CHOOSE i \in T : \A j \in T : i <= j
  BY <1>1 DEF FirstConnected
<1>3. T \subseteq Nat /\ \A i \in T : i # 0
  BY <1>1
<1>4. T # {} => k \in T
  <2> SUFFICES ASSUME T # {}
               PROVE  k \in T
    OBVIOUS
  <2> HIDE DEF T, k
  <2>1. \E i \in T : \A j \in T : i <= j
    BY <1>3, LeastNatural
  <2>2. QED
    BY <1>2, <2>1
<1>5. T = {} => k = 0
  BY <1>2
<1> HIDE DEF k
<1>6. \A i \in 1 .. Len(m_kanban_clients) :
        m_kanban_clients[i].connected => m_kanban_clients[i].addr \in linked
  BY DEF KanbanBook, Book
<1>7. QED
  BY <1>3, <1>4, <1>5, <1>6 DEF k

\* A linked client whose request is not answered on the service of now came
\* before the registration.
LEMMA UnknownIsEarly ==
  ASSUME KanbanBook, NEW a \in linked, EntryOf(a) = 0
  PROVE  a \in early
<1>1. ~HasEntry(m_kanban_clients, a)
  BY EntryPlace DEF KanbanBook, Book
<1>2. QED
  BY <1>1 DEF KanbanBook, Book

LEMMA BookStep ==
  ASSUME KanbanIInv, [KanbanNext]_kanbanVars
  PROVE  Book(m_kanban_clients', believes', linked', early')
<1> DEFINE c == m_kanban_clients
<1>0. Book(c, believes, linked, early) /\ c \in Seq(Entries)
  BY DEF KanbanIInv, KanbanBook, Book
<1>1. ASSUME NEW a \in KanbanClients, ClientConnects(a)
      PROVE  Book(m_kanban_clients', believes', linked', early')
  <2>1. linked' = linked \cup {a} /\ believes' = believes
    BY <1>1 DEF ClientConnects
  <2>2. CASE m_server_if = 0
    <3>1. c = <<>> /\ c' = c /\ early' = early \cup {a}
      BY <1>1, <2>2 DEF ClientConnects, KanbanIInv
    <3>2. \A x : ~HasEntry(<<>>, x)
      BY DEF HasEntry
    <3>3. \A x \in KanbanClients : believes[x].enabled = {} /\ (x \in linked => x \in early)
      BY <1>0, <3>1, <3>2 DEF Book
    <3>4. Len(<<>>) = 0
      OBVIOUS
    <3>5. QED
      BY <1>0, <2>1, <3>1, <3>3, <3>4 DEF Book
  <2>3. CASE m_server_if # 0 /\ EntryOf(a) # 0
    <3>1. early' = early /\ c' = [c EXCEPT ![EntryOf(a)].connected = TRUE]
      BY <1>1, <2>3 DEF ClientConnects, Connected
    <3>2. EntryOf(a) \in 1 .. Len(c) /\ c[EntryOf(a)].addr = a
      BY <1>0, <2>3, EntryPlace
    <3>3. Book([c EXCEPT ![EntryOf(a)].connected = TRUE], believes, linked \cup {a}, early)
      BY <1>0, <3>2, BookMarks
    <3>4. QED
      BY <2>1, <3>1, <3>3
  <2>4. CASE m_server_if # 0 /\ EntryOf(a) = 0
    <3>1. early' = early /\ c' = Append(c, [addr |-> a, connected |-> TRUE, enabled |-> {}])
      BY <1>1, <2>4 DEF ClientConnects, Connected
    <3>2. ~HasEntry(c, a)
      BY <1>0, <2>4, EntryPlace
    <3>3. Book(Append(c, [addr |-> a, connected |-> TRUE, enabled |-> {}]), believes,
               linked \cup {a}, early)
      BY <1>0, <3>2, BookAdds
    <3>4. QED
      BY <2>1, <3>1, <3>3
  <2>5. QED
    BY <2>2, <2>3, <2>4
<1>2. ASSUME NEW a \in KanbanClients, ClientGoes(a)
      PROVE  Book(m_kanban_clients', believes', linked', early')
  <2>1. linked' = linked \ {a} /\ believes' = [believes EXCEPT ![a] = Stranger]
        /\ early' = early \ {a}
    BY <1>2 DEF ClientGoes
  <2>2. CASE m_server_if = 0
    <3>1. c = <<>> /\ c' = c
      BY <1>2, <2>2 DEF ClientGoes, KanbanIInv
    <3>2. \A x : ~HasEntry(<<>>, x)
      BY DEF HasEntry
    <3>3. \A x \in KanbanClients : believes[x].enabled = {} /\ (x \in linked => x \in early)
      BY <1>0, <3>1, <3>2 DEF Book
    <3>4. Len(<<>>) = 0
      OBVIOUS
    <3>5. Stranger \in Belief /\ Stranger.enabled = {}
      BY DEF Stranger, Belief
    <3>6. believes' \in Beliefs /\ believes'[a] = Stranger
          /\ \A x \in KanbanClients : x # a => believes'[x] = believes[x]
      BY <1>0, <2>1, <3>5 DEF Book, Beliefs
    <3>7. \A x \in KanbanClients : believes'[x].enabled = {}
      BY <3>3, <3>5, <3>6
    <3>8. \A x \in KanbanClients : x \notin linked' => believes'[x] = Stranger
      BY <1>0, <2>1, <3>6 DEF Book
    <3>9. linked' \subseteq KanbanClients /\ early' \subseteq linked'
          /\ \A x \in linked' : x \in early'
      BY <1>0, <2>1, <3>3 DEF Book
    <3>10. c' \in Seq(Entries) /\ ListedOnce(c')
      BY <1>0, <3>1, <3>4 DEF Book, ListedOnce
    <3>11. QED
      BY <3>1, <3>4, <3>6, <3>7, <3>8, <3>9, <3>10 DEF Book
  <2>3. CASE m_server_if # 0 /\ EntryOf(a) # 0
    <3>1. c' = RemoveAt(c, EntryOf(a))
      BY <1>2, <2>3 DEF ClientGoes, Without
    <3>2. EntryOf(a) \in 1 .. Len(c) /\ c[EntryOf(a)].addr = a
      BY <1>0, <2>3, EntryPlace
    <3>3. Book(RemoveAt(c, EntryOf(a)), [believes EXCEPT ![a] = Stranger], linked \ {a}, early \ {a})
      BY <1>0, <3>2, BookErases
    <3>4. QED
      BY <2>1, <3>1, <3>3
  <2>4. CASE m_server_if # 0 /\ EntryOf(a) = 0
    <3>1. c' = Append(c, [addr |-> a, connected |-> FALSE, enabled |-> {}])
      BY <1>2, <2>4 DEF ClientGoes, Connected
    <3>2. ~HasEntry(c, a)
      BY <1>0, <2>4, EntryPlace
    <3>3. Book(Append(c, [addr |-> a, connected |-> FALSE, enabled |-> {}]),
               [believes EXCEPT ![a] = Stranger], linked \ {a}, early \ {a})
      BY <1>0, <3>2, BookAdds
    <3>4. QED
      BY <2>1, <3>1, <3>3
  <2>5. QED
    BY <2>2, <2>3, <2>4
<1>3. ASSUME NEW a \in linked, NEW on \in BOOLEAN, believes' = [believes EXCEPT ![a].screen = {on}],
             UNCHANGED <<m_kanban_clients, linked, early>>
      PROVE  Book(m_kanban_clients', believes', linked', early')
  <2>1. {on} \in SUBSET BOOLEAN
    OBVIOUS
  <2>2. Book(c, [believes EXCEPT ![a].screen = {on}], linked, early)
    BY <1>0, <2>1, BookHears
  <2>3. QED
    BY <1>3, <2>2
<1>4. CASE UNCHANGED <<m_kanban_clients, believes, linked, early>>
  BY <1>0, <1>4
<1>5. ASSUME NEW a, NEW s, NEW attribute, handle_client_read_request(a, s, attribute)
      PROVE  Book(m_kanban_clients', believes', linked', early')
  <2>1. a \in linked /\ m_screen_on_off \in BOOLEAN
    BY <1>5 DEF handle_client_read_request, Request, KanbanIInv
  <2>2. \/ believes' = believes
        \/ believes' = [believes EXCEPT ![a].screen = {m_screen_on_off}]
    BY <1>5 DEF handle_client_read_request
  <2>3. UNCHANGED <<m_kanban_clients, linked, early>>
    BY <1>5 DEF handle_client_read_request
  <2>4. QED
    BY <1>3, <1>4, <2>1, <2>2, <2>3
<1>6. ASSUME NEW a, NEW s, NEW feature, NEW on \in BOOLEAN,
             handle_client_write_characteristic_request(a, s, feature, on)
      PROVE  Book(m_kanban_clients', believes', linked', early')
  <2>1. a \in linked
    BY <1>6 DEF handle_client_write_characteristic_request, Request
  <2>2. \/ believes' = believes
        \/ believes' = [believes EXCEPT ![a].screen = {on}]
    BY <1>6 DEF handle_client_write_characteristic_request
  <2>3. UNCHANGED <<m_kanban_clients, linked, early>>
    BY <1>6 DEF handle_client_write_characteristic_request
  <2>4. QED
    BY <1>3, <1>4, <2>1, <2>2, <2>3
<1>7. ASSUME NEW a, NEW s, NEW feature \in Features, NEW on \in BOOLEAN,
             handle_client_request_write_descriptor_request(a, s, feature, on)
      PROVE  Book(m_kanban_clients', believes', linked', early')
  <2>1. a \in linked /\ UNCHANGED <<linked, early>>
    BY <1>7 DEF handle_client_request_write_descriptor_request, Request
  <2>2. CASE ~Known(a, s)
    BY <1>4, <1>7, <2>2 DEF handle_client_request_write_descriptor_request
  <2>3. CASE Known(a, s)
    <3> DEFINE k == EntryOf(a)
               en(set) == IF on THEN set \cup {feature} ELSE set \ {feature}
               scr == IF feature = "screen" THEN {} ELSE believes[a].screen
               srv == IF feature = "screen" THEN s ELSE believes[a].at
    <3>1. k \in 1 .. Len(c) /\ c[k].addr = a
      BY <1>0, <2>3, EntryPlace DEF Known
    <3>2. m_kanban_clients' = [m_kanban_clients EXCEPT ![k].enabled = en(@)]
          /\ believes' = [believes EXCEPT ![a] = [enabled |-> en(@.enabled),
                              screen |-> IF feature = "screen" THEN {} ELSE @.screen,
                              at |-> IF feature = "screen" THEN s ELSE @.at]]
      BY <1>7, <2>3 DEF handle_client_request_write_descriptor_request
    <3>3. c[k].enabled = believes[a].enabled /\ c[k].enabled \in SUBSET Features
      <4>1. c[k].enabled \in SUBSET Features
        BY <1>0, <3>1, BookTypes
      <4>2. \A i \in 1 .. Len(c) : c[i].enabled = believes[c[i].addr].enabled
        BY <1>0 DEF Book
      <4> HIDE DEF c, k
      <4>3. QED
        BY <3>1, <4>1, <4>2
    <3>4. a \in KanbanClients /\ believes[a] \in Belief
      BY <1>0, <2>1 DEF Book, Beliefs
    <3>5. scr \in SUBSET BOOLEAN /\ srv \in Nat
      BY <2>3, <3>4 DEF Belief, Known, KanbanIInv, ServiceInv
    <3>6. en(c[k].enabled) \in SUBSET Features
      BY <3>3
    <3>7. m_kanban_clients' = [m_kanban_clients EXCEPT ![k].enabled = en(c[k].enabled)]
      BY <3>2
    <3>8. believes' = [believes EXCEPT ![a] =
                         [enabled |-> en(c[k].enabled), screen |-> scr, at |-> srv]]
      BY <3>2, <3>3
    <3> HIDE DEF en, scr, srv, k
    <3>9. Book([c EXCEPT ![k].enabled = en(c[k].enabled)],
               [believes EXCEPT ![a] = [enabled |-> en(c[k].enabled), screen |-> scr, at |-> srv]],
               linked, early)
      BY <1>0, <2>1, <3>1, <3>5, <3>6, BookEnables
    <3>10. QED
      BY <2>1, <3>7, <3>8, <3>9
  <2>4. QED
    BY <2>2, <2>3
<1>8. ASSUME NEW on \in BOOLEAN, set_sreen_on_off(on)
      PROVE  Book(m_kanban_clients', believes', linked', early')
  <2>1. UNCHANGED <<m_kanban_clients, linked, early>>
    BY <1>8 DEF set_sreen_on_off
  <2>2. CASE ~Wanted("screen")
    BY <1>4, <1>8, <2>1, <2>2 DEF set_sreen_on_off, NotifyScreen
  <2>3. CASE Wanted("screen")
    <3>1. Notification("screen").to \in linked
      BY <2>3, FirstIsConnected DEF Wanted, Notification, KanbanIInv
    <3>2. PICK x \in linked : x = Notification("screen").to
      BY <3>1
    <3>3. \/ believes' = [believes EXCEPT ![x].screen = {on}]
          \/ believes' = believes
      BY <1>8, <2>3, <3>2 DEF set_sreen_on_off, NotifyScreen, Hears
    <3>4. QED
      BY <1>3, <1>4, <2>1, <3>3
  <2>4. QED
    BY <2>2, <2>3
<1>9. CASE stop_service
  <2>1. \A x \in KanbanClients : /\ believes'[x] = [believes[x] EXCEPT !.at = IF @ = mapped THEN 0 ELSE @]
                                 /\ believes[x] \in Belief
    BY <1>0, <1>9 DEF stop_service, Book, Beliefs
  <2>2. \A x \in KanbanClients : believes'[x] \in Belief /\ believes'[x].enabled = believes[x].enabled
    <3> SUFFICES ASSUME NEW x \in KanbanClients
                 PROVE  believes'[x] \in Belief /\ believes'[x].enabled = believes[x].enabled
      OBVIOUS
    <3> DEFINE v == IF believes[x].at = mapped THEN 0 ELSE believes[x].at
    <3>1. believes'[x] = [believes[x] EXCEPT !.at = v] /\ believes[x] \in Belief
      BY <2>1
    <3>2. v \in Nat
      BY <3>1 DEF Belief
    <3> HIDE DEF v
    <3>3. QED
      BY <3>1, <3>2 DEF Belief
  <2>3. \A x \in KanbanClients : believes[x] = Stranger => believes'[x] = Stranger
    BY <2>1 DEF Stranger
  <2>4. believes' \in Beliefs
    <3>1. believes' = [x \in KanbanClients |-> [believes[x] EXCEPT !.at = IF @ = mapped THEN 0 ELSE @]]
      BY <1>9 DEF stop_service
    <3>2. QED
      BY <2>2, <3>1, ZenonT(30) DEF Beliefs
  <2>5. UNCHANGED <<m_kanban_clients, linked, early>>
    BY <1>9 DEF stop_service
  <2>6. \A i \in 1 .. Len(c) : c[i].addr \in KanbanClients
    BY <1>0, BookTypes
  <2>7. QED
    BY <1>0, <2>2, <2>3, <2>4, <2>5, <2>6 DEF Book
<1>10. QED
  BY <1>1, <1>2, <1>4, <1>5, <1>6, <1>7, <1>8, <1>9
     DEF KanbanNext, kanbanVars, RegisterService, handle_register_service_result,
         handle_service_body_added_result, start_media_test, handle_indication_notify_sent_done

LEMMA KanbanServiceStep ==
  ASSUME KanbanIInv, [KanbanNext]_kanbanVars
  PROVE  /\ m_server_if' = 0 => m_kanban_clients' = <<>>
         /\ m_screen_on_off' \in BOOLEAN
<1>1. CASE RegisterService
  BY <1>1 DEF KanbanIInv, RegisterService
<1>2. ASSUME NEW ok, handle_register_service_result(ok)
      PROVE  /\ m_server_if' = 0 => m_kanban_clients' = <<>>
             /\ m_screen_on_off' \in BOOLEAN
  <2>1. registrations' \in [asked : Nat, answered : Nat]
        /\ registrations'.answered = registrations.answered + 1
        /\ registrations'.answered \in Nat \ {0}
    BY <1>2 DEF KanbanIInv, ServiceInv, handle_register_service_result
  <2>2. m_server_if' = m_server_if \/ m_server_if' = registrations'.answered
    BY <1>2 DEF handle_register_service_result
  <2>3. QED
    BY <1>2, <2>1, <2>2 DEF KanbanIInv, handle_register_service_result
<1>3. CASE UNCHANGED <<m_server_if, registrations, m_kanban_clients>> /\ m_screen_on_off' \in BOOLEAN
  BY <1>3 DEF KanbanIInv
<1>4. ASSUME NEW a, ClientConnects(a) \/ ClientGoes(a)
      PROVE  /\ m_server_if' = 0 => m_kanban_clients' = <<>>
             /\ m_screen_on_off' \in BOOLEAN
  BY <1>4 DEF KanbanIInv, ClientConnects, ClientGoes, serviceVars
<1>5. ASSUME NEW a, NEW s, NEW feature, NEW on \in BOOLEAN,
             \/ handle_client_write_characteristic_request(a, s, feature, on)
             \/ handle_client_request_write_descriptor_request(a, s, feature, on)
      PROVE  /\ m_server_if' = 0 => m_kanban_clients' = <<>>
             /\ m_screen_on_off' \in BOOLEAN
  <2>1. CASE handle_client_write_characteristic_request(a, s, feature, on)
    BY <2>1 DEF KanbanIInv, handle_client_write_characteristic_request, serviceVars
  <2>2. CASE handle_client_request_write_descriptor_request(a, s, feature, on)
    <3>1. CASE Known(a, s)
      <4>1. m_server_if # 0
        <5>1. m_server_if = 0 => Len(m_kanban_clients) = 0
          BY DEF KanbanIInv
        <5>2. EntryOf(a) \in 1 .. Len(m_kanban_clients)
          BY <3>1, EntryPlace DEF Known, KanbanIInv, KanbanBook, Book
        <5>3. QED
          BY <5>1, <5>2
      <4>2. QED
        BY <2>2, <4>1 DEF KanbanIInv, handle_client_request_write_descriptor_request, serviceVars
    <3>2. CASE ~Known(a, s)
      BY <2>2, <3>2 DEF KanbanIInv, handle_client_request_write_descriptor_request, serviceVars
    <3>3. QED
      BY <3>1, <3>2
  <2>3. QED
    BY <1>5, <2>1, <2>2
<1>6. QED
  BY <1>1, <1>2, <1>3, <1>4, <1>5
     DEF KanbanIInv, KanbanNext, kanbanVars, serviceVars, stop_service, handle_service_body_added_result,
         start_media_test, handle_indication_notify_sent_done, set_sreen_on_off,
         handle_client_read_request

\* The loop that notifies the first connected client finds the lone one.
LEMMA LoneIsNotified ==
  ASSUME KanbanIInv, NEW a \in alone, "screen" \in believes[a].enabled
  PROVE  Wanted("screen") /\ Notification("screen").to = a
<1> DEFINE c == m_kanban_clients
           k == FirstConnected
<1>1. Book(c, believes, linked, early) /\ a \in linked /\ a \in KanbanClients
      /\ linked \subseteq alone /\ \A x \in alone : x = a
  BY DEF KanbanIInv, KanbanBook, LoneInv, Book
<1>2. HasEntry(c, a)
  BY <1>1 DEF Book
<1>3. PICK i \in 1 .. Len(c) : c[i].addr = a
  BY <1>2 DEF HasEntry
<1>4. c[i].connected /\ "screen" \in c[i].enabled
  BY <1>1, <1>3 DEF Book
<1>5. k \in 1 .. Len(c) /\ k # 0 /\ c[k].addr \in linked
  BY <1>3, <1>4, FirstIsConnected DEF KanbanIInv
<1>6. c[k].addr = a
  BY <1>1, <1>5
<1>7. k = i
  BY <1>1, <1>3, <1>5, <1>6 DEF Book, ListedOnce
<1>8. QED
  BY <1>4, <1>5, <1>6, <1>7 DEF Wanted, Notification

LEMMA LoneStep ==
  ASSUME KanbanIInv, [KanbanNext]_kanbanVars
  PROVE  LoneInv' /\ LoneClientKnowsScreen'
<1>0. /\ LoneInv /\ LoneClientKnowsScreen /\ Book(m_kanban_clients, believes, linked, early)
      /\ linked \subseteq KanbanClients /\ believes \in Beliefs
  BY DEF KanbanIInv, KanbanBook, Book
<1>1. ASSUME NEW a \in KanbanClients, ClientConnects(a)
      PROVE  LoneInv' /\ LoneClientKnowsScreen'
  <2>1. believes[a] = Stranger /\ Stranger.enabled = {}
    BY <1>0, <1>1 DEF ClientConnects, Book, Stranger
  <2>2. alone' = (IF linked = {} THEN {a} ELSE {}) /\ linked' = linked \cup {a} /\ believes' = believes
    BY <1>1 DEF ClientConnects
  <2>3. LoneInv'
    BY <2>2 DEF LoneInv
  <2>4. LoneClientKnowsScreen'
    BY <2>1, <2>2 DEF LoneClientKnowsScreen
  <2>5. QED
    BY <2>3, <2>4
<1>2. ASSUME NEW a \in KanbanClients, ClientGoes(a)
      PROVE  LoneInv' /\ LoneClientKnowsScreen'
  <2>1. alone' = alone \ {a} /\ linked' = linked \ {a} /\ believes' = [believes EXCEPT ![a] = Stranger]
        /\ m_screen_on_off' = m_screen_on_off /\ mapped' = mapped
    BY <1>2 DEF ClientGoes, serviceVars
  <2>2. \A x \in alone' : believes'[x] = believes[x] /\ x \in alone
    BY <1>0, <2>1 DEF LoneInv, Beliefs
  <2>3. LoneInv'
    BY <1>0, <2>1 DEF LoneInv
  <2>4. LoneClientKnowsScreen'
    BY <1>0, <2>1, <2>2 DEF LoneClientKnowsScreen
  <2>5. QED
    BY <2>3, <2>4
<1>3. ASSUME UNCHANGED <<linked, alone>>
      PROVE  LoneInv'
  BY <1>0, <1>3 DEF LoneInv
<1>4. CASE UNCHANGED <<linked, alone, believes, mapped, m_screen_on_off>>
  <2>1. LoneClientKnowsScreen'
    BY <1>0, <1>4 DEF LoneClientKnowsScreen
  <2>2. QED
    BY <1>3, <1>4, <2>1
<1>5. ASSUME NEW a \in linked, UNCHANGED <<linked, alone>>,
             believes' = [believes EXCEPT ![a].screen = {m_screen_on_off'}]
      PROVE  LoneInv' /\ LoneClientKnowsScreen'
  <2>1. \A x \in alone : x = a
    BY <1>0 DEF LoneInv
  <2>2. believes'[a].screen = {m_screen_on_off'}
    <3>1. a \in DOMAIN believes /\ believes[a] \in Belief
      BY <1>0 DEF Beliefs
    <3>2. QED
      BY <1>5, <3>1 DEF Belief
  <2>3. LoneClientKnowsScreen'
    BY <1>5, <2>1, <2>2 DEF LoneClientKnowsScreen
  <2>4. QED
    BY <1>3, <1>5, <2>3
<1>6. ASSUME NEW a, NEW s, NEW attribute, handle_client_read_request(a, s, attribute)
      PROVE  LoneInv' /\ LoneClientKnowsScreen'
  BY <1>4, <1>5, <1>6 DEF handle_client_read_request, Request, serviceVars
<1>7. ASSUME NEW a, NEW s, NEW feature, NEW on,
             handle_client_write_characteristic_request(a, s, feature, on)
      PROVE  LoneInv' /\ LoneClientKnowsScreen'
  BY <1>4, <1>5, <1>7 DEF handle_client_write_characteristic_request, Request, serviceVars
<1>8. ASSUME NEW a, NEW s, NEW feature \in Features, NEW on,
             handle_client_request_write_descriptor_request(a, s, feature, on)
      PROVE  LoneInv' /\ LoneClientKnowsScreen'
  <2>1. a \in linked /\ UNCHANGED <<linked, alone, mapped, m_screen_on_off>>
    BY <1>8 DEF handle_client_request_write_descriptor_request, Request, serviceVars
  <2>2. CASE ~Known(a, s)
    BY <1>4, <1>8, <2>1, <2>2 DEF handle_client_request_write_descriptor_request
  <2>3. CASE Known(a, s)
    <3> DEFINE en == IF on THEN believes[a].enabled \cup {feature} ELSE believes[a].enabled \ {feature}
               scr == IF feature = "screen" THEN {} ELSE believes[a].screen
               srv == IF feature = "screen" THEN s ELSE believes[a].at
    <3>1. believes' = [believes EXCEPT ![a] = [enabled |-> en, screen |-> scr, at |-> srv]]
      BY <1>8, <2>3 DEF handle_client_request_write_descriptor_request
    <3>2. a \in DOMAIN believes
      BY <1>0, <2>1 DEF Beliefs
    <3>3. believes'[a].enabled = en /\ believes'[a].screen = scr /\ believes'[a].at = srv
      BY <3>1, <3>2
    <3>4. feature # "screen" => /\ "screen" \in en => "screen" \in believes[a].enabled
                                /\ srv = believes[a].at
      OBVIOUS
    <3>5. \A x \in alone : x = a
      BY <1>0, <2>1 DEF LoneInv
    <3>6. LoneClientKnowsScreen'
      BY <1>0, <2>1, <3>3, <3>4, <3>5 DEF LoneClientKnowsScreen
    <3>7. QED
      BY <1>3, <2>1, <3>6
  <2>4. QED
    BY <2>2, <2>3
<1>9. ASSUME NEW on \in BOOLEAN, set_sreen_on_off(on)
      PROVE  LoneInv' /\ LoneClientKnowsScreen'
  <2>1. UNCHANGED <<linked, alone>> /\ m_screen_on_off' = on
    BY <1>9 DEF set_sreen_on_off
  <2>2. CASE Wanted("screen")
    <3>1. Notification("screen").to \in linked
      BY <2>2, FirstIsConnected DEF Wanted, Notification, KanbanIInv
    <3>2. PICK x \in linked : x = Notification("screen").to
      BY <3>1
    <3>3. believes' = IF believes[x].at = mapped THEN [believes EXCEPT ![x].screen = {on}] ELSE believes
      BY <1>9, <2>2, <3>2 DEF set_sreen_on_off, NotifyScreen, Hears
    <3>4. CASE believes[x].at = mapped
      BY <1>5, <2>1, <3>3, <3>4
    <3>5. CASE believes[x].at # mapped
      <4>1. \A a \in alone : "screen" \in believes[a].enabled => a = x
        BY <3>2, LoneIsNotified
      <4>2. mapped' = mapped /\ believes' = believes
        BY <1>9, <3>3, <3>5 DEF set_sreen_on_off, serviceVars
      <4>3. LoneClientKnowsScreen'
        BY <2>1, <3>5, <4>1, <4>2 DEF LoneClientKnowsScreen
      <4>4. QED
        BY <1>3, <2>1, <4>3
    <3>6. QED
      BY <3>4, <3>5
  <2>3. CASE ~Wanted("screen")
    <3>1. believes' = believes
      BY <1>9, <2>3 DEF set_sreen_on_off, NotifyScreen
    <3>2. \A a \in alone : "screen" \notin believes[a].enabled
      BY <2>3, LoneIsNotified
    <3>3. LoneClientKnowsScreen'
      BY <2>1, <3>1, <3>2 DEF LoneClientKnowsScreen
    <3>4. QED
      BY <1>3, <2>1, <3>3
  <2>4. QED
    BY <2>2, <2>3
<1>10. ASSUME NEW ok, handle_service_body_added_result(ok)
       PROVE  LoneInv' /\ LoneClientKnowsScreen'
  <2>1. UNCHANGED <<linked, alone, believes, m_screen_on_off>> /\ mapped' \in {mapped, m_server_if}
    BY <1>10 DEF handle_service_body_added_result
  <2>2. alone \subseteq KanbanClients
    BY <1>0 DEF LoneInv
  <2>3. CASE mapped' # mapped
    <3>1. mapped \in Nat /\ mapped' \in Nat /\ mapped < mapped'
      BY <2>1, <2>3 DEF KanbanIInv, ServiceInv
    <3>2. \A a \in alone : believes[a].at # mapped'
      <4> SUFFICES ASSUME NEW a \in alone
                   PROVE  believes[a].at # mapped'
        OBVIOUS
      <4>1. believes[a].at \in Nat /\ believes[a].at <= mapped
        BY <1>0, <2>2 DEF Beliefs, Belief, AskedBefore, KanbanIInv
      <4>2. QED
        BY <3>1, <4>1
    <3>3. LoneClientKnowsScreen'
      BY <2>1, <3>2 DEF LoneClientKnowsScreen
    <3>4. QED
      BY <1>3, <2>1, <3>3
  <2>4. QED
    BY <1>4, <2>1, <2>3
<1>11. CASE stop_service
  <2>1. UNCHANGED <<linked, alone, mapped, m_screen_on_off>> /\ mapped # 0
    BY <1>11 DEF stop_service
  <2>2. \A a \in alone : a \in KanbanClients
    BY <1>0 DEF LoneInv
  <2>3. \A a \in alone : believes'[a].at # mapped
    BY <1>0, <1>11, <2>1, <2>2 DEF stop_service, Beliefs, Belief
  <2>4. LoneClientKnowsScreen'
    BY <2>1, <2>3 DEF LoneClientKnowsScreen
  <2>5. QED
    BY <1>3, <2>1, <2>4
<1>12. QED
  BY <1>1, <1>2, <1>4, <1>6, <1>7, <1>8, <1>9, <1>10, <1>11
     DEF KanbanNext, kanbanVars, RegisterService, handle_register_service_result, start_media_test,
         handle_indication_notify_sent_done, serviceVars

LEMMA AskedStep ==
  ASSUME KanbanIInv, [KanbanNext]_kanbanVars
  PROVE  AskedBefore'
<1>0. /\ mapped \in Nat /\ m_server_if \in Nat /\ mapped <= m_server_if
      /\ AskedBefore /\ believes \in Beliefs
  BY DEF KanbanIInv, ServiceInv, KanbanBook, Book
<1>1. ASSUME NEW b, b \in Nat, mapped <= b, mapped' = b,
             \A x \in KanbanClients : believes'[x].at \in {0, mapped, believes[x].at}
      PROVE  AskedBefore'
  <2> SUFFICES ASSUME NEW x \in KanbanClients
               PROVE  believes'[x].at <= mapped'
    BY DEF AskedBefore
  <2>1. believes[x].at \in Nat /\ believes[x].at <= mapped
    BY <1>0 DEF Beliefs, Belief, AskedBefore
  <2>2. believes'[x].at \in {0, mapped, believes[x].at}
    BY <1>1
  <2>3. QED
    BY <1>0, <1>1, <2>1, <2>2
<1>2. CASE mapped' = mapped /\ \A x \in KanbanClients : believes'[x].at \in {0, mapped, believes[x].at}
  BY <1>0, <1>1, <1>2
<1>3. CASE UNCHANGED <<mapped, believes>>
  BY <1>2, <1>3
<1>4. ASSUME NEW ok, handle_service_body_added_result(ok)
      PROVE  AskedBefore'
  BY <1>0, <1>1, <1>4 DEF handle_service_body_added_result
<1>5. CASE stop_service
  <2>1. mapped' = mapped
    BY <1>5 DEF stop_service
  <2>2. ASSUME NEW x \in KanbanClients
        PROVE  believes'[x].at \in {0, mapped, believes[x].at}
    <3> DEFINE v == IF believes[x].at = mapped THEN 0 ELSE believes[x].at
    <3>1. believes'[x] = [believes[x] EXCEPT !.at = v] /\ believes[x] \in Belief
      BY <1>0, <1>5 DEF stop_service, Beliefs
    <3>2. v \in {0, believes[x].at}
      OBVIOUS
    <3> HIDE DEF v
    <3>3. QED
      BY <3>1, <3>2 DEF Belief
  <2>3. QED
    BY <1>2, <2>1, <2>2
<1>6. ASSUME NEW a \in KanbanClients, ClientGoes(a)
      PROVE  AskedBefore'
  <2>1. mapped' = mapped /\ believes' = [believes EXCEPT ![a] = Stranger]
    BY <1>6 DEF ClientGoes, serviceVars
  <2>2. QED
    BY <1>0, <1>2, <2>1 DEF Stranger, Beliefs
<1>7. ASSUME NEW a, NEW s, mapped' = mapped, believes' = [believes EXCEPT ![a].screen = s]
      PROVE  AskedBefore'
  <2>1. \A x \in KanbanClients : believes'[x].at = believes[x].at
    BY <1>0, <1>7 DEF Beliefs, Belief
  <2>2. QED
    BY <1>2, <1>7, <2>1
<1>8. ASSUME NEW a, NEW s, NEW attribute, handle_client_read_request(a, s, attribute)
      PROVE  AskedBefore'
  BY <1>3, <1>7, <1>8 DEF handle_client_read_request, serviceVars
<1>9. ASSUME NEW a, NEW s, NEW feature, NEW on,
             handle_client_write_characteristic_request(a, s, feature, on)
      PROVE  AskedBefore'
  BY <1>3, <1>7, <1>9 DEF handle_client_write_characteristic_request, serviceVars
<1>10. ASSUME NEW a, NEW s, NEW feature, NEW on,
              handle_client_request_write_descriptor_request(a, s, feature, on)
       PROVE  AskedBefore'
  <2>1. mapped' = mapped
    BY <1>10 DEF handle_client_request_write_descriptor_request, serviceVars
  <2>2. CASE ~Known(a, s)
    BY <1>3, <1>10, <2>1, <2>2 DEF handle_client_request_write_descriptor_request
  <2>3. CASE Known(a, s)
    <3> DEFINE r == [enabled |-> IF on THEN believes[a].enabled \cup {feature}
                                 ELSE believes[a].enabled \ {feature},
                     screen |-> IF feature = "screen" THEN {} ELSE believes[a].screen,
                     at |-> IF feature = "screen" THEN s ELSE believes[a].at]
    <3>1. believes' = [believes EXCEPT ![a] = r] /\ r.at \in {s, believes[a].at}
      BY <1>10, <2>3 DEF handle_client_request_write_descriptor_request
    <3> HIDE DEF r
    <3>2. s = mapped
      BY <2>3 DEF Known
    <3>3. \A x \in KanbanClients : believes'[x].at \in {mapped, believes[x].at}
      BY <1>0, <3>1, <3>2 DEF Beliefs
    <3>4. QED
      BY <1>2, <2>1, <3>3
  <2>4. QED
    BY <2>2, <2>3
<1>11. ASSUME NEW on, set_sreen_on_off(on)
       PROVE  AskedBefore'
  <2>1. mapped' = mapped
    BY <1>11 DEF set_sreen_on_off, serviceVars
  <2>2. \/ believes' = believes
        \/ believes' = [believes EXCEPT ![Notification("screen").to].screen = {on}]
    BY <1>11 DEF set_sreen_on_off, NotifyScreen, Hears
  <2>3. QED
    BY <1>3, <1>7, <2>1, <2>2
<1>12. QED
  BY <1>3, <1>4, <1>5, <1>6, <1>8, <1>9, <1>10, <1>11
     DEF KanbanNext, kanbanVars, RegisterService, handle_register_service_result, start_media_test,
         handle_indication_notify_sent_done, ClientConnects, serviceVars

LEMMA UnansweredStep ==
  ASSUME KanbanIInv, [KanbanNext]_kanbanVars
  PROVE  UnansweredRightly'
<1>1. CASE request' = NoKanbanRequest
  BY <1>1 DEF UnansweredRightly
<1>2. CASE UNCHANGED kanbanVars
  BY <1>2 DEF UnansweredRightly, kanbanVars, KanbanIInv
<1>3. ASSUME NEW a \in linked, NEW s, NEW attribute, early' = early, mapped' = mapped,
             request' = [from |-> a, service |-> s, attribute |-> attribute],
             Known(a, s) => attribute \in NeverAnswered
      PROVE  UnansweredRightly'
  <2>1. EntryOf(a) = 0 => a \in early
    BY UnknownIsEarly DEF KanbanIInv
  <2>2. request'.from = a /\ request'.service = s /\ request'.attribute = attribute
    BY <1>3
  <2>3. QED
    BY <1>3, <2>1, <2>2 DEF UnansweredRightly, Known
<1>4. ASSUME NEW a, NEW s, NEW feature \in Features,
             NEW kind \in {"read value", "read description", "read config"},
             handle_client_read_request(a, s, <<kind, feature>>)
      PROVE  UnansweredRightly'
  <2> DEFINE yes == Known(a, s) /\ <<kind, feature>> \in
                 {<<"read value", "screen">>, <<"read description", "screen">>,
                  <<"read description", "media">>}
  <2>1. a \in linked /\ early' = early /\ mapped' = mapped
        /\ Answered(a, s, <<kind, feature>>, yes)
    BY <1>4 DEF handle_client_read_request, Request, serviceVars
  <2>2. ~yes /\ Known(a, s) => <<kind, feature>> \in NeverAnswered
    BY DEF NeverAnswered, Features
  <2> HIDE DEF yes
  <2>3. QED
    BY <1>1, <1>3, <2>1, <2>2 DEF Answered
<1>5. ASSUME NEW a, NEW s, NEW feature \in Features, NEW on,
             handle_client_write_characteristic_request(a, s, feature, on)
      PROVE  UnansweredRightly'
  <2> DEFINE yes == Known(a, s) /\ feature = "screen"
  <2>1. a \in linked /\ early' = early /\ mapped' = mapped
        /\ Answered(a, s, <<"write value", feature>>, yes)
    BY <1>5 DEF handle_client_write_characteristic_request, Request, serviceVars
  <2>2. ~yes /\ Known(a, s) => <<"write value", feature>> \in NeverAnswered
    BY DEF NeverAnswered, Features
  <2> HIDE DEF yes
  <2>3. QED
    BY <1>1, <1>3, <2>1, <2>2 DEF Answered
<1>6. ASSUME NEW a, NEW s, NEW feature, NEW on,
             handle_client_request_write_descriptor_request(a, s, feature, on)
      PROVE  UnansweredRightly'
  <2>1. a \in linked /\ early' = early /\ mapped' = mapped
        /\ Answered(a, s, <<"write config", feature>>, Known(a, s))
    BY <1>6 DEF handle_client_request_write_descriptor_request, Request, serviceVars
  <2>2. QED
    BY <1>1, <1>3, <2>1 DEF Answered
<1>7. QED
  BY <1>1, <1>2, <1>4, <1>5, <1>6
     DEF KanbanNext, RegisterService, stop_service, handle_register_service_result,
         handle_service_body_added_result, start_media_test, handle_indication_notify_sent_done,
         ClientConnects, ClientGoes, set_sreen_on_off

LEMMA KanbanStep == KanbanIInv /\ [KanbanNext]_kanbanVars => KanbanIInv'
<1> SUFFICES ASSUME KanbanIInv, [KanbanNext]_kanbanVars
             PROVE  KanbanIInv'
  OBVIOUS
<1>1. KanbanBook'
  BY BookStep DEF KanbanBook, Book, ListedOnce, HasEntry
<1>2. QED
  BY <1>1, ServiceStep, KanbanServiceStep, AskedStep, LoneStep, UnansweredStep DEF KanbanIInv

\* The notifications the page sends a client are those the client enabled on
\* this very connection (handle_client_connection_status_changed, the write of
\* a configuration).
THEOREM EnabledIsWhatWasAnswered == KanbanSpec => []EnabledAsAnswered
<1>1. KanbanIInv => EnabledAsAnswered
  <2> SUFFICES ASSUME KanbanIInv
               PROVE  EnabledAsAnswered
    OBVIOUS
  <2>1. Book(m_kanban_clients, believes, linked, early) /\ m_kanban_clients \in Seq(Entries)
    BY DEF KanbanIInv, KanbanBook, Book
  <2>2. \A i \in DOMAIN m_kanban_clients :
          m_kanban_clients[i].enabled = believes[m_kanban_clients[i].addr].enabled
    BY <2>1, BookTypes DEF Book
  <2>3. \A a \in KanbanClients : EntryOf(a) = 0 => believes[a].enabled = {}
    BY <2>1, EntryPlace DEF Book
  <2>4. QED
    BY <2>2, <2>3 DEF EnabledAsAnswered
<1>2. QED
  BY KanbanInvAtStart, KanbanStep, <1>1, PTL DEF KanbanSpec

\* A client that has been alone since it connected never holds the wrong idea
\* of the screen, as long as the service it asked is the one whose handles the
\* page has, and a request is left unanswered only for the three reasons of
\* UnansweredRightly: an early client, another service, an attribute no handler
\* has a branch for (PageKanban's loops, handle map and early returns).
THEOREM ClientsAreServed == KanbanSpec => [](LoneClientKnowsScreen /\ UnansweredRightly)
<1>1. KanbanIInv => LoneClientKnowsScreen /\ UnansweredRightly
  BY DEF KanbanIInv
<1>2. QED
  BY KanbanInvAtStart, KanbanStep, <1>1, PTL DEF KanbanSpec

-----------------------------------------------------------------------------
(* The packets of the media test.                                           *)

Notices == [to : KanbanClients, what : {"screen", "media"}]
Packet == {n \in Notices : n.what = "media"}

SentInv == sent \in Seq(Notices) /\ m_media_test_enabled \in BOOLEAN

\* What is sent goes to a client that is linked.
LEMMA SentToLinked ==
  ASSUME KanbanIInv, NEW feature \in {"screen", "media"}, Wanted(feature)
  PROVE  Notification(feature) \in Notices /\ Notification(feature).what = feature
<1>1. Notification(feature).to \in linked
  BY FirstIsConnected DEF Wanted, Notification, KanbanIInv
<1>2. linked \subseteq KanbanClients
  BY DEF KanbanIInv, KanbanBook, Book
<1>3. QED
  BY <1>1, <1>2 DEF Notification, Notices

LEMMA CountOfOne ==
  ASSUME NEW x, NEW M
  PROVE  CountIn(M, <<x>>) = (IF x \in M THEN 1 ELSE 0) /\ CountIn(M, <<>>) = 0
<1> DEFINE T == {i \in 1 .. 1 : x \in M}
<1>1. CountIn(M, <<x>>) = Cardinality(T)
  BY DEF CountIn
<1>2. x \in M => T = {1}
  OBVIOUS
<1>3. x \notin M => T = {}
  OBVIOUS
<1> HIDE DEF T
<1>4. {i \in 1 .. Len(<<>>) : <<>>[i] \in M} = {}
  OBVIOUS
<1>5. CountIn(M, <<>>) = Cardinality({})
  BY <1>4 DEF CountIn
<1>6. QED
  BY <1>1, <1>2, <1>3, <1>5, FS_Singleton, FS_EmptySet

LEMMA PacketsAreCounted ==
  ASSUME sent \in Seq(Notices)
  PROVE  Packets = CountIn(Packet, sent) /\ Packets \in Nat
<1>1. \A i \in DOMAIN sent : sent[i] \in Notices
  BY ElementOfSeq, LenProperties
<1>2. {i \in DOMAIN sent : sent[i].what = "media"} = {i \in 1 .. Len(sent) : sent[i] \in Packet}
  BY <1>1, LenProperties DEF Packet
<1>3. QED
  BY <1>2, CountsAreNumbers DEF Packets, CountIn

\* The test sends one packet or nothing.
LEMMA OnePacket ==
  ASSUME KanbanIInv, NEW enabled
  PROVE  /\ MediaPackets(enabled) \in Seq(Notices)
         /\ CountIn(Packet, MediaPackets(enabled)) = IF enabled /\ Wanted("media") THEN 1 ELSE 0
         /\ MediaPackets(enabled) # <<>> <=> enabled /\ Wanted("media")
<1>1. CASE enabled /\ Wanted("media")
  <2> DEFINE n == Notification("media")
  <2>1. n \in Notices /\ n \in Packet
    BY <1>1, SentToLinked DEF Packet
  <2>2. MediaPackets(enabled) = <<n>>
    BY <1>1 DEF MediaPackets
  <2> HIDE DEF n
  <2>3. <<n>> \in Seq(Notices) /\ <<n>> # <<>>
    BY <2>1
  <2>4. QED
    BY <1>1, <2>1, <2>2, <2>3, CountOfOne
<1>2. CASE ~(enabled /\ Wanted("media"))
  <2>1. MediaPackets(enabled) = <<>>
    BY <1>2 DEF MediaPackets
  <2>2. <<>> \in Seq(Notices)
    OBVIOUS
  <2>3. QED
    BY <1>2, <2>1, <2>2, CountOfOne
<1>3. QED
  BY <1>1, <1>2

\* What stays under way when a client goes holds no packet more.
LEMMA OthersStay ==
  ASSUME NEW s \in Seq(Notices), NEW others \in SUBSET (DOMAIN s),
         NEW place \in [1 .. Cardinality(others) -> others],
         \A i, j \in DOMAIN place : i < j => place[i] < place[j]
  PROVE  LET r == [i \in DOMAIN place |-> s[place[i]]]
         IN  r \in Seq(Notices) /\ CountIn(Packet, r) <= CountIn(Packet, s)
<1> DEFINE n == Cardinality(others)
           r == [i \in DOMAIN place |-> s[place[i]]]
           A == {i \in 1 .. n : r[i] \in Packet}
           B == {i \in 1 .. Len(s) : s[i] \in Packet}
<1>1. DOMAIN s = 1 .. Len(s) /\ Len(s) \in Nat /\ \A i \in 1 .. Len(s) : s[i] \in Notices
  BY LenProperties, ElementOfSeq
<1>2. n \in Nat
  <2>1. IsFiniteSet(1 .. Len(s))
    BY <1>1, FS_Interval
  <2>2. IsFiniteSet(others)
    BY <1>1, <2>1, FS_Subset
  <2>3. QED
    BY <2>2, FS_CardinalityType
<1>3. DOMAIN place = 1 .. n /\ \A i \in 1 .. n : place[i] \in 1 .. Len(s)
  BY <1>1
<1>4. \A i, j \in 1 .. n : i < j => place[i] < place[j]
  BY <1>3
<1> HIDE DEF n
<1>5. r \in [1 .. n -> Notices] /\ \A i \in 1 .. n : r[i] = s[place[i]]
  BY <1>1, <1>3
<1> HIDE DEF r
<1>6. r \in Seq(Notices) /\ Len(r) = n
  BY <1>2, <1>5, FunctionIsList
<1>7. CountIn(Packet, r) = Cardinality(A) /\ CountIn(Packet, s) = Cardinality(B)
      /\ IsFiniteSet(B)
  BY <1>6, CountsAreNumbers
<1>8. \A i \in A : i \in 1 .. n /\ place[i] \in B
  BY <1>3, <1>5
<1>9. \A i, j \in 1 .. n : place[i] = place[j] => i = j
  BY <1>1, <1>2, <1>3, <1>4
<1> DEFINE f == [i \in A |-> place[i]]
<1> HIDE DEF A, B
<1>10. f \in [A -> B] /\ \A i, j \in A : f[i] = f[j] => i = j
  BY <1>8, <1>9
<1> HIDE DEF f
<1>11. f \in Injection(A, B)
  BY <1>10 DEF Injection, IsInjective
<1>12. Cardinality(A) <= Cardinality(B)
  BY <1>7, <1>11, FS_Injection
<1>13. QED
  BY <1>6, <1>7, <1>12 DEF r

\* What a step does to the packets under way.
LEMMA SentStep ==
  ASSUME KanbanIInv, SentInv, [KanbanNext]_kanbanVars
  PROVE  /\ SentInv'
         /\ Packets' > Packets /\ Packets > 0
               => (m_media_test_enabled' /\ ~m_media_test_enabled) \/ Head(sent).what = "screen"
         /\ m_media_test_enabled' /\ Packets' = 0
               => m_media_test_enabled /\ (Packets = 0 \/ ~Wanted("media") \/ linked' # linked)
<1> DEFINE Grows == Packets' > Packets /\ Packets > 0
                      => (m_media_test_enabled' /\ ~m_media_test_enabled) \/ Head(sent).what = "screen"
           Stalls == m_media_test_enabled' /\ Packets' = 0
                      => m_media_test_enabled /\ (Packets = 0 \/ ~Wanted("media") \/ linked' # linked)
           Fine == SentInv' /\ Grows /\ Stalls
<1>0. sent \in Seq(Notices) /\ m_media_test_enabled \in BOOLEAN
      /\ Packets = CountIn(Packet, sent) /\ Packets \in Nat
  BY PacketsAreCounted DEF SentInv
<1>00. ASSUME NEW r \in Seq(Notices), sent' = r
       PROVE  sent' \in Seq(Notices) /\ Packets' = CountIn(Packet, r) /\ Packets' \in Nat
  <2>1. \A i \in DOMAIN r : r[i] \in Notices
    BY ElementOfSeq, LenProperties
  <2>2. {i \in DOMAIN r : r[i].what = "media"} = {i \in 1 .. Len(r) : r[i] \in Packet}
    BY <2>1, LenProperties DEF Packet
  <2>3. Packets' = Cardinality({i \in DOMAIN r : r[i].what = "media"})
    BY <1>00 DEF Packets
  <2>4. QED
    BY <1>00, <2>2, <2>3, CountsAreNumbers DEF CountIn
<1>1. ASSUME UNCHANGED <<sent, m_media_test_enabled>>
      PROVE  Fine
  <2>1. Packets' = Packets
    BY <1>1 DEF Packets
  <2>2. QED
    BY <1>0, <1>1, <2>1 DEF SentInv
<1>2. ASSUME NEW a \in KanbanClients, ClientGoes(a)
      PROVE  Fine
  <2>1. m_media_test_enabled' = m_media_test_enabled /\ linked' # linked
    BY <1>2 DEF ClientGoes
  <2>2. CASE sent' = sent
    BY <1>1, <2>1, <2>2
  <2>3. CASE sent' # sent
    <3> DEFINE others == {i \in DOMAIN sent : sent[i].to # a}
    <3>1. PICK place \in [1 .. Cardinality(others) -> others] :
             /\ \A i, j \in DOMAIN place : i < j => place[i] < place[j]
             /\ sent' = [i \in DOMAIN place |-> sent[place[i]]]
      BY <1>2, <2>3 DEF ClientGoes
    <3> DEFINE r == [i \in DOMAIN place |-> sent[place[i]]]
    <3>2. others \in SUBSET (DOMAIN sent)
      OBVIOUS
    <3> HIDE DEF others
    <3>3. r \in Seq(Notices) /\ CountIn(Packet, r) <= CountIn(Packet, sent)
      BY <1>0, <3>1, <3>2, OthersStay
    <3> HIDE DEF r
    <3>4. sent' = r
      BY <3>1 DEF r
    <3>5. sent' \in Seq(Notices) /\ Packets' = CountIn(Packet, r) /\ Packets' \in Nat
      BY <1>00, <3>3, <3>4
    <3>6. ~(Packets' > Packets)
      BY <1>0, <3>3, <3>5
    <3>7. QED
      BY <1>0, <2>1, <3>5, <3>6 DEF SentInv
  <2>4. QED
    BY <2>2, <2>3
<1>3. ASSUME NEW on \in BOOLEAN, set_sreen_on_off(on)
      PROVE  Fine
  <2>1. m_media_test_enabled' = m_media_test_enabled
    BY <1>3 DEF set_sreen_on_off
  <2>2. CASE ~Wanted("screen")
    BY <1>1, <1>3, <2>1, <2>2 DEF set_sreen_on_off, NotifyScreen
  <2>3. CASE Wanted("screen")
    <3> DEFINE n == Notification("screen")
    <3>1. sent' = Append(sent, n) /\ n \in Notices /\ n \notin Packet
      BY <1>3, <2>3, SentToLinked DEF set_sreen_on_off, NotifyScreen, Packet
    <3> HIDE DEF n
    <3>2. Append(sent, n) = sent \o <<n>> /\ <<n>> \in Seq(Notices) /\ Append(sent, n) \in Seq(Notices)
      BY <1>0, <3>1, AppendIsConcat, AppendProperties
    <3>3. CountIn(Packet, sent \o <<n>>) = CountIn(Packet, sent) + CountIn(Packet, <<n>>)
      BY <1>0, <3>2, CountsAddUp
    <3>4. CountIn(Packet, <<n>>) = 0
      BY <3>1, CountOfOne
    <3>5. sent' \in Seq(Notices) /\ Packets' = CountIn(Packet, Append(sent, n))
      BY <1>00, <3>1, <3>2
    <3>6. Packets' = Packets
      BY <1>0, <3>2, <3>3, <3>4, <3>5
    <3>7. QED
      BY <1>0, <2>1, <3>5, <3>6 DEF SentInv
  <2>4. QED
    BY <2>2, <2>3
<1>4. ASSUME NEW start \in BOOLEAN, start_media_test(start)
      PROVE  Fine
  <2> DEFINE m == MediaPackets(start)
  <2>1. sent' = sent \o m /\ m_media_test_enabled' = (m # <<>>) /\ m_media_test_enabled # start
    BY <1>4 DEF start_media_test
  <2>2. m \in Seq(Notices) /\ (m # <<>> <=> start /\ Wanted("media"))
        /\ CountIn(Packet, m) = IF start /\ Wanted("media") THEN 1 ELSE 0
    BY OnePacket
  <2> HIDE DEF m
  <2>3. sent \o m \in Seq(Notices) /\ CountIn(Packet, sent \o m) = Packets + CountIn(Packet, m)
    BY <1>0, <2>2, CountsAddUp, ConcatProperties
  <2>4. sent' \in Seq(Notices) /\ Packets' = Packets + CountIn(Packet, m)
    BY <1>00, <2>1, <2>3
  <2>5. m # <<>> => Packets' > 0 /\ ~m_media_test_enabled
    BY <1>0, <2>1, <2>2, <2>4
  <2>6. m = <<>> => Packets' = Packets
    BY <1>0, <2>2, <2>4
  <2>7. QED
    BY <1>0, <2>1, <2>4, <2>5, <2>6 DEF SentInv
<1>5. ASSUME handle_indication_notify_sent_done
      PROVE  Fine
  <2> DEFINE m == MediaPackets(m_media_test_enabled)
             h == Head(sent)
             t == Tail(sent)
  <2>1. sent # <<>> /\ sent' = t \o m /\ m_media_test_enabled' = m_media_test_enabled
    BY <1>5 DEF handle_indication_notify_sent_done
  <2>2. m \in Seq(Notices)
        /\ CountIn(Packet, m) = IF m_media_test_enabled /\ Wanted("media") THEN 1 ELSE 0
    BY OnePacket
  <2>3. h \in Notices /\ t \in Seq(Notices) /\ sent = <<h>> \o t /\ <<h>> \in Seq(Notices)
    <3>1. h \in Notices /\ t \in Seq(Notices)
      BY <1>0, <2>1, HeadTailProperties
    <3>2. sent = <<h>> \o t
      BY <1>0, <2>1, HeadTailIsConcat
    <3> HIDE DEF h
    <3>3. <<h>> \in Seq(Notices)
      BY <3>1
    <3>4. QED
      BY <3>1, <3>2, <3>3
  <2> HIDE DEF m, t, h
  <2>4. t \o m \in Seq(Notices) /\ CountIn(Packet, t \o m) = CountIn(Packet, t) + CountIn(Packet, m)
        /\ CountIn(Packet, t) \in Nat
    BY <2>2, <2>3, CountsAddUp, ConcatProperties, CountsAreNumbers
  <2>5. Packets = CountIn(Packet, <<h>>) + CountIn(Packet, t)
    BY <1>0, <2>3, CountsAddUp
  <2>6. CountIn(Packet, <<h>>) = IF h \in Packet THEN 1 ELSE 0
    BY CountOfOne
  <2>7. sent' \in Seq(Notices) /\ Packets' = CountIn(Packet, t) + CountIn(Packet, m)
    BY <1>00, <2>1, <2>4
  <2>8. h \in Packet => ~(Packets' > Packets)
    BY <2>2, <2>4, <2>5, <2>6, <2>7
  <2>9. h \notin Packet => h.what = "screen"
    BY <2>3 DEF Packet, Notices
  <2>10. m_media_test_enabled /\ Wanted("media") => Packets' # 0
    BY <2>2, <2>4, <2>7
  <2>11. Grows
    BY <2>8, <2>9 DEF h
  <2>12. Stalls
    BY <2>1, <2>10
  <2>13. QED
    BY <1>0, <2>1, <2>7, <2>11, <2>12 DEF SentInv
<1>6. \/ UNCHANGED <<sent, m_media_test_enabled>> \/ handle_indication_notify_sent_done
      \/ \E a \in KanbanClients : ClientGoes(a)
      \/ \E on \in BOOLEAN : set_sreen_on_off(on) \/ start_media_test(on)
  <2>1. ASSUME NEW a, NEW s, NEW attribute, handle_client_read_request(a, s, attribute)
        PROVE  UNCHANGED <<sent, m_media_test_enabled>>
    BY <2>1 DEF handle_client_read_request
  <2>2. ASSUME NEW a, NEW s, NEW feature, NEW on,
               \/ handle_client_write_characteristic_request(a, s, feature, on)
               \/ handle_client_request_write_descriptor_request(a, s, feature, on)
        PROVE  UNCHANGED <<sent, m_media_test_enabled>>
    BY <2>2 DEF handle_client_write_characteristic_request,
                handle_client_request_write_descriptor_request
  <2>3. ASSUME NEW ok, handle_register_service_result(ok) \/ handle_service_body_added_result(ok)
        PROVE  UNCHANGED <<sent, m_media_test_enabled>>
    BY <2>3 DEF handle_register_service_result, handle_service_body_added_result
  <2>4. ASSUME NEW a, ClientConnects(a)
        PROVE  UNCHANGED <<sent, m_media_test_enabled>>
    BY <2>4 DEF ClientConnects
  <2>5. RegisterService \/ stop_service \/ UNCHANGED kanbanVars =>
          UNCHANGED <<sent, m_media_test_enabled>>
    BY DEF RegisterService, stop_service, kanbanVars
  <2>6. QED
    BY <2>1, <2>2, <2>3, <2>4, <2>5 DEF KanbanNext
<1>7. Fine
  <2> HIDE DEF Fine
  <2>1. QED
    BY <1>1, <1>2, <1>3, <1>4, <1>5, <1>6
<1>8. QED
  BY <1>7

LEMMA KanbanHolds == KanbanSpec => [](KanbanIInv /\ SentInv)
<1>1. KanbanInit => SentInv
  <2>1. <<>> \in Seq(Notices)
    OBVIOUS
  <2>2. QED
    BY <2>1 DEF KanbanInit, SentInv
<1>2. KanbanIInv /\ SentInv /\ [KanbanNext]_kanbanVars => KanbanIInv' /\ SentInv'
  BY KanbanStep, SentStep
<1>3. QED
  BY KanbanInvAtStart, <1>1, <1>2, PTL DEF KanbanSpec

\* The types of the server.
LEMMA KanbanTypes == KanbanIInv /\ SentInv => KanbanTypeOK
<1> SUFFICES ASSUME KanbanIInv, SentInv
             PROVE  KanbanTypeOK
  OBVIOUS
<1>1. Book(m_kanban_clients, believes, linked, early) /\ believes \in Beliefs
  BY DEF KanbanIInv, KanbanBook, Book
<1>2. m_server_if \in 0 .. MaxRegistrations /\ mapped \in 0 .. m_server_if
      /\ registrations.answered <= registrations.asked
  BY KanbanAssumption DEF KanbanIInv, ServiceInv
<1>3. m_kanban_clients \in Seq([addr : KanbanClients, connected : BOOLEAN, enabled : SUBSET Features])
  BY <1>1 DEF Book, Entries
<1>4. \A i, j \in DOMAIN m_kanban_clients :
        m_kanban_clients[i].addr = m_kanban_clients[j].addr => i = j
  BY <1>1, BookTypes DEF Book, ListedOnce
<1>5. linked \subseteq KanbanClients /\ (alone \cup early) \subseteq linked
  BY <1>1 DEF Book, KanbanIInv, LoneInv
<1>6. \A a \in KanbanClients : believes[a].enabled \subseteq Features /\ believes[a].at \in 0 .. mapped
  BY <1>1 DEF Beliefs, Belief, KanbanIInv, ServiceInv, AskedBefore
<1>7. sent \in Seq([to : KanbanClients, what : Features])
  <2>1. \A i \in 1 .. Len(sent) : sent[i] \in Notices
    BY ElementOfSeq DEF SentInv
  <2>2. Notices \subseteq [to : KanbanClients, what : Features]
    BY DEF Notices, Features
  <2>3. Len(sent) \in Nat /\ sent \in [1 .. Len(sent) -> [to : KanbanClients, what : Features]]
    BY <2>1, <2>2, LenProperties DEF SentInv
  <2>4. QED
    BY <2>3, FunctionIsList
<1>8. {m_screen_on_off, m_media_test_enabled} \subseteq BOOLEAN
  BY DEF KanbanIInv, SentInv
<1>9. QED
  BY <1>2, <1>3, <1>4, <1>5, <1>6, <1>7, <1>8 DEF KanbanTypeOK, KanbanIInv, ServiceInv

\* A packet is added to those under way only by a start after a stop or by the
\* report of a screen's notification, and a test that is on stops sending only
\* when its client goes or wants no more (PageKanban::handle_media_test_event,
\* start_media_test).
THEOREM MediaTestEndures == KanbanSpec => MediaTestGoesOn
<1>1. KanbanIInv /\ SentInv /\ [KanbanNext]_kanbanVars
        => [Packets' > Packets /\ Packets > 0
               => (m_media_test_enabled' /\ ~m_media_test_enabled) \/ Head(sent).what = "screen"]_kanbanVars
  BY SentStep
<1>2. KanbanIInv /\ SentInv /\ [KanbanNext]_kanbanVars
        => [m_media_test_enabled' /\ Packets' = 0
               => m_media_test_enabled /\ (Packets = 0 \/ ~Wanted("media") \/ linked' # linked)]_kanbanVars
  BY SentStep
<1>3. QED
  BY <1>1, <1>2, KanbanHolds, PTL DEF KanbanSpec, MediaTestGoesOn, StreamsMultiplyOnlySo, TestStallsOnlySo

(***************************************************************************)
(* The pages that connect: what they show, and what their dialogs ask for.  *)
(***************************************************************************)
LinkRecords == [status : LinkStatus, address : PpDevices \cup {PpNoDevice}]

ShownInv == link \in [Linked -> LinkRecords] /\ ShownStatusIsCurrent

LEMMA StatusByPage ==
  /\ StatusOf("sink") = MediaStatus
  /\ StatusOf("source") = SourceStatus
  /\ StatusOf("hid") = HidStatus
BY DEF StatusOf

\* A drawing makes the page right; a change of the link signals it.
LEMMA ShownStep == ShownInv /\ [PpNext]_ppVars => ShownInv'
<1> SUFFICES ASSUME ShownInv, [PpNext]_ppVars
             PROVE  ShownInv'
  OBVIOUS
<1> DEFINE Watched == {"sink", "source", "hid"}
<1>1. ASSUME UNCHANGED <<link, audioConfig, modulesInited>>
      PROVE  link' \in [Linked -> LinkRecords] /\ \A p : StatusOf(p)' = StatusOf(p)
  BY <1>1 DEF ShownInv, StatusOf, MediaStatus, SourceStatus, GatewayStatus, HidStatus
<1>2. ASSUME UNCHANGED <<link, audioConfig, modulesInited>>,
             UNCHANGED <<topPage, covered, shownStatus, freshRequested>>
      PROVE  ShownInv'
  BY <1>1, <1>2 DEF ShownInv, ShownStatusIsCurrent, OnScreen
<1>3. ASSUME NEW page, ShowPage(page)
      PROVE  ShownInv'
  <2>1. topPage' = page /\ shownStatus' = StatusOf(page)
        /\ UNCHANGED <<link, audioConfig, modulesInited>>
    BY <1>3 DEF ShowPage, stackVars
  <2>2. shownStatus' = StatusOf(page)'
    BY <1>1, <2>1
  <2>3. QED
    BY <1>1, <2>1, <2>2 DEF ShownInv, ShownStatusIsCurrent, OnScreen
<1>4. CASE UncoverPage
  <2>1. topPage' = topPage /\ shownStatus' = StatusOf(topPage)
        /\ UNCHANGED <<link, audioConfig, modulesInited>>
    BY <1>4 DEF UncoverPage, stackVars
  <2>2. QED
    BY <1>1, <2>1 DEF ShownInv, ShownStatusIsCurrent, OnScreen
<1>5. CASE CoverPage
  <2>1. covered' /\ UNCHANGED <<link, audioConfig, modulesInited>>
    BY <1>5 DEF CoverPage, stackVars
  <2>2. QED
    BY <1>1, <2>1 DEF ShownInv, ShownStatusIsCurrent, OnScreen
<1>6. ASSUME NEW page, FreshRequested(page)
      PROVE  ShownInv'
  <2>1. freshRequested' = freshRequested \ {page} /\ UNCHANGED <<topPage, covered>>
        /\ shownStatus' = (IF page = topPage /\ ~covered THEN StatusOf(page) ELSE shownStatus)
        /\ UNCHANGED <<link, audioConfig, modulesInited>>
    BY <1>6 DEF FreshRequested, stackVars
  <2>2. QED
    BY <1>1, <2>1 DEF ShownInv, ShownStatusIsCurrent, OnScreen
<1>7. ASSUME NEW m \in Linked, NEW r \in LinkRecords, link' = [link EXCEPT ![m] = r],
             SignalPage(m), UNCHANGED <<modulesInited, audioConfig, topPage, covered, shownStatus>>
      PROVE  ShownInv'
  <2>1. link' \in [Linked -> LinkRecords] /\ \A p \in Linked : p # m => link'[p] = link[p]
    BY <1>7 DEF ShownInv
  <2>2. \A p \in Watched : p # m => StatusOf(p)' = StatusOf(p)
    <3>1. Watched \subseteq Linked
      BY DEF Linked
    <3>2. m # "sink" => MediaStatus' = MediaStatus
      BY <1>7, <2>1, <3>1 DEF MediaStatus
    <3>3. m # "source" => SourceStatus' = SourceStatus
      BY <2>1, <3>1 DEF SourceStatus
    <3>4. m # "hid" => HidStatus' = HidStatus
      BY <2>1, <3>1 DEF HidStatus
    <3>5. /\ StatusOf("sink")' = MediaStatus'
          /\ StatusOf("source")' = SourceStatus'
          /\ StatusOf("hid")' = HidStatus'
      BY DEF StatusOf
    <3>6. QED
      BY <3>2, <3>3, <3>4, <3>5, StatusByPage
  <2>3. \A p \in Watched : p = m => p \in freshRequested'
    BY <1>7 DEF SignalPage
  <2>4. freshRequested \subseteq freshRequested'
    BY <1>7 DEF SignalPage
  <2>5. QED
    BY <1>7, <2>1, <2>2, <2>3, <2>4 DEF ShownInv, ShownStatusIsCurrent, OnScreen
<1>8. ASSUME NEW d \in PpDevices, NEW s \in LinkStatus, LinkChanges(d, s)
      PROVE  ShownInv'
  <2>1. [status |-> s, address |-> d] \in LinkRecords
    BY DEF LinkRecords
  <2>2. {"sink", "source", "ag", "hid"} = Linked
    BY DEF Linked
  <2>3. \E m \in {"sink", "source", "ag", "hid"} :
          link' = [link EXCEPT ![m] = [status |-> s, address |-> d]] /\ SignalPage(m)
    BY <1>8 DEF LinkChanges, SinkStatusChanged, SourceStatusChanged, GatewayStatusChanged,
                HidStatusChanged
  <2>4. UNCHANGED <<modulesInited, audioConfig, topPage, covered, shownStatus>>
    BY <1>8 DEF LinkChanges
  <2>5. QED
    BY <1>7, <2>1, <2>2, <2>3, <2>4
<1>9. ASSUME NEW c, AudioConfigChanged(c)
      PROVE  ShownInv'
  <2>1. "sink" \in freshRequested' /\ freshRequested \subseteq freshRequested'
        /\ UNCHANGED <<modulesInited, link, topPage, covered, shownStatus>>
    BY <1>9 DEF AudioConfigChanged, SignalPage
  <2>2. /\ StatusOf("source")' = StatusOf("source")
        /\ StatusOf("hid")' = StatusOf("hid")
    BY <2>1 DEF StatusOf, SourceStatus, HidStatus
  <2>3. QED
    BY <2>1, <2>2 DEF ShownInv, ShownStatusIsCurrent, OnScreen
<1>10. CASE InitModules
  <2>1. UNCHANGED <<link, audioConfig, topPage, covered, shownStatus, freshRequested>> /\ ~modulesInited
    BY <1>10 DEF InitModules, screenVars
  <2>2. /\ StatusOf("source")' = StatusOf("source")
        /\ StatusOf("hid")' = StatusOf("hid")
    BY <2>1 DEF StatusOf, SourceStatus, HidStatus
  <2>3. StatusOf("sink") = Unknown
    BY <2>1, StatusByPage DEF MediaStatus
  <2>4. QED
    BY <2>1, <2>2, <2>3 DEF ShownInv, ShownStatusIsCurrent, OnScreen
<1>11. ASSUME NEW page, OpenProfilePage(page)
       PROVE  ShownInv'
  BY <1>3, <1>11 DEF OpenProfilePage
<1>12. CASE LeaveProfilePage \/ OpenGattPage \/ LeaveGattPage
  BY <1>3, <1>12 DEF LeaveProfilePage, OpenGattPage, LeaveGattPage
<1>13. ASSUME NEW p, NEW e, StartPageDialog(p, e)
       PROVE  ShownInv'
  BY <1>2, <1>13 DEF StartPageDialog, stackVars, screenVars
<1>14. ASSUME NEW p, NEW a, PpUserAnswers(p, a)
       PROVE  ShownInv'
  BY <1>2, <1>14 DEF PpUserAnswers, stackVars, screenVars
<1>15. ASSUME NEW p, ChooseOption(p)
       PROVE  ShownInv'
  BY <1>2, <1>15 DEF ChooseOption, stackVars, screenVars
<1>16. ASSUME NEW d, PairedListChanges(d)
       PROVE  ShownInv'
  BY <1>2, <1>16 DEF PairedListChanges, stackVars, screenVars
<1>17. CASE UNCHANGED ppVars
  BY <1>2, <1>17 DEF ppVars, stackVars, screenVars
<1>18. QED
  BY <1>4, <1>5, <1>6, <1>8, <1>9, <1>10, <1>11, <1>12, <1>13, <1>14, <1>15, <1>16, <1>17 DEF PpNext

\* A page on the screen shows the link as it is, or its refresh is in the
\* queue (PageMedia, PageA2dpSource, PageHidHost: PageNeedFresh).
THEOREM StatusIsShown == PpSpec => []ShownStatusIsCurrent
<1>1. PpInit => ShownInv
  BY DEF PpInit, ShownInv, ShownStatusIsCurrent, OnScreen, LinkRecords, LinkStatus
<1>2. ShownInv => ShownStatusIsCurrent
  BY DEF ShownInv
<1>3. QED
  BY <1>1, <1>2, ShownStep, PTL DEF PpSpec

\* What a call of an executor may ask for: nothing, a connection to a device
\* paired now, the focus for a connected sink.
Rightly(req) ==
    \/ req = NoRequest
    \/ req[2] = "connect" /\ req[3] \in Range(pairedList)
    \/ req[2] = "focus" /\ link["sink"].status = "Connected"

LEMMA AskedForPaired ==
  ASSUME NEW s, NEW answer, NEW page
  PROVE  LET r == AskForPaired(s, answer, page).request
         IN  \/ r = NoRequest
             \/ \E d \in Range(pairedList) : r = <<page, "connect", d>>
<1>1. CASE s.step = 0
  BY <1>1 DEF AskForPaired, Done, Again
<1>2. CASE s.step # 0 /\ ChosenPaired(answer) = PpNoDevice
  BY <1>2 DEF AskForPaired, Again
<1>3. CASE s.step # 0 /\ ChosenPaired(answer) # PpNoDevice
  <2>1. answer \in DOMAIN pairedList /\ ChosenPaired(answer) = pairedList[answer]
    BY <1>3 DEF ChosenPaired
  <2>2. ChosenPaired(answer) \in Range(pairedList)
    BY <2>1 DEF Range
  <2>3. AskForPaired(s, answer, page).request = <<page, "connect", ChosenPaired(answer)>>
    BY <1>3 DEF AskForPaired, Done
  <2>4. QED
    BY <2>2, <2>3
<1>4. QED
  BY <1>1, <1>2, <1>3

LEMMA ExecutorsAskRightly ==
  ASSUME NEW page \in ProfilePage, NEW s, NEW answer
  PROVE  Rightly(PpExecute(page, s, answer).request)
<1> DEFINE requested(p) == AskForPaired(s, answer, p).request
<1>1. ASSUME NEW p, NEW r, r = requested(p)
      PROVE  Rightly(r)
  BY <1>1, AskedForPaired DEF Rightly
<1>2. ASSUME NEW p
      PROVE  ThenBackToBeginning(AskForPaired(s, answer, p)).request = requested(p)
  BY DEF ThenBackToBeginning, Done
<1> HIDE DEF requested
<1>3. CASE s.executor = "focus"
  <2>1. HandleAudioFocusRequest(s, answer).request \in {NoRequest, <<"sink", "focus", answer>>}
        /\ (link["sink"].status # "Connected" => HandleAudioFocusRequest(s, answer).request = NoRequest)
    BY DEF HandleAudioFocusRequest, Done, Again
  <2>2. Rightly(HandleAudioFocusRequest(s, answer).request)
    BY <2>1 DEF Rightly
  <2>3. QED
    BY <1>3, <2>2 DEF PpExecute
<1>4. CASE s.executor = "split"
  <2>1. GatewaySplitCall(s, answer).request = NoRequest
    BY DEF GatewaySplitCall, Done, Again
  <2>2. QED
    BY <1>4, <2>1 DEF PpExecute, Rightly
<1>5. CASE s.executor \notin {"focus", "split"}
  <2>1. CASE page \in {"sink", "hid", "pan"}
    BY <1>1, <1>2, <1>5, <2>1 DEF PpExecute, MediaConnectRequest, HidConnectRequest, PanConnectRequest
  <2>2. CASE page \in {"source", "ag", "rfcomm", "ancs"}
    BY <1>1, <1>5, <2>2 DEF PpExecute, SourceConnectRequest, GatewayConnectRequest,
         RfcommConnectRequest, AncsConnectRequest, requested
  <2>3. CASE page = "kanbanclient"
    <3>1. KanbanClientConnectRequest(s, answer).request = NoRequest
      BY DEF KanbanClientConnectRequest, AskForPaired, Done, Again
    <3>2. QED
      BY <1>5, <2>3, <3>1 DEF PpExecute, Rightly
  <2>4. CASE page = "l2cap"
    <3> DEFINE r == AskForPaired(s, answer, "l2cap").request
               psm == IF m_try_to_connect_br THEN "br" ELSE "le"
    <3>1. L2capConnectRequest(s, answer).request = IF r = NoRequest THEN r ELSE Append(r, psm)
      BY DEF L2capConnectRequest, Done
    <3>2. CASE r = NoRequest
      BY <1>5, <2>4, <3>1, <3>2 DEF PpExecute, Rightly
    <3>3. ASSUME NEW d \in Range(pairedList), r = <<"l2cap", "connect", d>>
          PROVE  Rightly(Append(r, psm))
      BY <3>3 DEF Rightly
    <3>4. r = NoRequest \/ \E d \in Range(pairedList) : r = <<"l2cap", "connect", d>>
      BY AskedForPaired
    <3> HIDE DEF r, psm
    <3>5. Rightly(L2capConnectRequest(s, answer).request)
      BY <3>1, <3>3, <3>4 DEF Rightly
    <3>6. QED
      BY <1>5, <2>4, <3>5 DEF PpExecute
  <2>5. QED
    BY <2>1, <2>2, <2>3, <2>4 DEF ProfilePage, Linked, GattPage
<1>6. QED
  BY <1>3, <1>4, <1>5

LEMMA OptionsAskNeither ==
  ASSUME NEW page \in ProfilePage, NEW r \in RequestsOf(page), r # NoRequest
  PROVE  r[2] # "connect" /\ r[2] # "focus"
<1>1. CASE page = "sink"
  BY <1>1 DEF RequestsOf, MediaDisconnect
<1>2. CASE page = "source"
  BY <1>2 DEF RequestsOf, SourceDisconnect, SetActiveDevice, SetSilenceDevice
<1>3. CASE page = "ag"
  BY <1>3 DEF RequestsOf, GatewayDisconnect, GatewayDial, GatewayAnswer
<1>4. CASE page = "hid"
  BY <1>4 DEF RequestsOf, HidDisconnect, HidGetReport
<1>5. CASE page \in {"pan", "rfcomm", "l2cap"}
  BY <1>5 DEF RequestsOf, PanDisconnect, RfcommCustomTest, L2capListen
<1>6. CASE page \in GattPage
  BY <1>6 DEF RequestsOf, GattPage
<1>7. QED
  BY <1>1, <1>2, <1>3, <1>4, <1>5, <1>6 DEF ProfilePage, Linked

\* A connection is asked for only to a device paired at that moment, the audio
\* focus only for a link that is up (HandleConnectRequest of the pages,
\* HandleAudioFocusRequest).
THEOREM AskedRightly == PpSpec => RequestsAreRight
<1> DEFINE Right == moduleRequest' # NoRequest =>
                      /\ moduleRequest'[2] = "connect" => moduleRequest'[3] \in Range(pairedList)
                      /\ moduleRequest'[2] = "focus" => link["sink"].status = "Connected"
<1>1. ASSUME PpNext
      PROVE  Right
  <2>1. ASSUME NEW r, Rightly(r), moduleRequest' = r
        PROVE  Right
    BY <2>1 DEF Rightly
  <2>2. ASSUME NEW p \in ProfilePage, NEW e, StartPageDialog(p, e)
        PROVE  Right
    BY <2>1, <2>2, ExecutorsAskRightly DEF StartPageDialog
  <2>3. ASSUME NEW p \in ProfilePage, NEW a, PpUserAnswers(p, a)
        PROVE  Right
    <3> DEFINE s == scheduler[p]
               result == IF TriedTooOften(s) THEN Done(s, NoRequest) ELSE PpExecute(p, Trying(s), a)
    <3>1. Rightly(result.request)
      BY ExecutorsAskRightly DEF Done, Rightly
    <3>2. moduleRequest' = result.request
      BY <2>3 DEF PpUserAnswers
    <3> HIDE DEF result
    <3>3. QED
      BY <2>1, <3>1, <3>2
  <2>4. ASSUME NEW p \in ProfilePage, ChooseOption(p)
        PROVE  Right
    BY <2>4, OptionsAskNeither DEF ChooseOption
  <2>5. CASE moduleRequest' = NoRequest
    BY <2>5
  <2>6. QED
    BY <1>1, <2>2, <2>3, <2>4, <2>5
       DEF PpNext, InitModules, LinkChanges, AudioConfigChanged, PairedListChanges, CoverPage,
           UncoverPage, LeaveProfilePage, OpenGattPage, LeaveGattPage, OpenProfilePage,
           FreshRequested, ShowPage
<1>2. [PpNext]_ppVars => [moduleRequest' # NoRequest /\ moduleRequest'[2] = "connect"
                             => moduleRequest'[3] \in Range(pairedList)]_ppVars
  BY <1>1
<1>3. [PpNext]_ppVars => [moduleRequest' # NoRequest /\ moduleRequest'[2] = "focus"
                             => link["sink"].status = "Connected"]_ppVars
  BY <1>1
<1>4. QED
  BY <1>2, <1>3, PTL DEF PpSpec, RequestsAreRight, RequestedIsPaired, FocusOnlyConnected

-----------------------------------------------------------------------------
(* The pages' types: between two answers a dialog holds no parameter.        *)

Parked == [executor : PpExecutors \cup {NoExecutor}, parameters : {<<>>}, step : 0 .. 1,
           tries : 0 .. m_maxExecutionTimes + 1]
Running == [executor : PpExecutors \cup {NoExecutor}, parameters : Seq(Nat), step : Nat,
            tries : Nat]

\* A dialog that has ended leaves its scheduler idle.
LEMMA EndedIsIdle ==
  ASSUME NEW s \in Running
  PROVE  Cleared(s) = Idle
<1>1. <<>> \in Seq(Nat)
  OBVIOUS
<1>2. /\ Cleared(s) \in Running /\ Cleared(s).executor = NoExecutor
      /\ Cleared(s).parameters = <<>> /\ Cleared(s).step = 0 /\ Cleared(s).tries = 0
  BY <1>1 DEF Cleared, BackToBeginning, Running
<1>3. /\ Idle \in Running /\ Idle.executor = NoExecutor
      /\ Idle.parameters = <<>> /\ Idle.step = 0 /\ Idle.tries = 0
  BY <1>1 DEF Idle, Running
<1>4. \A a, b \in Running :
         a.executor = b.executor /\ a.parameters = b.parameters /\ a.step = b.step
             /\ a.tries = b.tries => a = b
  BY DEF Running
<1>5. QED
  BY <1>2, <1>3, <1>4

\* One call of an executor ends the dialog or leaves it parked.
ParkedOrDone(r) ==
    \/ r.done /\ r.scheduler \in Running
    \/ ~r.done /\ r.scheduler \in Parked

LEMMA RunIsParked ==
  ASSUME NEW r, ParkedOrDone(r)
  PROVE  AfterRun(r) \in Parked
<1>1. Idle \in Parked
  BY MaxExecutionTimesAssumption DEF Idle, Parked
<1>2. CASE r.done /\ r.scheduler \in Running
  BY <1>1, <1>2, EndedIsIdle DEF AfterRun
<1>3. CASE ~r.done /\ r.scheduler \in Parked
  BY <1>3 DEF AfterRun
<1>4. QED
  BY <1>2, <1>3 DEF ParkedOrDone

ParkedFields(s) ==
    /\ s = [executor |-> s.executor, parameters |-> s.parameters, step |-> s.step,
            tries |-> s.tries]
    /\ s.executor \in PpExecutors \cup {NoExecutor} /\ s.step \in Nat /\ s.tries \in Nat

LEMMA ParkedHasFields ==
  ASSUME NEW s \in Parked
  PROVE  ParkedFields(s) /\ s.parameters = <<>>
<1>1. /\ s = [executor |-> s.executor, parameters |-> s.parameters, step |-> s.step,
             tries |-> s.tries]
      /\ s.executor \in PpExecutors \cup {NoExecutor} /\ s.parameters = <<>>
      /\ s.step \in 0 .. 1 /\ s.tries \in 0 .. m_maxExecutionTimes + 1
  BY DEF Parked
<1>2. s.step \in Nat /\ s.tries \in Nat
  BY <1>1, MaxExecutionTimesAssumption
<1>3. QED
  BY <1>1, <1>2 DEF ParkedFields

LEMMA ParkedRuns ==
  ASSUME NEW s \in Parked
  PROVE  s \in Running
<1>1. <<>> \in Seq(Nat)
  OBVIOUS
<1>2. ParkedFields(s) /\ s.parameters = <<>>
  BY ParkedHasFields
<1>3. QED
  BY <1>1, <1>2 DEF ParkedFields, Running

\* An answer is taken, and taken back when it was no good.
LEMMA AnswerIsTaken ==
  ASSUME NEW s \in Parked, NEW answer \in Nat
  PROVE  /\ AddParameter(s, answer) \in Running
         /\ Asking(AddParameter(s, answer), 2) \in Running
         /\ RemoveLastParameter(Asking(Asking(AddParameter(s, answer), 2), 1)) \in Parked
         /\ Asking(RemoveLastParameter(Asking(AddParameter(s, answer), 2)), 1) \in Parked
         /\ Asking(s, 1) \in Parked
<1>1. Append(<<>>, answer) \in Seq(Nat) /\ Front(Append(<<>>, answer)) = <<>>
  BY AnswerTakenBack
<1> DEFINE p == Append(<<>>, answer)
           given == [executor |-> s.executor, parameters |-> p, step |-> s.step, tries |-> s.tries]
<1> HIDE DEF p
<1>2. s = [executor |-> s.executor, parameters |-> <<>>, step |-> s.step, tries |-> s.tries]
      /\ s.step \in 0 .. 1 /\ s.tries \in 0 .. m_maxExecutionTimes + 1
  BY DEF Parked
<1>3. AddParameter(s, answer) = given
  BY <1>2 DEF AddParameter, p
<1>a. p \in Seq(Nat) /\ ParkedFields(s)
  BY <1>1, ParkedHasFields DEF p
<1>4. given \in Running
  BY <1>a DEF ParkedFields, Running
<1> DEFINE asked2 == [executor |-> s.executor, parameters |-> p, step |-> 2, tries |-> s.tries]
           asked1 == [executor |-> s.executor, parameters |-> p, step |-> 1, tries |-> s.tries]
           back2 == [executor |-> s.executor, parameters |-> <<>>, step |-> 2, tries |-> s.tries]
           back1 == [executor |-> s.executor, parameters |-> <<>>, step |-> 1, tries |-> s.tries]
<1>5. Asking(given, 2) = asked2 /\ Asking(asked2, 1) = asked1
  BY DEF Asking
<1>6. asked2 \in Running
  BY <1>a DEF ParkedFields, Running
<1>7. Front(p) = <<>>
  BY <1>1 DEF p
<1>8. RemoveLastParameter(asked1) = back1 /\ RemoveLastParameter(asked2) = back2
  BY <1>7 DEF RemoveLastParameter
<1>9. Asking(back2, 1) = back1 /\ Asking(s, 1) = back1
  BY <1>2 DEF Asking
<1>10. back1 \in Parked
  BY <1>2 DEF Parked
<1> HIDE DEF given, asked1, asked2, back1, back2
<1>11. QED
  BY <1>3, <1>4, <1>5, <1>6, <1>8, <1>9, <1>10

\* What a call gives is a result: a request comes with the end of the dialog.
WholeResult(r) ==
    /\ r = [done |-> r.done, scheduler |-> r.scheduler, request |-> r.request]
    /\ r.request # NoRequest => r.done
    /\ ParkedOrDone(r)

LEMMA WholeResults ==
  /\ \A s \in Parked : WholeResult(Again(s))
  /\ \A s \in Running : \A req : WholeResult(Done(s, req))
BY DEF WholeResult, ParkedOrDone, Again, Done, NoRequest

LEMMA AskingIsWhole ==
  ASSUME NEW s \in Parked, NEW answer \in Nat, NEW page
  PROVE  WholeResult(AskForPaired(s, answer, page))
<1> DEFINE given == Asking(AddParameter(s, answer), 2)
<1>1. s \in Running /\ given \in Running /\ Asking(s, 1) \in Parked
      /\ Asking(RemoveLastParameter(given), 1) \in Parked
  BY ParkedRuns, AnswerIsTaken
<1>2. AskForPaired(s, answer, page) \in
        {Done(s, NoRequest), Again(Asking(s, 1)), Again(Asking(RemoveLastParameter(given), 1)),
         Done(given, <<page, "connect", ChosenPaired(answer)>>)}
  BY DEF AskForPaired
<1> HIDE DEF given
<1>3. QED
  BY <1>1, <1>2, WholeResults

LEMMA BackIsWhole ==
  ASSUME NEW r, WholeResult(r)
  PROVE  WholeResult(ThenBackToBeginning(r))
<1>1. CASE r.done /\ r.request # NoRequest
  <2>1. r.scheduler \in Running
    BY <1>1 DEF WholeResult, ParkedOrDone
  <2>2. BackToBeginning(r.scheduler) \in Running
    <3>1. <<>> \in Seq(Nat)
      OBVIOUS
    <3>2. QED
      BY <2>1, <3>1 DEF BackToBeginning, Running
  <2>3. QED
    BY <1>1, <2>2, WholeResults DEF ThenBackToBeginning
<1>2. CASE ~(r.done /\ r.request # NoRequest)
  BY <1>2 DEF ThenBackToBeginning
<1>3. QED
  BY <1>1, <1>2

LEMMA ExecutorsPark ==
  ASSUME NEW page \in ProfilePage, NEW s \in Parked, NEW answer \in Nat
  PROVE  ParkedOrDone(PpExecute(page, s, answer))
<1>1. s \in Running /\ Asking(s, 1) \in Parked
  BY ParkedRuns, AnswerIsTaken
<1>2. CASE s.executor = "focus"
  <2> DEFINE given == Asking(AddParameter(s, answer), 2)
  <2>1. given \in Running /\ RemoveLastParameter(Asking(given, 1)) \in Parked
    BY AnswerIsTaken
  <2>2. HandleAudioFocusRequest(s, answer) \in
          {Done(s, NoRequest), Again(Asking(s, 1)), Done(given, <<"sink", "focus", answer>>),
           Again(RemoveLastParameter(Asking(given, 1)))}
    BY DEF HandleAudioFocusRequest
  <2> HIDE DEF given
  <2>3. WholeResult(HandleAudioFocusRequest(s, answer))
    BY <1>1, <2>1, <2>2, WholeResults
  <2>4. QED
    BY <1>2, <2>3 DEF PpExecute, WholeResult
<1>3. CASE s.executor = "split"
  <2> DEFINE given == AddParameter(s, answer)
  <2>1. given \in Running
    BY AnswerIsTaken
  <2>2. GatewaySplitCall(s, answer) \in {Again(Asking(s, 1)), Done(Cleared(given), NoRequest)}
    BY DEF GatewaySplitCall
  <2> HIDE DEF given
  <2>3. Cleared(given) \in Running
    <3>1. Idle \in Parked
      BY MaxExecutionTimesAssumption DEF Idle, Parked
    <3>2. QED
      BY <2>1, <3>1, EndedIsIdle, ParkedRuns
  <2>4. WholeResult(GatewaySplitCall(s, answer))
    BY <1>1, <2>2, <2>3, WholeResults
  <2>5. QED
    BY <1>3, <2>4 DEF PpExecute, WholeResult
<1>4. CASE s.executor \notin {"focus", "split"}
  <2>1. CASE page \in {"sink", "hid", "pan"}
    <3>1. WholeResult(ThenBackToBeginning(AskForPaired(s, answer, page)))
      BY AskingIsWhole, BackIsWhole
    <3>2. QED
      BY <1>4, <2>1, <3>1 DEF PpExecute, MediaConnectRequest, HidConnectRequest,
                              PanConnectRequest, WholeResult
  <2>2. CASE page \in {"source", "ag", "rfcomm", "ancs"}
    <3>1. WholeResult(AskForPaired(s, answer, page))
      BY AskingIsWhole
    <3>2. QED
      BY <1>4, <2>2, <3>1 DEF PpExecute, SourceConnectRequest, GatewayConnectRequest,
                              RfcommConnectRequest, AncsConnectRequest, WholeResult
  <2>3. CASE page = "kanbanclient"
    <3> DEFINE r == AskForPaired(s, answer, "kanbanclient")
    <3>1. WholeResult(r)
      BY AskingIsWhole
    <3>2. PpExecute(page, s, answer) = [r EXCEPT !.request = NoRequest]
      BY <1>4, <2>3 DEF PpExecute, KanbanClientConnectRequest
    <3> HIDE DEF r
    <3>3. [r EXCEPT !.request = NoRequest].done = r.done
          /\ [r EXCEPT !.request = NoRequest].scheduler = r.scheduler
      BY <3>1 DEF WholeResult
    <3>4. QED
      BY <3>1, <3>2, <3>3 DEF WholeResult, ParkedOrDone
  <2>4. CASE page = "l2cap"
    <3> DEFINE r == AskForPaired(s, answer, "l2cap")
    <3>1. WholeResult(r)
      BY AskingIsWhole
    <3>2. PICK req : PpExecute(page, s, answer) =
                       IF r.request = NoRequest THEN r ELSE Done(r.scheduler, req)
      BY <1>4, <2>4 DEF PpExecute, L2capConnectRequest
    <3> HIDE DEF r
    <3>3. r.request # NoRequest => r.scheduler \in Running
      BY <3>1 DEF WholeResult, ParkedOrDone
    <3>4. WholeResult(PpExecute(page, s, answer))
      BY <3>1, <3>2, <3>3, WholeResults
    <3>5. QED
      BY <3>4 DEF WholeResult
  <2>5. QED
    BY <2>1, <2>2, <2>3, <2>4 DEF ProfilePage, Linked, GattPage
<1>5. QED
  BY <1>2, <1>3, <1>4

\* A request names the page that makes it first.
Named(req) == req = NoRequest \/ req[1] \in ProfilePage

LEMMA ExecutorsName ==
  ASSUME NEW page \in ProfilePage, NEW s, NEW answer
  PROVE  Named(PpExecute(page, s, answer).request)
<1> DEFINE requested(p) == AskForPaired(s, answer, p).request
<1>1. ASSUME NEW p \in ProfilePage, NEW r, r = requested(p)
      PROVE  Named(r)
  BY <1>1, AskedForPaired DEF Named
<1>2. ASSUME NEW p
      PROVE  ThenBackToBeginning(AskForPaired(s, answer, p)).request = requested(p)
  BY DEF ThenBackToBeginning, Done
<1> HIDE DEF requested
<1>0. {"sink", "source", "ag", "hid", "pan", "rfcomm", "l2cap", "ancs", "kanbanclient"} = ProfilePage
  BY DEF ProfilePage, Linked, GattPage
<1>3. CASE s.executor = "focus"
  <2>1. HandleAudioFocusRequest(s, answer).request \in {NoRequest, <<"sink", "focus", answer>>}
    BY DEF HandleAudioFocusRequest, Done, Again
  <2>2. Named(HandleAudioFocusRequest(s, answer).request)
    BY <1>0, <2>1 DEF Named
  <2>3. QED
    BY <1>3, <2>2 DEF PpExecute
<1>4. CASE s.executor = "split"
  <2>1. GatewaySplitCall(s, answer).request = NoRequest
    BY DEF GatewaySplitCall, Done, Again
  <2>2. QED
    BY <1>4, <2>1 DEF PpExecute, Named
<1>5. CASE s.executor \notin {"focus", "split"}
  <2>1. CASE page \in {"sink", "hid", "pan"}
    BY <1>1, <1>2, <1>5, <2>1 DEF PpExecute, MediaConnectRequest, HidConnectRequest, PanConnectRequest
  <2>2. CASE page \in {"source", "ag", "rfcomm", "ancs"}
    BY <1>1, <1>5, <2>2 DEF PpExecute, SourceConnectRequest, GatewayConnectRequest,
         RfcommConnectRequest, AncsConnectRequest, requested
  <2>3. CASE page = "kanbanclient"
    <3>1. KanbanClientConnectRequest(s, answer).request = NoRequest
      BY DEF KanbanClientConnectRequest, AskForPaired, Done, Again
    <3>2. QED
      BY <1>5, <2>3, <3>1 DEF PpExecute, Named
  <2>4. CASE page = "l2cap"
    <3> DEFINE r == AskForPaired(s, answer, "l2cap").request
               psm == IF m_try_to_connect_br THEN "br" ELSE "le"
    <3>1. L2capConnectRequest(s, answer).request = IF r = NoRequest THEN r ELSE Append(r, psm)
      BY DEF L2capConnectRequest, Done
    <3>2. ASSUME NEW d, r = <<"l2cap", "connect", d>>
          PROVE  Named(Append(r, psm))
      BY <1>0, <3>2 DEF Named
    <3>3. r = NoRequest \/ \E d \in Range(pairedList) : r = <<"l2cap", "connect", d>>
      BY AskedForPaired
    <3> HIDE DEF r, psm
    <3>4. Named(L2capConnectRequest(s, answer).request)
      BY <3>1, <3>2, <3>3 DEF Named
    <3>5. QED
      BY <1>5, <2>4, <3>4 DEF PpExecute
  <2>5. QED
    BY <1>0, <2>1, <2>2, <2>3, <2>4
<1>6. QED
  BY <1>3, <1>4, <1>5

LEMMA OptionsName ==
  ASSUME NEW page \in ProfilePage, NEW r \in RequestsOf(page)
  PROVE  Named(r)
<1>0. {"sink", "source", "ag", "hid", "pan", "rfcomm", "l2cap"} \subseteq ProfilePage
  BY DEF ProfilePage, Linked
<1>1. CASE page = "sink"
  BY <1>0, <1>1 DEF RequestsOf, MediaDisconnect, Named
<1>2. CASE page = "source"
  BY <1>0, <1>2 DEF RequestsOf, SourceDisconnect, SetActiveDevice, SetSilenceDevice, Named
<1>3. CASE page = "ag"
  BY <1>3 DEF RequestsOf, GatewayDisconnect, GatewayDial, GatewayAnswer, Named
<1>4. CASE page = "hid"
  BY <1>0, <1>4 DEF RequestsOf, HidDisconnect, HidGetReport, Named
<1>5. CASE page \in {"pan", "rfcomm", "l2cap"}
  BY <1>0, <1>5 DEF RequestsOf, PanDisconnect, RfcommCustomTest, L2capListen, Named
<1>6. CASE page \in GattPage
  BY <1>6 DEF RequestsOf, GattPage
<1>7. QED
  BY <1>1, <1>2, <1>3, <1>4, <1>5, <1>6 DEF ProfilePage, Linked

\* The pages' own state: a dialog left on any page is parked, the devices are
\* listed once each, a request names its page.
PpTypes ==
    /\ modulesInited \in BOOLEAN /\ covered \in BOOLEAN /\ m_try_to_connect_br \in BOOLEAN
    /\ audioConfig \in 0 .. 1 /\ lineParity \in 0 .. 1
    /\ pairedList \in Seq(PpDevices) /\ IsInjective(pairedList)
    /\ printedList \in BoundedSeq(PpDevices, Cardinality(PpDevices))
    /\ topPage \in ProfilePage \cup {"home", "gatt", "crashed"}
    /\ freshRequested \subseteq Linked
    /\ scheduler \in [ProfilePage -> Parked]
    /\ Named(moduleRequest)

LEMMA PairedListKept ==
  ASSUME NEW s \in Seq(PpDevices), IsInjective(s), NEW d \in PpDevices
  PROVE  LET q == IF d \in Range(s) THEN RemoveFirst(s, d) ELSE Append(s, d)
         IN  q \in Seq(PpDevices) /\ IsInjective(q)
<1>1. CASE d \in Range(s)
  <2>1. PICK k \in 1 .. Len(s) : s[k] = d /\ RemoveFirst(s, d) = RemoveAt(s, k)
    BY <1>1, RemoveFirstPlace
  <2>2. RemoveAt(s, k) \in Seq(PpDevices)
    BY RemoveKeepsList
  <2>3. IsInjective(RemoveAt(s, k))
    BY RemoveKeepsOnce
  <2>4. QED
    BY <1>1, <2>1, <2>2, <2>3
<1>2. CASE d \notin Range(s)
  BY <1>2, AppendKeepsOnce
<1>3. QED
  BY <1>1, <1>2

\* What a numbered answer may be is a number.
LEMMA AnswersAreNumbers == PpAnswers \subseteq Nat /\ Prompt \in PpAnswers
<1>1. Cardinality(PpDevices) \in Nat
  BY PpDevicesAssumption, FS_CardinalityType
<1>2. QED
  BY <1>1 DEF PpAnswers, Prompt

LEMMA PpTypesStep == PpTypes /\ [PpNext]_ppVars => PpTypes'
<1> SUFFICES ASSUME PpTypes, [PpNext]_ppVars
             PROVE  PpTypes'
  OBVIOUS
<1> USE DEF stackVars, screenVars, askVars
<1>0. Named(NoRequest)
  BY DEF Named
<1>1. ASSUME InitModules \/ (\E c \in 0 .. 1 : AudioConfigChanged(c)) \/ CoverPage \/ UncoverPage
             \/ \E p \in ProfilePage : FreshRequested(p)
      PROVE  PpTypes'
  BY <1>0, <1>1 DEF PpTypes, InitModules, AudioConfigChanged, CoverPage, UncoverPage,
                    FreshRequested, SignalPage, Linked
<1>2. ASSUME NEW d \in PpDevices, NEW s \in LinkStatus, LinkChanges(d, s)
      PROVE  PpTypes'
  <2>1. freshRequested' \subseteq Linked
    BY <1>2 DEF PpTypes, LinkChanges, SinkStatusChanged, SourceStatusChanged, GatewayStatusChanged,
                HidStatusChanged, SignalPage, Linked
  <2>2. moduleRequest' = NoRequest
        /\ UNCHANGED <<modulesInited, audioConfig, pairedList, topPage, covered, shownStatus, askVars>>
    BY <1>2 DEF LinkChanges
  <2>3. QED
    BY <1>0, <2>1, <2>2 DEF PpTypes
<1>3. ASSUME NEW d \in PpDevices, PairedListChanges(d)
      PROVE  PpTypes'
  <2>1. pairedList' \in Seq(PpDevices) /\ IsInjective(pairedList')
    BY <1>3, PairedListKept DEF PpTypes, PairedListChanges
  <2>2. QED
    BY <1>0, <1>3, <2>1 DEF PpTypes, PairedListChanges
<1>4. ASSUME NEW page \in ProfilePage \cup {"home", "gatt", "crashed"}, ShowPage(page)
      PROVE  PpTypes'
  BY <1>0, <1>4 DEF PpTypes, ShowPage
<1>5. ASSUME LeaveProfilePage \/ OpenGattPage \/ LeaveGattPage
      PROVE  PpTypes'
  BY <1>4, <1>5 DEF LeaveProfilePage, OpenGattPage, LeaveGattPage, Opener
<1>6. ASSUME NEW p \in ProfilePage, OpenProfilePage(p)
      PROVE  PpTypes'
  BY <1>4, <1>6 DEF OpenProfilePage
<1>7. ASSUME NEW p \in ProfilePage, NEW e \in PpExecutors, StartPageDialog(p, e)
      PROVE  PpTypes'
  <2> DEFINE s == [scheduler[p] EXCEPT !.executor = e]
             result == PpExecute(p, s, Prompt)
  <2>1. s \in Parked
    BY DEF PpTypes, Parked
  <2> HIDE DEF s
  <2>2. ParkedOrDone(result) /\ Named(result.request)
    BY <2>1, ExecutorsPark, ExecutorsName, AnswersAreNumbers
  <2>3. /\ scheduler' = [scheduler EXCEPT ![p] = AfterRun(result)]
        /\ moduleRequest' = result.request
        /\ printedList' \in {pairedList, printedList}
        /\ m_try_to_connect_br' \in BOOLEAN
        /\ UNCHANGED <<stackVars, screenVars, lineParity>>
    BY <1>7 DEF StartPageDialog, PpTypes, s
  <2> HIDE DEF result
  <2>4. scheduler' \in [ProfilePage -> Parked]
    BY <2>2, <2>3, RunIsParked DEF PpTypes
  <2>5. printedList' \in BoundedSeq(PpDevices, Cardinality(PpDevices))
    BY <2>3, OnceIsBounded, PpDevicesAssumption DEF PpTypes
  <2>6. QED
    BY <2>2, <2>3, <2>4, <2>5 DEF PpTypes
<1>8. ASSUME NEW p \in ProfilePage, NEW a \in PpAnswers, PpUserAnswers(p, a)
      PROVE  PpTypes'
  <2> DEFINE s == scheduler[p]
             result == IF TriedTooOften(s) THEN Done(s, NoRequest) ELSE PpExecute(p, Trying(s), a)
  <2>1. s \in Parked
    BY DEF PpTypes
  <2>2. /\ scheduler' = [scheduler EXCEPT ![p] = AfterRun(result)]
        /\ moduleRequest' = result.request
        /\ printedList' \in {<<>>, printedList}
        /\ lineParity' \in {0, 1 - lineParity}
        /\ UNCHANGED <<stackVars, screenVars, m_try_to_connect_br>>
    BY <1>8 DEF PpUserAnswers
  <2> HIDE DEF s
  <2>3. ParkedOrDone(result) /\ Named(result.request)
    <3>1. CASE TriedTooOften(s)
      <4>1. s \in Running
        BY <2>1, ParkedRuns
      <4>2. ParkedOrDone(Done(s, NoRequest)) /\ Done(s, NoRequest).request = NoRequest
        BY <4>1 DEF ParkedOrDone, Done
      <4>3. QED
        BY <1>0, <3>1, <4>2
    <3>2. CASE ~TriedTooOften(s)
      <4>1. Trying(s) \in Parked
        <5>1. s.tries \in 0 .. m_maxExecutionTimes + 1 /\ ~(s.tries > m_maxExecutionTimes)
          BY <2>1, <3>2 DEF Parked, TriedTooOften
        <5>2. s.tries + 1 \in 0 .. m_maxExecutionTimes + 1
          BY <5>1, MaxExecutionTimesAssumption
        <5>3. QED
          BY <2>1, <5>2 DEF Parked, Trying
      <4>2. a \in Nat
        BY AnswersAreNumbers
      <4>3. QED
        BY <3>2, <4>1, <4>2, ExecutorsPark, ExecutorsName
    <3>3. QED
      BY <3>1, <3>2
  <2> HIDE DEF result
  <2>4. scheduler' \in [ProfilePage -> Parked]
    BY <2>2, <2>3, RunIsParked DEF PpTypes
  <2>5. printedList' \in BoundedSeq(PpDevices, Cardinality(PpDevices))
    <3>1. /\ Cardinality(PpDevices) \in Nat
          /\ <<>> \in Seq(PpDevices) /\ Len(<<>>) <= Cardinality(PpDevices)
      BY PpDevicesAssumption, FS_CardinalityType
    <3>2. <<>> \in BoundedSeq(PpDevices, Cardinality(PpDevices))
      BY <3>1, BoundedList
    <3>3. QED
      BY <2>2, <3>2 DEF PpTypes
  <2>6. lineParity' \in 0 .. 1
    BY <2>2 DEF PpTypes
  <2>7. QED
    BY <2>2, <2>3, <2>4, <2>5, <2>6 DEF PpTypes
<1>9. ASSUME NEW p \in ProfilePage, ChooseOption(p)
      PROVE  PpTypes'
  BY <1>9, OptionsName DEF PpTypes, ChooseOption
<1>10. ASSUME UNCHANGED ppVars
       PROVE  PpTypes'
  BY <1>10 DEF PpTypes, ppVars
<1>11. QED
  BY <1>1, <1>2, <1>3, <1>5, <1>6, <1>7, <1>8, <1>9, <1>10 DEF PpNext

LEMMA PpTypesHold == PpSpec => []PpTypeOK
<1>1. PpInit => PpTypes /\ ShownInv
  <2> SUFFICES ASSUME PpInit
               PROVE  PpTypes /\ ShownInv
    OBVIOUS
  <2>1. Idle \in Parked
    BY MaxExecutionTimesAssumption DEF Idle, Parked
  <2>2. /\ Cardinality(PpDevices) \in Nat
        /\ <<>> \in Seq(PpDevices) /\ Len(<<>>) <= Cardinality(PpDevices)
    BY PpDevicesAssumption, FS_CardinalityType
  <2>3. <<>> \in BoundedSeq(PpDevices, Cardinality(PpDevices))
    BY <2>2, BoundedList
  <2>4. IsInjective(<<>>)
    BY DEF IsInjective
  <2>5. PpTypes
    <3>1. scheduler \in [ProfilePage -> Parked]
      BY <2>1 DEF PpInit
    <3>2. /\ pairedList \in Seq(PpDevices) /\ IsInjective(pairedList)
          /\ printedList \in BoundedSeq(PpDevices, Cardinality(PpDevices))
      BY <2>2, <2>3, <2>4 DEF PpInit
    <3>3. /\ modulesInited \in BOOLEAN /\ covered \in BOOLEAN /\ m_try_to_connect_br \in BOOLEAN
          /\ topPage \in ProfilePage \cup {"home", "gatt", "crashed"}
          /\ freshRequested \subseteq Linked
      BY DEF PpInit
    <3>4. audioConfig \in 0 .. 1 /\ lineParity \in 0 .. 1
      BY DEF PpInit
    <3>5. Named(moduleRequest)
      BY Zenon DEF PpInit, Named
    <3>6. QED
      BY <3>1, <3>2, <3>3, <3>4, <3>5 DEF PpTypes
  <2>6. ShownInv
    BY DEF PpInit, ShownInv, ShownStatusIsCurrent, OnScreen, LinkRecords, LinkStatus
  <2>7. QED
    BY <2>5, <2>6
<1>2. PpTypes /\ ShownInv => PpTypeOK
  <2> SUFFICES ASSUME PpTypes, ShownInv
               PROVE  PpTypeOK
    OBVIOUS
  <2>1. pairedList \in BoundedSeq(PpDevices, Cardinality(PpDevices))
    BY OnceIsBounded, PpDevicesAssumption DEF PpTypes
  <2>2. <<>> \in BoundedSeq(PpAnswers, 3)
    <3>1. <<>> \in Seq(PpAnswers) /\ Len(<<>>) <= 3 /\ 3 \in Nat
      OBVIOUS
    <3>2. QED
      BY <3>1, BoundedList
  <2>3. Parked \subseteq SchedulerTypes(PpExecutors, PpAnswers)
    BY <2>2 DEF Parked, SchedulerTypes
  <2>4. scheduler \in [ProfilePage -> SchedulerTypes(PpExecutors, PpAnswers)]
    BY <2>3 DEF PpTypes
  <2>5. link \in [Linked -> [status : LinkStatus, address : PpDevices \cup {PpNoDevice}]]
    BY DEF ShownInv, LinkRecords
  <2>6. QED
    BY <2>1, <2>4, <2>5 DEF PpTypes, PpTypeOK, Named
<1>3. QED
  BY <1>1, <1>2, PpTypesStep, ShownStep, PTL DEF PpSpec

(***************************************************************************)
(* The remote control of the player.                                        *)
(***************************************************************************)
\* A link that is up has a timer, or its report is still to come.
LinkIsPolled ==
    linkUp => posTimers > 0 \/ \E i \in 1 .. Len(reports) : reports[i] = LinkReport(TRUE)

\* What the player does is the last status under way, or known already.
StatusComes ==
    linkUp =>
        \/ \E i \in 1 .. Len(reports) :
              /\ reports[i] = StatusReport(player)
              /\ \A j \in 1 .. Len(reports) : i < j => reports[j].type = "link"
        \/ /\ m_playStatus = player
           /\ \A j \in 1 .. Len(reports) : reports[j].type = "link"

AcIInv ==
    /\ posTimers \in Nat /\ linkUp \in BOOLEAN /\ player \in PlayStatus
    /\ reports \in Seq(Report)
    /\ LinkIsPolled /\ StatusComes
    /\ StatusPageShowsTime

LEMMA ReportRecords ==
  /\ \A up \in BOOLEAN : /\ LinkReport(up) \in Report
                         /\ LinkReport(up).type = "link" /\ LinkReport(up).up = up
  /\ \A s \in PlayStatus : /\ StatusReport(s) \in Report
                           /\ StatusReport(s).type = "status" /\ StatusReport(s).status = s
  /\ \A r \in Report : \/ r.type = "link" /\ r.up \in BOOLEAN /\ r = LinkReport(r.up)
                       \/ r.type = "status" /\ r.status \in PlayStatus
BY DEF LinkReport, StatusReport, Report

LEMMA AcInvAtStart == AcInit => AcIInv
<1> SUFFICES ASSUME AcInit
             PROVE  AcIInv
  OBVIOUS
<1>1. <<>> \in Seq(Report)
  OBVIOUS
<1>2. QED
  BY <1>1 DEF AcInit, Reset, AcIInv, LinkIsPolled, StatusComes, StatusPageShowsTime, PlayStatus

\* A report joins those under way.
LEMMA ReportAdded ==
  ASSUME AcIInv, NEW r \in Report, reports' = Append(reports, r)
  PROVE  /\ reports' \in Seq(Report) /\ Len(reports') = Len(reports) + 1
         /\ Len(reports) \in Nat
         /\ reports'[Len(reports) + 1] = r
         /\ \A i \in 1 .. Len(reports) : reports'[i] = reports[i]
<1>1. reports \in Seq(Report)
  BY DEF AcIInv
<1>2. /\ Append(reports, r) \in Seq(Report) /\ Len(Append(reports, r)) = Len(reports) + 1
      /\ Append(reports, r)[Len(reports) + 1] = r
      /\ \A i \in 1 .. Len(reports) : Append(reports, r)[i] = reports[i]
  BY <1>1, AppendProperties
<1>3. QED
  BY <1>1, <1>2, LenProperties

LEMMA AcReportStep ==
  ASSUME AcIInv, DeliverReport \/ LinkConnects \/ LinkBreaks \/ PlayerChanges
  PROVE  AcIInv'
<1> DEFINE n == Len(reports)
<1>0. /\ posTimers \in Nat /\ linkUp \in BOOLEAN /\ player \in PlayStatus
      /\ reports \in Seq(Report) /\ n \in Nat /\ LinkIsPolled /\ StatusComes
  BY LenProperties DEF AcIInv
<1>1. CASE DeliverReport
  <2> DEFINE r == Head(reports)
  <2>1. reports # <<>> /\ reports' = Tail(reports)
        /\ UNCHANGED <<linkUp, player, m_currentSongPos, m_songLength>>
    BY <1>1 DEF DeliverReport
  <2>2. r \in Report /\ r = reports[1] /\ n # 0
        /\ Tail(reports) \in Seq(Report) /\ Len(Tail(reports)) = n - 1
        /\ \A i \in 1 .. n - 1 : Tail(reports)[i] = reports[i + 1]
    BY <1>0, <2>1, HeadTailProperties, EmptySeq
  <2>3. reports' \in Seq(Report) /\ Len(reports') = n - 1
        /\ \A i \in 1 .. n - 1 : reports'[i] = reports[i + 1]
    BY <2>1, <2>2
  <2>4. \/ /\ r.type = "link" /\ m_playStatus' = m_playStatus
           /\ posTimers' = IF r.up THEN posTimers + 1 ELSE posTimers
        \/ /\ r.type = "status" /\ m_playStatus' = r.status /\ posTimers' = posTimers
    BY <1>1 DEF DeliverReport, AvrcpConnectionStatusChanged, PlayStatusChanged
  <2>5. UNCHANGED <<statusPageOpen, shownTime>>
    BY <1>1 DEF DeliverReport, AvrcpConnectionStatusChanged, PlayStatusChanged, mediaPageVars
  <2> HIDE DEF n, r
  <2>6. /\ posTimers' \in Nat
        /\ posTimers > 0 => posTimers' > 0
        /\ r = LinkReport(TRUE) => posTimers' > 0
    <3>1. LinkReport(TRUE).type = "link" /\ LinkReport(TRUE).up
      BY DEF LinkReport
    <3>2. CASE r.type = "link" /\ r.up /\ posTimers' = posTimers + 1
      <4>1. posTimers \in Nat
        BY <1>0
      <4>2. posTimers + 1 \in Nat /\ posTimers + 1 > 0
        BY <4>1
      <4>3. posTimers' \in Nat /\ posTimers' > 0
        BY <3>2, <4>2
      <4>4. QED
        BY <4>3
    <3>3. CASE ~(r.type = "link" /\ r.up) /\ posTimers' = posTimers
      BY <1>0, <3>1, <3>3
    <3>4. "link" # "status"
      OBVIOUS
    <3>5. QED
      BY <2>4, <3>2, <3>3, <3>4
  <2>7. LinkIsPolled'
    <3>0. linkUp' = linkUp /\ LinkReport(TRUE)' = LinkReport(TRUE)
      BY <2>1 DEF LinkReport
    <3> SUFFICES ASSUME linkUp, ~(posTimers' > 0)
                 PROVE  \E i \in 1 .. Len(reports') : reports'[i] = LinkReport(TRUE)
      BY <3>0 DEF LinkIsPolled
    <3>1. PICK i \in 1 .. n : reports[i] = LinkReport(TRUE)
      <4>1. linkUp /\ ~(posTimers > 0)
        BY <2>6
      <4>2. QED
        BY <1>0, <4>1 DEF LinkIsPolled, n
    <3>2. i # 1
      BY <2>2, <2>6, <3>1
    <3>3. i - 1 \in 1 .. n - 1 /\ (i - 1) + 1 = i
      BY <1>0, <3>2
    <3>4. reports'[i - 1] = LinkReport(TRUE)
      BY <2>3, <3>1, <3>3
    <3>5. QED
      BY <2>3, <3>3, <3>4
  <2>8. StatusComes'
    <3> SUFFICES ASSUME linkUp
                 PROVE  \/ \E i \in 1 .. n - 1 :
                              /\ reports'[i] = StatusReport(player)
                              /\ \A j \in 1 .. n - 1 : i < j => reports'[j].type = "link"
                        \/ /\ m_playStatus' = player
                           /\ \A j \in 1 .. n - 1 : reports'[j].type = "link"
      BY <2>1, <2>3 DEF StatusComes
    <3>1. CASE m_playStatus = player /\ \A j \in 1 .. n : reports[j].type = "link"
      <4>1. r.type = "link"
        BY <1>0, <2>2, <3>1
      <4>2. m_playStatus' = player
        BY <2>4, <3>1, <4>1
      <4>3. \A j \in 1 .. n - 1 : j + 1 \in 1 .. n
        BY <1>0
      <4>4. QED
        BY <2>3, <3>1, <4>2, <4>3
    <3>2. ASSUME NEW i \in 1 .. n, reports[i] = StatusReport(player),
                 \A j \in 1 .. n : i < j => reports[j].type = "link"
          PROVE  \/ \E k \in 1 .. n - 1 :
                       /\ reports'[k] = StatusReport(player)
                       /\ \A j \in 1 .. n - 1 : k < j => reports'[j].type = "link"
                 \/ /\ m_playStatus' = player
                    /\ \A j \in 1 .. n - 1 : reports'[j].type = "link"
      <4>1. CASE i = 1
        <5>1. r.type = "status" /\ r.status = player
          BY <1>0, <2>2, <3>2, <4>1, ReportRecords
        <5>2. m_playStatus' = player
          BY <2>4, <5>1
        <5>3. \A j \in 1 .. n - 1 : j + 1 \in 1 .. n /\ i < j + 1
          BY <1>0, <4>1
        <5>4. QED
          BY <2>3, <3>2, <5>2, <5>3
      <4>2. CASE i # 1
        <5>1. i - 1 \in 1 .. n - 1 /\ (i - 1) + 1 = i
          BY <1>0, <4>2
        <5>2. \A j \in 1 .. n - 1 : i - 1 < j => j + 1 \in 1 .. n /\ i < j + 1
          BY <1>0
        <5>3. reports'[i - 1] = StatusReport(player)
          BY <2>3, <3>2, <5>1
        <5>4. \A j \in 1 .. n - 1 : i - 1 < j => reports'[j].type = "link"
          BY <2>3, <3>2, <5>2
        <5>5. QED
          BY <5>1, <5>3, <5>4
      <4>3. QED
        BY <4>1, <4>2
    <3>3. QED
      BY <1>0, <3>1, <3>2 DEF StatusComes, n
  <2>9. StatusPageShowsTime'
    BY <2>1, <2>5 DEF AcIInv, StatusPageShowsTime
  <2>10. QED
    BY <1>0, <2>1, <2>3, <2>6, <2>7, <2>8, <2>9 DEF AcIInv
<1>2. CASE LinkConnects
  <2> DEFINE a == LinkReport(TRUE)
             b == StatusReport(player')
             two == <<a, b>>
             all == reports \o two
  <2>1. linkUp' /\ linkUp' \in BOOLEAN /\ player' \in PlayStatus /\ reports' = all
        /\ UNCHANGED <<posTimers, statusPageOpen, shownTime, m_currentSongPos, m_songLength>>
    BY <1>2 DEF LinkConnects, mediaVars, mediaPageVars
  <2>2. LinkReport(TRUE) \in Report /\ StatusReport(player') \in Report
    BY <2>1, ReportRecords
  <2>3. two \in Seq(Report) /\ Len(two) = 2 /\ two[1] = a /\ two[2] = b
    <3> HIDE DEF a, b
    <3>1. a \in Report /\ b \in Report
      BY <2>2 DEF a, b
    <3>2. QED
      BY <3>1
  <2> HIDE DEF two
  <2>4. all \in Seq(Report) /\ Len(all) = n + 2
        /\ \A i \in 1 .. n + 2 : all[i] = IF i <= n THEN reports[i] ELSE two[i - n]
    <3>1. /\ reports \o two \in Seq(Report) /\ Len(reports \o two) = Len(reports) + Len(two)
          /\ \A i \in 1 .. Len(reports) + Len(two) :
                (reports \o two)[i] = IF i <= Len(reports) THEN reports[i] ELSE two[i - Len(reports)]
      BY <1>0, <2>3, ConcatProperties
    <3>2. QED
      BY <2>3, <3>1
  <2> HIDE DEF all, n
  <2>5. n + 1 \in 1 .. n + 2 /\ n + 2 \in 1 .. n + 2 /\ ~(n + 1 <= n) /\ ~(n + 2 <= n)
        /\ (n + 1) - n = 1 /\ (n + 2) - n = 2
    BY <1>0
  <2>6. all[n + 1] = LinkReport(TRUE) /\ all[n + 2] = StatusReport(player')
    BY <2>3, <2>4, <2>5
  <2>7. LinkIsPolled'
    BY <2>1, <2>4, <2>5, <2>6 DEF LinkIsPolled
  <2>8. \A j \in 1 .. n + 2 : ~(n + 2 < j)
    BY <1>0
  <2>9. StatusComes'
    <3>1. /\ reports'[n + 2] = StatusReport(player')
          /\ \A j \in 1 .. Len(reports') : n + 2 < j => reports'[j].type = "link"
          /\ n + 2 \in 1 .. Len(reports')
      BY <2>1, <2>4, <2>5, <2>6, <2>8
    <3>2. StatusReport(player)' = StatusReport(player')
      BY DEF StatusReport
    <3>3. PICK x : x = n + 2
      OBVIOUS
    <3>4. QED
      BY <3>1, <3>2, <3>3 DEF StatusComes
  <2>10. StatusPageShowsTime'
    BY <2>1 DEF AcIInv, StatusPageShowsTime
  <2>11. QED
    BY <1>0, <2>1, <2>4, <2>7, <2>9, <2>10 DEF AcIInv
<1>3. CASE LinkBreaks
  <2>1. LinkReport(FALSE) \in Report
    BY ReportRecords
  <2>2. reports' \in Seq(Report)
    BY <1>3, <2>1, ReportAdded DEF LinkBreaks
  <2>3. linkUp' = FALSE /\ UNCHANGED <<posTimers, player, statusPageOpen, shownTime, m_currentSongPos, m_songLength>>
    BY <1>3 DEF LinkBreaks, mediaVars, mediaPageVars
  <2>4. QED
    BY <1>0, <2>2, <2>3 DEF AcIInv, LinkIsPolled, StatusComes, StatusPageShowsTime
<1>4. CASE PlayerChanges
  <2>1. player' \in PlayStatus /\ reports' = Append(reports, StatusReport(player'))
        /\ linkUp /\ linkUp' = linkUp
        /\ UNCHANGED <<posTimers, statusPageOpen, shownTime, m_currentSongPos, m_songLength>>
    BY <1>4 DEF PlayerChanges, mediaVars, mediaPageVars
  <2>2. StatusReport(player') \in Report
    BY <2>1, ReportRecords
  <2>3. /\ reports' \in Seq(Report) /\ Len(reports') = n + 1
        /\ reports'[n + 1] = StatusReport(player')
        /\ \A i \in 1 .. n : reports'[i] = reports[i]
    BY <2>1, <2>2, ReportAdded
  <2> HIDE DEF n
  <2>4. n + 1 \in 1 .. n + 1 /\ (\A j \in 1 .. n + 1 : ~(n + 1 < j))
        /\ \A i \in 1 .. n : i \in 1 .. n + 1
    BY <1>0
  <2>5. LinkIsPolled'
    BY <1>0, <2>1, <2>3, <2>4 DEF LinkIsPolled, n
  <2>6. StatusComes'
    <3>1. StatusReport(player)' = StatusReport(player')
      BY DEF StatusReport
    <3>2. PICK x : x = n + 1
      OBVIOUS
    <3>3. x \in 1 .. Len(reports') /\ reports'[x] = StatusReport(player')
          /\ \A j \in 1 .. Len(reports') : x < j => reports'[j].type = "link"
      BY <2>3, <2>4, <3>2
    <3>4. QED
      BY <3>1, <3>3 DEF StatusComes
  <2>7. StatusPageShowsTime'
    BY <2>1 DEF AcIInv, StatusPageShowsTime
  <2>8. QED
    BY <1>0, <2>1, <2>3, <2>5, <2>6, <2>7 DEF AcIInv
<1>5. QED
  BY <1>1, <1>2, <1>3, <1>4

LEMMA AcStep == AcIInv /\ [AcNext]_acVars => AcIInv'
<1> SUFFICES ASSUME AcIInv, [AcNext]_acVars
             PROVE  AcIInv'
  OBVIOUS
<1>1. CASE InitController
  BY <1>1 DEF InitController, mediaPageVars, playerVars, AcIInv, LinkIsPolled, StatusComes, StatusPageShowsTime
<1>2. ASSUME NEW l, NEW t, PlayPosChanged(l, t)
      PROVE  AcIInv'
  <2>1. UNCHANGED <<posTimers, linkUp, player, reports, m_playStatus>>
    BY <1>2 DEF PlayPosChanged, playerVars
  <2>2. StatusPageShowsTime'
    BY <1>2 DEF PlayPosChanged, RefreshStatus, StatusPageShowsTime
  <2>3. QED
    BY <2>1, <2>2 DEF AcIInv, LinkIsPolled, StatusComes
<1>3. CASE HandleGetPosTimerEvent
  <2>1. UNCHANGED <<linkUp, player, reports, m_playStatus, statusPageOpen, shownTime,
                    m_currentSongPos, m_songLength>>
    BY <1>3 DEF HandleGetPosTimerEvent, playerVars, mediaVars, mediaPageVars
  <2>2. posTimers' \in Nat /\ (linkUp => posTimers' = posTimers)
    BY <1>3 DEF HandleGetPosTimerEvent, AcIInv
  <2>3. QED
    BY <2>1, <2>2 DEF AcIInv, LinkIsPolled, StatusComes, StatusPageShowsTime
<1>4. CASE UNCHANGED <<posTimers, linkUp, player, reports, m_playStatus>> /\ StatusPageShowsTime'
  BY <1>4 DEF AcIInv, LinkIsPolled, StatusComes
<1>5. CASE ShowPlayStatus \/ LeavePlayStatus \/ UserPresses
  <2>1. UNCHANGED <<posTimers, linkUp, player, reports, m_playStatus>>
    BY <1>5 DEF ShowPlayStatus, LeavePlayStatus, UserPresses, SendPlay, SendPause, SendStop,
         NextTrack, Press, playerVars, mediaVars
  <2>2. StatusPageShowsTime'
    BY <1>5 DEF ShowPlayStatus, LeavePlayStatus, UserPresses, SendPlay, SendPause, SendStop,
         NextTrack, Press, RefreshStatus, mediaVars, mediaPageVars, AcIInv, StatusPageShowsTime
  <2>3. QED
    BY <1>4, <2>1, <2>2
<1>6. ASSUME NEW track, PlayTrackChanged(track)
      PROVE  AcIInv'
  BY <1>4, <1>6 DEF PlayTrackChanged, playerVars, mediaPageVars, AcIInv, StatusPageShowsTime
<1>7. CASE UNCHANGED acVars
  BY <1>4, <1>7 DEF acVars, playerVars, mediaVars, mediaPageVars, AcIInv, StatusPageShowsTime
<1>8. QED
  BY <1>1, <1>2, <1>3, <1>5, <1>6, <1>7, AcReportStep DEF AcNext

\* While the link is up and no report is under way the position is asked for,
\* and the open status page shows the time as it is
\* (AvrcpConnectionStatusChanged, HandleGetPosTimerEvent, RefreshMediaStatus).
THEOREM PositionIsAsked == AcSpec => [](PollsWhileConnected /\ StatusPageShowsTime)
<1>1. AcIInv => PollsWhileConnected /\ StatusPageShowsTime
  <2> SUFFICES ASSUME AcIInv
               PROVE  PollsWhileConnected /\ StatusPageShowsTime
    OBVIOUS
  <2>1. reports = <<>> => ~ \E i \in 1 .. Len(reports) : reports[i] = LinkReport(TRUE)
    OBVIOUS
  <2>2. LinkIsPolled /\ StatusPageShowsTime
    BY DEF AcIInv
  <2>3. QED
    BY <2>1, <2>2 DEF LinkIsPolled, PollsWhileConnected
<1>2. QED
  BY AcInvAtStart, AcStep, <1>1, PTL DEF AcSpec

\* A key is left out only for the reason the player gives, or because its
\* report is still under way (BluetoothAvrcpController::SendPlay, SendPause).
THEOREM KeysAreSent == AcSpec => KeyLeftOutRightly
<1> DEFINE Left == /\ SendPlay /\ sentKey' = NoKey /\ linkUp /\ reports = <<>> => player = "PLAYING"
                   /\ SendPause /\ sentKey' = NoKey /\ linkUp /\ reports = <<>> => player # "PLAYING"
<1>1. AcIInv => Left
  <2> SUFFICES ASSUME AcIInv, linkUp, reports = <<>>, sentKey' = NoKey
               PROVE  /\ SendPlay => player = "PLAYING"
                      /\ SendPause => player # "PLAYING"
    OBVIOUS
  <2>1. Len(<<>>) = 0
    OBVIOUS
  <2>2. m_playStatus = player
    BY <2>1 DEF AcIInv, StatusComes
  <2>3. NoKey # Crash /\ NoKey # "PLAY" /\ NoKey # "PAUSE"
    BY DEF NoKey, Crash
  <2>4. QED
    BY <2>2, <2>3 DEF SendPlay, SendPause, Press
<1>2. AcIInv /\ [AcNext]_acVars => [Left]_acVars
  BY <1>1
<1>3. QED
  BY AcInvAtStart, AcStep, <1>2, PTL DEF AcSpec, KeyLeftOutRightly

-----------------------------------------------------------------------------
(* The remote control's types, and the attributes of a track.               *)

Listing(track) ==
    /\ track \in Seq(Attribute)
    /\ \A i, j \in 1 .. Len(track) : track[i].type = track[j].type => i = j

\* An attribute takes the place of the one of its type, or is new at the end.
LEMMA AttributeJoins ==
  ASSUME NEW track, Listing(track), NEW new \in Attribute
  PROVE  Listing(WithAttribute(track, new))
<1> DEFINE n == Len(track)
           found == {i \in DOMAIN track : SameAttribute(track[i], new)}
           k == CHOOSE i \in found : \A j \in found : i <= j
<1>1. track \in Seq(Attribute) /\ n \in Nat /\ DOMAIN track = 1 .. n
      /\ (\A i \in 1 .. n : track[i] \in Attribute)
      /\ \A i, j \in 1 .. n : track[i].type = track[j].type => i = j
  BY LenProperties, ElementOfSeq DEF Listing
<1>2. WithAttribute(track, new) = IF found = {} THEN Append(track, new) ELSE [track EXCEPT ![k] = new]
  BY DEF WithAttribute
<1>3. \A i : i \in found <=> i \in 1 .. n /\ track[i].type = new.type
  BY <1>1 DEF SameAttribute
<1>4. CASE found = {}
  <2> DEFINE r == Append(track, new)
  <2>1. r \in Seq(Attribute) /\ Len(r) = n + 1 /\ r[n + 1] = new
        /\ \A i \in 1 .. n : r[i] = track[i]
    BY <1>1, AppendProperties
  <2> HIDE DEF r, n, found
  <2>2. \A i \in 1 .. n : track[i].type # new.type
    BY <1>3, <1>4
  <2>3. \A i \in 1 .. n + 1 : i \in 1 .. n \/ i = n + 1
    BY <1>1
  <2>4. \A i, j \in 1 .. n + 1 : r[i].type = r[j].type => i = j
    BY <1>1, <2>1, <2>2, <2>3
  <2>5. Listing(r)
    BY <2>1, <2>4 DEF Listing
  <2>6. QED
    BY <1>2, <1>4, <2>5 DEF r
<1>5. CASE found # {}
  <2>1. found \subseteq Nat
    BY <1>1
  <2>2. k \in found
    <3> HIDE DEF found
    <3>1. \E i \in found : \A j \in found : i <= j
      BY <1>5, <2>1, LeastNatural
    <3>2. QED
      BY <3>1
  <2> DEFINE r == [track EXCEPT ![k] = new]
  <2> HIDE DEF k, found, n
  <2>3. k \in 1 .. n /\ track[k].type = new.type
    BY <1>3, <2>2
  <2>4. r \in Seq(Attribute) /\ Len(r) = n /\ r[k] = new
        /\ \A i \in 1 .. n : i # k => r[i] = track[i]
    <3>1. r \in [1 .. n -> Attribute] /\ r[k] = new /\ \A i \in 1 .. n : i # k => r[i] = track[i]
      BY <1>1, <2>3
    <3> HIDE DEF r
    <3>2. QED
      BY <1>1, <3>1, FunctionIsList
  <2> HIDE DEF r
  <2>5. \A i \in 1 .. n : r[i].type = track[i].type
    BY <2>3, <2>4
  <2>6. Listing(r)
    BY <1>1, <2>4, <2>5 DEF Listing
  <2>7. QED
    BY <1>2, <1>5, <2>6 DEF r
<1>6. QED
  BY <1>4, <1>5

\* The attributes of one report join one after the other.
LEMMA AttributesJoin ==
  ASSUME Listing(m_playTrack), NEW attributes \in BoundedSeq(Attribute, 2),
         PlayTrackChanged(attributes)
  PROVE  Listing(m_playTrack')
<1> DEFINE rec[n \in 0 .. Len(attributes)] ==
             IF n = 0 THEN m_playTrack ELSE WithAttribute(rec[n - 1], attributes[n])
<1>1. m_playTrack' = rec[Len(attributes)]
  BY DEF PlayTrackChanged
<1>2. PICK m \in 0 .. 2 : attributes \in [1 .. m -> Attribute]
  BY DEF BoundedSeq, SeqOf
<1>3. Len(attributes) = m
  BY <1>2, FunctionIsList
<1> DEFINE one == WithAttribute(m_playTrack, attributes[1])
           two == WithAttribute(one, attributes[2])
           f == [n \in 0 .. m |-> IF n = 0 THEN m_playTrack ELSE IF n = 1 THEN one ELSE two]
<1>4. \A n \in 0 .. m : n = 0 \/ (n = 1 /\ n - 1 = 0 /\ 0 \in 0 .. m)
                        \/ (n = 2 /\ n - 1 = 1 /\ 1 \in 0 .. m)
  BY <1>2
<1>5. \A n \in 0 .. m : f[n] = IF n = 0 THEN m_playTrack ELSE WithAttribute(f[n - 1], attributes[n])
  BY <1>4
<1>6. f = [n \in 0 .. m |-> IF n = 0 THEN m_playTrack ELSE WithAttribute(f[n - 1], attributes[n])]
  <2>1. f = [n \in 0 .. m |-> f[n]]
    OBVIOUS
  <2> HIDE DEF f
  <2>2. QED
    BY <1>5, <2>1
<1> HIDE DEF f
<1>7. rec = [n \in 0 .. m |-> IF n = 0 THEN m_playTrack ELSE WithAttribute(rec[n - 1], attributes[n])]
  BY <1>3, <1>6
<1> HIDE DEF rec
<1>8. \A n \in 0 .. m : rec[n] = IF n = 0 THEN m_playTrack ELSE WithAttribute(rec[n - 1], attributes[n])
  BY <1>7
<1>9. Listing(rec[0])
  BY <1>2, <1>8
<1>10. m >= 1 => Listing(rec[1])
  <2>1. m >= 1 => 1 \in 0 .. m /\ 1 - 1 = 0 /\ attributes[1] \in Attribute
    BY <1>2
  <2>2. m >= 1 => rec[1] = WithAttribute(rec[0], attributes[1])
    BY <1>8, <2>1
  <2>3. QED
    BY <1>9, <2>1, <2>2, AttributeJoins
<1>11. m = 2 => Listing(rec[2])
  <2>1. m = 2 => 2 \in 0 .. m /\ 2 - 1 = 1 /\ attributes[2] \in Attribute /\ m >= 1
    BY <1>2
  <2>2. m = 2 => rec[2] = WithAttribute(rec[1], attributes[2])
    BY <1>8, <2>1
  <2>3. QED
    BY <1>10, <2>1, <2>2, AttributeJoins
<1>12. m = 0 \/ m = 1 \/ m = 2
  BY <1>2
<1>13. QED
  BY <1>1, <1>3, <1>9, <1>10, <1>11, <1>12

AcTypes ==
    /\ controllerMade \in BOOLEAN /\ m_controlChannelStatus \in {"Disconnected", "Connected"}
    /\ m_playStatus \in PlayStatus
    /\ m_currentSongPos \in Time /\ m_songLength \in Time
    /\ posTimers <= MaxPolls
    /\ statusPageOpen \in BOOLEAN /\ shownTime \in Time \X Time /\ shownPlayStatus \in PlayStatus
    /\ Len(reports) <= MaxReports
    /\ sentKey \in Key \cup {NoKey, Crash}
    /\ Listing(m_playTrack)

\* The model's bounds on timers and reports stand in the guards.
LEMMA AcTypesStep ==
  ASSUME AcIInv, AcTypes, [AcNext]_acVars
  PROVE  AcTypes'
<1>0. /\ MaxPolls \in Nat /\ MaxReports \in Nat /\ posTimers \in Nat
      /\ reports \in Seq(Report) /\ Len(reports) \in Nat
  BY AvrcpBoundsAssumption, LenProperties DEF AcIInv
<1>1. NoKey \in Key \cup {NoKey, Crash}
  OBVIOUS
<1>2. 0 \in Time /\ <<0, 0>> \in Time \X Time /\ "STOPPED" \in PlayStatus /\ Listing(<<>>)
  <2>1. <<>> \in Seq(Attribute) /\ Len(<<>>) = 0
    OBVIOUS
  <2>2. Listing(<<>>)
    BY <2>1 DEF Listing
  <2>3. QED
    BY <2>2, AvrcpBoundsAssumption DEF Time, PlayStatus
<1>3. CASE InitController
  BY <1>1, <1>2, <1>3 DEF InitController, AcTypes, mediaPageVars, playerVars
<1>4. CASE DeliverReport
  <2>1. reports # <<>> /\ reports' = Tail(reports) /\ sentKey' = NoKey
        /\ UNCHANGED <<controllerMade, m_currentSongPos, m_songLength, m_playTrack>>
    BY <1>4 DEF DeliverReport
  <2>2. Head(reports) \in Report /\ Len(reports') <= MaxReports
    <3>1. Head(reports) \in Report /\ Len(Tail(reports)) = Len(reports) - 1
      BY <1>0, <2>1, HeadTailProperties
    <3>2. QED
      BY <1>0, <2>1, <3>1 DEF AcTypes
  <2>3. UNCHANGED mediaPageVars
    BY <1>4 DEF DeliverReport, AvrcpConnectionStatusChanged, PlayStatusChanged
  <2>4. m_controlChannelStatus' \in {"Disconnected", "Connected"}
    BY <1>4 DEF DeliverReport, AvrcpConnectionStatusChanged, PlayStatusChanged, AcTypes
  <2>5. m_playStatus' \in PlayStatus
    <3>1. Head(reports).type = "status" => Head(reports).status \in PlayStatus
      BY <2>2, ReportRecords
    <3>2. QED
      BY <1>4, <3>1 DEF DeliverReport, AvrcpConnectionStatusChanged, PlayStatusChanged, AcTypes
  <2>6. posTimers' <= MaxPolls
    <3>1. posTimers' = posTimers \/ (posTimers < MaxPolls /\ posTimers' = posTimers + 1)
      BY <1>4 DEF DeliverReport, AvrcpConnectionStatusChanged, PlayStatusChanged
    <3>2. QED
      BY <1>0, <3>1 DEF AcTypes
  <2>7. QED
    BY <1>1, <2>1, <2>2, <2>3, <2>4, <2>5, <2>6 DEF AcTypes, mediaPageVars
<1>5. CASE HandleGetPosTimerEvent
  <2>1. posTimers' <= MaxPolls
    BY <1>0, <1>5 DEF HandleGetPosTimerEvent, AcTypes
  <2>2. QED
    BY <1>1, <1>5, <2>1 DEF HandleGetPosTimerEvent, AcTypes, mediaVars, mediaPageVars, playerVars
<1>6. ASSUME NEW l \in Time, NEW t \in Time, PlayPosChanged(l, t)
      PROVE  AcTypes'
  <2>1. m_currentSongPos' = t /\ m_songLength' \in Time
    BY <1>6 DEF PlayPosChanged, AcTypes
  <2>2. shownTime' \in Time \X Time /\ shownPlayStatus' \in PlayStatus
    BY <1>6, <2>1 DEF PlayPosChanged, RefreshStatus, AcTypes
  <2>3. QED
    BY <1>1, <1>6, <2>1, <2>2 DEF PlayPosChanged, AcTypes, playerVars
<1>7. ASSUME NEW track \in BoundedSeq(Attribute, 2), PlayTrackChanged(track)
      PROVE  AcTypes'
  <2>1. Listing(m_playTrack')
    BY <1>7, AttributesJoin DEF AcTypes
  <2>2. QED
    BY <1>1, <1>7, <2>1 DEF PlayTrackChanged, AcTypes, mediaPageVars, playerVars
<1>8. ASSUME NEW key \in Key, NEW wanted, Press(key, wanted)
      PROVE  AcTypes'
  <2>1. sentKey' \in Key \cup {NoKey, Crash}
    BY <1>8 DEF Press
  <2>2. QED
    BY <1>8, <2>1 DEF Press, AcTypes, mediaVars, mediaPageVars, playerVars
<1>9. CASE UserPresses
  <2>1. {"PLAY", "PAUSE", "STOP", "FORWARD", "BACKWARD"} = Key
    BY DEF Key
  <2>2. QED
    BY <1>8, <1>9, <2>1 DEF UserPresses, SendPlay, SendPause, SendStop, NextTrack
<1>10. CASE ShowPlayStatus
  <2>1. shownTime' \in Time \X Time /\ shownPlayStatus' \in PlayStatus
    BY <1>10 DEF ShowPlayStatus, RefreshStatus, AcTypes
  <2>2. sentKey' \in Key \cup {NoKey, Crash}
    BY <1>10 DEF ShowPlayStatus
  <2>3. QED
    BY <1>10, <2>1, <2>2 DEF ShowPlayStatus, AcTypes, mediaVars, playerVars
<1>11. CASE LeavePlayStatus
  BY <1>1, <1>2, <1>11 DEF LeavePlayStatus, AcTypes, mediaVars, playerVars
<1>12. CASE LinkConnects
  <2> DEFINE a == LinkReport(TRUE)
             b == StatusReport(player')
  <2>1. Len(<<a, b>>) = 2 /\ <<a, b>> \in Seq(Report)
    <3>1. player' \in PlayStatus
      BY <1>12 DEF LinkConnects
    <3>2. a \in Report /\ b \in Report
      BY <3>1, ReportRecords
    <3> HIDE DEF a, b
    <3>3. QED
      BY <3>2
  <2> DEFINE both == <<a, b>>
  <2>2. reports' = reports \o both /\ Len(reports) + 2 <= MaxReports
    BY <1>12 DEF LinkConnects
  <2> HIDE DEF both
  <2>3. Len(reports \o both) = Len(reports) + 2
    BY <1>0, <2>1, ConcatProperties DEF both
  <2>4. Len(reports') <= MaxReports
    BY <2>2, <2>3
  <2>5. QED
    BY <1>1, <1>12, <2>4 DEF LinkConnects, AcTypes, mediaVars, mediaPageVars
<1>13. ASSUME NEW r \in Report, reports' = Append(reports, r), Len(reports) < MaxReports,
              UNCHANGED <<controllerMade, mediaVars, posTimers, mediaPageVars>>, sentKey' = NoKey
       PROVE  AcTypes'
  <2>1. Len(reports') = Len(reports) + 1
    BY <1>13, ReportAdded
  <2>2. Len(reports') <= MaxReports
    BY <1>0, <1>13, <2>1
  <2>3. QED
    BY <1>1, <1>13, <2>2 DEF AcTypes, mediaVars, mediaPageVars
<1>14. CASE LinkBreaks
  <2>1. LinkReport(FALSE) \in Report
    BY ReportRecords
  <2>2. QED
    BY <1>13, <1>14, <2>1 DEF LinkBreaks
<1>15. CASE PlayerChanges
  <2>1. StatusReport(player') \in Report
    BY <1>15, ReportRecords DEF PlayerChanges
  <2>2. QED
    BY <1>13, <1>15, <2>1 DEF PlayerChanges
<1>16. CASE UNCHANGED acVars
  BY <1>16 DEF acVars, AcTypes, mediaVars, mediaPageVars, playerVars
<1>17. QED
  BY <1>3, <1>4, <1>5, <1>6, <1>7, <1>9, <1>10, <1>11, <1>12, <1>14, <1>15, <1>16 DEF AcNext

\* The types of the remote control, and the attributes listed once.
LEMMA AcTypesHold == AcSpec => [](AcTypeOK /\ AttributeListedOnce)
<1>1. AcInit => AcTypes
  <2> SUFFICES ASSUME AcInit
               PROVE  AcTypes
    OBVIOUS
  <2>1. <<>> \in Seq(Attribute) /\ Len(<<>>) = 0
    OBVIOUS
  <2>2. Listing(<<>>)
    BY <2>1 DEF Listing
  <2>3. 0 <= MaxPolls /\ 0 <= MaxReports /\ 0 \in Time /\ "STOPPED" \in PlayStatus
    BY AvrcpBoundsAssumption DEF Time, PlayStatus
  <2>4. <<0, 0>> \in Time \X Time /\ NoKey \in Key \cup {NoKey, Crash}
    BY <2>3
  <2>5. /\ m_currentSongPos = 0 /\ m_songLength = 0 /\ m_playTrack = <<>>
        /\ controllerMade = FALSE /\ m_controlChannelStatus = "Disconnected" /\ m_playStatus = "STOPPED"
    BY DEF AcInit, Reset
  <2>6. /\ posTimers = 0 /\ statusPageOpen = FALSE /\ shownTime = <<0, 0>>
        /\ shownPlayStatus = "STOPPED" /\ reports = <<>> /\ sentKey = NoKey
    BY DEF AcInit
  <2>7. QED
    BY <2>2, <2>3, <2>4, <2>5, <2>6 DEF AcTypes
<1>2. AcIInv /\ AcTypes => AcTypeOK /\ AttributeListedOnce
  <2> SUFFICES ASSUME AcIInv, AcTypes
               PROVE  AcTypeOK /\ AttributeListedOnce
    OBVIOUS
  <2>1. m_playTrack \in Seq(Attribute) /\ AttributeListedOnce
    BY LenProperties DEF AcTypes, Listing, AttributeListedOnce
  <2>2. reports \in BoundedSeq(Report, MaxReports)
    BY AvrcpBoundsAssumption, BoundedList DEF AcTypes, AcIInv
  <2>3. posTimers \in 0 .. MaxPolls
    BY AvrcpBoundsAssumption DEF AcTypes, AcIInv
  <2>4. QED
    BY <2>1, <2>2, <2>3 DEF AcTypes, AcIInv, AcTypeOK
<1>3. AcIInv /\ AcTypes /\ [AcNext]_acVars => AcTypes'
  BY AcTypesStep
<1>4. QED
  BY AcInvAtStart, AcStep, <1>1, <1>2, <1>3, PTL DEF AcSpec

-----------------------------------------------------------------------------
\* Everything the run of the profiles asks of each of its states, for any
\* number of devices, links, notifications, clients and reports, of the parts
\* as their own modules specify them, each with all of its events
\* (ProfilePages, AvrcpController, PageAppleANCS, PageKanban).
THEOREM ProfilesAreSafe == PpSpec /\ AcSpec /\ AncsSpec /\ KanbanSpec => []ProfilesInv
<1>1. KanbanSpec => []KanbanTypeOK
  BY KanbanHolds, KanbanTypes, PTL
<1>2. /\ PpTypeOK /\ ShownStatusIsCurrent
      /\ (AcTypeOK /\ AttributeListedOnce) /\ (PollsWhileConnected /\ StatusPageShowsTime)
      /\ (AncsTypeOK /\ UidListedOnce /\ TurnsAreOffered)
      /\ KanbanTypeOK /\ (LoneClientKnowsScreen /\ UnansweredRightly)
      => ProfilesInv
  BY DEF ProfilesInv
<1>3. QED
  BY <1>1, <1>2, PpTypesHold, StatusIsShown, AcTypesHold, PositionIsAsked, NoticesAreListed,
     ClientsAreServed, PTL

\* The composition TLC runs, its parts left out, is a case of it.
COROLLARY ProfilesRunIsSafe == ProfilesSpec => []ProfilesInv
<1>1. ProfilesInit => PpInit /\ AcInit /\ AncsInit /\ KanbanInit
  BY DEF ProfilesInit
<1>2. [ProfilesNext]_<<part, ppVars, acVars, ancsVars, kanbanVars>> =>
         [PpNext]_ppVars /\ [AcNext]_acVars /\ [AncsNext]_ancsVars /\ [KanbanNext]_kanbanVars
  BY DEF ProfilesNext
<1>3. ProfilesSpec => PpSpec /\ AcSpec /\ AncsSpec /\ KanbanSpec
  BY <1>1, <1>2, PTL DEF ProfilesSpec, PpSpec, AcSpec, AncsSpec, KanbanSpec
<1>4. QED
  BY <1>3, ProfilesAreSafe, PTL

=============================================================================
