------------------------------- MODULE PageKanban -------------------------------
(***************************************************************************)
(* The GATT server of the "Kanban" service (PageKanban.cpp): the service's *)
(* registration, the list of its clients with the notifications each has   *)
(* enabled, the screen every client may switch, and the media test, which  *)
(* sends the next packet when a notification is reported as sent.          *)
(*                                                                         *)
(* The stack, the user and the clients (linked, believes) are external.    *)
(* The two one-shots started by a connection ask the stack for its         *)
(* parameters and change nothing here; a packet's content, the connection  *)
(* numbers and the descriptions' text are left out.                        *)
(***************************************************************************)
EXTENDS Naturals, Sequences, FiniteSets, SequencesExt

CONSTANTS
  KanbanClients,      \* the addresses of the clients
  MaxRegistrations,   \* bound: uses of "Register Kanban Service" that reach the stack
  MaxSent             \* bound: the user waits while so many notifications are under way

ASSUME KanbanAssumption == IsFiniteSet(KanbanClients) /\ {MaxRegistrations, MaxSent} \subseteq Nat

Features   == {"screen", "media", "signal"}
NoAnswer   == "none"

VARIABLES
  m_server_if,            \* 0 until registered
  registrations,          \* [asked, answered]: the stack's count of registrations
  bodies,                 \* server interfaces whose service body the stack has not answered
  mapped,                 \* the interface whose handles m_characteristic_handle_index_map has, or 0
  running,                \* interfaces whose service the stack offers
  m_kanban_clients,       \* a sequence of [addr, connected, enabled \subseteq Features]
  m_screen_on_off,
  m_media_test_enabled,
  sent,                   \* notifications under way, [to, what], in their order
  linked,                 \* clients connected to the stack
  believes,               \* per client: [enabled, screen, at], as answered and notified; screen {}:
                          \* unknown; at: the service whose screen it last asked to hear of, or 0
  early,                  \* linked clients that came before the registration
  alone,                  \* clients that were the only one connected since they connected
  request                 \* the request that this step left without an answer

kanbanVars == <<m_server_if, registrations, bodies, mapped, running, m_kanban_clients,
                m_screen_on_off, m_media_test_enabled, sent, linked, believes, early, alone, request>>
serviceVars == <<m_server_if, registrations, bodies, mapped, running>>

NoKanbanRequest == [from |-> NoAnswer]
Stranger == [enabled |-> {}, screen |-> {}, at |-> 0]
-----------------------------------------------------------------------------
KanbanInit ==
  /\ m_server_if = 0
  /\ registrations = [asked |-> 0, answered |-> 0]
  /\ bodies = <<>> /\ mapped = 0 /\ running = {}
  /\ m_kanban_clients = <<>>
  /\ m_screen_on_off = TRUE
  /\ m_media_test_enabled = FALSE
  /\ sent = <<>>
  /\ linked = {} /\ believes = [a \in KanbanClients |-> Stranger] /\ early = {} /\ alone = {}
  /\ request = NoKanbanRequest

\* The first entry that is connected (0: none); the loops end there.
FirstConnected == LET c == {i \in DOMAIN m_kanban_clients : m_kanban_clients[i].connected}
                  IN  IF c = {} THEN 0 ELSE CHOOSE i \in c : \A j \in c : i <= j

EntryOf(a) == SelectInSeq(m_kanban_clients, LAMBDA c : c.addr = a)

\* The first connected client wants notifications of this feature.
Wanted(feature) == FirstConnected # 0 /\ feature \in m_kanban_clients[FirstConnected].enabled

Notification(feature) == [to |-> m_kanban_clients[FirstConnected].addr, what |-> feature]
-----------------------------------------------------------------------------
\* The option "Register Kanban Service": nothing stops a second use before the
\* first is answered.
RegisterService ==
  /\ m_server_if = 0 /\ registrations.asked < MaxRegistrations
  /\ registrations' = [registrations EXCEPT !.asked = @ + 1]
  /\ request' = NoKanbanRequest
  /\ UNCHANGED <<m_server_if, bodies, mapped, running, m_kanban_clients, m_screen_on_off,
                 m_media_test_enabled, sent, linked, believes, early, alone>>

\* The stack has registered the server, or not.
handle_register_service_result(ok) ==
  /\ registrations.answered < registrations.asked
  /\ registrations' = [registrations EXCEPT !.answered = @ + 1]
  /\ IF ok THEN m_server_if' = registrations'.answered /\ bodies' = Append(bodies, m_server_if')
     ELSE UNCHANGED <<m_server_if, bodies>>
  /\ request' = NoKanbanRequest
  /\ UNCHANGED <<mapped, running, m_kanban_clients, m_screen_on_off, m_media_test_enabled, sent,
                 linked, believes, early, alone>>

\* The stack offers the service: its handles are kept if the interface is
\* (still) the page's own.
handle_service_body_added_result(ok) ==
  /\ bodies # <<>> /\ bodies' = Tail(bodies)
  /\ running' = IF ok THEN running \cup {Head(bodies)} ELSE running
  /\ mapped' = IF ok /\ Head(bodies) = m_server_if THEN m_server_if ELSE mapped
  /\ request' = NoKanbanRequest
  /\ UNCHANGED <<m_server_if, registrations, m_kanban_clients, m_screen_on_off,
                 m_media_test_enabled, sent, linked, believes, early, alone>>

\* The option "Stop Kanban Service": m_server_if stays, so that the service
\* cannot be registered again.  What its clients asked to hear goes with it.
stop_service ==
  /\ mapped # 0 /\ mapped \in running
  /\ running' = running \ {mapped}
  /\ believes' = [a \in KanbanClients |->
                    [believes[a] EXCEPT !.at = IF @ = mapped THEN 0 ELSE @]]
  /\ request' = NoKanbanRequest
  /\ UNCHANGED <<m_server_if, registrations, bodies, mapped, m_kanban_clients, m_screen_on_off,
                 m_media_test_enabled, sent, linked, early, alone>>

\* A slip: a client that goes keeps its entry.
WithoutKept(a) == [m_kanban_clients EXCEPT ![EntryOf(a)].connected = FALSE]

\* handle_client_connection_status_changed: the list after a client went; one
\* that was not listed is added.
Without(a) == RemoveAt(m_kanban_clients, EntryOf(a))

Connected(a, isConnected) ==
  IF EntryOf(a) # 0 THEN [m_kanban_clients EXCEPT ![EntryOf(a)].connected = isConnected]
  ELSE Append(m_kanban_clients, [addr |-> a, connected |-> isConnected, enabled |-> {}])

\* A client connects; before the registration nobody is told.
ClientConnects(a) ==
  /\ a \notin linked /\ linked' = linked \cup {a}
  /\ m_kanban_clients' = IF m_server_if = 0 THEN m_kanban_clients ELSE Connected(a, TRUE)
  /\ alone' = IF linked = {} THEN {a} ELSE {}
  /\ early' = IF m_server_if = 0 THEN early \cup {a} ELSE early
  /\ request' = NoKanbanRequest
  /\ UNCHANGED <<serviceVars, m_screen_on_off, m_media_test_enabled, sent, believes>>

\* A client goes; what was under way to it is reported as sent, or never, and
\* then only what is for the others stays, in its order.
ClientGoes(a) ==
  /\ a \in linked /\ linked' = linked \ {a}
  /\ believes' = [believes EXCEPT ![a] = Stranger]
  /\ alone' = alone \ {a} /\ early' = early \ {a}
  /\ m_kanban_clients' = IF m_server_if = 0 THEN m_kanban_clients
                         ELSE IF EntryOf(a) # 0 THEN Without(a) ELSE Connected(a, FALSE)
  /\ \/ sent' = sent
     \/ LET others == {i \in DOMAIN sent : sent[i].to # a}
        IN  \E place \in [1..Cardinality(others) -> others] :
              /\ \A i, j \in DOMAIN place : i < j => place[i] < place[j]
              /\ sent' = [i \in DOMAIN place |-> sent[place[i]]]
  /\ request' = NoKanbanRequest
  /\ UNCHANGED <<serviceVars, m_screen_on_off, m_media_test_enabled>>
-----------------------------------------------------------------------------
(* The clients' requests, each [kind, feature].  One of a client that is   *)
(* not listed, or on a handle the page has no index for, is never          *)
(* answered, nor is one its handler has no branch for: the service lets    *)
(* clients read every configuration, and the media's and the signal's      *)
(* values be read and written, and no handler answers these.               *)
NeverAnswered == ({"read config"} \X Features) \cup {<<"read description", "signal">>}
                   \cup ({"read value", "write value"} \X {"media", "signal"})

Request(a, s) == a \in linked /\ s \in running

Known(a, s) == EntryOf(a) # 0 /\ s = mapped

Answered(a, s, attribute, yes) ==
  request' = IF yes THEN NoKanbanRequest ELSE [from |-> a, service |-> s, attribute |-> attribute]

\* The read of a value, a description or a configuration.
handle_client_read_request(a, s, attribute) ==
  /\ Request(a, s)
  /\ LET yes == Known(a, s) /\ attribute \in {<<"read value", "screen">>,
                        <<"read description", "screen">>, <<"read description", "media">>}
     IN  /\ Answered(a, s, attribute, yes)
         /\ believes' = IF yes /\ attribute = <<"read value", "screen">>
                        THEN [believes EXCEPT ![a].screen = {m_screen_on_off}] ELSE believes
  /\ UNCHANGED <<serviceVars, m_kanban_clients, m_screen_on_off, m_media_test_enabled, sent,
                 linked, early, alone>>

\* The write of a value: the screen follows it, and only the writer is told.
handle_client_write_characteristic_request(a, s, feature, on) ==
  /\ Request(a, s)
  /\ LET yes == Known(a, s) /\ feature = "screen"
     IN  /\ Answered(a, s, <<"write value", feature>>, yes)
         /\ m_screen_on_off' = IF yes THEN on ELSE m_screen_on_off
         /\ believes' = IF yes THEN [believes EXCEPT ![a].screen = {on}] ELSE believes
  /\ UNCHANGED <<serviceVars, m_kanban_clients, m_media_test_enabled, sent, linked, early, alone>>

\* The write of a configuration: a feature's notifications, on or off.  What
\* the client heard before it enabled them may be out of date.
handle_client_request_write_descriptor_request(a, s, feature, on) ==
  /\ Request(a, s)
  /\ LET yes == Known(a, s)
         enable(set) == IF on THEN set \cup {feature} ELSE set \ {feature}
     IN  /\ Answered(a, s, <<"write config", feature>>, yes)
         /\ m_kanban_clients' = IF yes THEN [m_kanban_clients EXCEPT ![EntryOf(a)].enabled = enable(@)]
                                ELSE m_kanban_clients
         /\ believes' = IF ~yes THEN believes
                        ELSE [believes EXCEPT ![a] = [enabled |-> enable(@.enabled),
                                screen |-> IF feature = "screen" THEN {} ELSE @.screen,
                                at |-> IF feature = "screen" THEN s ELSE @.at]]
  /\ UNCHANGED <<serviceVars, m_screen_on_off, m_media_test_enabled, sent, linked, early, alone>>
-----------------------------------------------------------------------------
\* A notification carries the handle that is mapped: a client that asked on an
\* earlier registration's service does not hear it.
Hears(a, on) == IF believes[a].at = mapped THEN [believes EXCEPT ![a].screen = {on}] ELSE believes

\* A slip: the loop ends at the first entry, connected or not.
NotifyScreenFirst(on) ==
  IF Wanted("screen") /\ FirstConnected = 1
  THEN /\ sent' = Append(sent, Notification("screen"))
       /\ believes' = Hears(Notification("screen").to, on)
  ELSE UNCHANGED <<sent, believes>>

\* What an option's change of the screen sends.
NotifyScreen(on) ==
  IF Wanted("screen")
  THEN /\ sent' = Append(sent, Notification("screen"))
       /\ believes' = Hears(Notification("screen").to, on)
  ELSE UNCHANGED <<sent, believes>>

\* The options "Change screen to on" and "... off".
set_sreen_on_off(on) ==
  /\ Len(sent) < MaxSent
  /\ m_screen_on_off # on /\ m_screen_on_off' = on
  /\ NotifyScreen(on)
  /\ request' = NoKanbanRequest
  /\ UNCHANGED <<serviceVars, m_kanban_clients, m_media_test_enabled, linked, early, alone>>

\* handle_media_test_event: the next packet, if the test is on and wanted.
MediaPackets(enabled) == IF enabled /\ Wanted("media") THEN <<Notification("media")>> ELSE <<>>

\* A slip: a test that is on can be started.
StartAgain(start) ==
  /\ Len(sent) < MaxSent
  /\ sent' = sent \o MediaPackets(start)
  /\ m_media_test_enabled' = (MediaPackets(start) # <<>>)
  /\ request' = NoKanbanRequest
  /\ UNCHANGED <<serviceVars, m_kanban_clients, m_screen_on_off, linked, believes, early, alone>>

\* The options "Start media test" and "Stop media test".
start_media_test(start) ==
  /\ Len(sent) < MaxSent
  /\ m_media_test_enabled # start
  /\ sent' = sent \o MediaPackets(start)
  /\ m_media_test_enabled' = (MediaPackets(start) # <<>>)
  /\ request' = NoKanbanRequest
  /\ UNCHANGED <<serviceVars, m_kanban_clients, m_screen_on_off, linked, believes, early, alone>>

\* A notification, of the test or not, was sent: the test goes on.
handle_indication_notify_sent_done ==
  /\ sent # <<>>
  /\ sent' = Tail(sent) \o MediaPackets(m_media_test_enabled)
  /\ request' = NoKanbanRequest
  /\ UNCHANGED <<serviceVars, m_kanban_clients, m_screen_on_off, m_media_test_enabled, linked,
                 believes, early, alone>>

KanbanNext ==
  \/ RegisterService \/ stop_service
  \/ \E ok \in BOOLEAN : handle_register_service_result(ok) \/ handle_service_body_added_result(ok)
  \/ \E a \in KanbanClients : ClientConnects(a) \/ ClientGoes(a)
  \/ \E a \in KanbanClients, s \in 1..MaxRegistrations, feature \in Features :
       \/ \E kind \in {"read value", "read description", "read config"} :
            handle_client_read_request(a, s, <<kind, feature>>)
       \/ \E on \in BOOLEAN : \/ handle_client_write_characteristic_request(a, s, feature, on)
                              \/ handle_client_request_write_descriptor_request(a, s, feature, on)
  \/ \E on \in BOOLEAN : set_sreen_on_off(on) \/ start_media_test(on)
  \/ handle_indication_notify_sent_done

KanbanSpec == KanbanInit /\ [][KanbanNext]_kanbanVars
-----------------------------------------------------------------------------
Packets == Cardinality({i \in DOMAIN sent : sent[i].what = "media"})

\* Every variable keeps its type, and a client is listed once
\* (handle_client_connection_status_changed).
KanbanTypeOK ==
  /\ m_server_if \in 0..MaxRegistrations /\ mapped \in 0..m_server_if
  /\ registrations.answered <= registrations.asked
  /\ bodies \in Seq(1..MaxRegistrations) /\ running \subseteq 1..MaxRegistrations
  /\ m_kanban_clients \in
       Seq([addr : KanbanClients, connected : BOOLEAN, enabled : SUBSET Features])
  /\ \A i, j \in DOMAIN m_kanban_clients :
       m_kanban_clients[i].addr = m_kanban_clients[j].addr => i = j
  /\ {m_screen_on_off, m_media_test_enabled} \subseteq BOOLEAN
  /\ sent \in Seq([to : KanbanClients, what : Features])
  /\ linked \subseteq KanbanClients /\ (alone \cup early) \subseteq linked
  /\ \A a \in KanbanClients : believes[a].enabled \subseteq Features /\ believes[a].at \in 0..mapped

\* The notifications the page sends a client are those the client enabled on
\* this very connection: none outlives a disconnection (the entry is erased),
\* and no answered request is forgotten.
EnabledAsAnswered ==
  /\ \A i \in DOMAIN m_kanban_clients :
       m_kanban_clients[i].enabled = believes[m_kanban_clients[i].addr].enabled
  /\ \A a \in KanbanClients : EntryOf(a) = 0 => believes[a].enabled = {}

\* A client that has the screen's notifications, and has been the only one
\* since it connected, never holds the wrong idea of the screen, as long as the
\* service it asked is the one whose handles the page has.  (With another
\* client it may: only the first connected one is notified, and a client's own
\* write notifies nobody.  And when a second registration's handles come, the
\* page keeps the client's flags and notifies on handles it never asked on.)
LoneClientKnowsScreen ==
  \A a \in alone : "screen" \in believes[a].enabled /\ believes[a].at = mapped =>
    believes[a].screen \subseteq {m_screen_on_off}

\* A request the service's permissions let through is left without an answer
\* only when the client came before the registration, when it used the service
\* of an earlier registration, or of one whose handles have not come, or when
\* the attribute is one of those no handler has a branch for.
UnansweredRightly ==
  request # NoKanbanRequest =>
    request.service # mapped \/ request.from \in early \/ request.attribute \in NeverAnswered

\* A packet is never added to those under way but by a start after a stop, or
\* by the report that a screen's notification was sent, which goes on with the
\* test as a packet's does (handle_indication_notify_sent_done).
StreamsMultiplyOnlySo ==
  [][Packets' > Packets /\ Packets > 0
       => (m_media_test_enabled' /\ ~m_media_test_enabled) \/ Head(sent).what = "screen"]_kanbanVars

\* A test that is on has a packet under way, until the client it is sent to
\* goes or wants no more: then it stays on, sends nothing and cannot be
\* started (start_media_test returns early).  No start leaves it on in vain.
TestStallsOnlySo ==
  [][m_media_test_enabled' /\ Packets' = 0
       => m_media_test_enabled /\ (Packets = 0 \/ ~Wanted("media") \/ linked' # linked)]_kanbanVars
=============================================================================
