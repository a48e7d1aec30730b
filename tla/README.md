# Zhen: a TLA+ model of the framework and of its applications

Zhen is a C++ framework for text user interfaces on the Windows console
(`src/Zhen`). `src/ms_build/example` is a small program on it and
`src/BluetoothApplication` a large one, a console front end of an external
Bluetooth stack. This directory holds TLA+ modules translated from that code,
TLC configurations that check them on small instances, and TLAPS proofs.

## 1. Inventory

| Component | Source | State | Operations |
|---|---|---|---|
| Event loop | `Zhen/PageManager.cpp` 134-230 | `m_messages`, `m_running`, `m_messageMutex`, `m_notifyCondition`, run()'s local batch | `run`, `PostEvent`, `quit`, `HandleEvent` |
| Timer thread | `Zhen/PageManager.cpp` 26-120 | `m_nextAlarmTimepoint`, `m_running_flag`, `m_stopFuture` | `TimerImpl::run`, `setTimeout`, `stop`, `getWaitDuration` |
| Timer list | `Zhen/GeneralTimer.cpp` | `gTimers`: entries with their connections | `connectTo`, `operator()`, `disconnect` |
| Page stack and refresh | `Zhen/PageManager.cpp` 232-364, `Zhen/BasePage.cpp` | `m_pages`, refresh flag and timer of each page, the screen | `PushPage`, `PopPage`, `PopToPage`, `FreshTopPageShow`, `PageNeedFresh` |
| Dialog and its owner | `Zhen/ConfirmPage.cpp`, `ms_build/example/HomePage.cpp` | `m_enable`, `m_countdown`, the timeout timer, the clock | Yes, No, Back, timeout, `SetDefaultOption` |
| Numbered options | `Zhen/OptionContent.cpp` | `m_options` | add, hide, disable, renumber, dispatch |
| Menus | `Zhen/menu.cpp`, `Zhen/menu.h` | a page's actions, names, visibility | add, hide, show, dispatch of a line |
| Keyboard reader | `Zhen/KeyboardReader.cpp` | reader thread, `isGoingToStop`, `isRunning`, the console stream | `start`, `stop`, `read` |
| Command scheduler | `Zhen/StrandCommandScheduler.cpp` | executor, step, parameters, tries | `OnEvent`, `start`, `clear`, `BackToBeginning` |
| Adaptor, device list | `BT/Adaptor.cpp`, `PageDeviceList.cpp` | found and paired devices, bonding slot, dialog | search, pair, reply, remove, typed numbers |
| Adaptor, local device | `BT/Adaptor.cpp`, `PageBluetoothDeviceSetting.cpp` | power, visibility, name and their copies | enable, disable, the options of the page |
| Hands-free unit | `BT/BluetoothHF.cpp`, `PageHandfree.cpp`, `PageHandfreeStatus.cpp` | connections, calls, query timer | connect, dial, answer, call-list queries |
| Profile pages | `PageMedia`, `PageA2dpSource`, `PageHandfreeAg`, `PageHidHost`, `PagePan`, `PageRfcomm`, `PageL2CAP`, `PageGatt`, `BluetoothHomePage` and the modules behind them | links, active devices, status texts, a dialog per page | connect, disconnect, audio focus, open and leave |
| Remote control | `BT/avrcp/BluetoothAvrcpController.cpp`, `PageMediaStatus.cpp` | play state, track, position, position timers | play, pause, stop, next, reports |
| Apple notifications | `PageAppleANCS.cpp` | command queue, `m_cmdExecuting`, handles, notifications | connect, discover, enqueue, next, responses |
| Kanban GATT server | `PageKanban.cpp` | registration, clients, screen, media test | reads, writes, notifications, sent |
| Identifiers, addresses, codecs | `BT/BluetoothUuid.cpp`, `BT/BluetoothAddress.cpp`, `BT/BluetoothCodecConfig.*` | values | conversion, comparison |
| State machine | `BT/StateMachine.h` | state tree, active path, queue, deferrals | send, defer, transit, halt, quit |
| Printing, logging | `StringContent`, `TitleContent`, `logging` | texts | layout only |
| `BT/StackLayer` | | | declarations of the external stack |

How they meet. Three kinds of threads exist: the loop thread, which runs every
handler, slot and page method; the timer thread; and threads that only post
(the keyboard reader, callbacks of the Bluetooth stack). They meet in two
places, the message queue (`m_messageMutex`, a condition variable) and the
alarm (`TimerImpl::m_mutex`, another one). The timer thread posts an event that
calls `Timer::operator()` on the loop thread; that calls the slots, among them
`ConfirmPage::HandleTimeoutTimerEvent`, the one-shot refresh of a page and the
pollers of the profiles, and sets the next alarm. Keyboard input reaches the
page on top of the stack: its command scheduler while a dialog is open, its
options, then its menu. A page that changed posts itself a refresh event; pages
push and pop each other; a dialog calls its owner back. The modules under `BT`
pass requests to the stack and turn its reports into signals that the pages are
connected to. No implementation of `StackLayer` is in the repository, so the
stack, the remote device and its user are the environment of the models; its
callbacks are taken to run on the loop thread, one at a time.

What is hard here: the two condition variables (one waits without a predicate);
a list that changes under its own iteration; flags that suppress a second
request; a dialog object that outlives its place on the stack together with its
timer; one dialog object reused for several questions; numbers that are typed
at a list that has changed since; answers that come after the question has
changed; reports that are on their way when a link breaks; copies of state that
a later report overwrites. `PROJECT.json` lists every hazard at its line with
the properties for it.

What makes each component correct: the loop delivers every event once, in
order, and ends when told; the timer thread announces what is due, in time; the
list calls every connected slot, never early, never dropped; the screen shows
the top page and no change is forgotten; a question gets one answer, and the
answer belongs to it; a number on the screen does what it stands at; a page
shows the link as it is; a change of the phone is asked after; commands to the
telephone go out one by one and none waits for ever; a client's request is
answered.

## 2. Modules

### The framework

**EventLoop** (composed with **EventQueue**). `PageManager::run`, `PostEvent`
and `quit`. Taking the mutex, the atomic release in `wait`, the wake-up and
the notification are steps of their own; `pc` is the loop's place in `run`,
`post[t]` a thread's place in `PostEvent`. Handlers post and quit too. `posted`
and `handled` are history. EventQueue is what callers are promised: post,
deliver the oldest, close. EventLoop implements it with
`pending <- msgs \o m_messages` and `closed <- pc = "returned"`.

**TimerThread**. `TimerImpl::run` step by step against `setTimeout` and `stop`
from the loop thread. Time is relative: a `Tick` ages the deadline, run()'s copy
of it and the running wait. `ConnectTo` and `OperatorReturn` are the two places
in the timer list that set the alarm.

**GeneralTimer**. `Timer::connectTo` and `Timer::operator()`. The walk over the
list is broken into entry, connection and slot, because a slot may connect and
disconnect timers and takes time. An entry is named after the connection that
made it; the list keeps the code's order. The stable sort is the permutation of
the list's places that `Sorts` describes; there is exactly one.

**PageStack**. The list of pages with all four ways to add a page, both ways to
pop, the announcements on `m_pageChangedSignal`, and the requests to draw a page
again by event or by timer. Every operation runs inside one handler and is one
step. `outdated` and `popTo` are history.

**ConfirmPage**. The dialog with `HomePage` as its owner: opening it from the
option, Yes, No, Back, the countdown and the timeout, which act on the page
stack and on the clock.

**OptionContent**. The records of the options, their renumbering, and which
callback an input calls.

**Menus**. Names, the letter in brackets, hiding, and which action a line
activates. `ReadLineEventCooker`'s trimming of the line is here.

**KeyboardReader**. `start`, `stop` and the reader thread as two processes. `stop`
cancels the pending read before it sets `isGoingToStop`; a cancelled read leaves
the stream failed, so that every later read ends at once with an empty line.

**StrandCommandScheduler**. The scheduler is a record, its operations functions
from record to record; a page module keeps one in a variable. An executor is
a name, and the page's operator of that name says what a step does. A typed
line is the number it starts with, or `NotANumber`.

### The Bluetooth program

**PageDeviceList**. The Adaptor's found and paired lists and its bonding slot, the
page that prints them, the number dialogs, and the pairing dialog, of which
there is one object pushed anew by each request. `printedFound` and
`printedPaired` are the lists the user last saw; the history says which request a
reply was given to.

**DeviceSettings**. Power and the three settings. An option changes one setting but
the request carries all three, two of them from the copy that the last reports
left; the reports come back in order, some time later.

**BluetoothHF**. Indicators and call listings travel in order on one link and are
lost with it; `QueryCallList` starts a timer that asks a bounded number of times
after each change. Both pages follow the module through its signals. The stack may
report a status it has reported before. The paired list is read anew at each
step of a Connect dialog, and every step of a dial writes the module's address
into the page's `m_connectedDevice`, as `GetConnectionStatus` does.

**ProfilePages**. Nine pages of one shape: a Connect dialog over the paired list, a
module that reports its link, a status line. What differs is kept: the sink's
audio focus question, the source's active device, the gateway's split call, the
tests of RFCOMM and L2CAP, the Connect option of the notification client and of
the Kanban client (whose dialog has its connection commented out). `PpExecute`
looks for the two executors of their own first, then for the page's Connect.

**AvrcpController**. `BluetoothAvrcpController` with the playback options of
`PageMedia` and `PageMediaStatus`. A report may be delivered after its link.
`posTimers` counts the position pollers, as the connection object of the timer
is stored nowhere and a reconnection adds one.

**PageAppleANCS**. The command queue, `m_cmdExecuting`, the timer that runs
the next command (every 3000 ms before the notifications are registered, every
200 ms when started after; one action that may come at any time), discovery and the
list. A write's answer may be delivered after the link that sent it; a queued
command takes the handles of the moment it runs. A stack may report a write twice,
as `WriteCharacteristicMessage` and through its own signal, and each clears
`m_cmdExecuting`: `HandleClientCallbackMessage` is the earlier of the two, and no
answer is owed there.

**PageKanban**. Registration of the service, the list of clients, reads and
writes, the notifications of the screen and the media test. `linked` and
`believes` are the clients' side. Requests are those the permissions let
through; `NeverAnswered` are the attributes whose handler has no branch, the three
configurations' reads among them. A notification goes out on the handle that
is mapped: `believes[a].at` is the service the client last asked for the
screen on, and only a notification of that service is heard (`Hears`), until the
client asks on the new one.

**StateMachine**. `SmHandler`: one call of user code is one step, other threads send
meanwhile. No project file builds this header; half of it is still Java.

**BluetoothUuid**, **BluetoothAddress**, **BluetoothCodecConfig**. The conversions
and comparisons as operators, on bounded inputs. Reads of what is not
initialised (`FromString`'s scratch character) are a choice of value.

### Composition

**MCLibrary**, **MCAdaptor** and **MCProfiles** bring modules together that share no
variable. A product of independent parts has no behaviour that the parts do not
have, so one part moves in each behaviour, named by `part`, and the others stay
at their initial state. Where a whole module is too large, `part` also says
which half of its events comes; the conjuncts under `...Bounds` are those halves
(section 4). Each part's whole specification stays in its own module (`PdlSpec`,
`DsSpec`, `HfSpec`, `AncsSpec`, `KanbanSpec`, `PpSpec`, `AcSpec`, `SmSpec`,
`ReaderSpec`, `OptionsSpec`); the theorems are about those, without the halves, also
where they speak of all parts together (`LibraryIsSafe`, `AdaptorIsSafe`,
`ProfilesAreSafe`, `ValuesReadAsPrinted`). A corollary says that the composition a run
checks is a case of each.
**MCEventLoop**, **MCGeneralTimer** and **MCPageStack** only name model values.

**EventLoopProofs**, **TimerThreadProofs**, **GeneralTimerProofs**,
**PageStackProofs**, **LibraryProofs**, **AdaptorProofs** and **ProfilesProofs** hold
the theorems of the modules that the runs of the same name compose;
**SequenceLemmas** holds what they share about lists.

`PROJECT.json` maps each definition to the lines it stands for. Definitions
introduced as "A slip" are variants of one operation with a plausible mistake;
no specification uses them. Each property of a passing run is violated when
the operation is replaced by such a variant.

## 3. Runs

| Run | Instance | Shows |
|---|---|---|
| `event_loop` | 2 posters, 3 events, one handler quits, a foreign thread may quit | no loss, no reordering (`FifoNoLoss`); no lost wake-up; a batch is the last after quit; run returns; the loop implements EventQueue, with its fairness |
| `timer_thread` | 10 ms as 2 ticks, 10 hours as 4 | only one window makes it oversleep; a due timer is posted in the end; stop returns |
| `timer_list` | 3 connections, periods 2 and 3, 10 ms as 1, up to 2 late, symmetry | order and alarm; no callback dropped or doubled; one combined entry per period; periods kept |
| `page_stack` | 2 pages, 3 places | the screen shows the top; changes are drawn or owed; announcements count; never emptied |
| `library` | the dialog for 3 seconds, 2 timers, 4 options, 2 menu actions, the reader, a state machine of 4 states and 2 messages, values of a few octets | one answer and the full time for it; connected timers keep firing; numbers and letters call what they stand at; the reader stops, or waits for a read nobody cancelled; messages neither lost nor overtaken; texts are read back |
| `adaptor` | 2 devices, 2 dialogs, 2 reports, 2 phones, 2 calls | a pairing reply belongs to one request, and every request is answered; a number means the device that stood there; one setting's change keeps the others; every change of a call is queried, the queries end, the calls get listed |
| `profiles` | 2 devices, one page at a time; 2 attributes, 3 reports; 3 notifications, 2 connections; 2 clients, 2 registrations | requests name paired devices; shown status is the link's; keys are left out rightly, pollers end; commands one by one, nothing waits for ever on a link that lasts; the server answers whom it can, the media test stalls and multiplies only in known ways |
| `timer_lost_notify` | as `timer_thread` | a timer is late through that window: a violation |
| `timer_overdue` | as `timer_thread` | a deadline passed by 10 ms or more gives a ten-hour sleep: a violation |
| `page_stack_signal` | as `page_stack` | FINISHED_PUSH_IN names no page: a violation |
| `confirm_page_default` | 3 seconds of 2 ticks, both defaults | the timeout ignores a default of No: a violation |
| `option_content_index` | 4 options | a disabled option takes another one's input: a violation |

Many properties state an anomaly's exact condition instead of its absence,
because the code has the anomaly and says nothing about it. What they describe:

- `DeafDialogWasPushedTwice`: the pairing dialog no longer reacts, though on top,
  only when a second request pushed it again and the first copy was answered.
- `OldListIsRedrawn`: the list on the screen differs from the one a number indexes,
  but then a redraw is queued. `NumberMeansPrintedDevice` holds but in that window.
- `QueriesEnd`, `CallsGetListed`: the call list is asked for until the promised
  number of queries is made; a call that ended stays listed.
- `PollsEnd`, `PollsWhileConnected`: position pollers multiply on a reconnection
  within a second and end a second after the link.
- `OptionKeepsOtherSettings`: an option takes back an earlier change of another
  setting only while a report of that setting is under way.
- `CommandsOneByOne`: a second command is under way only if `m_cmdExecuting` was
  cleared by a late answer, a second report of one write or a reset.
- `StreamsMultiplyOnlySo`, `TestStallsOnlySo`: any notification reported as sent,
  that of the screen too, continues the media test; a test whose client left
  cannot be started again before it is stopped.
- `UnansweredRightly`: no answer is given to a client that connected before the
  registration, on a service whose handles the page does not have, and to a request
  no handler has a branch for: any read of a configuration, the media's and the
  signal's values, the signal's description.
- `LoneClientKnowsScreen`: a client alone since it connected has no wrong idea of the
  screen, as long as the service it asked on is the one whose handles the page
  has. After a second registration it hears nothing until it asks again.
- `StopEndsOrWaits`: `stop` ends, or the reader started its read after the
  cancellation and the owner waits for a key.

## 4. Bounds and fairness

Why these bounds are enough. Three events make a batch, a queue behind it and a
post in flight at once; two posters contend for the mutex with the loop. Three
connections are the least for an entry in front, a combined one and one that
joins it during the walk; two periods make a later timer the earlier one.
Three places hold the same page twice with another between. Far only has to be
larger than Grace, and a countdown of three passes all its branches. Four
options allow one above and one below a hidden and a disabled one. Two devices
let a number mean the other one; two dialogs let a request overtake one. Two
connections bring an answer of the first to the second, and with one notification
among them the command for its details is left in the queue, with
`m_cmdExecuting` set, when the second link comes up. Three notifications
keep one in the queue while another is being asked about and a third arrives.
Two clients let the first leave while the second is served.

The halves of a module in the composite runs. The device list: `lists` (devices
and bonds without dialogs), `typing` (numbers, one dialog, one device in each
list), `pairing` (overlapping requests, no typed numbers). The phone: `calls` (two
calls of one phone), `phones` (one call, either phone), `dialogs` (typed numbers
without calls). The profile pages: one page is opened, with its own link. The
remote control: `track` (attributes, no link), `player` (link and state, no track).
The notification client: `links` (connections, one notification on either), `lists`
(notifications on the first connection). The server: `once` (one registration;
screen and media, what is under way), `twice` (two registrations; which requests
are answered, nothing under way), `again` (two registrations; the screen's
notifications, one client at a time). The state machine:
`deferring`, `urgent`, `transitions`. A fault that needs both halves of a module at
once is outside these runs.

Bounds that are not in the code: `Events`, `MaxEvents` (counted timer events),
`Conns`, `MaxLate`, `MaxDepth`, `MaxOptions`, `MaxActions`, `MaxTyped`, `MaxMsgs`,
`MaxDefers`, `MaxHops`, `MaxDialogs`, `MaxReports`, `MaxUnderWay`, `MaxPolls`, `MaxTime`,
`MaxLinks`, `MaxNotices`, `MaxByHand`, `MaxAncsQueue`, `MaxRegistrations`, `MaxSent`,
`MaxPaired`. `Far` stands for ten hours and for `UINT_MAX` milliseconds alike. Deadlines older than 10 ms are not told apart, as
the code does not. The 32-bit wrap of `timeToExecute` is outside the model.
`m_maxExecutionTimes` and `m_maxQueryTimes` are the code's limits made smaller.
The keyboard does not come to its end of file (`InventedWhileStopping`).
`TimeToDecide` gives the user the time-out less the 10 ms of grace of a tick.

Deadlock is not checked where the system may stop: the loop returns, every
connection has left, the events are used up, the user does nothing.

**Fairness.** EventLoop: strong fairness of the loop and of each started
`PostEvent`, as a mutex that becomes free again and again is acquired in the
end and threads are scheduled; nobody is obliged to post, and no spurious
wake-up is owed. TimerThread: time passes, the thread runs, a stop begun goes on;
spurious wake-ups are assumed to be finitely many, because each restarts the
ten hours of an overdue deadline. GeneralTimer: time passes, slots return, and
an alarm that has gone off reaches the loop, which is what TimerThread and
EventLoop show, late as it may be. PageStack: the loop handles its events and
timers. ConfirmPage: time passes and a due timer is called. KeyboardReader and
StateMachine: a started thread runs, and user code returns; nobody is obliged
to press a key or to send. The profiles: a connected timer is called
(GeneralTimer), reports under way are delivered, and the stack answers what it
was asked on a connection that lasts. The user is never obliged to do anything.
In the composite runs an action that could run before its part has moved (the
dialog's and the timers' clock, the notification client's timer) is fair only in
the behaviours in which its part moves; every other fair action is disabled in
the initial state of its part and so binds no behaviour of another.

## 5. Disagreements between the code and its comments

1. `TimerImpl::run` loses a `setTimeout` that falls between its copy of the
   deadline and its lock (`timer_lost_notify`).
2. `TimerImpl::run` sleeps ten hours on a deadline passed by 10 ms or more, for
   instance after slow slots (`timer_overdue`).
3. `PushPage` emits FINISHED_PUSH_IN with a moved-from page
   (`page_stack_signal`).
4. `SetDefaultOption(false)` still chooses Yes (`confirm_page_default`).
5. A disabled option keeps its number and is invoked
   (`option_content_index`).

Behaviour met while modelling, about which no comment, test or document says
anything, so that it is modelled and not reported:

- "Power Off" does nothing: `m_initialized` is never set, and `disable` has no caller.
- The gateway's page neither disconnects nor dials, and shows its link as of the
  last drawing. The status page of the remote control is redrawn by the position only.
- `BluetoothAvrcpController::m_impl` is null before `Init`, as is the source's module:
  an option chosen before the modules are loaded ends the program. `m_inited` is never
  set, so another `Init` replaces `m_impl`.
- The hands-free timer goes on asking the device that was current when it started.
- The Kanban client's dialog cannot be answered; restarting the option takes
  the empty prompt as the answer.
- A telephone without the notification service never clears a stuck
  `m_cmdExecuting`; each drawing of an application without a name queues another
  command for the name; a `PageNeedFresh` made inside a drawing is lost.
- Stopping the server keeps `m_server_if`, so that the service cannot be registered again.
- `GetPrintableString` of a menu breaks the line after every action once it is too wide.
- `operator==` of `BluetoothUuid` compares the addresses of the arrays; the
  program never uses it. `strtol` lets an address contain a blank or a sign.
- Back and Quit are one static action each, shared by all menus that have them.

## 6. Proofs

Each theorem is about a module's own specification, for every value of its
constants that the module's named assumptions allow: any sets of threads,
events, pages, devices, calls and clients, any periods and depths. Where a bound
of the model stands in a guard (`MaxDialogs`, `MaxReports`, ...) the theorem holds
for each value of it. A proof module has, for each part, an inductive invariant
as a conjunction of named groups, a lemma that a step keeps it (one step per
action), and the theorems.

| Module | Theorems | State |
|---|---|---|
| `EventLoopProofs` | `TypeCorrect`, `NothingLost`, `WakeupNotLost`, `QuitIsFinal`, `LoopImplementsQueue` | `TypeOK`, `FifoNoLoss`, `NoLostWakeup`, `QuitEndsIntake`, `Queue!Spec` |
| `TimerThreadProofs` | `OnlyOneWindow` | `TimerThreadInv` |
| `GeneralTimerProofs` | `ListStaysWhole`, `PeriodIsKept` | `ListInv`, `PeriodKept` |
| `PageStackProofs` | `TypeCorrect`, `ScreenIsTop`, `ChangeIsAskedFor`, `PagesNeverRunOut`, `PopsAreAnnounced` | `TypeOK`, `ScreenShowsTop`, `ChangeIsDrawn`, `NeverEmptied`, `PopsAnnounced` |
| `LibraryProofs` | `OneAnswer`, `DialogIsQuestion`, `UserHasTheTime`; `NumbersGrow`, `NumbersCall`; `InventsOnlyWhileStopping`; `MessagesStay`, `ActiveStatesArePath`; `LibraryIsSafe`; `ValuesReadAsPrinted` | the dialog; the options; the reader; the state machine; `LibraryInv`, their conjunction; menus and values, `ReadAsPrinted` |
| `AdaptorProofs` | `OneReplyNamesOneRequest`, `OneRequestOneReply`, `ListsAreShown`, `NumberIsOfPrinted`, `DialogsStartClean`; `PowerIsAskedOnce`, `OptionsKeepOthers`; `EveryChangeQueried`, `CallsAreShown`; `AdaptorIsSafe` | the device list; the local settings; the hands-free unit; `AdaptorInv`, their conjunction |
| `ProfilesProofs` | `OneCommandAtATime`, `NoticesAreListed`; `EnabledIsWhatWasAnswered`, `ClientsAreServed`, `MediaTestEndures`; `StatusIsShown`, `AskedRightly`; `PositionIsAsked`, `KeysAreSent`; `ProfilesAreSafe` | the telephone; the server; the profile pages; the remote control; `ProfilesInv`, their conjunction |

Why the invariants of the runs are not inductive, and what is added:

- **Event loop.** `RunTakeBatch` overwrites `msgs`, so it must be empty outside a
  batch (`BatchOnlyInBatch`). The loop blocks some steps after it found the queue
  empty, so nobody may push in between, which needs `OwnsMutex` and
  `BlockOnEmpty`. `LoopPostsInHandler` keeps the loop's own posts out of its wait.
  The refinement uses `IInv` and two lemmas: taking the batch leaves the
  concatenation as it is, and handling takes its head.
- **Timer thread.** The wait is computed from a copy, so the copy must be the
  deadline until the thread blocks, unless `setTimeout` came in between
  (`CopyIsFresh`).
- **Timer list.** The alarm stands at the front of a list that slots change while
  it is walked over. `EntriesInv` and `PlacesInv` say that an entry is listed once
  and a connection is in one place; `PassInv` that the iterator stands in the list
  wherever the walk uses it; `OneOfAPeriod` that a second combined entry of a
  period never arises, also when the first one empties. The due times at the
  end of the walk are those of the sorted list, which needs that a stable sort
  exists and is one permutation (`SortingExists`, `SortingGrows`). `PeriodKept`
  needs `SinceInv`: what an entry still waits and what it has waited make its
  period, less 10 ms.
- **Page stack.** Drawing the top page makes both invariants true whatever they were
  before (`ShowEstablishes`); the operations that do not draw leave the top alone
  or only set a flag or a timer. `PopsAnnounced` counts the copies of a page: the
  number of copies adds up over a concatenation (`CountsAddUp`), so erasing one
  place or cutting off an end takes what is announced.
- **Dialog.** A timer outlives its dialog, so that `AnsweredOnce` needs what ties the
  page on the stack, `m_enable` and the timer (`DialogInv`). `TimeToDecide` needs
  `CountdownInv`: the time since the opening, the next tick and the ticks to come
  add up to the time-out.
- **Options.** An option's number is the count of the enabled ones up to it
  (`EnabledCounts`), so that enabled options are numbered upwards, and each by its
  place when all are enabled (`NumbersInv`). A disabled option keeps an older number,
  which is why `NumbersCall` has its condition.
- **Reader.** A stream that failed stays so across a restart (`cinFailed`).
- **State machine.** Deferred messages are all older than the queued ones
  (`Ahead`) and the message under way stands between them; messages sent to the
  front are left out of the order. A message is in one of four places.
  `ActiveIsPath` needs that the list of states a machine enters is a path from a
  root at every place where user code runs, also while only a part of it has been
  entered or left, and when a quit comes before the start. A path up exists from
  every state and is unique because the states added make a tree
  (`StateTreeAssumption`); no state occurs twice on it. What a transition leaves
  and enters meets at the lowest active ancestor of its destination.
- **Menus.** The first bracket of a shown name stands right before the key, since no
  name of an action has a bracket (`MenuNamesAssumption`, as all names in the
  repository). Adding an action changes the shown name and the key together.
- **Values.** Each loop is a function on the numbers up to a length, of which one
  proves first that it has a value everywhere. A UUID's text is followed octet by
  octet: what has been read is stored, what is left is where the next octet is
  printed (`ReadSoFar`). In an address, six tokens of two characters out of
  seventeen leave five places for colons, and each token must end before one: so the
  colons stand where `ToString` prints them. A set of rates is its six binary digits,
  and `&` compares them. The invariants say no more than that an input is
  sixteen octets, or a list of characters, so that the lemmas hold of every UUID
  and every text, also of those the run does not enumerate.
- **All of the library.** `LibraryInv` and `ReadAsPrinted` follow part by part from
  the parts' own specifications (`ValuesSpec` for the menu and the values).
- **Device list.** A reply takes its address from the Adaptor's slot and the rest
  from the page's data: the two are always of the same request, also when requests
  overlap. While none did, the stack holds one copy of the dialog (`RequestInv`).
  `NumberMeansPrintedDevice` follows from `OldListIsRedrawn`.
- **Settings.** For each kind of report, the newest one under way says what the stack
  has set; when none is under way the copy does (`UpToDate`).
- **Hands-free.** While the timer runs, the queries since the last change are those
  the timer has counted (`QueryInv`).
- **All of the adaptor.** `AdaptorInv` follows part by part from the parts' own
  specifications. What it adds are the types: a list of devices without repeats is no
  longer than there are devices (`DevicesAssumption`: they are finitely many), the
  shape of the page stack bounds its depth, and the schedulers hold no
  parameter between two answers.
- **Telephone.** A flag shows one command under way, but an answer to anything
  clears it; such writes are marked, and of the others there is at most one,
  under the flag (`QueueWhole`).
- **Server.** The list of clients, what they believe and their links change in
  one step of several assignments: `Book` relates the three, and one lemma per way
  to change it keeps it (`BookAdds`, `BookErases`, `BookEnables`, `BookHears`,
  `BookMarks`). The media test sends its next packet when the last one is reported;
  the packets under way are counted by their places in the queue, so that taking
  the head and adding to the end change the count by what is taken and added
  (`SentStep`). No client asked on a service later than the one whose handles the
  page has (`AskedBefore`), so that new handles are those nobody has asked on.
- **Profile pages.** Every report that changes a page's status requests a redraw;
  a request comes from one of the executors, each of which looks up the
  list as it is (`ExecutorsAskRightly`). For the types: a dialog that waits for an
  answer on any page is `Parked`, without a parameter and at one of two steps, and
  each executor ends it or parks it again (`ExecutorsPark`).
- **Remote control.** The properties are about the time when all reports have come.
  Before that, a link that is up has a poller or its report is still to come
  (`LinkIsPolled`), and what the player does is the last status under way, or is
  known already (`StatusComes`). The attributes of a track join the list one after
  another, each as a list without repeats (`AttributeJoins`, `AttributesJoin`).
- **All of the profiles.** `ProfilesInv` follows part by part as `AdaptorInv` does
  (`PpDevicesAssumption`: the devices are finitely many).

Induction on numbers and lists is replaced by least counterexamples: a set of
naturals has a least member (`LeastNatural`), which `FirstPlace`, the count of
options, the existence of a sorting, of paths in the tree of states and of the
results of a loop use.

Only model-checked:

- liveness, the fair part of the refinement included, and with it `DialogTakesItsTime`,
  `SettingsAgree`, `QueriesEnd`, `CallsGetListed`, `PollsEnd` and the other properties
  with a fair part; the conjunctions in which one stands next to a proved one
  (`SettingsKept`, `CallsAreQueried`, `PlayerIsFollowed`) are proved in that half only.

## 7. Not modelled, and the plan

Not modelled: texts, layout and logging; the order of start-up in `main`, which
the initial states assume; the Bluetooth stack itself; `PhoneBookPCE`,
`AvrcpTarget` and other stubs that only register themselves; the audio data
path and its file; OOB data of a pairing and BLE scanning; blocking a device,
signal and battery of the phone; volume and fast forward of the player; acting
on a notification; random identifiers and byte orders. Of the state machine, the
log records' queries and delayed messages are left out.

What comes next:

1. `GeneralTimer` and `TimerThread` composed, against an abstract timer service.
2. The composite runs' halves joined where the state space allows it.
