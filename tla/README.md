# Verification of the ECM channel controller

TLA+ models of the C program in `src/`, checked with TLC on small instances and,
for the results listed under *Proofs*, proved with TLAPS for all values of the
constants.

The program is a Windows GUI that drives 16 RF channels over one RS-422 line
("blind send": nothing is ever read back), with a temperature kill switch fed by
four Modbus sensors on a second line, and a background service that can own the
sensors instead of the GUI and logs them to a file that lives a week.

- [Parts of the system](#parts-of-the-system)
- [Modules](#modules)
- [Runs](#runs)
- [Fairness](#fairness)
- [Proofs](#proofs)
- [What the checks found](#what-the-checks-found)
- [What is not modelled](#what-is-not-modelled)
- [Plan](#plan)
- [Running it](#running-it)

## Parts of the system

| Part | Source | State | Operations | What makes it correct | Modules |
|---|---|---|---|---|---|
| Send queue | `channels.c` | ring `g_queue`, head, length, the request in flight | `enqueue`, both halves of `channels_poll` | first in first out; nothing accepted is lost, repeated or overwritten | SendFifo, SendRing |
| RF channels | `channels.c` | per channel `output_on`, `level`, `last_level`, `mode`, `busy`; the memo `g_last_queued_*` | four calls, `channels_poll` | a skipped call really was a repeat; what is shown, saved and sent agree; OFF takes effect | Channels |
| Frames and parser | `protocol.c` | receive buffer | builders, `proto_parser_feed` | what is understood was asked; the next frame is found after a bad one | Frames, Link |
| Connection | `connection.c`, `transit_dll.c` | `connected`, the loaded DLL | `conn_connect`, `conn_disconnect`, `conn_poll`, `conn_send`, a callback | the callback runs once per change; a frame cut off becomes no other command and costs one buffer of them at most | Link, Channels, Console |
| Control window | `main.c` | launch flag, retry counter, kill-switch flags | `WM_TIMER`, about a dozen command handlers, close | a tripped channel goes dark and stays dark; a reconnect powers nothing on | Console |
| Cards, activity log, uptime | `main.c` | `g_ui_cache`, texts, `g_channel_on_*`, the log | refresh, stale, tick | shows and logs what happened, redrawn only when needed | Cards |
| Selection and layout | `main.c` | `g_channel_selected`, mode, control states, client size | clicks, row list, link change, `WM_SIZE` | the controls agree with the selection; a click finds the card drawn | Layout, Selection |
| Port, logo and icon | `main.c` | combo, `.ini`, `branding.bmp`, `icon.ico` | start, connect, refresh, pick, reset | a restart restores what was there | Settings |
| Sensor bus | `sensor.c`, `modbus.c`, `serial_port.c` | unit asked, poll state, readings, receive buffer | `sensor_connect`, `sensor_disconnect`, `sensor_poll` | each reading is its own unit's; no unit starves the others; a dead port is noticed | SensorBus |
| Shared readings | `sensor_shared.c` | one block with a heartbeat | create, open, publish, read if fresh | a fresh heartbeat vouches for what stands in the block | SensorShare |
| Sensor service | `sensor_service.c` | its own `Sensor`, retry and publish counters, status, stop event | the loop; install, start, stop, remove, crash | gets its port back; what it measures reaches the kill switch; its reported status is true | SensorShare, SensorService |
| Sensor log | `sensor_log.c` | week start in memory and in an `.ini`, the CSV file | load, rotate, append | a row lives a week and no longer; somebody always logs | SensorLog |
| Drawing, theme | `main.c` | fonts, brushes | paint | | |

How they interact. The window is single-threaded: every message is handled to
its end, and a 100 ms `WM_TIMER` does in one go, in this order, the link check,
the reconnect, one step of the send queue, the sensor part, the log, the uptime,
the cards and the kill switch. The handlers only queue; 300 ms per request later
the timer copies what was asked into what is shown. The service is another
process, with two threads. It shares with the window the serial port (exclusive
by Windows), a memory block without a lock, and the log with its `.ini`.

The hard behaviours follow from that: several requests pending while the user,
the kill switch, a reconnect or a loaded file adds more; decisions taken from
the shown state while another is on its way; a queue at its limit; a link lost
between queueing and sending, or amid a frame; replies late or spoiled; a process
that dies and leaves its block or half a week start behind; state shown in
several places, each updated by each handler. `PROJECT.json`, under `hazards`,
lists each at its line.

## Modules

```
SendFifo  <--implements--  SendRing  <--extends--  Link  --extends-->  Frames
   ^
   '------implements-----  Channels  <--extends--  Console  <--extends--  Cards
Layout  <--extends--  Selection          Settings
SensorBus      SensorShare      SensorLog  <--extends--  SensorService
```

**SendFifo** is the abstract promise: a line of bounded length, one request
settling at a time. It mentions no array and no channel.

**SendRing** is the queue as stored: slots, `g_queue_head`, `g_queue_len`,
`g_inflight_req`. `Waiting` reads the sequence out of the slots, and
`RingIsFifo` says that under this mapping every behaviour is one of SendFifo.

**Channels** takes the queue as a sequence, which SendRing justifies, and gives
requests their meaning. A request has a kind (`on`, `off`, `resume`, `level`,
`mode`), which tells the frame it carries and the fields it sets when it
settles. The calls are functions from a record of the whole state to the next
(`TurnOn`, `TurnOff`, `SetLevel`, `SetMode`), since a handler of the window makes
many calls in a row; the actions of the module apply one each. `radio` is what
each amplifier was last told; no code has that variable, and most properties
compare with it. `heard` and `lost` are histories: whether a channel's last frame
of each type had a link, and whether a channel ever had a request dropped.
`SavedLevel` is what Save Config would write at that moment.

**Console** composes Channels with the connection, the timer, the kill switch
and the handlers of `main.c`, one action each. `Tick` is the whole of `WM_TIMER`
as far as channels are concerned. A loop over channels is `EachInTurn`: the
concatenation of what each call queues, offered in one go. It is faithful since
no call for one channel reads another's state. Bulk handlers take any set of
channels, for the user can select any (Selection). `ConnectClicked` stands for the
button and for `WM_APP_AUTOCONNECT`, which calls the same toggle. A loaded file is
any level for each channel, or OFF.

**Cards** adds to Console's actions what they draw, log and count. A card keeps
the `Key` it was last drawn from; the status line depends on the link too, which
is not in the key, so that `conn_on_connected_changed` must make every entry
stale. `CardsTick` joins `Tick` with the drawing of the cards, which comes before
the kill switch in `WM_TIMER`, and with the uptime, whose seconds are cut off at
every OFF. `lit`, the ticks a channel has really been on, is a history.

**Frames** is `protocol.c` as operators on sequences of bytes: the tables of
units and codes, `Bytes` of a command, `TryExtractOne`, `ParserFeed`. It is the one
module where bytes are modelled, because what matters is how a frame's bytes are
taken for others. **Link** composes it with SendRing and `conn_send`: a command
leaves the ring, its bytes go to the DLL one by one, the dongle may go at any
byte, and the parser at the far end gets them in any pieces. Nothing in the
program reads the line back, so the program's own parser stands for the far end,
with the one assumption that it looks for frames the same way. `owed` is a
history: the commands sent whole and not yet found.

**Layout** is the arithmetic of `relayout_for_size` and of the hit test, with the
C rounding, as functions of the client size. **Selection** has every way to pick
cards, and as state what the window shows of it; each control that a handler
sets is a variable, so that a handler that forgets one leaves it behind.
`size` is what the hit test uses, `drawn` what the controls were moved for.

**Settings** is one program run after another over its files: the port combo and
its `.ini` entry, `branding.bmp` with its name, and an icon file. An outcome of a
pick is where it stopped: before the file was opened, cut short, complete but not
loaded again, done. A start may fail to load a `branding.bmp` that is whole.

**SensorBus** models `sensor_poll` with the line under it. A reply is two pieces,
which are on the `wire`, in the `port` or in `rx_buf`; a reading is the unit that
measured it. `Verdicts` is what the Modbus parser can say of the bytes so far: a
frame spoiled in its head may be rejected at once or later. `ripe` says that the
deadline of the present state has passed.

**SensorShare** models service and window as two processes around the port and
the block. The units are one here, and `SensorPoll` is what SensorBus does as
seen from outside: an answer is stored, or a dead handle is closed. One
iteration of the service's loop and the sensor part of one tick are single
steps. Stop and crash of the service are the same action, as Windows closes the
handles either way and the last block stays. The readings the window ends up
with are Console's `hot`.

**SensorLog** models `sensor_log.c` as run by both processes, each access to a
file a step of its own: emptying the log, writing the low and the high half of
the week start, reading the one and the other, appending. Times are cut into
halves at `HALF` (2^32 in the code) and differences wrap at `TIME_MOD` (2^64). A
process may end between any two steps. `mishaps` is a history of what the log is
not made for: the clock set back, the log held open when it should be emptied, a
rotation interrupted, one done beside another process. **SensorService** composes
it with the service's control: the manager, `service_main`, which reports and
runs the loop, and `service_ctrl_handler` on its own thread, whose report and
event are two steps.

In each module a definition that no action uses, written just before the one it
would replace, is a faulty variant: a dropped guard, a missing reset, an index
from the wrong end. For every property there is one that it must notice (listed
under `mutants`); a property that no fault in the code can break says nothing.

The `MC` modules add bounds on calls, clicks and plugging, and the sets for the
constants. `MCChannels` and `MCConsole` start with every amplifier on, left on by an
earlier run, so that "goes dark" is never true from the start.

## Runs

| Run | Instance | States | Question |
|---|---|---|---|
| `channels` | 2 channels, OFF, LOW and HIGH, queue of 2, 4 calls | 858 000 | do memo, queue, panel, saved file and amplifier agree? |
| `console` | 2 channels, queue of 4, 2 clicks, 1 plug change | 185 000 | does the kill switch hold, whatever is clicked? |
| `link` | units 2 and 13, queue of 2, buffer of 24, 1 cut | 153 000 | is what is understood what was asked? |
| `cards` | 1 channel, queue of 3, 2 clicks, 1 plug change, 1 hot tick, time to 9 | 608 000 | do cards, log and uptime tell what happened? |
| `selection` | 16 cards, 8 window sizes, the corners of 3 cards at each, 2 clicks | 39 200 | do controls and clicks agree with what is drawn? |
| `settings` | 3 ports, 3 pictures, 3 runs of the program | 1 094 000 | what survives a restart? |
| `sensor_bus` | 2 units, 4 pieces under way | 38 700 | whose reading is it, is everyone asked? |
| `sensor_share` | 2 temperatures, publish every 3 loops, open every 2 ticks | 2 990 | does the kill switch see the rack? |
| `sensor_log` | a week of 2, a row every 2 ticks, time to 4, 1 mishap | 333 000 | does a row live a week, does somebody log, is the status true? |
| `console_kill`, `console_close`, `sensor_frozen` | the same modules and bounds, one property each | | expected to fail: see *What the checks found* |

Why these bounds are enough to be interesting:

- `channels`: the property speaks of one channel and the order among its
  requests; a second channel is there to delay and to fill the queue. Four calls
  exceed the queue and the request in flight together (2 + 1), so that requests
  are dropped. LOW and HIGH differ in power, which a mode frame repeats. The link
  changes without bound.
- `console`: the queue is twice the channels, as 32 is to 16, so that the
  launch's Reset to Default fills it exactly, as in the program. Two clicks and
  the trip are the shortest conflict between two handlers; the timer ticks
  without bound, and the rack may be hot or cool at any tick. One level is enough
  because no property of the run tells levels apart. `RetryTicks` is 2 for 50:
  the counter passes through every phase.
- `link`: the address of unit 13 is the 0x0D a frame ends with; one 7E of a cut
  frame before a switch frame for unit 2 looks like the head of a longer frame.
  The parser then waits for more bytes than the buffer of 24 has left, and the
  path that drops the oldest half is taken; 24 is two of the longest frames, as
  128 is ten. Bytes arrive in any pieces. One frame is cut off; that
  `NothingForged` and `RecoversSoon` hold for any number is proved
  (`NoCommandIsForged`, `EachCutCostsABuffer`).
- `cards`: a trip, a click and a lost link within three settles. Time passes in
  steps of up to 3 per tick, so that a label's second is skipped or met exactly.
- `selection`: the sizes are those of common screens, the smallest the window
  may have, one below the design, and two either side of the height from which
  the Summary card fits and of the width from which its blocks do. `ClicksFindCards`
  and `LayoutIsRight` hold for every size and pixel.
- `settings`: what a run leaves is seen by the next; three are needed for a
  fault in the second to have come from the first. One picture is a WebP under
  another name, which is refused at once.
- `sensor_bus`: four pieces are two whole replies, a late one and the one it
  delays. With two units the round robin changes the unit asked at every
  request. The run is otherwise unbounded.
- `sensor_share`: no bound but the counters'; unequal periods let every phase of
  the two processes meet.
- `sensor_log`: at time 4 two weeks have passed. `HALF` is 2, so that a week
  start that is half old and half new can be loaded; with `TIME_MOD` 32 a clock
  set back gives a difference far over a week, as 2^64 does. `MaxMishaps` bounds
  how many kinds of mishaps a behaviour has, not how often they occur.

Deadlock is checked except in `cards` and `settings`, where time and the runs of
the program end. `MCConsole` has a step `AllDone` for the state in which the
program has really ended.

## Fairness

- `MCSpec` of MCChannels: weak fairness of settling and of sending. The window's
  100 ms timer calls `channels_poll` as long as the window lives.
- `ConsoleSpec`: weak fairness of `RipeTick`, a tick at which the settle deadline
  has passed. Only the timer is fair; no click, no plug and no temperature is.
- `SensorBus`: weak fairness of `Poll(TRUE)`: the timer or the loop goes on and
  deadlines pass. The line owes nothing: a reply may never arrive.
- `SensorShare`: weak fairness of the service's loop, the window's tick and the
  passing of 5 s. Starting, stopping, connecting and plugging are never owed. A
  service that shares is assumed to publish within the 5 s (it does so every
  second), so the heartbeat ages only without one.
- `SensorService`: weak fairness of `service_main`, of the control handler, of
  the window's and the service's loop, each of which the system schedules as long
  as its process lives, and of a heartbeat's ageing. Nobody has to install,
  start, stop or crash anything. The clock is not fair either: it may stand.

Link, Cards, Selection and Settings are checked for safety only, since what
they promise is about what may not happen.

Properties of the form `<>[]P => <>[]Q` say what the program does once its
surroundings stop changing; `P` holds no more than that.

## Proofs

Each proof module EXTENDS the module it is about. All are checked by tlapm to
the last leaf, for every value of the constants under the modules' named
assumptions: positive capacities, counts and periods, a first level, halves that
make up a time, placeholder values distinct from the real ones, and for the line
requests that are commands for the 16 units and a parser's buffer of 12 to 132
bytes.

| Theorem | Statement | Argument |
|---|---|---|
| `RingTypeCorrect` | `SendRing!Spec => []TypeOK` | All slots that count hold requests; inductive by itself. |
| `RingImplementsFifo` | `=> RingIsFifo` | Lemmas on `Wrap`: positions never share a slot, and moving the head shifts all by one. So an enqueue appends to `Waiting`, a poll takes its head. |
| `LinkUsesTheRing` | both, of `LinkSpec` | A step of the link is a step of the ring or leaves it alone. |
| `EveryCommandArrives` | `LinkSpec => []LineIsLossless` | See below. |
| `NoCommandIsForged` | `=> []NothingForged` | See below; a frame may be cut off any number of times. |
| `EachCutCostsABuffer` | `=> []RecoversSoon` | A balance between commands and cuts, see below. |
| `TypeCorrect` | `Channels!Spec => []TypeOK` | Lemmas about the calls as functions on records of the right type; each action follows from one. |
| `QueueImplementsFifo` | `=> QueueIsFifo` | A call offers a sequence of at most two, which SendFifo takes in one step. |
| `RackStaysInOrder` | `=> []InOrder(Rack)` | The inductive invariant, see below. |
| `MemoIsRight`, `NothingIsRepeated`, `PanelIsHonest`, `SavedIsHonest` | the four safety invariants of Channels | Each is read off `InOrder`. |
| `WindowStaysInOrder`, `WindowTypeCorrect` | `ConsoleSpec => []WindowInv` | See below: the same for every handler. |
| `WindowMemoIsRight`, `WindowPanelIsHonest` | the invariants of Channels, of `ConsoleSpec` | From `WindowInv`. |
| `KillSwitchHolds` | `ConsoleSpec => []TrippedHeldOff` | See below. |
| `ReconnectsSilently` | `=> ReconnectIsSilent` | The callback touches no memo once `launched`; a tick can otherwise only trip. |
| `CardsStaySound`, `CardsTypeCorrect` | `CardsSpec => []CardsInv` | See below. |
| `CardsShowWhatIs`, `LogIsOfSettles`, `UptimeNeverLies` | the action properties of Cards | Each is about one step from a state in which `CardsInv` holds. |
| `SensorTypeCorrect`, `SensorsInStep` | `SensorBus!Spec => []OwnReadingsInStep` | See below. |
| `SensorsVouchedFor` | `=> []OnlyVouchedFor` | Inductive next to `TypeOK`: readings are stored on an open port only. |
| `ShareTypeCorrect`, `HeartbeatIsHonest` | `ShareSpec => []FreshIsCurrent` | A service that ends leaves old readings, the next clears heartbeat and block before it shares. |
| `LogTypeCorrect` | `ServiceSpec => []LogTypeOK` | Next to it `SavedInOrder`: the low half is saved before the high one, and only a process that is up has something unsaved. |
| `StatusStaysTrue` | `=> []StatusIsTrue` | `ControlInv`, see below. |
| `EmptiedOnceAWeek` | `=> EmptiedWeekly` | `WeekInv`, see below. |
| `LogStaysAWeekDeep` | `=> LogIsAWeekDeep` | `DeepInv`, see below. |
| `IdsAreUnambiguous` | of `channel_index_from_id` | Arithmetic: the ranges of control numbers do not meet. |
| `SelectionTypeCorrect`, `NeverArmedInTheDark`, `BoxesAreRight`, `ShownIsSelected` | the invariants of Selection | `ModeInv` adds that the controls are usable exactly while linked; the rest is inductive next to it. |
| `ClicksFindCards` | `=> []ClickFindsDrawnCard` | `DrawnForItsSize`: the controls were always moved for the size the hit test uses; and cards are disjoint at every size, by arithmetic on the rounding. |
| `LayoutIsRight` | `=> []LayoutHolds` | See below. |
| `SettingsTypeCorrect`, `PortStaysRemembered`, `LogoSurvives`, `BrandingStaysTogether` | the invariants of Settings | Each relates a file to what the running program holds of it, and is inductive once the other is known to be of the right type. |

*On the line.* Nothing in a frame is escaped, so that what the parser takes for a
frame need not be one. The proof gives every byte ever sent a mark: which byte of
which command it is, and how many bytes of that command were sent. From the
tables of units, bandwidths and powers follow the few facts about the bytes of a
command that everything rests on: 7E stands only at the head, and 0A 0D only at
the end (`Command`). `FoundWasSent` goes through the ways a head, a type, a length and a
stop could come from different commands and rules out all but the whole command;
for a length that is a 7E it needs that the buffer is shorter than such a frame,
133 bytes, which is where the assumption on `PARSE_BUF_SIZE` comes from (128 in
the code; with 133 the claim would be false). On a line without a cut the parser
stands at the start of a command whenever it waits. The inductive invariant
`InOrder` says that the parser's buffer and the bytes on their way are a stretch
of the marked line and that what is owed is what they, and only they, hold. It
speaks of the existence of a marked line, which TLC cannot search for; the
properties it implies are what the run checks. The loops of the parser are
functions defined by recursion; that they exist is proved, too.

*What a cut costs.* `RecoversSoon` is about all commands ever lost, so nothing of
the present state can bound them; the history counts them (`lost`), and the proof
keeps a balance along the marked line. A command begun counts for eight bytes, the
size of the shortest; a piece that was cut off for one buffer. What a stretch of
the line costs is the one less the other (`Cost`), and `Budget` says that the
commands missing and the cost of what the parser has dealt with come to no more
than all commands begun. A command understood and everything passed over before it
keep that, since a cut piece that misled the parser lies in what was passed over
and a buffer is all it can take along (`FoundCosts`, `SkipsPaid`). The case that
is hard is the full buffer without a frame, of which the older half is dropped, and
perhaps again: `Still` says that such a buffer always begins in a cut piece, which
pays for all of it, whichever half is dropped now. At the end of the line nothing
is left to deal with, and the balance is the claim.

*A rack in order.* The invariants of Channels compare a channel, its memo or its
amplifier with the end of everything pending for it. None is inductive: the next
settle takes a request off the other end, and what then holds depends on the
requests between. `InLine` looks at one channel and at the places `O` in the
pipeline of the requests that set its output. It says that the memo names the
last of them, or the shown state if there is none; that each asks for something
else than the one before; that a level is only sent to an amplifier that is on by
then; that a resume has its level behind it; and that `last_level` is the last
level asked for. `InOrder` says this of every channel that never had a request
dropped, and next to it what its amplifier was told. The lemmas first take a
line alone: it survives what one call appends (`Grow...`) and the settling of its
first request (`SettleKeepsLine`). Then racks: `enqueue` makes the line of each
channel grow so, whoever else the requests are for, and drops at the limit only
what makes the channel `lost`.

*The window.* A handler calls the functions of Channels in a row or in a loop over
the channels. What a loop queues is a concatenation of one sequence per channel;
`LoopAsks` shows, by induction on the number of channels, that what it asks of one
channel stands together in it, and a line cares for no more. So every handler
keeps `Sound`: the right type and in order. The induction is over a set of numbers
with a least element, which needs no theorem with an operator as parameter.

*Cards.* A card is drawn from cached values, so the invariants say how old they
may be. Between two handlers no entry is stale and every card shows its entry
under the link as it is (`ShownInv`); an entry that says busy is of a busy channel,
and when the last request of a channel is on the wire its entry does say busy, so
that its settle writes a line (`LogInv`); and what the odometer has counted and
would add now is covered by the time the channel was on (`TimeInv`). Of the
calls they need only `Called`: nothing settles in one, and a channel becomes busy
only by a request that waits.

*Kill switch.* `TrippedHeldOff` says that for a tripped channel the last thing
queued is OFF. It needs neither the queue nor its capacity: the memo is written
by the calls alone, so each handler's effect on it can be read off its calls
(the lemmas `TurnOnMemo`, `TurnOffMemo`, ...). The invariant `HeldInv` adds to it
only what keeps the memo a function on the channels. It holds whatever was
dropped; `InOrder` adds what the memo is worth where nothing was.

*Sensors in step.* A slot that holds only its unit's readings is not inductive:
what matters is what is still on its way. The invariant `LineInStep` says that
between requests the line is empty, and during one the buffer, the port and the
wire together hold the reply of the unit asked, whole, or nothing. It holds until
a request is given up with its reply still to come (`astray`); without that
assumption the property is false (*What the checks found*, item 4).

*Status.* The service's reports come from two threads, so that what the manager
believes follows from neither alone. `ControlInv` relates where the handler is
to what has been reported and whether the event is set, says that the loop is
left only after the handler is done, and that a service that is not installed
runs nothing. `service_main` can give up in two ways, which the model keeps
apart: without an event it reports that it stopped (`MainGivesUp`), without a
handle it has nothing to report with and returns (`MainUnregistered`). After the
second the manager takes for starting what has returned; `StatusIsTrue` excepts
that state by name and says what is believed in it.

*A week between emptyings.* The step that empties the log only compares with the
week start its own process loaded. `WeekInv` says that no week start, in the
memory of a living process or whole in the `.ini`, is before the log was last
emptied, and that whoever is still writing its halves is alone. Both hold until
one of the three mishaps `EmptiedWeekly` names. `ServiceIsAProcess` carries what
was proved about the log over to the service with its control.

*A week deep.* Here the danger is a week start that is too young for the rows it
is to protect. `DeepInv` says that no week, neither in the memory of a process nor
in the `.ini`, began after the first row of the log. A week start loaded while
only one of its halves is new may be off by less than `HALF`, which is why
`LogIsAWeekDeep` allows for a week and a `HALF`. It was run as an invariant with
two mishaps and a time of 6 before it was proved.

*Layout.* A part of a card is placed by rounding its place in the design, scaled;
so is its size. Each rounding is off by half a pixel at most (`ScaledXIsNear`), and
neighbours are far enough apart in the design that three roundings cannot close
the gap at any scale the window can have (`PartsAreApart`). The cards, panels and
blocks are disjoint by the same kind of sum, where they are: the width from which
Highest Temp keeps off AVG TEMP (2147), and that from which the bulk actions lie
in the header (1810), are part of the statement, which holds of the very pixel
(`RoomForHighest`). The row of a gauge's handle is read back as
its level from a height of 8 rows on (`HandlesReadBack`); a gauge has 72 at least.

Only model-checked:

- every liveness property (`OffTakesEffect`, `TrippedGoesDark`, `Reconnects`,
  `EveryUnitAsked`, `DeadPortNoticed`, `SeenThroughService`, `SeenDirectly`,
  `ServiceReopens`, `SomebodyLogs`, `StopIsObeyed`): out of the prover's reach;
- the three runs that expect a violation.

## What the checks found

Three are runs whose expected result is a violation; `PROJECT.json` quotes the
comment that says otherwise.

1. `console_kill`: a trip that finds the queue full loses the OFF of a channel,
   while the memo says it was queued. Every later OFF is then skipped. At launch
   the queue is exactly full.
2. `console_close`: *Turn Off and Close* queues the OFFs and destroys the window
   before a tick can send one.
3. `sensor_frozen`: after the service dies, a window that never had the port
   keeps the last readings for good, and the kill switch judges them.

Others came up while modelling. The models do what the code does, and the
properties are stated so as to hold of it, most naming the exception.

4. A reply after its timeout is stored as the next unit's reading
   (sensor.c:165; sensor.h:10 says a slot holds only its unit's). The slave
   address of a reply is never compared. `OwnReadingsInStep` holds up to there.
5. A write of `branding.bmp` that is cut short leaves a torn file under the name of
   the picture before, although "the two can never disagree with each other"
   (main.c:5012-5014). `BrandingAgrees` excepts it (`halfway`).
6. Card Click shows and hides the checkboxes of all cards (main.c:3454-3473):
   `BoxesFollowMode` states it. resource.h:149-151 says that
   it "does NOT hide anything", and so do main.c:516-519, 524-525, 1096-1097,
   5257-5262 and 5289-5291. (Likewise 3369-3379 has the buttons for the selection
   enabled by the selection; 3402-3409 has dropped that.)
7. *Highest Temp* lies over *AVG TEMP* in every window narrower than 2147, by 171
   pixels at 1920; main.c:5724-5732 has "equal breathing room on both sides" of it.
   `LayoutHolds` states the width.
8. The Summary card, with *Reset to Default* at its foot, ends below a window lower
   than 1060 rows, as one maximized on a 1920 x 1080 screen is; main.c:341-354 and
   5602-5606 say the grid makes room for it there. `LayoutHolds` states the height.
9. A gauge or bulk level click while the OFF of a channel is pending powers it on,
   since the handlers look at the shown state (main.c:3873, against 3869).
10. A mode command queued behind a level command carries the power of the level
    before it (channels.c:239, channels.h:65).
11. `busy` ends with the first of a channel's pending requests (channels.c:265,
    channels.h:48).
12. Service and window may both empty the log they share, and either may do so on
    a week start that is half written (the comment before main.c:6082 has one
    writer at a time).
13. Load Config leaves out the level of a channel saved as off (main.c:3777-3786),
    which Save Config writes for all (3700-3704).
14. *Bulk Actions* ends at 1800 in a window that may be 1764 wide, which
    main.c:98-109 documents; from 1810 on it lies in the header.
15. A card's "Sending..." is not refreshed by a settle or a bulk click
    (3386-3390, 3490-3503), so that it stays until something else changes.
16. A logo picked at run time overrides `branding\icon.ico`, which
    main.c:4674-4678 gives priority.
17. If the sensor adapter is missing at launch, the first port listed takes its
    place in the combo and the automatic connect stores it.
18. A window that connected first keeps the port, and a service started after it
    publishes fresh but empty blocks. The window believes those and stops polling
    its own port; nobody measures. `SeenDirectly` and `ServiceReopens` exclude it.
19. `loading_dialog_show` dispatches pending messages (2826-2829), so handlers run
    before WM_APP_AUTOCONNECT; `serial_list_ports` may return more than the 32
    names its callers have room for (3018).
20. A service that gets no handle to report with returns without a word
    (sensor_service.c:174-177): the manager takes it for starting until its process
    dies. Without an event it does report (179-184).

## What is not modelled

- In the modelled parts: `channel_restore_saved` (nothing calls it);
  `unconfirmed` (display text); frequency and bandwidth (constants of each channel
  that frames carry along); the query builders of `protocol.c`, which nothing calls;
  how the DLL translates frames into tokens; CRC and byte order of Modbus, and a
  reply with a byte count below four, whose registers the caller reads all the
  same; the average over several units; torn copies of the shared block, which
  `sensor_shared.h` accepts.
- In the window: painting, theme, tooltips, the list box's limit, the loading
  dialog (it delays, and dispatches messages), the `.ini` written at close, the
  day's highest temperature, `[Branding] CustomIcon` (written, read by nothing). A Load
  Config is modelled by what it queues.
- In the service: its `--debug` mode, which runs the same loop in a console, without
  the manager and until it is killed.
- The diagnostic programs, the build scripts, the obfuscator and the installer
  have no run-time behaviour of the program.

## Plan

Done, in this order: SendFifo, SendRing, Channels, Console (the most dangerous
behaviour of the program is what reaches an amplifier), SensorBus, SensorShare;
then SensorLog and SensorService, Frames and Link, Layout and Selection, Settings,
Cards. Then the proofs, component by component, the rack of channels first.

Open:

1. The byte count of a Modbus reply and the average as values in SensorBus: a
   unit gone offline stays in the mean.
2. The port of Settings composed with the one SensorShare gives to service and
   window: a launch that finds the sensor port taken.

## Running it

    tlc -config MCConsole.cfg MCConsole
    tlapm ConsoleProofs.tla

`PROJECT.json` names for each run its module and configuration, for each
definition the lines it stands for, and for each property its mutant.
