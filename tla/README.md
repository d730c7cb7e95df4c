# TLA+ models of the TDS 520A acquisition program

The program reads waveforms from a Tektronix TDS 520A oscilloscope over GPIB,
draws them in an MFC window and broadcasts them to web browsers. These modules
model its concurrent core and the protocols around it, check them with TLC and
prove the most important properties with TLAPS. Paths below are relative to
`src/TDS520A/`.

## 1. The system

| component | state | operations | talks to |
|---|---|---|---|
| `Threads/RingBuffer.h`, waveform ring | `m_head`, `m_tail`, 8 slots | `Push`, `Pop` | acquisition thread, UI timer; no lock |
| `Threads/AcquisitionThread` | `m_state`, `m_stopRequest`, `m_thread`, command queue, error count, sequence number, rate, statistics | `Start`, `Stop`, `WaitForStop`, `PostCommand`, `SetTargetRate`; the loop: drain commands, fetch, decode, push, reconnect | the scope, the ring, a callback into the HTTP server |
| `App/TDS520AApp` | owns all of the above | `StartAcquisition`, `StopAcquisition`, `ConnectScope`, `SyncSettingsFromScope`, `DisconnectScope`, `ExitInstance` | called by the UI thread, the connect thread and the web command thread |
| `App/MainFrm`, `App/ScopeControlPanel` | widgets | Run, Stop, Single, channel, scale, trigger, rate, connect, disconnect, close | the application object, the command queue, and (when not running) the scope itself |
| `Scope/TektronixScope` | open device, `m_channel`, preamble cache, cached scales, `m_mutex` | connect, disconnect, set channel or scale, fetch | the GPIB device; only some operations lock `m_mutex` |
| `Gpib/GpibDevice`, `GpibController` | one device handle, read buffer | open, close, write, read, query, binary block, clear, scan | NI-488.2 driver |
| `HttpServer/HttpServer` | client list, pending waveform and its sequence number, command queue, `m_running` | start, stop, accept, client thread, broadcast, command dispatch | browsers; the application's command callback |
| `HttpServer/WebSocketServer`, `HttpRequestParser` | partial input | upgrade, send frame, receive, parse | one socket |
| `App/ConnectDialog` | scan worker, scan flag, window handle | scan, stop, connect, close | `GpibController`, window messages |
| `App/OscilloscopeView` | last waveform | timer: empty the ring, draw | the ring, the renderer |
| `Waveform/*`, `Utils/StringUtils` | none (a reused preamble object) | parse preamble, decode samples, parse numbers | pure |
| `Renderer`, `HtmlGenerator`, `Sha1`, `Base64`, `Logger`, `NetworkUtils`, `qrcodegen` | - | drawing, text, hashing, logging | pure or I/O |

Threads: the UI thread; the acquisition thread; one connect thread per connect;
one scan thread per scan; the HTTP server's accept, broadcast and command
threads and one thread per client.

What is hard here, and what makes each part correct:

* **Ring.** Two threads, no lock, acquire/release indices. Correct when it is a
  bounded FIFO and no slot is touched from both sides.
* **Acquisition thread and its callers.** Start, stop and wait are called from
  two threads, the thread may end by itself, and the window waits for it without
  a limit. Correct when a stop always ends the thread, when the UI has the
  instrument for itself afterwards, and when the channel shown is the one asked
  for whatever the order of commands, failures and reconnects.
* **GPIB ownership.** "Only AcquisitionThread may call GPIB functions" (the
  repository's README), except that the UI, the connect thread and the scan
  thread do too. Correct when they never do so at the same time.
* **Preamble cache.** Correct when every frame is scaled by the settings in force
  when its curve was read, whatever writes were lost.
* **HTTP server.** Posting, broadcasting, connecting and leaving run in four kinds
  of threads. Correct when a page never goes back to an older waveform, gets the
  newest one in the end, `Stop` returns, and no connection is kept without a thread.
* **HTTP and WebSocket input.** Correct when what the server does depends on the
  stream cut into pieces only in which texts arrive together.
* **Connect dialog.** Scan threads keep a pointer to a dialog that may be gone.
  Correct when two scans never mix, a stopped scan stays stopped, and the frame
  connects to something that was found.
* **Picture and panel.** A waveform's scales go two ways, through a ring and through
  two atomics read by another timer. Correct when both ways end in the same pair,
  and that pair is the waveform's own.
* **Rate limit.** Kept as milliseconds, shown as a rate. Correct when looking at it
  does not change it.

`PROJECT.json` lists the hazards one by one with their lines.

## 2. Plan

| | module | content | abstract specification, checks | proved |
|---|---|---|---|---|
| A | `SpscRing`, `BoundedFifo` | the ring | refinement of a bounded FIFO, draining | types, race freedom, refinement |
| B | `AcquisitionThread`, `CommandService` | lifecycle, commands, reconnect, all callers | refinement of a command service; stop, channel, liveness, three disagreements with comments | types, stop, channel, refinement, what the states tell, the length of a stop, and the conditions under which the three comments are right |
| C | `TekScope` | instrument, GPIB transactions, preamble cache | preamble and channel of each curve, with lost and half-done writes, unread answers, power cycle; one disagreement with a comment | types, preamble, channel |
| D | `HttpServer`, `LatestValue` | start, stop, clients, broadcast, commands, browsers | refinement of a hub of the newest waveform; delivery, stop, commands | types, refinement, pages go forward, connections have threads, commands run once, a broadcast reaches its copy of the list |
| E | `ClientStream`, `Conversation` | one connection's bytes, cut anywhere | refinement of a conversation in whole messages; requests end, texts are heard | types, refinement, place in the stream, lengths |
| F | `ConnectDialog` | scan threads, messages, stopping, reopening, connecting | scans do not mix, stop holds, scans end | types and the four safety properties, each device listed once, the length of a scan, a scan's end is coming |
| G | `WaveformData`, `ScopePanel` | from the preamble's fields to what is painted and shown; rate field and spinner | own scales, panel and picture agree, rate arithmetic | types and all five properties, the picture never gets older |

All of it is written. What could follow: who uses the bus when (B composed with C),
which needs the device's state at every call; the lifetime of a socket handle
between `HandleHttpRequest` and `ClientThread`.

## 3. Modules

### `BoundedFifo`: what the ring promises

A queue of at most `Bound` items. Each side learns late what the other did:
`hidden` counts accepted items the consumer cannot see yet, `held` counts freed
slots the producer cannot see yet. `Accept` needs `Len(q) + held < Bound`,
`Refuse` its opposite, `Take` an item that is visible.

### `SpscRing`: `Threads/RingBuffer.h`

`head`, `tail` and `buf` are `m_head`, `m_tail` and `m_buf`; `ppc` and `cpc` say
where a `Push` or `Pop` stands, `pHead`, `pNext`, `cTail`, `cOut` are their
locals. A `Push` is `PushLoadHead`, then `PushFull` (return false) or
`PushHasRoom`, `PushWriteSlot`, `PushStoreHead`; `Pop` likewise. An acquire load
of the other side's index may return an older value: `headSeen` and `tailSeen`
are the newest values that have become visible, and `ShowHead` and `ShowTail`
advance them in the order of the stores. A slot written before a release store
is visible to whoever saw that store, so the slots themselves need no such copy.
`Pop` moves the waveform out, which leaves the slot empty. The refinement maps
the queue to the items between `tail` and `head`, taking from `cOut` the one that
`Pop` has already moved. `Capacity` is any number above 1; the code's power of two
only turns `%` into `&`. `PeekLatest` and `Size` have no caller.

### `AcquisitionThread`: the thread and everybody who starts, stops or commands it

One module holds the acquisition thread's loop and four kinds of callers,
because the interesting behaviour is between them.

* The thread: `acqPc` walks `ThreadProc` (`ProcTop`, `DrainSwap`, `Exec...`,
  `Fetch...`, `AfterFailure`, `Reconnect...`, `GiveUp...`, `ProcExit`). Every GPIB
  call may succeed (only while the device is open) or fail.
* `StopAcquisition` runs on the UI thread or on the web command thread, so its
  steps take the caller as parameter: the two stores of `Stop`, the poll loop of
  `WaitForStop`, which ends by the state or by the timeout, and `join`. The
  timeout changes nothing, since both exits lead to `join`; so the poll may end at
  any time. When both callers wait for the same thread, the second `join` finds a
  closed handle and throws (`JoinThrows`), which ends the process, as does the
  assignment to a joinable `m_thread` (`StartLaunches`): all program counters
  become `"dead"`.
* `StartAcquisition` runs on the UI thread; each load and store is a step, as
  the web thread may stop in between.
* The UI: one `Click...` action per handler, then its steps. `call` holds what the
  handler does after a stop (`then`) and the channel it is about (`ch`). Closing
  the window is a stop, then `ExitInstance` with two more stops and the disconnect.
* The web command thread: channel, run and single post a command; stop runs
  `StopAcquisition`.
* The connect thread: `ConnectOpens`, `ConnectIdentifies`, `ConnectSyncs`, under
  `m_mutex` (`lock`) where the code takes it.

Abstractions: `m_seqNum`, statistics, the rate throttle and the decoded data
are left out; the time and voltage scale and trigger commands are one `"setting"`; a
failure is counted up to `MaxErrors`, beyond which the code only compares with
`>=`. `wanted`, `decided`, `overruled` and `unsure` are history: the channel a user asked
for last, the one that all commands given so far amount to, what made the two differ, and
whether the last `SetChannel` failed. Only a user's request sets `wanted`. A user is
overruled by the command that `Start` puts first (`"seed"`: the channel that the scope
object had when Run was pressed), by a reconnect (`"reconnect"`: CH1), and, when the window
sets the channel past the queue, by a request that is still waiting (`"older"`).

A waveform that decodes goes through the callback (`CallbackReturns`), which waits for a
mutex of the server that is held across a send to a browser; the callback may therefore
never return.

A stop that is withdrawn by a Start in the middle (`StartResets` after the web's
`StopRequests`) is in the model; the web thread then waits for a thread nobody
stops. The liveness properties are about the request and about the UI, not about
the web thread.

### `CommandService`: what the command queue promises

Whoever posts a command, it is carried out once, in the order of posting, and only
while the acquisition is `Running` or `Stopping`; the channel changes by a command's
being carried out, and otherwise only while the acquisition is not `Running` (the UI's own
`SetChannel`, the first connection). A command may fail, and is not tried again.
`AcquisitionThread` implements this with `pending` mapped to the drained batch followed
by the queue (`Service`), so that `DrainSwap` is a stutter and each `Exec...` takes the
oldest command.

### `TekScope`: the instrument and the program's copies of its settings

The program keeps two copies of what the instrument holds: `m_channel` and the
preamble cache. The model has both sides. `source`, `hscale`, `vscale`,
`running`, `stopAfter` and `answers` are the instrument's; `open`, `channel`,
`cache` and `valid` are `IsConnected()`, `m_channel`, `m_preambleCache` and
`m_preambleValid`. A preamble is abstracted to the settings it was made from,
a curve likewise, so that "scaled rightly" is equality of the two.

* Each command of `TektronixScope` is an action. A write goes well, is lost
  (reported as failed), or is half done: taken and yet reported as failed
  (the driver's timeout struck after the transfer). The query before a write may
  fail as well; `AdjustTriggerLevel` writes anyway, the scale handlers do not.
* `FetchWaveform` is `FetchBegins`, then, if the cache is not valid, `RefreshStops`,
  `RefreshAsks`, `RefreshRestarts`, `RefreshParses`, then `CurveAsks` and `CurveReads`
  or `CurveFails`. Between two of them a knob may turn or the power go.
* A query that fails loses its answer or leaves it in `answers` (`Unread`), where the
  next read finds it: `Query` returns without a device clear, only a failed
  curve and `Connect` clear. Instruments that drop an unread answer at the next
  command are the case where it is lost. That this one may keep it is what
  `Connect` provides for ("first response is stale buffer data",
  `Scope/TektronixScope.cpp:40`).
* `Connect` (with `SyncSettingsFromScope` after it) and `AttemptReconnect` (with
  `StartContinuous` and the channel command after it) are sequences of actions.
* `TurnKnob`, `PowerCycle` and `SequenceEnds` are the instrument's own.

One thread uses the bus: `AcquisitionThread` says when that holds and when it does
not. `doubt` is history, and says why a copy may differ through no fault of the
code modelled here: `"scale"` after a half-done write, a knob or a power cycle,
until a preamble is read; `"source"` after a half-done `DATA:SOURCE` or a power
cycle, and before the first `SetChannel`; `"old"` while the last preamble read
was an old answer. The two invariants are about waveforms delivered without
such a doubt; `Delivers` also wants the curve to be the only unread answer, which
leaves out a curve of an earlier fetch after a device clear that failed too.

Not in this model: the trigger level (written, never read back into a copy); the
cached display numbers and the fields of the preamble one by one are in
`WaveformData`. A left-over text taken for a preamble keeps the cached scale; that
it resets byte order and sign is not modelled.

### `LatestValue`: what the web side promises

A hub holds the current waveform, may skip some, never goes back, and hands
readers the current one only.

### `HttpServer`: the server's threads and the browsers

`running`, `listening`, `pendingSeq`, `pendingWave`, `lastSent`, `latest`,
`wsClients` and `cmdQueue` are the code's; `uiPc`, `acceptPc`, `broadcastPc`, `cmdPc`
and, per connection, `clientPc` say where its threads stand. A step is what happens
between two points where another thread can get in: `PostWaveform` under
`m_pendingMutex`; `BroadcastTakes`, `BroadcastCaches`, `SendToAllClients` (the copy
of the list), one `SendText` per client, `SendReturns`; `Upgrade`, the two initial
sends under `m_waveMutex` and `m_statusMutex` (`ClientLocksWave`, `ClientSendsLatest`,
`ClientLocksStatus`, `ClientSendsStatus`), `ClientRegisters`, the receive loop,
`ClientUnregisters`. A client thread holds a mutex while it sends (`WaveLocked`,
`StatusLocked`), for which `BroadcastCaches` and `PostWaveform` wait. A send has no
timeout, and the command callback may join a thread that nobody stops: these steps
(`MayHang`) may never be taken. `Stop`
is four steps, the last of which waits for three threads and not for the clients'.
Waveforms are numbered as they are posted; the sequence numbers that the code
compares are kept beside (`acqSeq`), because they restart with the acquisition. The
browser is the page's `connect` function: it connects, shows what it is sent, and
connects again after a close. A slot of `Conns` is a tab. What a browser that has
gone is sent is lost. The refinement maps `current` to `m_latestWaveJson`.

### `Conversation` and `ClientStream`: one connection, in messages and in bytes

`Conversation` is the connection in whole messages: one request, its answer, then
texts heard in batches, the last text of each acted on. `ClientStream` is what the
code does with bytes. Of a request the parts matter (its line, its header fields, the
blank line, the body's bytes), of a frame the number and place of each byte; the
first bytes say how long the header is and the frame. `Feed` appends and looks for
the blank line; a line that does not parse is not refused, so that only the receive
timeout ends such a connection. `Receive` appends what one `recv` got, then takes
out all complete frames (`ParseFrame`), remembering the last text, or stops at a
close frame (`ParseClose`), which drops the text. Several texts in one `recv` are
therefore one command: this is what `Conversation` says too, since the repository
promises nothing else. `EncodeLength` is the length of a frame sent, checked against
a browser's reading of it. `AnswerOf` is `HandleHttpRequest`'s choice. Two assumptions
are about the surroundings: a browser's Content-Length is the length of its body
(`BodyAssumption`), and the text sent fits in an int, as `SendText` passes its size on
as one (`SizeAssumption`).

### `ConnectDialog`: the dialog, its scan threads and its frame

Per scan: its thread's place (`pc`), the dialog it belongs to (`owner`), its address
and board. The thread runs `FindDevices` (`TestStop`, a query with an answer or none,
then a post) and posts the end. The dialog's state is that of the newest dialog; a
thread whose dialog is gone reads whatever is in its place: any stop flag, and no
window or that of the dialog now open. A message that arrives in this way sets
`stray`, and the invariants about lists make an exception for it: it is undefined
behaviour, not an order of messages. Stop clears the window handle for good, so that
a stopped scan never reports its end: the button goes on saying Stop, and Cancel
stays disabled. That is in the model; `ScanEnds` is about scans nobody stopped.
`OnOK` reads the edit fields again before the frame takes the board: with
`ConnectsToFound` the board and the address are still those of one scan, unless the
field was edited in between.

### `WaveformData`: from the instrument's answers to the ring

The same loop as in `AcquisitionThread`, in what it does to the data. A field of the
preamble is abstracted to the settings in force when the instrument said it, 0
before any. `Parse` sets the fields that are in the answer and that can be read, in
the order of the code; the others keep what they were: XZERO is in one of the two
layouts only, a field may be missing, and a number out of range sets errno, which
nobody resets, so that all later numbers on this thread fail (`Understood`). The two
scales are stored one after the other (`CurveRead`, `StoreVolt`) and the waveform
delivered afterwards (`Deliver`), if it has samples and the ring has room. `partial`,
`longSeen`, `apart` and `fresh` are history: the preamble has such a gap; an
instrument with the longer layout was read; the last scales stored are not those of
the last waveform in the ring; the panel has read the scales since they last changed.

### `ScopePanel`: what the screen shows of it

The UI thread: `RenderTick` (the view's timer: empty the ring, keep the newest,
paint), `PanelLoads` and `PanelShows` (the panel's timer, which reads one scale, then
the other), the rate field, the spinner, starting and stopping (during which there are
no timers, so that the ring may fill), disconnecting. The connect thread is a thread of
its own: `ConnectOpens`, from which on the device counts as connected and Run is
accepted, the identification, two queries, either of which may fail, a load of the stored
scales if one did, two stores, and the invalidation of the preamble cache. Its stores may
fall between any two steps of the acquisition thread (`apart`), and until the cache is
invalidated that thread may use a preamble of the instrument before (`partial`).
`Interval` and `Rate` are
`SetTargetRate` and `GetTargetRate`; `Left` is the rate after the field has lost the
focus, which applies its text. If the field was entered within 200 ms of a press on
the spinner, its text is still that of the rate before, and leaving it undoes the
press; `untouched` leaves this case out of `UntouchedHarmless`.

## 4. Runs

| run | shows | bounds |
|---|---|---|
| `ring` | types, `NoSlotRace`, `FifoSpec` (refinement), `EverythingDrained` | 4 slots, 2 waveforms: the ring wraps, fills and empties with both sides anywhere, and 2 waveforms suffice to tell lost, repeated or swapped |
| `acq_lifecycle` | types, `StoppedBeforeUiUsesBus`, `FramesFromWantedChannel`, `CommandSpec` (refinement) | 5.2 million states; 2 channels, 2 errors to a reconnect, users post while no command waits (queues still reach three, through Run, Start's seed and reconnects) |
| `acq_liveness` | `StopRequestHonoured`, `UiReturns` | 1 channel, reconnect at the first error; users post only channels and settings, so that a setting can wait for `m_mutex` |
| `acq_restart` | violated: `RunStartsThread` | as `acq_lifecycle` |
| `acq_old_thread` | violated: `OldThreadJoined` | as `acq_lifecycle` |
| `acq_bus_sync` | violated: `BusFreeDuringSync` | as `acq_lifecycle` |
| `scope` | types, `FrameScaledRight`, `FrameLabelled` | 2 channels, 2 scales: enough for a copy to be wrong in each field; failing queries leave at most 1 answer unread, so that a read can be off by one and, with its own answer, find two |
| `scope_rearm` | violated: `RefreshRearms` | as `scope` |
| `http` | types, `ClientsHaveThreads`, `HubSpec` (refinement), `NeverBackwards`, `PostedArrives`, `StopReturns`, `StoppedClientsEnd`, `CommandsRun` | 1 tab that comes and goes, 2 waveforms (an old and a new one, and two numberings), 1 command, any number of starts and stops, any send and any callback may be the last thing its thread does; the safety properties are proved for any number of tabs |
| `client_stream` | types, `AtFrameStart`, `LengthsAgree`, `ConvSpec` (refinement), `RequestEnds`, `TextHeard` | every request line with every set of header fields, 3 frames out of one of each opcode, header length and mask: three because a batch can then have a frame before it and one after it; text sizes at the two changes of form |
| `dialog` | types, `OneScanAtATime`, `ListFromThisScan`, `ConnectsToFound`, `StoppedStaysStopped`, `ScanEnds`, `ThreadsEnd` | 2 addresses, 3 scans over 2 dialogs: a scan before, one after a stop and one in the next dialog; 1 board and a text that is no number, which reads as board 0 |
| `display` | types, `ScalesOfItsOwn`, `ScreenAgrees`, `UntouchedHarmless`, `SpinnerSteps` | 3.9 million states; 2 changes of settings, ring of 2, good answers and one with a field missing and one out of range, both layouts; the eight steps of the code and the typed rates 0, 7, 300 and 1500, which come back as 0, 7, 333 and 0; bounds of `MCNext`: the rate is played with only before the first connection, as it shares nothing with the waveforms, and no answer is bad while the connect thread runs (the proofs have neither bound) |

The bound on posting (`MaxQueue`, `Posted`) restricts only users; the program's own
posts are never held back. Deadlock is not checked for the acquisition runs: with
nobody clicking, or after the process has ended, the system rests; nor for the
server, the dialog and a connection, which may rest likewise. It is checked for the
ring, the oscilloscope and the display.

Fairness. `SpscRing`: the UI timer fires for ever, so `Pop` is called again and
again and finishes; a `Push` that has begun finishes; a released index becomes
visible. No further `Push` is assumed. `AcquisitionThread`: each thread that has
something to do goes on, because GPIB calls end by the driver's timeout and sleeps
are finite, except in the waveform callback, which need not return; clicks and web commands are not assumed. Weak fairness per thread is
enough: a thread is held up only by `m_mutex`, whose holder neither waits for
anything else nor is asked to release it more than once per connect, or by `join`,
whose condition stays true once the thread is off. `HttpServer`: each thread of the
server goes on, since its waits end after 200 ms and its receives after 50 ms or 5 s,
except in `MayHang`: no send and no callback is assumed to return. The properties name
what then holds a thread up: `StopReturns` says that nothing else can. A mutex that other
threads take again and again need never come; with the one tab of the run nobody does, with
many that connect again and again `PostedArrives` would need a fair mutex. Nobody has to
post, start, stop or connect. `ClientStream`: the client thread
goes on, and its browser reads what it is sent, an assumption of this module alone; the
browser need not send anything. `ConnectDialog`: a scan thread goes
on, as each query ends by the driver's timeout, and the dialog's message loop takes
the next message; `display` claims no liveness.

What the violations say:

* **Run after Stop.** `Stop()` stores `Stopping` even if no thread runs, and only an
  exiting thread ever leaves that state. Pressing Stop twice makes every later
  Run return at `Start`'s first test. One Stop can do it too, if the thread sees
  `m_stopRequest` and ends between `Stop`'s two stores
  (`Threads/AcquisitionThread.cpp:47-49`).
* **Old thread.** After a failed reconnect the thread ends by itself. The next
  Run finds `m_state` Stopped, skips the stop, and assigns `m_thread` while it is
  joinable.
* **Bus during synchronisation.** The device counts as connected from its opening
  on, so the user can start the acquisition while the connect thread still queries.
* **Re-arm.** The write that restarts the acquisition after a preamble refresh is not
  checked. If it alone is lost, the cache is valid and the instrument stopped, and
  all later fetches return the same curve as if it were new.

For the first three, section 5 proves the converse: what has to happen before the
comment fails.

Met while modelling, in the models, and without a run of their own:

* The channel asked for last may lose. With CH2 waiting in the queue, Run seeds the channel
  that the scope object still has: the queue is [CH2, Run, CH1]
  (`Threads/AcquisitionThread.cpp:33-38`, `App/ScopeControlPanel.cpp:159`). A reconnect
  posts CH1 to "re-apply channel after reconnect" (`Threads/AcquisitionThread.cpp:302`),
  whatever the channel was. While a stop is in progress the window sets the channel past the
  queue, and what waits there is carried out later. `FramesFromWantedChannel` says that
  these are the only three ways, and which channel each leads to.
* `PostWaveform` "returns immediately" (`HttpServer/HttpServer.h:42`), but waits for
  `m_statusMutex`, which `HandleWebSocketClient` holds while it sends to a browser
  (`HttpServer/HttpServer.cpp:225-229`). One that reads nothing holds up the acquisition,
  then the window in `join`. `Stop` of the server likewise waits for a broadcast, and for a
  web stop that joins a thread which Start has launched meanwhile.
* From `OpenDevice` to `InvalidatePreambleCache` a thread that was started meanwhile uses
  the preamble of the instrument before; if the identification fails the device stays
  open and the cache is not invalidated. `doubt` excuses it in `ScalesOfItsOwn`. The scales
  that the connect thread queried, or loaded because a query failed, may overwrite newer
  ones that the acquisition thread stored, until its next waveform.
* `Parse` is to discard what is "junk left in the buffer"
  (`Waveform/WaveformPreamble.cpp:34-35`), but an old answer to `WFMPRE?` is well
  formed and is cached as valid; `"old"` in `doubt` excuses it in `FrameScaledRight`.
* The wheel is to "zoom in time axis" (`App/OscilloscopeView.cpp:133`), but every paint
  sets the scale again from the waveform (`Renderer/WaveformRenderer.cpp:73`), so
  nothing of it is seen.
* A limit that is typed as 300 lets 333 through, and one above 1000 none at all
  (`Threads/AcquisitionThread.h:85`: "Limit acquisition rate"). The spinner's step up from
  no limit goes to the slowest rate, although no limit is called the last step
  (`App/ScopeControlPanel.cpp:215`).
* A waveform whose sequence number is the last one sent, after a restart of the
  acquisition, is taken for a spurious wake and not sent.

## 5. Proofs

`SpscRing_proofs` (for every `Capacity` above 1 and every set of items):
`TypeCorrect`, `NoRace` and `ImplementsFifo`. The invariant says
how the four index values lie around the ring: `tailSeen`, `tail`, `headSeen`,
`head` in this order, fewer than `Capacity` apart, the locals equal to what the
program counters say, and every slot between `tail` and `head` filled. It is
needed because race freedom alone says nothing about stale indices. Refinement
then takes each step to a step of `BoundedFifo` or to a stutter.

`AcquisitionThread_proofs` (for every set of channels, error limit and bound):
`TypeCorrect`, `StopIsComplete` for `StoppedBeforeUiUsesBus` and `RightChannel` for
`FramesFromWantedChannel`. The second is not inductive: a wait that finds no thread to join must know that none runs. The
invariant `HandedOver` adds that a running thread is always joinable, and that
after `std::terminate` no caller is left. Only `Join`, `StartLaunches` and
`JoinThrows` touch this; every other step is quiet (`QuietStep`) or belongs to a
live thread (`ProcFrame`). For the third, `ChannelInv` says
where the channel decided for is: the last channel command in the queue names it, or, if
there is none there, the last one in the thread's drained batch, or, if there is none
either, it is the scope's own (`LeadsToDecided`). A batch is carried out before anything
else is done (`LocalDrained`), the UI sets the channel itself only where no thread is
Running (`UiSetsAlone`), and what was decided is what the user wanted unless one of the
three overruled it (`Ruled`).

`AcquisitionLife_proofs` goes on from these, for the same constants.

* `StateIsTrue`: `Stopped` means that no thread runs, `Running` that one runs or is just
  being launched, `Error` that one is about to end. `Stopping` tells nothing. With
  `StartAlone` (Start works on a thread object that nobody runs) this is inductive, and
  all that follows uses it.
* `ImplementsService` for `CommandSpec`. Each step of the thread or of a caller is assigned
  to `Post`, `CarryOut`, `Choose`, `ChangeState` or a stutter. A command is carried out only
  in state `Running` or `Stopping` because of `StateIsTrue`, and the UI chooses a channel
  only where no thread is `Running` because of `ChannelInv`.
* `StopIsBounded`: while `m_stopRequest` is set, each step of `ThreadProc` lowers
  `StepsLeft`, no step of others raises it except by posting before the batch is taken, and
  no second batch is taken. With fairness, which TLC checks, this is
  `StopRequestHonoured`.
* `HolderNeverWaits`: `m_mutex` is held only by a thread that identifies the instrument,
  so that the threads that wait for it or in `join` cannot wait in a circle. It is what the
  fairness above rests on.
* `RestartNeedsCalm` for `OldThreadJoined`: without a web stop and without a failed
  reconnect, `m_thread` is never assigned over a thread, and no `join` throws.
  `RunNeedsOrder` for `RunStartsThread`: without these and without a Stop that stores
  `Stopping` when the thread is off, Start is never called in a state it refuses.
  `SyncNeedsExclusion` for `BusFreeDuringSync`: if Run waits for the connect thread and
  Connect for the acquisition thread, the bus is free. The three runs that end in
  violations show that the comments can fail, these theorems that they fail in no
  other way. The conditions restrict the steps (`CalmNext`, `OrderlyNext`,
  `ExclusiveNext`) so as to name the causes; they are not claims about the code.

`TekScope_proofs` (for every set of channels and scales, and however many answers
stay unread): `TypeCorrect`, `ScaledRight` for `FrameScaledRight` and `LabelledRight`
for `FrameLabelled`. Both speak of the one state in which a curve is about to be
returned; the invariant `CacheInv` says what holds on the way there. `Refreshing`:
while a preamble is being read none is valid, and when a curve is read one is.
`ScaleKnown`: without a doubt, a valid cache, a preamble just read and a curve just
asked for all describe the settings in force. `SourceKnown`: without a doubt,
`channel` is `source`. A command keeps this because it either invalidates the cache
or leaves a doubt (`SelectKeeps`), everything that touches neither settings nor
copies is one lemma (`QuietStep`), and the steps of a fetch are taken one by one.

`HttpServer_proofs` (for every set of tabs and every bound): `TypeCorrect`,
`RegisteredAreServed` for `ClientsHaveThreads`, `ImplementsHub` for `HubSpec`,
`PagesGoForward` for `NeverBackwards`, `CommandsOnce`, `StartFindsNoThread` and
`BroadcastReachesAll`. `HttpInv` orders the copies of a waveform along
its way (`CopiesInOrder`): a page is never ahead of the cache, the cache never ahead
of the broadcast thread's local, that never ahead of the pending slot. The step
of the refinement that needs it is the one where the cache is set. `CommandsOnce` numbers
commands as they are received: what waits is the last numbers in order
(`CommandsInOrder`), so the command taken is always the next, also across a restart of
the server. `BroadcastReachesAll` is the safety half of `PostedArrives`: of the copied list,
those already sent to show the waveform, unless the browser has gone; that needs
`CopyIsHeld`, which says that a connection in the copy is past its first message, and is not
used by a new browser before the copy is dropped. `LatestIsThere` says that a client thread
in its first send has something to send. `StartFindsNoThread` says that `Start` assigns its
three threads only when `Stop` has joined them.

`ClientStream_proofs` (for any requests and frames, any number of them, and any cuts):
`TypeCorrect`, `KeepsItsPlace` for `AtFrameStart`, `LengthsRight` for `LengthsAgree` and
`ImplementsConversation` for `ConvSpec`. `StreamInv` is about `Rest`, which is buffer and
wire in one sequence: a `recv` does not change it, whatever the cut. While a request is
read it is the request's parts (`RequestInv`), whose shape tells that a request that
`Feed` completes is all there is (`WholeRequest`). Afterwards it is a `Chain`: it starts
at the first byte of the next frame, each byte tells the one after it, and the last is
a frame's last. So a new frame goes behind it (`ChainSends`), and the front frame can be
taken once its length is there (`ChainTakes`). `BatchInv` says which text `out` is.

`ConnectDialog_proofs` (for any number of boards, addresses, scans and dialogs):
`TypeCorrect`, `OneScan`, `ListIsFresh`, `TargetWasFound`, `StopHolds`, `EachDeviceOnce`,
`ScansAreBounded` and `ScanEndIsComing`. `DialogInv` says
that while `m_scanning` is clear nothing of an earlier scan is left in this dialog,
neither thread nor message: a scan's end is its last message, and posted after the
last use its thread makes of the dialog. `EachDeviceOnce` follows the addresses along
their way: list, message queue, the place of the scan (`GoesUp`). `ScansAreBounded` is the
safety half of `ThreadsEnd`: only a scan's own steps count, and each lowers a number that
starts from the addresses left. `ScanEndIsComing` is that of `ScanEnds`: while an unstopped
scan is shown, its thread runs or its last message is in the queue.

`ScopePanel_proofs` (for any number of settings, any ring, any bad answers, any
increasing list of steps that begins with 1 and divide 1000, any typed numbers):
`TypeCorrect`, `ScalesRight`, `ScreenRight`, `FieldHarmless`, `SpinnerWorks`,
`PictureNeverOlder`. The
rate's part rests on arithmetic: `LimitOfRate` says that every interval that a rate can
set comes back from the rate it is shown as (`RoundTrip`), and that is the
invariant `RateInv`. For the spinner, `UpNext` and `DownNext` say which step of the list
`Up` and `Down` choose, and `StepExact` and `StepSeen` that comparing rates is comparing
intervals, because a step's interval is exact (`StepsAssumption`). `ScalesInv` says that a valid preamble object is good unless its
history gives a reason. For the screen, `PanelInv` follows the panel's reads and
`CacheInv` the thread's stores: unless the connect thread stored since (`apart`), the cached
scales are those of the preamble object between a store and the delivery, and those of the
newest waveform at other times. For the
order of pictures, `InOrder` has the versions of the settings rise from the picture through
the ring to the instrument.

Assumptions are the named ones of the modules: `CapacityAssumption`,
`NoItemAssumption`, `ChannelAssumption`, `MaxErrorsAssumption`, `MaxQueueAssumption`,
`ScopeAssumption`, `HttpAssumption`, `StreamAssumption`, `BodyAssumption`,
`SizeAssumption`, `DialogAssumption`, `DataAssumption`,
`NoneAssumption`, `StepsAssumption`, `TypedAssumption`.

Only model-checked: liveness (`EverythingDrained`, `StopRequestHonoured`,
`UiReturns`, `PostedArrives`, `StopReturns`, `StoppedClientsEnd`, `CommandsRun`,
`RequestEnds`, `TextHeard`, `ScanEnds`, `ThreadsEnd`), which is outside what the prover
handles: it has neither ENABLED nor fairness. Where a theorem above is called the safety
half of one of these, it proves for every size that progress is bounded or that nobody is
left out; that the steps are taken is what TLC checks on the small instance.

## 6. Not modelled

* Drawing, page layout, QR code, hashing, logging and address selection: no state
  whose interleaving matters.
* Floating point: sample conversion, measurements, frequency, cursors.
* The bytes of a binary block and of the JSON texts.
* Who overlaps whom on the bus, call by call; the NI driver.
* Reuse of a socket handle, and memory of objects used after their end, except where
  `ConnectDialog` says what a thread may then read.
* Functions without a caller: `ParseWavfrm`, `QueryRaw`, `SendBinary`,
  `BroadcastStatus`, `PeekLatest`, `QueryTriggerState` and others like them;
  `AutoConnect`, which needs address 0, is not reached.
* The command line tools in `src/gpib_probe`: sequential, and separate.
