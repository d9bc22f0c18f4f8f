# TLA+ models of the Magic Mouse Pad

The Magic Mouse Pad is a window that captures the mouse and sends its movements
and buttons over UDP to applications that link against a client library
(`mmpcli`). This directory holds specifications of the program, configurations
that model-check them on small instances with TLC, and theorems about them that
TLAPS checks for every value of the constants.

## The system

| Part | Code | State | Operations |
|---|---|---|---|
| Pad window | `magicmousepad/mouse_pad.*` | `_active`, `_dx`, `_dy`, `_width`, `_height` | handlers for mouse move, down and up, key down, resize |
| Pad server | `magicmousepad/server.*`, `client.*` | `_clients`, `_lock`, `_running`, `_sequence_number`, `_socket`; the buffer and peer of `serve()` | `send()` on the window's thread, `serve()` on its own, the destructor |
| Wire format | `mmpcli/include/mmpmsg.h` | – | discover, announce, connect, mouse move, mouse button |
| Client session | `mmpcli/src/mmp_client.*`, `mmpcli.cpp` | `_running`, `_sequence_number`, `_socket`, the receiver's buffer | `mmp_connect`, `start`, `connect`, `receive`, `mmp_disconnect` |
| Discovery | `mmp_client::discover` | the socket, the addresses and `found` on the stack; `_config.server`, `_sequence_number` | the broadcasting caller and a detached worker |
| Client configuration | `mmp_configuration.*`, `mmpendpoint.*` | `mmp_configuration` | `mmp_configure_...`, strings, names and the registry |
| Pad settings | `magicmousepad/settings.*` | `settings` | `from_json`, `to_json`, `load`; what `serve()` makes of them |
| Position transform | `mmp_client.inl`, `mmp_client::clip` | `_offset`, `_update_offset` | `xform_position()`, `clip()` |
| Tray application | `magicmouse/*` | `_mouse_pad`, the references to Winsock | subscribe, inject what it receives, exit |
| Renderer, tracing, entry points, `dumppos` | – | none that the rest reads | – |

How they interact: the window's thread calls `server::send()` for each event;
`send()` numbers the event, takes the lock and passes a datagram per registered
client to `sendto()`. The thread of `serve()` answers discovery requests and
registers clients under the same lock. At the client the application's thread
discovers the pad, creates a socket, sends one connect request and starts the
receiver, which drops messages that are not newer than the last one, transforms
their position and calls the application back. Disconnecting closes the socket
and joins the receiver.

What is hard about it, and what makes each part correct:

* **Server**: `serve()` and `send()` share the set of clients, the destructor and
  `serve()` share a socket handle without synchronisation, a failed `recvfrom()`
  dispatches the old buffer. Correct: no change of the set during an iteration,
  nobody is registered who has not asked, `send()` and the destructor return.
* **Client session**: datagrams come late, twice, in any order or never; sessions
  follow one another on the same address; the receiver may be in a callback when
  the application disconnects. Correct: events in order and only once, no callback
  after disconnecting, disconnecting returns.
* **Discovery**: a deadline races with an answer, the worker uses local variables
  of a call that may have returned. Correct: success means one whole announcement
  and no worker left, a call with a timeout returns.
* **Pad window**: putting the cursor back makes Windows post a message behind those
  that wait. Correct: the cursor comes back, the buttons agree, nothing is lost.
* **Configuration and settings**: two programs default and convert the same port, a
  name is looked up while the old server is already cleared, families are coerced
  after sockets were made. Correct: a client is never left with half an address,
  and reaches the pad that was meant.
* **Tray application**: the old client is destroyed only after the new one runs, a
  failed subscription leaves an object behind, three parties count references to
  Winsock. Correct: at rest one client moves the mouse and it never goes back, the
  references suffice, the interface comes back.
* **Transform**: one offset per session, two clips with different bounds, a counter
  that hides the cursor. Correct: positions on the screen, relative to the first.

`PROJECT.json` lists the hazards at their lines and the properties that cover them.

## Modules

| Module | What it models |
|---|---|
| `ByteOrder` | sequence numbers as words of four digits in base `Radix`; `htonl` and `ntohl` |
| `Wire` | the same, with the addresses that server and clients refer to |
| `PadServer` | the server: actions `Ui...` are the window's thread in `send()` and the destructor, actions `Serve...` are `serve()` |
| `MmpClient` | sessions of every endpoint: the application's thread (`apiPc`) and the receiver (`rxPc`) |
| `MagicMouse` | server, clients and the network between them; the properties and the inductive invariant |
| `EventFeed` | abstract specification of the feed: a subscriber sees some of what was posted to it, in order |
| `Lifecycle` | abstract specification of a client object: what `mmp_connect()` and `mmp_disconnect()` promise |
| `Configuration` | operators: what each `mmp_configure_...` call and the end point parser make of a configuration |
| `PadSettings` | operators: the pad's settings from JSON and the registry, and the end point that `serve()` binds |
| `Discovery` | `discover()` in detail, with its worker, adapters, broadcasts and late answers |
| `Connecting` | a client from its first configuring call to its receiver, and pads that start at any time from any settings; extends `Discovery` |
| `TrayApp` | the tray application with its sequence of clients, their receivers and the references to Winsock |
| `MousePad` | the window's handlers and what Windows does around them |
| `Transform` | `xform_position()` and `clip()` |
| `MCMagicMouse`, `MCMousePad`, `MCTransform`, `MCConnecting` | definitions for TLC's instances |
| `ByteOrder_proofs`, `MagicMouse_proofs`, `MousePad_proofs`, `PadSettings_proofs`, `Connecting_proofs`, `TrayApp_proofs`, `Transform_proofs` | theorems and proofs |
| `Promises_proofs` | what follows from the two abstract specifications alone |

Conventions. A variable `xPc` says where a thread is; an action runs from one
point where other threads can interfere to the next. A system call that may
fail has an action, or a disjunct, in which it does; the one exception is listed under
"Not modelled". An operator with an underscore
in its name (`LockFree_NoGuard`) is a plausible mistake in the operator that
follows it; replacing the one by the other must break a property, which shows that
the property says something about the code. The specifications do not use them.
Variables marked as history are not in the code; they let properties speak of
the past.

### The network

`sent` and `requests` hold every datagram that was ever passed to `sendto()`. A
receive takes any datagram addressed to the receiver, as often as it likes, so
that loss, duplication, delay and reordering are all there. A datagram to a
machine without a bound socket may come back as an error of a later `recvfrom()`
of its sender, which is how Windows reports ICMP messages; the error may or may
not leave the address in `peer` (`ServeRefused`). Machines may send the server
datagrams with unknown ids; those in `ShortSenders` also send ones that are too
short to hold an id, which the server skips after they have overwritten the start
of its buffer.

An endpoint stands for a machine with one application that uses a fixed address.
`MagicMouse` abstracts discovery to its outcomes (no answer, or the sequence
number of an announcement); `Discovery` has the details. The socket that
`discover()` uses is not distinguished from the session's. The family coercion and
the default port of `serve()` are part of `ServeBind`; the addresses themselves
are abstract.

The pad may have counted `EarlierEvents` events before the model begins, which lets a run reach the
wrap of the numbers; nobody was registered for those.

Races that the code leaves undefined are choices: the buffer of `serve()` starts
with any id and its peer with `Garbage`; the destructor reads the handle, closes
it and clears it in two steps (`UiClose`, `UiReset`) between which `serve()` may
store another one.

### The pad window

Both axes are handled alike, so positions are functions on `Axes`. Windows is
external: `HandMoves` and its siblings put input in the queue and merge a move with
a move at its end. The window does not hear every move. Inside its client area it does; outside, only while
it has the capture, and then everywhere as long as a button is down, but otherwise only over other windows of its own
thread (`SetCapture()`), of which it has none but its frame of `Frame` pixels (`Hears`). The screen stops
the cursor (`OnScreen`): where the window touches the edge of the screen, a position with `x >= _width`
(`mouse_pad.cpp:304`) is never reached, and the treadmill does not turn. `heard` says whether the window hears, or has heard, of
where the cursor is; after a click a fast hand can jump over the frame, and then the cursor stays
outside, with `heard` false, until it is moved back. The window does not move on the screen, no other window covers it,
and presses it does not hear are left out. The variable `hand` remembers how far the hand has moved, which
is what the clients' position is compared with, and every message carries the
`hand` of the moment in which it was queued. `swallowed` holds the buttons whose last
release did not happen over the window or its capture, or was handled while the pad
was paused, which excuses a button that stays down, until it is pressed again. A
lost capture, a pause or a resize by itself excuses nothing. `OnResize` may resize the window to nothing (minimised).
`smooth` records what "pixel-perfect" needs: the hand moves one pixel at a time,
the window has handled each move before the next, the screen has not stopped the cursor, the window's size stays, and the layout of
the windows does not change while a move waits. Such a hand leaves the window by one pixel, onto its frame. Without the last two a second
wrap may follow on the same crossing, and pixels are lost; the proof of
`NoPixelIsLost` found this case.

### Configuration, discovery and connecting

`Configuration` and `PadSettings` are operators from a configuration and the
arguments of a call to what the call returns and leaves behind. What
`ParseNetworkString()` and `GetAddrInfoW()` make of a string is an input: a literal,
a name with the families of its addresses, or nothing. Ports are two digits in
base `Base`, so that byte order matters.

`Connecting` calls them in any order (`Configure`) before `Connect` hands over to
`Discovery`, whose variables it shares; then `StartSocket`, `SendConnect` and
`SpawnReceiver` are `start()`. `PadStarts` is a pad that reads its file and
binds. Its properties compare `accepted`, what the last successful call meant in
host byte order, with what reaches whom. `bound` holds where each pad listens, and
only pads that are bound to the port of a request hear it.

### bind() in discover()

`BindSocket` follows the code: `RETURN_IF_WIN32_ERROR(!bind(...))` leaves when
`bind()` has succeeded. The rest of `discover()` is reachable only when `bind()`
fails, and the runs explore it from there.

### The tray application

A session of `TrayApp` is a client object. `Subscribe` begins `mmp_connect()`, each
step of which may fail; the exception and the message box lead back to `idle`,
because a message box takes messages as the main loop does. `Replace` stores the
new handle and begins the destructor of the old one (`Stop`, `Close`, `Join`,
`CleanUp`), on the same thread. `restTop` is the newest message that has moved
the mouse since the interface came to rest; a subscription, which is where the interface leaves its rest, forgets it.

A message of the pad is its number, which travels in network byte order (`PadSends`, `Number`). The number
of an announcement does not: the pad sends it in its own byte order, and the client applies `ntohl()` to it as well
(`Announcements`), so that a client that has discovered its pad starts from a number that is often far ahead of
the pad's, and takes no message until the pad has caught up. Who is registered is the subject of `MagicMouse`; here a
message reaches any of the sessions whose request may have arrived (`Receives`), and what lies in a socket that
nobody reads from any more is discarded (`NobodyReads`). The program's `WSAStartup()`, those of
each `mmp_connect()` and those of the receivers are counted in `winsock`.

### The refinements

`MagicMouse` implements `EventFeed` with `subscribers` the registered endpoints,
`posted` the events among the datagrams sent to an endpoint, and `feed` the events
its callbacks got in the current session. `ServeConnect` is `Subscribe`,
`UiSendTo` is `Post`, `UiSendToFails` is `Drop`, `Connect` is `Restart`,
`RxCallback` is `Deliver`; everything else stutters.

The sessions of a client object appear in three modules, each with another part of the
code in detail, and each implements `Lifecycle`: `mmp_connect()` succeeds only with a
receiver and starts from 0 or from a number that a pad has announced, the receiver takes
ever newer messages, and it is gone when `mmp_disconnect()` returns.

| `Lifecycle` | `MagicMouse` | `Connecting` | `TrayApp` |
|---|---|---|---|
| `Connect` | `Connect` | `Connect` | `Subscribe` |
| `Find` | `Discover` | `discover()` returns success | `Discover` |
| `Fail` | each step of `mmp_connect()` that fails | the same | the same |
| `Start` | `Spawn` | `SpawnReceiver` | `Spawn` |
| `Accept` | `RxAccept` | – | `Handle` |
| `ReceiverEnds` | the receiver leaves | – | `ReceiverStarts` that fails, `Leave` |
| `Disconnect` | `Disconnect` | – | `Replace`, `Exit`, of the client that was held |
| `Return` | `Join` | – | `CleanUp` |
| `PadAnnounces` | an announcement | `Answer` | an event, after which the pad would announce the next number |

In `Connecting` the worker of `discover()` stores the number before the call returns; the
mapping shows the number only once `discover()` has succeeded, which is right because the worker
stores nothing after that. In `TrayApp` a client whose subscription has failed stays in the phase "failed": its
handle is lost, and nobody can disconnect it. That all three implement one specification is also
what justifies that `MagicMouse` and `TrayApp` have `discover()` as a single step.

## Runs

Runs that pass:

| Run | Shows |
|---|---|
| `MagicMouse_safety` | one application, two sessions, three events, datagrams without an id: order (`InOrder`), silence after disconnecting (`NoCallbackAfterDisconnect`), rejections (`RejectsOnlyThePastOrFirst`), the inductive invariant (`Inv`) and the refinements (`FeedSpec`, `LifecycleSpec`) |
| `MagicMouse_two` | two applications, where `send()` drops one while the other registers: exclusive iteration (`SendIteratesAlone`), nobody registered unasked (`RegisteredAsked`), the refinement |
| `MagicMouse_live` | an application that starts from an announced number, with announcements that reach the receiver: `SendReturns`, `ShutdownReturns`, `DisconnectReturns`, that it hears nothing twice (`HeardOnce`), although the numbers wrap in the run, and that it implements `LifecycleSpec` |
| `MousePad_safety` | two axes, slow and fast hands that jump over the frame or meet the edge of the screen, queued messages, resizing, Pause, lost captures: `CursorComesBack`, `ButtonsAgree`, `PixelPerfect`, `AtMostOneWidthOff`, `Settles` |
| `Discovery_safety` | every configuration an application reaches in two calls, two pads with every kind of file: no half address (`NoHalfParsedServer`), what success means (`SuccessIsOneAnnouncement`, `SuccessLeavesNoWorker`), who is reached (`DiscoveryMeetsThePads`, `ConnectMeetsThePad`), families (`SocketFitsServer`), that a call with a timeout returns (`TimedCallReturns`), and the refinement (`LifecycleSpec`) |
| `TrayApp_safety` | three subscriptions and the exit, with announced numbers that the client misreads and every failure: `OneInjectorAtRest`, `NoJumpBackAtRest`, `WinsockSuffices`, `UserInterfaceReturns`, and `LifecycleSpec` for every client |
| `Transform_safety` | every choice of flags: `StaysOnScreen`, `RelativeToStart` |

Runs that show where the code and what is said of it part:

| Run | Shows |
|---|---|
| `MagicMouse_announce` | the announcement's number is not in network byte order |
| `MagicMouse_stale` | a failed `recvfrom()` registers a removed client again |
| `Discovery_inverted` | `discover()` gives up if its socket could be bound |
| `Connecting_registry` | the registry's `StartX` and `StartY` end up in the offset |
| `Transform_hidden` | the counter behind `ShowCursor()` keeps the cursor hidden inside the desktop: after two positions outside, one inside does not show it (`ShownInside`) |

Further disagreements and surprises are part of the models, and no run of their
own shows them. Of server and client:

* The first event (number 0) is rejected by every client, because a client starts
  with the number 0, too; `RejectsOnlyThePastOrFirst` excepts it.
* After a wrap of the 32-bit number every event is taken for an old one, until the numbers have
  come back to where they were. `HeardOnce` holds all the same. `InOrder`, which speaks of the events and
  not of their numbers, does not: to a session that begins after the wrap, a late datagram from before it is
  news. The theorems about order assume `NoWrap`, and the runs that check order stay below the wrap; of all runs only `MagicMouse_live` reaches it.
* A connect request is sent once; a lost one leaves a client that hears nothing.

Of discovery, configuration and settings:

* If `bind()` fails, `discover()` goes on. It fails whenever the client's family is not
  IPv4: `mmp_client.h:103` says that a valid choice is forced, but `bind()` returns an
  error, and this is the only way by which discovery proceeds. The worker
  may then leave before the first request is sent, because the socket has no
  address yet (`WorkerFails`), and the call times out.
* A server that was configured as a socket address without a port keeps port 0; only
  discovery knows the default. `ConnectMeetsThePad` excepts it.
* A client that asked for IPv6 and finds its pad by discovery, which is IPv4 only,
  cannot send to it; `SocketFitsServer` excepts it.
* An Address in the JSON file without a port is lost, with its family. The socket of the
  pad is then made for an unspecified family and `bind()` may fail (`SocketFamilies`). A pad whose
  `bind()` has failed listens nowhere, and `DiscoveryMeetsThePads` and `ConnectMeetsThePad` do not speak of it.
* A look-up that fails leaves the client without the server it had (`mmpendpoint.cpp:53`); `NoHalfParsedServer` allows
  that, and excludes a mixture of two calls.
* `SuccessLeavesNoWorker` speaks of calls that succeed. After a timeout the worker goes on with variables that are gone,
  which is undefined behaviour.
* `settings.h:54` says that the height and the width bound the area; nothing reads them.
  `load()` and `to_json()` are never called.

Of pad, transform and tray application:

* The message that crosses an edge is off by the width of the window until the move
  that `SetCursorPos()` causes arrives (`mouse_pad.cpp:325`); `AtMostOneWidthOff` bounds it.
* What overshoots the edge of the pad by more than a pixel is lost, and so is more
  if a hand does not wait for the window; `PixelPerfect` speaks of a `smooth` hand.
* Without a button down the window may not hear that the cursor has left it, and the screen's edge may stop the
  cursor before it has left; `CursorComesBack` speaks of a window that has heard of where the cursor is.
* `clip()` returns false for a negative y, so that a cursor above the desktop is not hidden; no property says so, since
  `ShownInside` speaks of positions inside. Its upper bound is inclusive, and `StaysOnScreen` says so. `mmp_flag_hide_remote` does
  nothing without `mmp_flag_clip` and `mmp_flag_local`.
* A failed subscription loses its client and a reference to Winsock, because
  `connect()` throws without freeing the handle (`mmpcli.h:91`). `WinsockSuffices` allows one reference for each client in
  `Failed`, and none for any other: a destructor or a `_tWinMain()` that kept its reference would violate it.
* While a new client replaces the old one, both move the mouse, and one may be
  behind the other; the properties speak of the interface at rest. A button that was
  pressed by the old client and is released in between stays pressed.
* A subscription without a timeout may stay in `discover()`, and the interface with it;
  `UserInterfaceReturns` excepts that state, and `TimedCallReturns` covers timeouts.

### Bounds

* `Radix = 2` makes sequence numbers 4 bits wide: 16 values with the byte reversal
  still not the identity. `MaxEvents` of 2 or 3 is enough for an event before,
  between and after others. In `MagicMouse_live` the pad has counted 15 events before (`EarlierEvents`), so that its next two are
  number 15 and, after the wrap, number 0; the other runs start from 0 and stay below the wrap, and the proofs of
  `Invariant` and `NoEventTwice` hold for every number of events.
* `MaxSessions = 2` lets datagrams of one session reach the next. Two endpoints let
  the set of clients change during an iteration; they are interchangeable, hence
  the symmetry of `MagicMouse_two`, which checks no liveness. The constraint `AllStay`
  keeps that run to behaviours in which the pad stays open and no call of the
  applications fails; the runs with one application explore the others.
* Two axes, windows of 0 and 2 pixels, `MaxStep = 1`, `MaxPending = 1`, `MaxMoves = 3`,
  `MaxInputs = 3` and a frame of one pixel in `MousePad`: three moves cross a window of two pixels and come back,
  on both axes at once (corners), or jump over the frame; the screen goes on behind the frame on the left and on the right,
  and ends with it above and with the window below; a hand that does not wait is fast enough, as
  its moves are merged, to overshoot by the width of the window; three inputs are a press and two of
  release, pause, lost capture and resize. The proofs have no bounds.
* Two pads, two adapters and two rounds in `Discovery_safety`: answers of different pads
  and rounds can mix. `Base = 2` makes ports of two digits, where 1 and 2
  are each other's reverse; the default port is one of them. Two calls let the second
  fail after the first has succeeded. The files and strings in `MCConnecting` are one of each kind.
* `MaxSessions = 3`, `EarlierEvents = 7` and `MaxEvents = 9` in `TrayApp`: a client that failed, one that is replaced
  and its replacement, and the messages 7 and 8, which may overtake one another. The announcements 7, 8 and 9 are understood as 14, 1
  and 9, so that a client starts before both messages or ahead of them.
* `Transform` uses coordinates on, inside and outside both rectangles.

Deadlock is not checked where the system may stop: the pad is closed, the sessions
are used up, the client runs or has failed, or the bounds are reached.

### Fairness

Liveness is checked under `FairSpec`. The threads run (weak fairness of what each
does on its own), and a `recvfrom()` on a closed socket returns. Nobody has to
send an event, close the pad, connect or disconnect, and no datagram has to
arrive. Strong fairness of `UiLock`: `std::mutex` promises no fairness, but `serve()`
holds the lock only for moments and a waiting thread does not lose every one of
infinitely many races. The user dismisses the message box that `serve()` shows.
In `MousePad` the message loop keeps taking messages. In `Connecting` the calling
thread runs, in `discover()` and in `start()`, and the deadline passes, which is a
choice of the environment in every round before that; neither the worker nor the
network owes anything. In `TrayApp` the user interface and the receivers run; a
`recvfrom()` on a closed socket fails, one on an open socket may wait forever, and
`discover()` may, too.

## Proofs

`ByteOrder_proofs` proves that `ntohl` undoes `htonl` for every base. `MagicMouse_proofs`
proves, for any set of endpoints and any bounds:

* `TypeCorrect`: `Spec => []TypeOK`.
* `IterationIsExclusive`: `Spec => []SendIteratesAlone`, from `LockInv`, which ties
  the holder of the lock to where the threads are.
* `DisconnectSilences`: `Spec => []NoCallbackAfterDisconnect`, from `SessionInv`.
* `OnlyAskersRegistered`: `Spec => []RegisteredAsked`, from `AskedInv`. The set of
  clients alone is not inductive: a failed `recvfrom()` may dispatch an old request
  with another address in `peer`. The invariant adds that the socket stays bound
  while the server runs, that only machines that asked are sent anything, so that
  only they can be refused, and that a request in the buffer stands beside the
  address of a machine that asked as soon as anything was sent.
* `Invariant` and `NoEventTwice`: `Spec => []Inv` and `Spec => []HeardOnce`, whether or not
  the numbers wrap. `HeardOnce` is not inductive: it needs that a sequence number is that of its event
  modulo `SeqMod` (`NumberInv`) and that the client's number is that of the last event it accepted
  (`TrackInv`), which in turn needs `SessionInv`, because discovery sets the client's number.
* `EventsInOrder` and `ImplementsFeed`: `Spec => []InOrder` and `Spec => FeedSpec`, under
  `NoWrap == MaxEvents <= SeqMod`, where a number says which event it is.
* `ImplementsLifecycle`: `Spec => LifecycleSpec`. Each action is mapped to one of `Lifecycle`; the only thing
  needed besides the types is `SessionInv`, that a client has no receiver before it is connected.

* `RejectsOnlyTheOld`: `Spec => RejectsOnlyThePastOrFirst` under `NoWrap` and for an
  application that has both callbacks. `Heard` adds to `Inv` that the number of a client that
  starts from 0 is 0 or that of an event its application has seen.

`MousePad_proofs`, for any axes, window sizes, hands and queues:

* `TypeCorrect`, and `CursorReturns`: `Spec => []CursorComesBack`. The invariant
  `Returning` says that a cursor of which the window has `heard` is inside, or some queued move tells the window where
  it is; merging moves never loses the last one. It holds for every screen and every frame.
* `ClientsHoldWhatTheUserHolds`: `Spec => []ButtonsAgree`. `ButtonInv` says for each
  button that is not `swallowed` that the last queued message about it, or else what the clients
  believe, agrees with the hand that holds it. A paused pad that ignores a release keeps
  it, because then either the button is pressed again, and a later message says so, or the button is `swallowed`.
* `NoPixelIsLost` and `NeverFurtherOff`: `Spec => []PixelPerfect` and
  `Spec => []AtMostOneWidthOff`, both from `InStep`: as long as `smooth` holds, the hand is
  always at the cursor plus `d` and at most one pixel outside the window; at most one
  move waits, and it is the next message while the cursor is outside; the inputs before
  the move that puts the cursor back are off by a width at most (`InPlace`).

`PadSettings_proofs` shows that `htons` undoes itself on every port (`PortRoundTrip`). `SettingsRoundTrip` says what
becomes of the settings of a file, their port and their family, when they are written and read again: with `load()` they are
the same; with `to_json()` and `from_json()` they are the same if they have a family, and the defaults otherwise. The program
calls neither `load()` nor `to_json()`.
Of `Connecting`, `Connecting_proofs` proves with the former, for any pads, files, strings, registries, numbers
of calls, adapters and rounds:

* `NeverHalfParsed`, `OneAnnouncement`, `WorkerHasLeft` and `SocketFits` follow from `IInv`:
  until `discover()` runs, the server is unset or as the last successful call meant it
  (`Whole`); the worker stores the address, then the number, then the flag (`Stores`), of an
  announcement that a pad sent (`Answerers`), and the caller succeeds with the flag or without
  a worker (`Success`). That the flag comes last is what makes it inductive.
* `DiscoveryMeets` and `ConnectMeets` need `PortInv` besides: the client asks
  at the port that was meant, and each pad listens at the one in its file, both through the
  default and both through the conversion.
* `TypeCorrect`: `Spec => []TypeOK`, with `IInv` and `PortInv`.
* `ImplementsLifecycle`: `Spec => LifecycleSpec`, with `IInv` and `Unstored`, that the number is 0 as
  long as no worker has run.

`TrayApp_proofs`, for any number of subscriptions and of messages before the wrap: `TypeCorrect`;
`OnlyTheHeldInjects`, `NeverJumpsBack` and `WinsockStays`, for `OneInjectorAtRest`,
`NoJumpBackAtRest` and `WinsockSuffices`. The invariant says which client a receiver may belong to
in each state of the interface (`Accounted`), that a client has no receiver before `mmp_connect()` has come to its end (`NotYet`), and that
what has moved the mouse at rest is no newer than what the held client has seen (`Newest`). The count of references compares with the
number of receivers that hold one and with the number of failed clients, cardinalities that a step changes by at most one
(`FailedGrows`: only a client for which `mmp_connect()` fails joins the second, and none leaves it).
`ImplementsLifecycle` is `Spec => LifecycleSpec` for all clients at once, with the announced numbers as the code
converts them; it adds that a client which does
not exist yet has no number (`Unborn`), and that the client that is destroyed is not the one that is held
(`Dropped`).

`Transform_proofs`, for any sizes, offsets, flags and coordinates: `TypeCorrect`, `OnScreen`
and `StartIsRelative`, for `StaysOnScreen` and `RelativeToStart`.

`Promises_proofs` proves what the two abstract specifications are good for. Of `EventFeed`: the
feed of a receiver is in order, has nothing twice and only what was posted to it
(`FeedKeepsOrder`). Of `Lifecycle`: a receiver only exists between the success of `mmp_connect()` and
the return of `mmp_disconnect()` (`NoReceiverWithoutConnection`), and the number goes back only
when the application connects anew (`NeverBackwards`). With the four refinements they hold of the detailed
modules, too.

The constants are assumed to be what their `ASSUME`s say: numbers where they count,
`Radix` above 1, `Base` positive, the default port a port other than 0, `Garbage` no
endpoint, `MaxEvents` at most `SeqMod` in `TrayApp` (its numbers do not wrap), announced numbers natural ones, inputs of the kind that a call takes. `HearsAll` and `NoWrap` are hypotheses
of the theorems that need them.

Only model-checked: liveness, which is outside what the prover handles
(`SendReturns`, `ShutdownReturns`, `DisconnectReturns`, `Settles`, `TimedCallReturns`,
`UserInterfaceReturns`). The five disagreements are refuted by TLC.

## Not modelled

The renderer, tracing, key codes and the DLL's entry point have no state that the rest reads. The pad's
entry point is a message loop, whose fairness `MousePad` assumes. `dumppos`
makes one `mmp_configure_server` and one `mmp_connect`, as clients of `Connecting` do, and
prints what it gets: its configuration clips to a screen of no size, so that it
prints only zeros, and it reads `argv[1]` whether or not there is one.

A `recvfrom()` of `serve()` that fails although the socket is bound and no ICMP message has come, as it may when Windows is short of
memory; `ServeSocketLost` and `ServeRefused` are the failures that are modelled. So a first call that fails, when
nothing has been written to the buffer yet, does so because the socket was closed, and whatever it dispatches finds no socket.

`server::addresses` and `copy_port`, which nobody calls; the reordering buffer, which is
allocated and not used; the time stamps of the server's clients, which nobody
reads; checks for null pointers; overflow of `_dx`, of a 16-bit mouse position and of
transformed coordinates; what happens after undefined behaviour (a detached worker that
outlives a call that timed out, a callback that disconnects its own session); and the
end of the program by an exception in `from_json()`, which is `noexcept`.

## Plan

Done: the core (`ByteOrder`, `Wire`, `PadServer`, `MmpClient`, `MagicMouse` with `EventFeed`), `MousePad`,
`Discovery`, `Transform`; configuration, settings and the way from them to a running
receiver (`Configuration`, `PadSettings`, `Connecting`); the tray application with the
lifecycle of its clients (`TrayApp`); `Lifecycle`, which all of them implement; proofs of every safety
property that a run checks, and of the refinements.

What is left, in order of use:

1. A pad that is closed and started again while clients keep their session, whose numbers start
   over: `MagicMouse` has one life of the pad.
2. An abstract specification of the pad window, a position that follows the hand, with
   `MousePad` as its implementation for a smooth hand.
3. `MagicMouse` with the addresses of `Connecting` instead of abstract endpoints.
