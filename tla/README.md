# kvm-switcher: verification project

TLA+ models of the stateful parts of kvm-switcher, the TLC configurations that
check them, and TLAPS proofs of their main invariants. File and line references
are to `src/`.

## 1. Inventory

kvm-switcher is one Go process. Browsers talk to it over REST and WebSockets; it
talks HTTP, IVTP (MegaRAC video) and RFB (VNC) to the BMCs. State is in memory,
except for the rows of one SQLite database and the ISO files.

| Component | Where | State it keeps | Operations |
|---|---|---|---|
| Viewer registry | `internal/api/viewers.go` | viewers, their order of arrival, who has input control, a pending request and its timer | Add, Remove, RequestControl, Accept, Deny, Release, time-out callback |
| Session lifecycle | `internal/api/handlers.go`, `cmd/server/main.go`, `internal/store/sessions.go` | sessions and their status, BMC credentials, SQLite rows | create, start (goroutine), watch, keep alive, delete, minute cleanup, shutdown, reload |
| BMC session manager | `handlers.go` (ensureBMCSession), `proxy.go` | per server: web login, `kvmActive` | renew by ticker, renew by request, borrow for a session |
| iKVM bridge map | `websocket.go`, `internal/ikvm/bridge.go` | session to bridge, the bridge's `running` | ensure, stop |
| VNC bridge | `internal/vnc/bridge.go` | one TCP connection, registered viewers, `running`, `broadcasting` | serve a viewer, probe and reconnect, broadcast, stop |
| Status poller | `status.go`, `internal/circuitbreaker` | status cache, breakers, lastPolled | round, per-server poll, breaker transitions |
| WSS proxy | `websocket.go` | shared backend WebSocket | ensure, broadcast, stop (no authenticator selects this mode) |
| iKVM video and input | `internal/ikvm/{client,bridge,vnc}.go` | fragment buffer, frame subscribers, keyboard modifiers | read loop, frame delivery, input forwarding |
| Decoder, HID tables | `internal/ikvm/{decoder,decompress,bitstream,hid}.go` | decoder tables, frame | pure algorithms on byte streams |
| ISO library | `iso_handlers.go`, `store/isos.go`, `internal/iso` | files, rows, running downloads | upload, download by URL, delete, mount, serve |
| KVM control, virtual media | `handlers.go` | none of its own | power, display lock, mouse mode, insert and eject, forwarded to the BMC |
| BMC reverse proxy | `proxy.go` | one proxy per server | request and response rewriting |
| Board handlers, authenticators | `internal/boards`, `internal/auth` | none, or a small cache | HTTP dialogues with each kind of BMC |
| OIDC | `internal/oidc` | login states, user sessions | login, callback, logout, access decision |
| Rate limiter | `internal/middleware/ratelimit.go` | a token bucket per client | allow, cleanup |
| Audit log, config, CORS, metrics, TLS | | append-only rows, constants | |
| Web front end | `web/` | browser state | |

How they interact. CreateSession starts a goroutine that authenticates, taking
the session manager's login for a MegaRAC. A `/ws/kvm/{id}` handler registers its
viewer in the session's registry and is served by the session's bridge. Deleting a
session, and the idle cleanup, stop the bridge; stopping an iKVM bridge releases
`kvmActive`, which keeps the manager from renewing the login underneath the bridge.
The poller reads the manager's login, and the manager decides from the poller's
cache whether the login is stale.

What is hard. Every mutex is held for one read or one write, never across a
handler: between any two of them, and during every network call, another handler
may delete, replace or restart what this one is working on. Timers that have
fired cannot be called back. A crash leaves rows of any status. A BMC can stop
answering in the middle of anything. PROJECT.json lists these hazards line by
line; the components' correctness is

* registry: input control is with somebody who is there, and a request is decided
  by its own clock or by its controller;
* sessions: no BMC login is leaked, nothing is stuck in `starting`, ended is ended;
* manager and bridges: a served login is one the server has not closed itself,
  a dead one is replaced, the `kvmActive` flag is released;
* VNC bridge: one reader of the BMC's stream, and viewers are let go on stop;
* poller: what the status page shows is right within a known time;
* ISO library: a recorded file is there, and is the one recorded; the limit holds;
* IVTP connection: messages and frames stay whole, video is not left paused, Stop
  returns;
* iKVM viewers: every frame reaches every viewer, in the size it was told, and the
  BMC's modifiers are those of the user in control;
* decoder: it reads the bits it should, as many as the header announces, and draws
  where it should;
* WSS proxy: no connection to a BMC outlives its users, and stopping it ends theirs.

## 2. Modules

| Module | Models | Checked by |
|---|---|---|
| `ControlToken` | what the registry promises: a token among connected viewers | refined by `ViewerRegistry` |
| `ViewerRegistry` | `viewers.go` | `viewer_registry` |
| `LoginLedger` | what the session code promises about BMC logins: one owner from opening to Logout | refined by `SessionLifecycle` |
| `SessionLifecycle` | session handlers, cleanup, restart | `session_lifecycle` |
| `BMCWebSession` | login, manager, iKVM bridges of one MegaRAC | `bmc_session`, `dead_bridge` |
| `VNCBridge` | one VNC bridge and its viewers | `vnc_bridge` |
| `StatusPoller` (`MCStatusPoller`: instance) | poller and breakers, in discrete time | `status_poller` |
| `IsoLibrary` | uploads, URL downloads, deletes, restart | `iso_library`, `recorded_file` |
| `IVTPClient` | one iKVM bridge and its BMC connection, KVM control endpoints | `ivtp_client` |
| `IKVMViewers` (`MCIKVMViewers`: instance) | frames to, and keys from, the viewers of an iKVM bridge | `ikvm_viewers` |
| `BitReader`, `HuffmanTables` | the decoder's bit reader and code tables, as operators | through `VideoDecoder` |
| `VideoDecoder` (`MCVideoDecoder`: instance) | the decoding of a frame | `video_decoder` |
| `WSSProxy` | the shared WebSocket backend of a session | `wss_proxy` |
| `*Proofs` | TLAPS proofs about the modules they extend: `TransportProofs` about `VNCBridge` and `WSSProxy`, `VideoPathProofs` about `IKVMViewers` and `VideoDecoder`, the others about the module they are named after | |

So that one module can extend two components, `WSSProxy` and `VideoDecoder` carry a
prefix in the names every component has (`WSSInit`, `DecoderNext`, `decoderVars`).

The modules meet at the interfaces of the code. `ViewerRegistry` decides who is in
control, which `IKVMViewers` takes as its `holder`; `BMCWebSession` starts and stops
the bridges whose inside is `IVTPClient` (towards the BMC) and `IKVMViewers` (towards
the browsers); `VideoDecoder` is what `IKVMViewers` calls a decoded, or bad, frame.

### ViewerRegistry

`conn` is the id each WebSocket handler registered (a ghost of the handlers'
stacks); `viewers`, `order`, `controller`, `pendingRequest` and `requestTimer` are
the fields of the struct. Each method holds `vr.mu` throughout and is one action.
`AfterFunc` is two: `TimerFires`, after which `Stop` is too late, and
`TimeoutCallback`, which gets the lock some time later. Requests carry a number
so that an old callback can be told from a new one, which the code cannot do.
A page keeps its viewer id when it reconnects, so two handlers may have one id.

`ControlToken` knows only who is connected and who holds the token; every move of
`controller` has to be one of its actions (take when nobody has it, hand over to
a connected viewer, succeed a viewer who left).

### SessionLifecycle

Handlers are cut where they leave a lock or wait for the network. `creator`,
`deleter`, `watcher` and `start` are their program counters; `status` is the
shared `KVMSession`, `rows` the status column, which may lag or miss an update
because write errors are only logged. `loggedIn` and `orphans` are ghosts: the
logins open on BMCs, and those whose record died with the process. LastActivity
and the age of credentials are abstracted to "past the threshold". A NanoKVM
session dereferences the connection its authenticator does not return
(`StartPanics`): the process restarts. startSession's branch for an unknown KVM mode
(`handlers.go:368`) is not an action: no authenticator returns one.

`LoginLedger` knows only who answers for each login: nobody yet, its starter, the map
of credentials, a closer, or nobody any more (over, or lost). `LoginOwner` reads that
off the state: an open login is the starter's while `start` is about to store it, the
map's while it is in `creds`, and otherwise some logout's. Every move has to be one of
the ledger's, which has none from a closer back to the map, and none between closers.

### BMCWebSession

`bmcCreds` and `kvmActive` are the entry's fields; `ensure`, `starter`, `watcher`
and `stopper` the program counters of ensureBMCSession, startSession's login part,
ensureIKVMBridge and StopIKVMBridge. The BMC opens, closes and expires logins and
accepts a KVM token while its login lasts. Ids of logins and bridges are reused
when nothing refers to them, so behaviours are unbounded.

### VNCBridge

One bridge after its first Start. `at` is the handler's position in
ServeWebSocketWithControl, `loop` that of runBroadcast, `stop` that of StopVNCBridge
and Bridge.Stop. A connection is open, lost (by the BMC) or closed (by us). The
one-millisecond probe may, through the deadline it sets on the shared connection, end
a broadcast goroutine blocked in Read. A reconnect is cut wherever somebody else can
come in between: the look at `running` and at the number of viewers (`Enter`,
`Count`), closing the lost connection and clearing `running` (`CloseLost`,
`ClearLost`), storing the dialled one and setting `running` (`Install`, `SetRunning`).
These cuts matter: a handler that closes the lost connection, another that installs a
new one, and the first that then clears `running` leave an open connection in a bridge
that is not running. `StopReleasesViewers` therefore speaks of the connection that is
in `b.conn`, and excepts a viewer whose bridge has been given a new one after Stop
closed the old.

### StatusPoller

Clocks run from the events whose `time.Time` the code stores and stop at the value
they are compared with. `Pass` lets a unit of time go by; it is disabled while
something is due at once (a poll at its deadline, a delivered tick). `ticker.C` holds
one tick, and ticks are lost while a round runs. `Latency` bounds how long a server
that answers takes. `Interval` is a function of the server, as each may be configured
its own, so in many rounds only some servers are due. `Blind` servers are NanoKVMs,
whose handler reports online whatever happens once it has credentials. `steady` is a
ghost: how long the server has been up, or not up.

### IsoLibrary

Handlers are cut at every call of the database and of the file system, and any of
these calls may fail. A file is named after the writer that created it, so
`file[n] = row[n]` says that the bytes at the path are those the row describes.
`dl` is the tracker of a URL download. The sum of sizes is the number of recorded
bytes, counted as a set, which is a form the provers can follow. `spoilt` and
`overlap` are ghosts for the two conditions of the properties: a delete that stopped
between file and row or met another of the same name, and two transfers under way at
once.

### IVTPClient

`pc` is the session goroutine (RunSession and readLoop), `stop` the position of
Bridge.Stop and Client.Stop. A goroutine that writes has a `queue` of messages; a
message with a payload is two steps under `c.mu`, and the BMC's end (`expect`,
`torn`, `paused`) is a ghost of what it makes of the bytes. A BMC that has stopped
reading keeps a writer in Write, holding the mutex. Of message types only those
that switch the stream are told apart. A request stands for an API handler, for a
viewer's input, or for a refresh that a bad frame starts in a goroutine of its own.

### IKVMViewers

A viewer is its handler up to the handshake, then its sender (`pc`), woken through a
channel that holds one notification (`tok`) and coalescing for 5 ms. `decW` is the
decoder's resolution, `width` the bridge's, `lastW` the sender's and `told` the
browser's. The decoder takes over a frame's resolution before it can fail
(`FrameFails`; not so a header without one, `HeaderFails`), and after a change the next
`Countdown` frames are wiped, unless no frame at all has been counted before, good or
bad (`counted`). The immediate update of a newcomer is copied under the mutex
(`CopyCurrent`) and sent after it (`SendCurrent`), in the decoder's size. Picture and
keyboard share no state, so a behaviour follows one of them (`follow`), which keeps the
instance small without losing an interleaving. A key event is read against the
registry, then changes `kbdModifiers` in two steps, as the code has no lock there.
`ModifierOf` maps keys to the bits of the report, the left and the right key of a
modifier to the same one.

Two ghosts carry the exceptions of the properties. `moved` marks a browser for which
the decoder's or the bridge's size left the one it was told between ServerInit and the
start of its sender; the next DesktopSize ends that. `astray` holds the modifiers that
need not be right: those wrong at the moment control moved (all, if an event was under
way), and one whose key was released while its other key was held. An event that
settles a modifier takes it out again; no other modifier is affected. A width and
height are read in one step: the unlocked reads of the pair (`vnc.go:59`, `vnc.go:187`)
could be torn.

### VideoDecoder, BitReader, HuffmanTables

The bit reader works on real words of `WordBits` bits, each the function from bit
numbers to bits, so that shifts lose bits as in the code, and is compared with
`Window`, the definition of the next bits of a stream. What the bits mean (kind of
block, position, data) is chosen freely, and so are the number of words the header
announces, which the code does not compare with the data (`words`), and the source and
destination resolution (`real`, `res`). How many bits are consumed, when the loop's
condition holds (`InLoop`), what is saved for the undo, and the drawing itself are
translated: `Drawn` is what the loops over rows and columns come by with `maxCol`,
`maxRow` and the tests of `px` and `py`, `Indices` the linear addressing, by the
destination's width in the framebuffer and by the source's in the samples kept as
reference. `Tile`, defined by the column and the line of a pixel, belongs to the
property `BlockStaysInTile` only. Of a frame's header, resolutions of zero and a mode
other than 4:4:4 and 4:2:0 are left out. The Huffman tables are the code's four, in
full: the lengths of the threshold tables against the lengths the standard derives
from the number of codes per length.

### WSSProxy

One session. `current` is the map's entry, `proxyClients`, `backend` and `done` the fields
of a proxy, `mine` the proxy a handler works with. Each section under a mutex is one
action: looking, dialling and storing are three, and so are leaving, taking the
proxy out of the map and closing it. `overwritten` is a ghost: proxies whose entry a
second creator replaced.

## 3. Runs

| Run | Instance | Shows |
|---|---|---|
| `viewer_registry` | 3 ids, 3 handlers, 3 requests | `ControllerIsConnected`; `OrderMatchesHandlers` (one entry per running handler, repeated ids included); `PendingRequestHasTimer`; `ImplementsControlToken`; `RequestsAreResolved` |
| `session_lifecycle` | 1 session; iKVM, VNC or web-only server; 2 DELETEs; 1 viewer; 2 attempts; 1 restart | `NoUntrackedLogin`, `StartingHasStarter`, `EndedStaysEnded`, `ImplementsLoginLedger`, `EndedLoginsAreClosed` |
| `bmc_session` | manager, 1 request, 1 starting session, 1 viewer, 1 stopper, 2 logins, 1 bridge | `KvmActiveIsReleased`, `ServedCredsAreLive`, `StaleLoginIsReplaced` |
| `dead_bridge` | 1 viewer | **violated**: a viewer is handed a bridge whose IVTP loop is over |
| `vnc_bridge` | 2 viewers, 3 connections, 2 goroutines | `OneBroadcastLoop`, `StopReleasesViewers` |
| `status_poller` | 2 servers, one a NanoKVM; threshold 2; reset 5, deadline 3, intervals 1 and 3, tick 2, latency 1 | `BreakerCountsFailures`, `RecoveryIsReported`, `OutageIsReported` |
| `iso_library` | 2 uploads of one name or of two, 1 URL download of the second, 2 DELETEs, room for one file, 1 crash | `RecordedFileIsThere`, `StorageLimitHolds`, `EndedDownloadIsDecided` |
| `recorded_file` | an upload and a URL download of one name | **violated**: the failing download removes the file of the recorded upload |
| `ivtp_client` | session, ticker, 2 requests; 2 frames of up to 2 fragments, numbers modulo 2 | `FramesAreWhole`, `MessagesAreWhole`, `NotLeftPaused`, `StopReturns` |
| `ikvm_viewers` | 1 viewer watching, 2 typing, 2 resolutions, 2 changes, 2 keys of one modifier and 1 of another | `NoWakeUpIsLost`, `UpdateFitsScreen`, `FrameReachesViewer`, `PictureComesBack`, `ModifiersFollowController` |
| `video_decoder` | words of 3 bits, blocks of 2 by 2, 2 resolutions (one ragged) and a larger source, data of 3 words or too short, 2 to 4 words announced, 2 frames | `ReaderIsAligned`, `LoopFollowsBits`, `AbortUndoesFrame`, `BlockStaysInTile`, `HuffmanLengthsAgree` |
| `wss_proxy` | 2 viewers, 1 DELETE, 2 dials | `NoIdleBackend`, `StoppedViewersLeave` |

Each violated run quotes the comment it contradicts under "findings".
The type invariant is checked by the runs where it says more than types (`vnc_bridge`:
there is always a connection to probe; `status_poller`: no round outlasts its deadline;
`video_decoder`: the next block is on the screen or in a row a header asked for). Every
module's is proved.

Bounds. Two processes of a kind suffice for a race between any pair of them, and the
runs have two where the code's own conflict is between equals (DELETEs, viewers,
uploads, requests, broadcast goroutines). Three viewers let control pass from one to a
second while a third asks. Three connections let two reconnecting handlers each hold
one while the old one is still being read. One session is enough for
`SessionLifecycle`'s properties because they relate a session to its own handlers
only, and one watching viewer for `IKVMViewers`', because viewers share nothing but
the frames. The poller's durations keep the order that matters in the real ones (the
breaker stays open over more than one poll; the deadline exceeds a tick; a tick is
more than one unit, so rounds end between ticks). Two frames let one be dropped for
the other, with as many fragments as fragment numbers. The limit of `IsoLibrary` is
one file, so that a second, of either name, exceeds it, and two DELETEs can meet;
other sizes are left to the proof. The decoder's words are long enough for a header
and a block's data each to end inside, at the end of and across a word; `MaxBits`
leaves blocks enough to read past the last word, and `Announced` is below, at and
above the number of words. `ShortHeight` and `ShortRow`, 608 and 37 in the code, are
values the small screen has. `MaxRequests`, `MaxRestarts`, `MaxFrames`, `MaxBits` and
`MaxSwitches` cap counters that have no bound in the code. CHECK_DEADLOCK is off where
users may simply go away.

Fairness. `ViewerRegistry`: a timer nobody stops fires, and its callback gets the
lock. `SessionLifecycle`: startSession has a 60 s context and finitely many
attempts, DELETE handlers end, the cleanup ticks. `BMCWebSession`: the manager's
and the poller's tickers tick, calls end within their 15 s context, and a BMC
asked again and again opens a login in the end (strong fairness: single attempts
may fail for ever so often). `VNCBridge`: handlers and Stop get on, a
browser that finished its handshake sends its opening messages or disconnects.
`IsoLibrary`: calls of the database and the file system return; the transfer itself
may last for ever, as the code gives it no time-out. `IVTPClient`: goroutines run,
the mutex and select starve nobody (strong fairness for the ticker's choice between
a tick and the cancelled context), a read returns at the latest when the connection
is closed, a write unless the BMC has stopped reading. `IKVMViewers`: the ticker and
the senders run, the 5 ms timer fires because frames are further apart than that,
and of the refreshes asked of the BMC some bring a full frame that can be decoded
(strong fairness; external). `WSSProxy`: handlers run between their waits for the
browser and the BMC, and stoppers get the mutexes. Nothing is assumed of users. The
poller needs no fairness: its properties are bounds, hence invariants. How long the
decoder's loop goes on is an invariant too (`LoopFollowsBits`).

## 4. Proofs

All for arbitrary sets of processes and arbitrary durations, from the named
ASSUMEs only (null values are not members of their sets, bounds are numbers).

* `ViewerRegistryProofs`: `TypeCorrect`, `BookkeepingInvariant`
  (`OrderMatchesHandlers`), `ControllerConnected`, `PendingTimer`,
  `RefinesControlToken`. The central fact is that the entries of `order` and the
  running handlers correspond one to one; Remove takes out exactly one entry
  (`RemoveFirstProperties`), so a second registration of an id survives. That
  the controller is connected follows from it together with the lookup each
  grant makes.
* `SessionLifecycleProofs`: `TypeCorrect`, `LoginsAreTracked`, `StartersRun`,
  `NoResurrection`, `LoginHasOneOwner`, `RefinesLoginLedger`. `NoUntrackedLogin` is not
  inductive: Create could take over an id whose goroutine holds a login, and a handler
  still at work on an id nobody has created yet could end the login of a later session.
  `UncreatedIsIdle` excludes both. `OneOwner` adds that an open login has at most one
  logout in progress (a DELETE's, `LogsOut`, or the cleanup's), none while it
  is in the map and none before it is stored. With it each action is one move of the
  ledger (`Passes`), several logins taken at once (`Takes`), the death of the process
  (`RestartLoses`) or nothing the ledger sees (`Stutters`).
* `BMCWebSessionProofs`: `TypeCorrect`, `FlagIsReleased`, `CredsAreServedLive`. The
  last needs `NewLoginIsPrivate`: a login that was opened and not yet stored is known
  to nobody else, so storing it cannot publish one that another caller is logging out.
  `BridgeStopsOnce`: a bridge is with the handler that starts it, in the map or with
  the one StopIKVMBridge that took it out, and has not been stopped in any of these
  places. `IVTPClient` has a single caller of Stop, which this justifies: a second
  would close a closed channel.
* `TransportProofs`, on the VNC bridge: `TypeCorrect` (with `Dialled`: a handler about
  to install a connection has one), `SingleLoop` (with `LoopHasFlag`: `broadcasting`
  is set throughout the goroutine's life), `ServedIsRegisteredHolds`: a handler that
  serves a viewer is registered, so that Stop closes its WebSocket, or Stop has done
  so already. Nothing of the kind holds for the connection: a bridge that does not run
  may have an open one (section 5).
* `StatusPollerProofs`: `TypeCorrect` (no round outlasts its deadline),
  `BreakersAgree`, `OutagesAreReported`, `RecoveriesAreReported`. `RoundInv` ties the
  position in a round to the ticks and to `lastPolled`; from it `NextPoll` bounds how
  late the next poll of a server can be, counted from any moment. An outage is
  reported by that poll. A recovery may meet an open breaker first: `RecoveryInv`
  relates the time since the breaker opened to the time since the server's return.
* `IVTPClientProofs`: `TypeCorrect`, `MessagesAreWholeHolds`, `FramesAreWholeHolds`,
  `NotLeftPausedHolds`. `StepKinds` sorts the steps by what they change; each part of
  the invariant is then shown for the kinds that concern it. `OneWriter`: the BMC
  waits for a payload exactly while one writer is between header and payload, and
  that writer holds the mutex. `BufferFollows`: the buffer holds what the BMC has
  sent of its present frame; here the assumption that a frame has no more fragments
  than there are fragment numbers is used. `PauseInv`: in every queue a "pause" is
  followed by its "resume", and whoever has paused has the "resume" at its head.
  `StopIsNotBlockedHolds` and `StopIsFinalHolds` rest on `StopOrder` (what has ended by
  each step of Stop): while Stop waits, each goroutine it waits for can go on or waits
  for the mutex, whose holder's write is about to fail, so they never all wait for one
  another; after Stop nothing reaches the BMC, and no frame is assembled or shown.
* `VideoPathProofs`, on the viewers: `TypeCorrect`, `UpdateFitsScreenHolds`
  (`ScreenInv`: a sender remembers what its browser was told, unless `moved`; the
  immediate update included), `NoWakeUpIsLostHolds` (`WakeInv`: from the first picture
  on, a frame that is owed has left a notification, or a refresh is under way),
  `ModifiersFollowControllerHolds` (`KeyboardInv`: outside `astray` the bits are those
  of the keys held, and the event under way, which only the controller's reader
  handles, makes up the difference).
* `VideoPathProofs`, on the decoder, for words of any width, any screen, block size and
  stream, and any sequence of blocks.
  `ReaderIsAlignedHolds` and `LoopFollowsBitsHolds`: `Aligned` says what both registers
  hold after p bits, in terms of how many words have been loaded, the last one counted
  again each time it is read again. `ShiftLeading` and `JoinLeading` are the two facts
  about shifting and joining words behind it; `UpdateAligned` is the step. That the
  index is set back at the end of the data does no harm: the number of loaded words
  still grows, and `reader.index` is its minimum with the number of words.
  Where more words are announced than there are, the condition never fails:
  `LoopFollowsBits` says both. `FrameIsBoundedHolds`: from these, a bound on the blocks
  of a frame that announces no more words than it has, so that the loop's end is a
  matter of safety.
  `DecoderTypeCorrect`: with `ReaderInv` for the reader and `SavedInv`, that saved
  pixels are on the screen.
  `BlockStaysInTileHolds`: `DrawnInTile` shows that a point that passes the code's
  clipping has, by its linear index, the column and the line it was meant for, and
  `DrawingStays` that the ways of drawing touch no other index.
  `AbortUndoesFrameHolds`: `AbortInv` says that a pixel saved once was saved as the
  frame found it, and one not saved is still as the frame found it. The second part
  needs that everything drawn has been saved (`DrawnIsSaved`): what the clipped loops of
  the drawing come by is among the cells that the unclipped ones of saveBlock do.
  `MaxIndex` gives the last saved block; it rests on the well-foundedness of the numbers.
  `HuffmanLengthsAgreeHolds`, and `EveryWordAgrees` for all the words that begin with a
  code where the run looks up the first and the last. `MinorCodeRecursion` shows that
  the recursion for the first code of each length has a solution, `<Table>MinorCode`
  what it is for each of the four tables, `<Table>Words` between which words the codes
  of a length lie; `LookupIs` reduces the lookup to the first threshold above the word.
* `TransportProofs`, on the WSS proxy: `WSSTypeCorrect`, `NoIdleBackendHolds`. A handler
  that stops "its" proxy stops whichever is in the map, so `NoIdleBackend` is not
  inductive; `OpenIsReachable` adds that the map leads to a connection in use, and
  `LoopsEndLast` that a proxy the next viewer takes out of the map is not open.
  `OneCloserHolds`: an unclosed connection belongs to the handler that dialled it, to
  the map, or to one StopWSSProxy. `ReadersAreReachedHolds`: a handler that waits for
  its browser is registered with its proxy or has had its WebSocket closed.
* `IsoLibraryProofs`: `TypeCorrect`, `RecordedFileIsThereHolds`,
  `StorageLimitHoldsAlways`. `WriterInv`: a recorded transfer is over, so its size and
  name stand, and uploads never take the steps of a download. `FileInv`: of a name only
  uploads use, and that no delete has spoilt, the file at the path belongs to whoever
  is between creating it and deciding about it; a row has its file, unless the one
  delete of it is between its two steps. So no clean-up removes a file it does not
  own. With two deletes of one name this fails, which is why `spoilt` counts them: the
  second removes the file of an upload that began after the first. `LimitInv`: the
  transfer under way has read a sum that is not below the present one, because
  `TotalSizeStep` shows that only InsertISO adds to it. `TrackedDownloadRunsHolds`: a
  tracker that says "downloading" has its goroutine still before the step that decides it.

Only model-checked: everything under fairness (`RequestsAreResolved`,
`EndedLoginsAreClosed`, `StaleLoginIsReplaced`, `StopReleasesViewers`,
`EndedDownloadIsDecided`, `StopReturns`, `FrameReachesViewer`, `PictureComesBack`,
`StoppedViewersLeave`), which is beyond the prover. Of several of these the safe part is
proved, that is, what excludes a state from which the awaited event can never come:
`PendingTimer` for `RequestsAreResolved`, `LoginsAreTracked` for `EndedLoginsAreClosed`,
`ServedIsRegisteredHolds` for `StopReleasesViewers`, `TrackedDownloadRunsHolds` for
`EndedDownloadIsDecided`, `StopIsNotBlockedHolds` for `StopReturns`, `NoWakeUpIsLostHolds`
for `FrameReachesViewer`, and `ReadersAreReachedHolds` for `StoppedViewersLeave`. Every
invariant and action property of the passing runs is proved, and both refinements.

## 5. Deviations

Behaviour the models reproduce because the code has it, and which no property
therefore excludes:

* two CreateSession handlers can both find no session for a server and both
  create one (`handlers.go:195`), and together exceed the session limit
  (`handlers.go:201`);
* the idle cleanup stops iKVM bridges only; a VNC bridge outlives its session
  (`cmd/server/main.go:329`);
* a session keeps the KVM token it was created with, so a later bridge may be
  started with the token of a closed login (`websocket.go:684`);
* two viewers can both find no bridge and start two; one is then in no map and
  runs until the BMC drops it (`websocket.go:681`);
* two renewals at once open two logins and store one (`handlers.go:692`);
* with one id registered twice, the first Remove deletes the id from `viewers`
  although a handler of that id is still running, which is then not listed
  (`viewers.go:65`);
* a viewer who asks for a broadcast goroutine after the old one has decided to
  end and before it clears the flag gets none (`vnc/bridge.go:209`);
* two viewers who reconnect a lost VNC connection at once overwrite, or close, each
  other's; when one closes the lost connection, the other installs a new one and the
  first then clears `running`, that connection stays open in a bridge that is not
  running, and a viewer may be served from it after a Stop, which ignores such a bridge
  (`vnc/bridge.go:76-79`, `134-137`);
* Bridge.Stop does nothing while a reconnect is under way, which then brings the
  bridge of a deleted session back (`vnc/bridge.go:87`);
* a NanoKVM whose credentials are cached is shown online for ever
  (`boards/nanokvm.go:123`);
* lastPolled is taken at the end of a round while ticks keep their phase, so the
  default interval of 30 s is polled every 40 s (`status.go:222`).
* a late time-out callback of an old request decides the same viewer's new one
  (`viewers.go:138`);
* a session deleted while starting becomes connected again (`handlers.go:398`);
* ensureBMCSession reads `kvmActive` before its network calls and logs out the login
  on which a bridge was started in between (`handlers.go:675`);
* the probe of a VNC connection reads what the broadcast goroutine is reading
  (`vnc/bridge.go:127`).

ISO library:

* two overlapping DELETEs of a name can remove the file of an upload that began between
  them, and leave its row without a file or with the file of another;
* a crash during an upload leaves a file that refuses uploads of its name until a
  URL download of that name removes it;
* a delete that fails between the file and the row leaves the row without its file
  (`iso_handlers.go:286`), until the name is deleted again;
* transfers that overlap can exceed the limit together; two downloads of a name can
  both pass the check for one in progress;
* the clean-up of orphans ignores an error of GetISO and then removes a recorded
  file; a URL download has no time-out.

IVTP connection:

* Stop writes its disconnect message without the mutex and without a deadline: it
  may cut another message, and a BMC that has stopped reading holds it;
* a validation response without a payload is indexed all the same (`ikvm/client.go:245`)
  and ends the process; the model has the behaviours up to that point;
* a command may go out before the web token of the authentication;
* a second Stop of the client would close a closed channel; only taking the bridge
  out of the map first prevents it (`BridgeStopsOnce`).

iKVM viewers:

* the resolution may change between ServerInit and the start of the sender, or a frame at
  a new one may have failed before ServerInit: the browser is then sent its immediate
  update in a size it was not told (`ikvm/bridge.go:307-320`, `ikvm/vnc.go:59`), and the
  sender, which compares with the resolution it begins with (`ikvm/vnc.go:187`), may
  announce the size with the next change only;
* frames that fail are counted, so after a failing first frame the first good one, if
  it is not 800 by 600, starts the countdown and is discarded with the two after it
  (`ikvm/bridge.go:351`, `379`), which the comment there (`374-377`) says must not happen
  to the first frames;
* after the WebSocket is closed the sender receives from the closed channel over
  and over, resetting its timer, until the timer happens to win (`ikvm/vnc.go:203`);
* when control moves with keys down their releases are dropped and the modifiers
  stay set, until the new controller uses them; two readers may update them at once;
* the left and the right key of a modifier share one bit, so releasing one clears it
  while the other is held (`ikvm/vnc.go:133`, `297-300`);
* a full frame that arrives while frames are discarded is discarded too, and the
  picture stays incomplete until the 30 s ticker asks again.

Decoder:

* a block drawn twice in an aborted frame, or one that shares saved pixels at a
  ragged edge, is restored to an intermediate state; in 4:2:0 only a quarter of the
  block is saved; the previous samples are not restored at all;
* a recovered panic leaves what was drawn;
* a header that announces more words than arrive (`decoder.go:277`) keeps the condition
  of the loop true for ever, with `fbMu` and the decoder's mutex held: the index is set
  back to the last word each time. Only an end block, an unknown one or a panic in what
  is read there over and over leaves the loop;
* the last row of 4:2:0 blocks is cut in half for every height that is padded to 608,
  608 itself included (`decompress.go:441`), so 8 lines of such a screen are not drawn.

WSS proxy:

* the last viewer of a dead or stopped proxy stops whichever proxy is in the map,
  that of other viewers included (`websocket.go:157`);
* two viewers who dial at once store one proxy over the other, which nobody stops;
* a viewer who registers with a stopped proxy after its viewers were closed waits
  until its browser sends something or leaves.

## 6. Not modelled

* Pointer events, the keysym table, screenshots, and the byte layout of RFB and IVTP
  messages: stateless translations.
* The inverse DCT, quantisation and colour arithmetic: numeric data paths.
* Mounting an ISO and the virtual media endpoints: one HTTP dialogue each, without
  state of their own. Board handlers and authenticators: likewise; the models use
  their outcomes (login opened, closed, refused).
* Text rewriting in the reverse proxy; CORS, metrics and TLS helpers; configuration.
* OIDC: a sequential exchange through a library; sessions in a map under one mutex.
  Rate limiter: a library's token buckets in a map under one mutex. Audit log:
  inserts, one query and a purge.
* The NFS wrapper, the front end and the manual test tools.

What would extend the project: the composition of `SessionLifecycle` with the bridges
(what DELETE and the cleanup leave running).
