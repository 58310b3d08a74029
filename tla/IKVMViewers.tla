---------------------------- MODULE IKVMViewers ----------------------------
(***************************************************************************)
(* The viewers of one iKVM bridge: decoded frames on their way to every    *)
(* browser, and the keyboard of the browser in control on its way to the   *)
(* BMC (ikvm/bridge.go, ikvm/vnc.go).                                      *)
(*                                                                         *)
(* A viewer is a sender goroutine, woken through a channel of capacity     *)
(* one, and a reader goroutine.  The two halves of a viewer share nothing  *)
(* but the bridge, and none of the state below: a behaviour follows either *)
(* the pictures of Watchers or the input of Typists.  The IVTP side of the *)
(* bridge is IVTPClient; who is in control is ViewerRegistry.              *)
(***************************************************************************)
EXTENDS Integers

CONSTANTS
    Watchers,       \* viewers whose picture is followed
    Typists,        \* viewers whose input is followed
    Resolutions,    \* what the host's display may be set to
    DefaultRes,     \* 800 x 600, before the first frame
    NoRes,
    Modifiers,      \* the bits Shift, Control, ... of a keyboard report
    Keys,           \* left Shift, right Shift, ...
    ModifierOf,     \* keysymToUSBHID
    NoKey,
    Countdown,      \* frames discarded after a resolution change
    MaxSwitches     \* bound: resolution changes

ASSUME ResAssumption == DefaultRes \in Resolutions /\ NoRes \notin Resolutions
ASSUME TypistsAssumption == Typists # {}
ASSUME KeysAssumption == ModifierOf \in [Keys -> Modifiers]
ASSUME CountAssumption == Countdown \in Nat /\ MaxSwitches \in Nat

VARIABLES
    follow,     \* "picture" or "keyboard"
    width,      \* b.width, b.height
    decW,       \* decoder.Width, decoder.Height: NoRes before the first frame
    counted,    \* b.frameCount is not 0
    decoded,    \* a frame has been decoded; b.ready is closed
    countdown,  \* b.resChangeCountdown
    complete,   \* the framebuffer shows all of the screen
    refresh,    \* a refresh has been asked of the BMC
    switches,
    cancelled,  \* b.ctx
    pc,         \* the viewer's handler, then its sender
    subscribed, \* in b.frameSubs
    closed,     \* the channel is closed
    tok,        \* the channel holds a notification
    told,       \* the resolution the browser was last told
    lastW,      \* of sendVNCFrames
    size,       \* of the copied framebuffer
    moved,      \* ghost: a frame of another size came between ServerInit and the sender
    owed,       \* ghost: nothing was copied for the browser since the last frame
    holder,     \* who is in control
    key,        \* the modifier event the viewer's reader is handling
    down,       \* keys held down in the viewer's browser
    mods,       \* b.kbdModifiers
    astray      \* ghost: modifiers that may not be those of the user in control

frameVars == <<follow, width, decW, counted, decoded, countdown, complete, switches>>
viewerVars == <<pc, subscribed, closed, tok, told, lastW, size, moved, owed>>
inputVars == <<follow, holder, key, down, mods, astray>>
vars == <<follow, width, decW, counted, decoded, countdown, complete, switches, refresh,
          cancelled, pc, subscribed, closed, tok, told, lastW, size, moved, owed,
          holder, key, down, mods, astray>>

Joining == {"wait", "init", "first", "shown", "start"}
Senders == {"idle", "coalesce", "resize", "send"}
Events == [mod : Modifiers, press : BOOLEAN, read : (SUBSET Modifiers) \cup {NoKey}]

ASSUME KeyAssumption == NoKey \notin Events

TypeOK ==
    /\ follow \in {"picture", "keyboard"}
    /\ width \in Resolutions
    /\ decW \in Resolutions \cup {NoRes}
    /\ counted \in BOOLEAN /\ decoded \in BOOLEAN /\ complete \in BOOLEAN
    /\ countdown \in 0..Countdown
    /\ switches \in 0..MaxSwitches
    /\ refresh \in BOOLEAN /\ cancelled \in BOOLEAN
    /\ pc \in [Watchers -> Joining \cup Senders \cup {"off", "over"}]
    /\ subscribed \in [Watchers -> BOOLEAN]
    /\ closed \in [Watchers -> BOOLEAN]
    /\ tok \in [Watchers -> BOOLEAN]
    /\ told \in [Watchers -> Resolutions \cup {NoRes}]
    /\ lastW \in [Watchers -> Resolutions \cup {NoRes}]
    /\ size \in [Watchers -> Resolutions \cup {NoRes}]
    /\ moved \in [Watchers -> BOOLEAN]
    /\ owed \in [Watchers -> BOOLEAN]
    /\ holder \in Typists
    /\ key \in [Typists -> Events \cup {NoKey}]
    /\ down \in [Typists -> SUBSET Keys]
    /\ mods \in SUBSET Modifiers
    /\ astray \in SUBSET Modifiers
    /\ decoded => decW # NoRes

Init ==
    /\ follow \in {"picture", "keyboard"}
    /\ width = DefaultRes /\ decW = NoRes
    /\ counted = FALSE /\ decoded = FALSE /\ complete = FALSE
    /\ countdown = 0 /\ switches = 0
    /\ refresh = FALSE /\ cancelled = FALSE
    /\ pc = [v \in Watchers |-> "off"]
    /\ subscribed = [v \in Watchers |-> FALSE]
    /\ closed = [v \in Watchers |-> FALSE]
    /\ tok = [v \in Watchers |-> FALSE]
    /\ told = [v \in Watchers |-> NoRes]
    /\ lastW = [v \in Watchers |-> NoRes]
    /\ size = [v \in Watchers |-> NoRes]
    /\ moved = [v \in Watchers |-> FALSE]
    /\ owed = [v \in Watchers |-> FALSE]
    /\ holder \in Typists
    /\ key = [v \in Typists |-> NoKey]
    /\ down = [v \in Typists |-> {}]
    /\ mods = {}
    /\ astray = {}

Go(v, step) == pc' = [pc EXCEPT ![v] = step]

-----------------------------------------------------------------------------
(***************************************************************************)
(* onVideoFrame, under fbMu.  Every frame is counted, and the decoder      *)
(* takes over a frame's resolution before it looks at its data.            *)
(***************************************************************************)
\* The host switches modes at most MaxSwitches times; the first frame may differ
\* from the default.
ResolutionOf(r) ==
    /\ \/ r = decW /\ UNCHANGED switches
       \/ decW = NoRes /\ UNCHANGED switches
       \/ decW # NoRes /\ r # decW /\ switches < MaxSwitches /\ switches' = switches + 1
    /\ decW' = r

\* The size that ServerInit told a joining browser may no longer be the decoder's.
SizeMoves(r) ==
    moved' = [v \in Watchers |->
                 moved[v] \/ (pc[v] \in {"first", "shown", "start"} /\ r # told[v])]

\* Decode returns an error: nobody is notified, a refresh is asked for.  A header
\* without a resolution is refused before anything is changed.
FrameFails(r) ==
    /\ ~cancelled
    /\ counted' = TRUE
    /\ ResolutionOf(r)
    /\ SizeMoves(r)
    /\ complete' = (complete /\ r = decW)
    /\ refresh' = TRUE
    /\ UNCHANGED <<width, decoded, countdown, cancelled, pc, subscribed, closed, tok, told,
                   lastW, size, owed, inputVars>>

HeaderFails ==
    /\ ~cancelled
    /\ counted' = TRUE
    /\ refresh' = TRUE
    /\ UNCHANGED <<width, decW, decoded, countdown, complete, switches, cancelled, viewerVars,
                   inputVars>>

\* Faulty variant: the countdown is not counted down.
onVideoFrameForever(r, full) ==
    /\ ~cancelled
    /\ counted' = TRUE
    /\ ResolutionOf(r)
    /\ SizeMoves(r)
    /\ width' = r
    /\ decoded' = TRUE
    /\ LET changed == r # width
           count == IF changed /\ counted THEN Countdown ELSE countdown
       IN /\ countdown' = count
          /\ complete' = (count = 0 /\ (full \/ (complete /\ r = decW)))
          /\ refresh' = (changed \/ (refresh /\ ~full))
    /\ tok' = [v \in Watchers |-> tok[v] \/ subscribed[v]]
    /\ owed' = [v \in Watchers |-> owed[v] \/ subscribed[v]]
    /\ UNCHANGED <<cancelled, pc, subscribed, closed, told, lastW, size, inputVars>>

\* A frame is decoded.  After a resolution change the next Countdown frames, this
\* one included, are wiped from the framebuffer; not so for the very first frame, unless
\* frames that could not be decoded came before it.
onVideoFrame(r, full) ==
    /\ ~cancelled
    /\ counted' = TRUE
    /\ ResolutionOf(r)
    /\ SizeMoves(r)
    /\ width' = r
    /\ decoded' = TRUE
    /\ LET changed == r # width
           count == IF changed /\ counted THEN Countdown ELSE countdown
       IN /\ countdown' = IF count > 0 THEN count - 1 ELSE 0
          /\ complete' = (count = 0 /\ (full \/ (complete /\ r = decW)))
          /\ refresh' = (changed \/ (refresh /\ ~full))
    /\ tok' = [v \in Watchers |-> tok[v] \/ subscribed[v]]
    /\ owed' = [v \in Watchers |-> owed[v] \/ subscribed[v]]
    /\ UNCHANGED <<cancelled, pc, subscribed, closed, told, lastW, size, inputVars>>

\* External: the BMC answers a refresh with a full frame, and sends differences on
\* its own, from the host's present resolution.
FullFrame == refresh /\ \E r \in Resolutions : onVideoFrame(r, TRUE)
DiffFrame == \E r \in Resolutions : onVideoFrame(r, FALSE)
BadFrame == HeaderFails \/ \E r \in Resolutions : FrameFails(r)

\* The ticker of Start: every 30 s.
RefreshTick ==
    /\ ~cancelled /\ refresh' = TRUE
    /\ UNCHANGED <<frameVars, cancelled, viewerVars, inputVars>>

Cancel ==
    /\ cancelled' = TRUE
    /\ UNCHANGED <<frameVars, refresh, viewerVars, inputVars>>

(***************************************************************************)
(* ServeWebSocketWithControl, up to the goroutines.                        *)
(***************************************************************************)
\* A picture that is there already is owed to the newcomer.
SubscribeFrames(v) ==
    /\ pc[v] = "off" /\ ~cancelled
    /\ subscribed' = [subscribed EXCEPT ![v] = TRUE]
    /\ owed' = [owed EXCEPT ![v] = decoded]
    /\ Go(v, "wait")
    /\ UNCHANGED <<frameVars, refresh, cancelled, closed, tok, told, lastW, size, moved,
                   inputVars>>

\* The bridge is ready, or 30 s have passed.
WaitReady(v) ==
    /\ pc[v] = "wait"
    /\ Go(v, "init")
    /\ UNCHANGED <<frameVars, refresh, cancelled, subscribed, closed, tok, told, lastW, size,
                   moved, owed, inputVars>>

\* The handshake ends with ServerInit.
vncHandshake(v) ==
    /\ pc[v] = "init"
    /\ told' = [told EXCEPT ![v] = width]
    /\ moved' = [moved EXCEPT ![v] = decW \notin {NoRes, width}]
    /\ Go(v, "first")
    /\ UNCHANGED <<frameVars, refresh, cancelled, subscribed, closed, tok, lastW, size, owed,
                   inputVars>>

\* "Send the current framebuffer immediately": it is copied, under fbMu, in the
\* decoder's size, which need not be the one that ServerInit told; nothing is sent
\* before the decoder has a framebuffer.
CopyCurrent(v) ==
    /\ pc[v] = "first"
    /\ size' = [size EXCEPT ![v] = decW]
    /\ owed' = [owed EXCEPT ![v] = @ /\ decW = NoRes]
    /\ Go(v, IF decW = NoRes THEN "start" ELSE "shown")
    /\ UNCHANGED <<frameVars, refresh, cancelled, subscribed, closed, tok, told, lastW, moved,
                   inputVars>>

SendCurrent(v) ==
    /\ pc[v] = "shown"
    /\ Go(v, "start")
    /\ UNCHANGED <<frameVars, refresh, cancelled, subscribed, closed, tok, told, lastW, size,
                   moved, owed, inputVars>>

\* sendVNCFrames begins.
SenderStarts(v) ==
    /\ pc[v] = "start"
    /\ lastW' = [lastW EXCEPT ![v] = width]
    /\ moved' = [moved EXCEPT ![v] = told[v] # width]
    /\ Go(v, "idle")
    /\ UNCHANGED <<frameVars, refresh, cancelled, subscribed, closed, tok, told, size, owed,
                   inputVars>>

\* The handshake fails, the browser goes, or the reader sees the context cancelled;
\* UnsubscribeFrames closes the channel.  A sender that is running goes on.
UnsubscribeFrames(v) ==
    /\ pc[v] \in Senders \cup {"init"} /\ ~closed[v]
    /\ subscribed' = [subscribed EXCEPT ![v] = FALSE]
    /\ closed' = [closed EXCEPT ![v] = TRUE]
    /\ IF pc[v] \in Senders THEN UNCHANGED pc ELSE Go(v, "over")
    /\ UNCHANGED <<frameVars, refresh, cancelled, tok, told, lastW, size, moved, owed,
                   inputVars>>

(***************************************************************************)
(* The loop of sendVNCFrames.                                              *)
(***************************************************************************)
\* A closed channel can always be received from.
CanReceive(v) == tok[v] \/ closed[v]

\* The first notification, and every further one, which resets the timer of 5 ms.
Receive(v) ==
    /\ pc[v] \in {"idle", "coalesce"} /\ CanReceive(v)
    /\ tok' = [tok EXCEPT ![v] = FALSE]
    /\ Go(v, "coalesce")
    /\ UNCHANGED <<frameVars, refresh, cancelled, subscribed, closed, told, lastW, size, moved,
                   owed, inputVars>>

\* Faulty variant: notifications that came while the timer ran are dropped with the
\* copy.
CopyAndDrain(v) ==
    /\ pc[v] = "coalesce"
    /\ tok' = [tok EXCEPT ![v] = FALSE]
    /\ size' = [size EXCEPT ![v] = decW]
    /\ lastW' = [lastW EXCEPT ![v] = decW]
    /\ owed' = [owed EXCEPT ![v] = @ /\ decW # lastW[v]]
    /\ Go(v, IF decW # lastW[v] THEN "resize" ELSE "send")
    /\ UNCHANGED <<frameVars, refresh, cancelled, subscribed, closed, told, moved, inputVars>>

\* Faulty variant: the new size is taken over without a DesktopSize message.
CopyWithoutResize(v) ==
    /\ pc[v] = "coalesce"
    /\ size' = [size EXCEPT ![v] = decW]
    /\ lastW' = [lastW EXCEPT ![v] = decW]
    /\ owed' = [owed EXCEPT ![v] = FALSE]
    /\ Go(v, "send")
    /\ UNCHANGED <<frameVars, refresh, cancelled, subscribed, closed, tok, told, moved,
                   inputVars>>

\* 5 ms without a notification (one may have come since: select is free to choose):
\* the framebuffer is copied, under fbMu, when there is one.  When the resolution has
\* changed the copy is not used; a refresh is asked for instead.
TimerFires(v) ==
    /\ pc[v] = "coalesce"
    /\ \/ /\ decW = NoRes
          /\ Go(v, "idle")
          /\ UNCHANGED <<refresh, lastW, size, owed>>
       \/ /\ decW # NoRes
          /\ size' = [size EXCEPT ![v] = decW]
          /\ lastW' = [lastW EXCEPT ![v] = decW]
          /\ owed' = [owed EXCEPT ![v] = @ /\ decW # lastW[v]]
          /\ refresh' = (refresh \/ decW # lastW[v])
          /\ Go(v, IF decW # lastW[v] THEN "resize" ELSE "send")
    /\ UNCHANGED <<frameVars, cancelled, subscribed, closed, tok, told, moved, inputVars>>

\* Faulty variant: the sender ends with the resize, for the browser to reconnect.
SendResizeAndEnd(v) ==
    /\ pc[v] = "resize"
    /\ Go(v, "over")
    /\ UNCHANGED <<frameVars, refresh, cancelled, subscribed, closed, tok, told, moved, lastW,
                   size, owed, inputVars>>

\* WriteMessage, of a DesktopSize or of an update; it fails when the browser is gone.
SendResize(v) ==
    /\ pc[v] = "resize"
    /\ \/ /\ ~closed[v]
          /\ told' = [told EXCEPT ![v] = size[v]]
          /\ moved' = [moved EXCEPT ![v] = FALSE]
          /\ Go(v, "idle")
       \/ closed[v] /\ Go(v, "over") /\ UNCHANGED <<told, moved>>
    /\ UNCHANGED <<frameVars, refresh, cancelled, subscribed, closed, tok, lastW, size, owed,
                   inputVars>>

SendUpdate(v) ==
    /\ pc[v] = "send"
    /\ Go(v, IF closed[v] THEN "over" ELSE "idle")
    /\ UNCHANGED <<frameVars, refresh, cancelled, subscribed, closed, tok, told, lastW, size,
                   moved, owed, inputVars>>

\* ctx.Done in either select, and before the goroutines start.
SenderCancelled(v) ==
    /\ cancelled /\ pc[v] \in {"wait", "idle", "coalesce"}
    /\ Go(v, "over")
    /\ subscribed' = [subscribed EXCEPT ![v] = FALSE]
    /\ closed' = [closed EXCEPT ![v] = TRUE]
    /\ UNCHANGED <<frameVars, refresh, cancelled, tok, told, lastW, size, moved, owed,
                   inputVars>>

(***************************************************************************)
(* The keyboard.  readVNCInput asks the registry for every event.          *)
(***************************************************************************)
readVNCInput(v, k) ==
    /\ key[v] = NoKey
    /\ down' = [down EXCEPT ![v] = IF k \in @ THEN @ \ {k} ELSE @ \cup {k}]
    /\ IF holder = v
         THEN key' = [key EXCEPT ![v] =
                         [mod |-> ModifierOf[k], press |-> k \notin down[v], read |-> NoKey]]
         ELSE UNCHANGED key
    /\ UNCHANGED <<frameVars, refresh, cancelled, viewerVars, holder, mods, astray>>

\* The modifiers whose keys are held down in a viewer's browser.
Held(v) == {ModifierOf[k] : k \in down[v]}

\* handleKeyEvent changes kbdModifiers without a lock: it reads ...
ReadModifiers(v) ==
    /\ key[v] # NoKey /\ key[v].read = NoKey
    /\ key' = [key EXCEPT ![v].read = mods]
    /\ UNCHANGED <<frameVars, refresh, cancelled, viewerVars, holder, down, mods, astray>>

\* An event of the user in control sets its modifier right, unless another key of the
\* modifier is still held when one is released, or another viewer's event is under way.
Settle(v) ==
    LET m == key[v].mod
    IN astray' = IF v # holder \/ \E u \in Typists \ {v} : key[u] # NoKey THEN astray
                 ELSE IF ~key[v].press /\ m \in Held(v) THEN astray \cup {m}
                 ELSE astray \ {m}

\* Faulty variant: a modifier is never cleared.
handleKeyPress(v) ==
    /\ key[v] # NoKey /\ key[v].read # NoKey
    /\ mods' = key[v].read \cup {key[v].mod}
    /\ key' = [key EXCEPT ![v] = NoKey]
    /\ Settle(v)
    /\ UNCHANGED <<frameVars, refresh, cancelled, viewerVars, holder, down>>

\* ... and writes back, and sends the report.
handleKeyEvent(v) ==
    /\ key[v] # NoKey /\ key[v].read # NoKey
    /\ mods' = IF key[v].press THEN key[v].read \cup {key[v].mod} ELSE key[v].read \ {key[v].mod}
    /\ key' = [key EXCEPT ![v] = NoKey]
    /\ Settle(v)
    /\ UNCHANGED <<frameVars, refresh, cancelled, viewerVars, holder, down>>

\* The registry gives control to somebody else.
ControlMoves(u) ==
    /\ u # holder
    /\ holder' = u
    /\ astray' = IF \E v \in Typists : key[v] # NoKey THEN Modifiers
                 ELSE (mods \ Held(u)) \cup (Held(u) \ mods)
    /\ UNCHANGED <<frameVars, refresh, cancelled, viewerVars, key, down, mods>>

-----------------------------------------------------------------------------
Sender(v) == Receive(v) \/ SendResize(v) \/ SendUpdate(v) \/ SenderCancelled(v)
Join(v) ==
    \/ SubscribeFrames(v) \/ WaitReady(v) \/ vncHandshake(v)
    \/ CopyCurrent(v) \/ SendCurrent(v) \/ SenderStarts(v)
Typing(v) == (\E k \in Keys : readVNCInput(v, k)) \/ ReadModifiers(v) \/ handleKeyEvent(v)

Picture ==
    /\ follow = "picture"
    /\ \/ FullFrame \/ DiffFrame \/ BadFrame \/ RefreshTick \/ Cancel
       \/ \E v \in Watchers : Join(v) \/ UnsubscribeFrames(v) \/ Sender(v) \/ TimerFires(v)

Keyboard ==
    /\ follow = "keyboard"
    /\ \E v \in Typists : Typing(v) \/ ControlMoves(v)

Next == Picture \/ Keyboard

Spec == Init /\ [][Next]_vars

\* The ticker and the goroutines run.  A frame takes the BMC longer than 5 ms, so the
\* timer of a connected viewer does fire.  External: of the refreshes asked of the BMC,
\* some are answered by a full frame that can be decoded.
FairSpec ==
    /\ Spec
    /\ follow = "picture" =>
          /\ WF_vars(RefreshTick) /\ SF_vars(FullFrame)
          /\ \A v \in Watchers : WF_vars(Sender(v)) /\ WF_vars(TimerFires(v) /\ ~closed[v])

-----------------------------------------------------------------------------
\* No wake-up is lost: a sender that waits for a notification, with a frame decoded
\* since its last copy, has one in its channel, or the BMC has been asked for a
\* frame that will bring one.  Frames arrive before, during and after the handshake,
\* the coalescing, the copy and the announcement of a new resolution.
NoWakeUpIsLost ==
    \A v \in Watchers : pc[v] = "idle" /\ owed[v] => tok[v] \/ refresh \/ closed[v]

\* An update, the first one too that is sent before the sender runs, has the size the
\* browser was last told, however many resolution changes and frames that fail at
\* another resolution it has missed.  Not so for a browser that joined while the
\* resolution changed, until the sender first tells it a size.
UpdateFitsScreen ==
    \A v \in Watchers : pc[v] \in {"shown", "send"} /\ ~moved[v] => size[v] = told[v]

\* Every frame reaches every connected viewer, by itself or with a later one.
FrameReachesViewer ==
    \A v \in Watchers : owed[v] /\ pc[v] \in Senders ~> ~owed[v] \/ closed[v] \/ cancelled

\* The frames that a resolution change discards may include the full frame that was
\* asked for at the change; the picture comes back all the same.
PictureComesBack == decoded /\ ~complete ~> complete \/ cancelled

\* The modifiers at the BMC are those whose keys are held down in the controlling
\* browser, two readers updating them without a lock notwithstanding; except for a
\* modifier that was wrong when control moved, or one of whose two keys was released
\* before the other, until that modifier is next pressed, or its last key released.
ModifiersFollowController ==
    key[holder] = NoKey => \A m \in Modifiers \ astray : m \in mods <=> m \in Held(holder)
=============================================================================
