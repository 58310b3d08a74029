----------------------------- MODULE IVTPClient -----------------------------
(***************************************************************************)
(* One iKVM bridge and its IVTP connection to a BMC (ikvm/client.go, the   *)
(* background half of ikvm/bridge.go, the KVM control endpoints of         *)
(* api/handlers.go).                                                       *)
(*                                                                         *)
(* The session goroutine reads the connection and answers; a ticker, the   *)
(* API handlers and the goroutines a bad frame starts write to it as well, *)
(* each message under c.mu.  Stop writes without the mutex and closes the  *)
(* connection under everybody's feet.  The BMC is external: it sends what  *)
(* it likes, may stop reading, and may go away.                            *)
(***************************************************************************)
EXTENDS Integers, Sequences

CONSTANTS
    Session, Ticker,    \* the two goroutines of Start
    Requests,           \* API handlers, viewers' input, "go SendHeader(...)"
    NoOne,
    MaxFrames,          \* bound: video frames the BMC begins
    MaxFrags,           \* fragments of the longest frame
    FragMod,            \* fragment numbers are modulo this (15 bits)
    HeaderFrags         \* fragments that hold VideoHeaderSize bytes

Writers == Requests \cup {Session, Ticker}

ASSUME WritersAssumption ==
    /\ Session # Ticker
    /\ Session \notin Requests /\ Ticker \notin Requests
    /\ NoOne \notin Writers
ASSUME FramesAssumption ==
    /\ MaxFrames \in Nat /\ HeaderFrags \in Nat
    /\ MaxFrags \in Nat /\ FragMod \in Nat
    /\ 1 <= MaxFrags /\ MaxFrags <= FragMod

VARIABLES
    pc,        \* the session goroutine
    running,   \* b.running
    cancelled, \* b.ctx
    ticking,   \* the ticker goroutine runs
    conn,      \* "stalled": the BMC has stopped reading; "lost": it went away
    stopped,   \* c.stopped and c.stopCh
    stop,      \* where Bridge.Stop is
    mu,        \* c.mu
    queue,     \* per writer, the messages it is about to send
    half,      \* writers whose header is written and whose payload is not
    expect,    \* BMC's end: whose payload comes next
    torn,      \* BMC's end: a message was cut by another before the disconnect
    paused,    \* BMC's end: video redirection is paused
    bmc,       \* the frame the BMC is sending
    frameBuf,  \* c.frameBuf
    shown      \* the frame last handed to OnVideoFrame

bridgeVars == <<pc, running, cancelled, ticking, stopped, stop>>
sendVars == <<mu, queue, half, expect, torn, paused>>
videoVars == <<bmc, frameBuf, shown>>
vars == <<pc, running, cancelled, ticking, stopped, stop, conn,
          mu, queue, half, expect, torn, paused, bmc, frameBuf, shown>>

\* What the properties tell apart: the two types that switch the video stream.
Types == {"pause", "resume", "other"}
Messages == [type : Types, payload : BOOLEAN]
Header(t) == [type |-> t, payload |-> FALSE]
WithPayload(t) == [type |-> t, payload |-> TRUE]
Fragments == [frame : 0..MaxFrames, num : Nat]

TypeOK ==
    /\ pc \in {"new", "tunnel", "failed", "await", "auth", "loop", "read", "over"}
    /\ running \in BOOLEAN /\ cancelled \in BOOLEAN /\ ticking \in BOOLEAN
    /\ stopped \in BOOLEAN
    /\ conn \in {"none", "open", "stalled", "lost", "closed"}
    /\ stop \in {"no", "disconnect", "close", "wait", "returned"}
    /\ mu \in Writers \cup {NoOne}
    /\ queue \in [Writers -> Seq(Messages)]
    /\ half \in SUBSET Writers
    /\ expect \in Writers \cup {NoOne}
    /\ torn \in BOOLEAN /\ paused \in BOOLEAN
    /\ bmc \in [frame : 0..MaxFrames, next : 0..MaxFrags, len : 0..MaxFrags]
    /\ frameBuf \in Seq(Fragments)
    /\ shown \in Seq(Fragments)
    /\ mu # NoOne => queue[mu] # <<>>

Init ==
    /\ pc = "new"
    /\ running = FALSE /\ cancelled = FALSE /\ ticking = FALSE
    /\ stopped = FALSE
    /\ conn = "none"
    /\ stop = "no"
    /\ mu = NoOne
    /\ queue = [w \in Writers |-> <<>>]
    /\ half = {}
    /\ expect = NoOne
    /\ torn = FALSE /\ paused = FALSE
    /\ bmc = [frame |-> 0, next |-> 0, len |-> 0]
    /\ frameBuf = <<>>
    /\ shown = <<>>

-----------------------------------------------------------------------------
(***************************************************************************)
(* Start: Connect, the tunnel handshake under a deadline of 15 s, then the *)
(* two goroutines.                                                         *)
(***************************************************************************)
Connect ==
    /\ pc = "new"
    /\ \/ pc' = "tunnel" /\ conn' = "open"
       \/ pc' = "failed" /\ UNCHANGED conn
    /\ UNCHANGED <<running, cancelled, ticking, stopped, stop, sendVars, videoVars>>

\* CONNECT, JVIEWER VIDEO, and an answer that ends in an empty line.  A write error,
\* the deadline, more than 4096 bytes or an ERROR in the answer ends the attempt.
singlePortHandshake ==
    /\ pc = "tunnel"
    /\ \/ /\ conn = "open"
          /\ pc' = "await"
          /\ running' = TRUE /\ ticking' = TRUE
          /\ UNCHANGED conn
       \/ /\ pc' = "failed" /\ conn' = "closed"
          /\ UNCHANGED <<running, ticking>>
    /\ UNCHANGED <<cancelled, stopped, stop, sendVars, videoVars>>

\* RunSession returns, and the goroutine cancels the bridge's context.  The
\* connection stays open until Stop.
SessionEnds == pc' = "over" /\ cancelled' = TRUE

(***************************************************************************)
(* Sending.  A writer's messages go out one by one; c.mu is held from the  *)
(* header to the end of the payload, and by a writer whose Write the BMC   *)
(* keeps waiting.                                                          *)
(***************************************************************************)
Pop(w) == queue' = [queue EXCEPT ![w] = Tail(@)]

Disconnected == stop \in {"close", "wait", "returned"}

\* What the BMC makes of the header that w writes.
Arrives(w, m) ==
    /\ expect' = IF m.payload THEN w ELSE NoOne
    /\ torn' = (torn \/ (expect # NoOne /\ ~Disconnected))
    /\ paused' = CASE m.type = "pause" -> TRUE
                   [] m.type = "resume" -> FALSE
                   [] OTHER -> paused

\* Faulty variant: SendMessageWithPayload sends its header with SendHeader.
SendHeaderUnlocking(w) ==
    /\ queue[w] # <<>> /\ mu = NoOne /\ w \notin half /\ conn = "open"
    /\ Arrives(w, Head(queue[w]))
    /\ IF Head(queue[w]).payload
         THEN half' = half \cup {w} /\ UNCHANGED <<mu, queue>>
         ELSE Pop(w) /\ UNCHANGED <<mu, half>>
    /\ UNCHANGED <<bridgeVars, conn, videoVars>>

SendHeader(w) ==
    /\ queue[w] # <<>> /\ mu = NoOne /\ w \notin half /\ conn = "open"
    /\ Arrives(w, Head(queue[w]))
    /\ IF Head(queue[w]).payload
         THEN mu' = w /\ half' = half \cup {w} /\ UNCHANGED queue
         ELSE Pop(w) /\ UNCHANGED <<mu, half>>
    /\ UNCHANGED <<bridgeVars, conn, videoVars>>

SendPayload(w) ==
    /\ w \in half /\ conn = "open"
    /\ expect' = NoOne
    /\ torn' = (torn \/ (expect # w /\ ~Disconnected))
    /\ half' = half \ {w}
    /\ Pop(w) /\ mu' = NoOne
    /\ UNCHANGED <<bridgeVars, conn, paused, videoVars>>

\* conn.Write does not return.
SendBlocks(w) ==
    /\ queue[w] # <<>> /\ mu = NoOne /\ conn = "stalled"
    /\ mu' = w
    /\ UNCHANGED <<bridgeVars, conn, queue, half, expect, torn, paused, videoVars>>

\* conn.Write returns an error: the authentication and ResetVideo give up, the
\* answers of the read loop are sent without looking at the error.
SendFails(w) ==
    /\ queue[w] # <<>> /\ mu \in {NoOne, w} /\ conn \in {"lost", "closed"}
    /\ mu' = NoOne
    /\ half' = half \ {w}
    /\ IF w = Session /\ pc = "auth"
         THEN SessionEnds /\ queue' = [queue EXCEPT ![w] = <<>>]
         ELSE /\ IF w \in Requests THEN queue' = [queue EXCEPT ![w] = <<>>] ELSE Pop(w)
              /\ UNCHANGED <<pc, cancelled>>
    /\ UNCHANGED <<running, ticking, stopped, stop, conn, expect, torn, paused, videoVars>>

(***************************************************************************)
(* The session goroutine.                                                  *)
(***************************************************************************)
Enqueue(w, ms) == queue' = [queue EXCEPT ![w] = ms]
SessionIdle == queue[Session] = <<>>

Authentication == <<WithPayload("other"), WithPayload("other"), Header("resume")>>
PostValidation == <<Header("other"), WithPayload("other"), Header("other")>>

\* The first message has to be SESSION_ACCEPTED.
RunSession ==
    /\ pc = "await"
    /\ \/ pc' = "auth" /\ Enqueue(Session, Authentication) /\ UNCHANGED cancelled
       \/ SessionEnds /\ UNCHANGED queue
    /\ UNCHANGED <<running, ticking, stopped, stop, conn, mu, half, expect, torn, paused,
                   videoVars>>

\* The top of readLoop, once what was to be sent is sent.
readLoop ==
    /\ pc \in {"auth", "loop"} /\ SessionIdle
    /\ IF stopped THEN SessionEnds ELSE pc' = "read" /\ UNCHANGED cancelled
    /\ UNCHANGED <<running, ticking, stopped, stop, conn, sendVars, videoVars>>

\* VALIDATE_VIDEO_SESSION_RESPONSE: valid, then three requests; or invalid.
\* (An empty one makes readLoop panic, which ends the process.)
ReadValidateRsp ==
    /\ pc = "read"
    /\ \/ /\ pc' = "loop" /\ Enqueue(Session, PostValidation) /\ UNCHANGED cancelled
       \/ SessionEnds /\ UNCHANGED queue
    /\ UNCHANGED <<running, ticking, stopped, stop, conn, mu, half, expect, torn, paused,
                   videoVars>>

ReadGetActiveClients ==
    /\ pc = "read"
    /\ pc' = "loop" /\ Enqueue(Session, <<Header("other")>>)
    /\ UNCHANGED <<running, cancelled, ticking, stopped, stop, conn, mu, half, expect, torn,
                   paused, videoVars>>

\* The types that are logged or ignored, and fragments shorter than their number.
ReadOther ==
    /\ pc = "read"
    /\ pc' = "loop"
    /\ UNCHANGED <<running, cancelled, ticking, stopped, stop, conn, sendVars, videoVars>>

\* STOP_SESSION_IMMEDIATE and MAX_SESSION_CLOSING.
ReadStopSession ==
    /\ pc = "read"
    /\ SessionEnds
    /\ UNCHANGED <<running, ticking, stopped, stop, conn, sendVars, videoVars>>

\* readMessage: the connection breaks or is closed, or the length is absurd.
ReadFails ==
    /\ pc \in {"await", "read"}
    /\ SessionEnds
    /\ UNCHANGED <<running, ticking, stopped, stop, conn, sendVars, videoVars>>

\* Fragment i of frame f, as the BMC numbers it.
Fragment(f, i) == [frame |-> f, num |-> i % FragMod]

\* Faulty variant: the first fragment of a frame does not reset the buffer.
Assemble0(buf, frag) == Append(buf, frag)

Assemble(buf, frag) == Append(IF frag.num = 0 THEN <<>> ELSE buf, frag)

\* The BMC goes on with its frame, or drops it (a mode switch, a pause) and begins
\* another.  The last fragment hands the frame on, if it holds a header.
\* onVideoFrame may ask for a refresh from a goroutine of its own.
handleVideoFragment(frame, i, len) ==
    /\ pc = "read"
    /\ pc' = "loop"
    /\ bmc' = [frame |-> frame, next |-> i + 1, len |-> len]
    /\ frameBuf' = Assemble(frameBuf, Fragment(frame, i))
    /\ IF i + 1 = len /\ Len(frameBuf') >= HeaderFrags
         THEN /\ shown' = frameBuf'
              /\ \/ UNCHANGED queue
                 \/ \E r \in Requests : queue[r] = <<>> /\ Enqueue(r, <<Header("other")>>)
         ELSE UNCHANGED <<shown, queue>>
    /\ UNCHANGED <<running, cancelled, ticking, stopped, stop, conn, mu, half, expect, torn,
                   paused>>

NextFragment == bmc.next < bmc.len /\ handleVideoFragment(bmc.frame, bmc.next, bmc.len)
FirstFragment ==
    /\ bmc.frame < MaxFrames
    /\ \E len \in 1..MaxFrags : handleVideoFragment(bmc.frame + 1, 0, len)

(***************************************************************************)
(* The ticker: a refresh every 30 s until the context is cancelled.        *)
(***************************************************************************)
Tick ==
    /\ ticking /\ queue[Ticker] = <<>>
    /\ Enqueue(Ticker, <<Header("other")>>)
    /\ UNCHANGED <<bridgeVars, conn, mu, half, expect, torn, paused, videoVars>>

TickerEnds ==
    /\ ticking /\ queue[Ticker] = <<>> /\ cancelled
    /\ ticking' = FALSE
    /\ UNCHANGED <<pc, running, cancelled, stopped, stop, conn, sendVars, videoVars>>

(***************************************************************************)
(* The commands.                                                           *)
(***************************************************************************)
SendPowerCommand == <<Header("other")>>
SendDisplayLock == <<WithPayload("other")>>
SetMouseMode == <<Header("other")>>
SetKeyboardLayout == <<WithPayload("other")>>
SendIPMICommand == <<WithPayload("other")>>
SendKeyEvent == <<Header("other")>>       \* one Write, header and report together
SendMouseEvent == <<Header("other")>>

\* Faulty variant: the engine is resumed before it is paused.
ResetVideoSwapped == <<Header("resume"), Header("pause"), Header("other")>>

ResetVideo == <<Header("pause"), Header("resume"), Header("other")>>

\* A handler found the bridge in the map (it is there once Start has returned).
\* Refused requests change nothing.
Request(r, ms) ==
    /\ running /\ queue[r] = <<>>
    /\ Enqueue(r, ms)
    /\ UNCHANGED <<bridgeVars, conn, mu, half, expect, torn, paused, videoVars>>

\* bmc_reset goes through ipmitool; the BMC restarts under the connection.
KVMPowerControl(r) ==
    \/ Request(r, SendPowerCommand)
    \/ /\ running /\ conn \in {"open", "stalled"}
       /\ conn' = "lost"
       /\ UNCHANGED <<bridgeVars, sendVars, videoVars>>
KVMDisplayLock(r) == Request(r, SendDisplayLock)
KVMResetVideo(r) == Request(r, ResetVideo)
KVMMouseMode(r) == Request(r, SetMouseMode)
KVMKeyboardLayout(r) == Request(r, SetKeyboardLayout)
KVMIPMICommand(r) == Request(r, SendIPMICommand)
ViewerInput(r) == Request(r, SendKeyEvent) \/ Request(r, SendMouseEvent)

(***************************************************************************)
(* Bridge.Stop and Client.Stop.  One caller: the bridge is taken out of    *)
(* the map first.                                                          *)
(***************************************************************************)
Stop ==
    /\ stop = "no" /\ running
    /\ stop' = "disconnect" /\ cancelled' = TRUE /\ stopped' = TRUE
    /\ UNCHANGED <<pc, running, ticking, conn, sendVars, videoVars>>

\* JVIEWER DISCONNECT is written without c.mu and without a deadline.
Disconnect ==
    /\ stop = "disconnect" /\ conn # "stalled"
    /\ stop' = "close"
    /\ UNCHANGED <<pc, running, cancelled, ticking, stopped, conn, sendVars, videoVars>>

\* Faulty variant: the connection is left to the read loop.
CloseNothing ==
    /\ stop = "close"
    /\ stop' = "wait"
    /\ UNCHANGED <<pc, running, cancelled, ticking, stopped, conn, sendVars, videoVars>>

CloseConn ==
    /\ stop = "close"
    /\ stop' = "wait" /\ conn' = "closed"
    /\ UNCHANGED <<pc, running, cancelled, ticking, stopped, sendVars, videoVars>>

\* stopWg.Wait.
StopReturn ==
    /\ stop = "wait" /\ pc = "over" /\ ~ticking
    /\ stop' = "returned" /\ running' = FALSE
    /\ UNCHANGED <<pc, cancelled, ticking, stopped, conn, sendVars, videoVars>>

\* External: the BMC stops reading, or goes away.
BMCStalls ==
    /\ conn = "open" /\ pc \notin {"new", "tunnel"}
    /\ conn' = "stalled"
    /\ UNCHANGED <<bridgeVars, sendVars, videoVars>>

BMCGone ==
    /\ conn \in {"open", "stalled"}
    /\ conn' = "lost"
    /\ UNCHANGED <<bridgeVars, sendVars, videoVars>>

-----------------------------------------------------------------------------
Send(w) == SendHeader(w) \/ SendPayload(w) \/ SendBlocks(w) \/ SendFails(w)
Read ==
    \/ RunSession \/ ReadValidateRsp \/ ReadGetActiveClients \/ ReadOther
    \/ ReadStopSession \/ ReadFails \/ NextFragment \/ FirstFragment
StopStep == Disconnect \/ CloseConn \/ StopReturn
Command(r) ==
    \/ KVMPowerControl(r) \/ KVMDisplayLock(r) \/ KVMResetVideo(r) \/ KVMMouseMode(r)
    \/ KVMKeyboardLayout(r) \/ KVMIPMICommand(r) \/ ViewerInput(r)

Next ==
    \/ Connect \/ singlePortHandshake
    \/ \E w \in Writers : Send(w)
    \/ readLoop \/ Read
    \/ Tick \/ TickerEnds
    \/ \E r \in Requests : Command(r)
    \/ Stop \/ StopStep
    \/ BMCStalls \/ BMCGone

Spec == Init /\ [][Next]_vars

\* The goroutines run; the mutex and select do not starve anybody for ever.  Nothing
\* is assumed of the BMC: not that it sends, nor that it reads.  A write returns
\* unless the BMC is stalled, a read returns at the latest when the connection is
\* closed.
FairSpec ==
    /\ Spec
    /\ \A w \in Writers : WF_vars(Send(w))
    /\ WF_vars(readLoop \/ (ReadFails /\ conn = "closed"))
    /\ SF_vars(TickerEnds)
    /\ WF_vars(StopStep)

-----------------------------------------------------------------------------
\* A frame handed to the decoder consists of all fragments of one frame, in their
\* order, whatever frames the BMC dropped halfway before it.  A differential frame
\* with another's blocks in it would spoil the picture until the next refresh.
FramesAreWhole ==
    shown # <<>> =>
        /\ \A i \in 1..Len(shown) : shown[i] = [frame |-> shown[1].frame, num |-> i - 1]
        /\ (bmc.frame = shown[1].frame => Len(shown) = bmc.len)

\* Until Stop writes its disconnect message, no message of one goroutine is cut by
\* bytes of another: the BMC would take a payload for a header.
MessagesAreWhole == ~torn

\* Resets of the video engine may overlap each other, the authentication and the
\* end of the connection; none of them leaves a live connection paused, with
\* nobody about to resume it.
NotLeftPaused ==
    paused /\ conn \in {"open", "stalled"} =>
        \E r \in Requests : queue[r] # <<>> /\ Head(queue[r]).type = "resume"

\* Stop returns although it closes the connection under goroutines that read it,
\* write it or wait for c.mu, behind a writer the BMC has stalled included.  The one
\* exception is the disconnect message: it has no deadline, and a BMC that has
\* stopped reading holds Stop there.
StopReturns ==
    (stop # "no") ~> (stop = "returned" \/ (stop = "disconnect" /\ conn = "stalled"))
=============================================================================
