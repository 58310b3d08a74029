-------------------------- MODULE IVTPClientProofs --------------------------
(***************************************************************************)
(* Proofs about the IVTP connection for any number of concurrent requests, *)
(* frames and fragments.                                                   *)
(***************************************************************************)
EXTENDS IVTPClient, TLAPS

\* A reset of the video engine is one piece: in a queue, a "pause" is followed by its
\* "resume", and both are bare headers.
WellFormed(q) ==
    \A i \in 1..Len(q) :
        /\ q[i].type \in {"pause", "resume"} => ~q[i].payload
        /\ q[i].type = "pause" => i < Len(q) /\ q[i + 1].type = "resume"
NeverPauses(q) == \A i \in 1..Len(q) : q[i].type # "pause"

Commands == {SendPowerCommand, SendDisplayLock, SetMouseMode, SetKeyboardLayout,
             SendIPMICommand, SendKeyEvent, SendMouseEvent, ResetVideo}
Answers == {Authentication, PostValidation, <<Header("other")>>}

\* Sending the first message of a queue leaves a well-formed rest.
LEMMA TailFacts ==
    ASSUME NEW q \in Seq(Messages), q # <<>>
    PROVE  /\ Head(q) \in Messages /\ Tail(q) \in Seq(Messages)
           /\ Head(q) = q[1]
           /\ WellFormed(q) => WellFormed(Tail(q))
           /\ NeverPauses(q) => NeverPauses(Tail(q))
           /\ WellFormed(q) /\ Head(q).type \in {"pause", "resume"} => ~Head(q).payload
           /\ WellFormed(q) /\ Head(q).type = "pause"
                => Tail(q) # <<>> /\ Head(Tail(q)).type = "resume"
<1>1. /\ Len(q) \in Nat /\ Len(q) >= 1 /\ Tail(q) \in Seq(Messages)
      /\ Len(Tail(q)) = Len(q) - 1
      /\ \A i \in 1..Len(Tail(q)) : Tail(q)[i] = q[i + 1]
      /\ Head(q) = q[1] /\ Head(q) \in Messages
  OBVIOUS
<1>2. WellFormed(q) => WellFormed(Tail(q))
  BY <1>1 DEF WellFormed
<1>3. NeverPauses(q) => NeverPauses(Tail(q))
  BY <1>1 DEF NeverPauses
<1>4. WellFormed(q) /\ Head(q).type \in {"pause", "resume"} => ~Head(q).payload
  BY <1>1 DEF WellFormed
<1>5. WellFormed(q) /\ Head(q).type = "pause" => Tail(q) # <<>> /\ Head(Tail(q)).type = "resume"
  <2> SUFFICES ASSUME WellFormed(q), Head(q).type = "pause"
               PROVE  Tail(q) # <<>> /\ Head(Tail(q)).type = "resume"
    OBVIOUS
  <2>1. 1 < Len(q) /\ q[2].type = "resume"
    BY <1>1 DEF WellFormed
  <2>2. Len(Tail(q)) >= 1 /\ Tail(q)[1] = q[2]
    BY <1>1, <2>1
  <2>3. ASSUME NEW t \in Seq(Messages), Len(t) >= 1
        PROVE  t # <<>> /\ Head(t) = t[1]
    BY <2>3
  <2> QED BY <1>1, <2>1, <2>2, <2>3, Zenon
<1> QED BY <1>1, <1>2, <1>3, <1>4, <1>5

\* What the goroutines queue is well formed; only ResetVideo pauses.
LEMMA QueuedFacts ==
    /\ \A ms \in Commands \cup Answers : ms \in Seq(Messages) /\ ms # <<>> /\ WellFormed(ms)
    /\ \A ms \in Answers : NeverPauses(ms)
<1>1. ASSUME NEW m \in Messages, m.type = "other"
      PROVE  <<m>> \in Seq(Messages) /\ <<m>> # <<>> /\ WellFormed(<<m>>) /\ NeverPauses(<<m>>)
  BY <1>1 DEF WellFormed, NeverPauses
<1>2. /\ Header("other") \in Messages /\ Header("other").type = "other"
      /\ WithPayload("other") \in Messages /\ WithPayload("other").type = "other"
  BY DEF Header, WithPayload, Messages, Types
<1>3. ResetVideo \in Seq(Messages) /\ ResetVideo # <<>> /\ WellFormed(ResetVideo)
  BY DEF ResetVideo, Header, Messages, Types, WellFormed
<1>4. /\ Authentication \in Seq(Messages) /\ Authentication # <<>>
      /\ WellFormed(Authentication) /\ NeverPauses(Authentication)
  BY DEF Authentication, Header, WithPayload, Messages, Types, WellFormed, NeverPauses
<1>5. /\ PostValidation \in Seq(Messages) /\ PostValidation # <<>>
      /\ WellFormed(PostValidation) /\ NeverPauses(PostValidation)
  BY DEF PostValidation, Header, WithPayload, Messages, Types, WellFormed, NeverPauses
<1>6. /\ <<Header("other")>> \in Seq(Messages) /\ <<Header("other")>> # <<>>
      /\ WellFormed(<<Header("other")>>) /\ NeverPauses(<<Header("other")>>)
  BY <1>1, <1>2
<1>7. /\ <<WithPayload("other")>> \in Seq(Messages) /\ <<WithPayload("other")>> # <<>>
      /\ WellFormed(<<WithPayload("other")>>)
  BY <1>1, <1>2
<1> QED
  BY <1>3, <1>4, <1>5, <1>6, <1>7, Zenon
     DEF Commands, Answers, SendPowerCommand, SendDisplayLock, SetMouseMode,
         SetKeyboardLayout, SendIPMICommand, SendKeyEvent, SendMouseEvent

-----------------------------------------------------------------------------
\* The steps by the parts of the state they change, for the proofs below: what the
\* BMC sends, what is queued, and what leaves the messages alone.
Fragmented ==
    \E f \in 0..MaxFrames, i \in 0..MaxFrags, len \in 0..MaxFrags :
        /\ i < len
        /\ \/ f = bmc.frame /\ i = bmc.next /\ len = bmc.len
           \/ f = bmc.frame + 1 /\ i = 0
        /\ handleVideoFragment(f, i, len)
Requested == \E r \in Requests, ms \in Commands : Request(r, ms)
Answered ==
    /\ pc \in {"await", "read"}
    /\ pc' \in {"auth", "loop"} /\ UNCHANGED cancelled
    /\ \E ms \in Answers : Enqueue(Session, ms)
    /\ UNCHANGED <<running, ticking, stopped, stop, conn, mu, half, expect, torn, paused,
                   videoVars>>
Moved ==
    /\ pc \in {"auth", "loop"} => pc' = pc \/ queue[Session] = <<>>
    /\ conn' \in {"none", "open"} => conn \in {"none", "open"}
    /\ conn' = "stalled" => conn \in {"none", "open", "stalled"}
    /\ UNCHANGED <<sendVars, videoVars>>

ControlTypes ==
    /\ pc \in {"new", "tunnel", "failed", "await", "auth", "loop", "read", "over"}
    /\ running \in BOOLEAN /\ cancelled \in BOOLEAN /\ ticking \in BOOLEAN
    /\ stopped \in BOOLEAN
    /\ conn \in {"none", "open", "stalled", "lost", "closed"}
    /\ stop \in {"no", "disconnect", "close", "wait", "returned"}

\* Before Connect there is nothing to stop, to send on or to close.
NotStarted == pc = "new" => conn = "none" /\ stop = "no" /\ ~running

\* Every step is of one of these kinds, and keeps the control state well typed.
LEMMA StepKinds ==
    ASSUME TypeOK, NotStarted, [Next]_vars
    PROVE  /\ ControlTypes' /\ NotStarted'
           /\ \/ Moved \/ Answered \/ Requested \/ Tick \/ Fragmented
              \/ \E w \in Writers : Send(w)
<1> USE DEF ControlTypes, NotStarted, bridgeVars
<1> DEFINE Good == ControlTypes' /\ NotStarted'
<1> HIDE DEF Good
<1>1. ASSUME Connect \/ singlePortHandshake PROVE Good /\ Moved
  BY <1>1 DEF Connect, singlePortHandshake, Good, TypeOK, Moved
<1>2. ASSUME readLoop PROVE Good /\ Moved
  BY <1>2 DEF readLoop, SessionEnds, SessionIdle, Good, TypeOK, Moved
<1>3. ASSUME ReadOther \/ ReadStopSession \/ ReadFails PROVE Good /\ Moved
  BY <1>3 DEF ReadOther, ReadStopSession, ReadFails, SessionEnds, Good, TypeOK, Moved
<1>4. ASSUME TickerEnds \/ Stop \/ StopStep PROVE Good /\ Moved
  <2>1. ASSUME TickerEnds PROVE Good /\ Moved
    BY <2>1 DEF TickerEnds, Good, TypeOK, Moved
  <2>2. ASSUME Stop PROVE Good /\ Moved
    BY <2>2 DEF Stop, Good, TypeOK, Moved
  <2>3. ASSUME Disconnect \/ CloseConn PROVE Good /\ Moved
    BY <2>3 DEF Disconnect, CloseConn, Good, TypeOK, Moved
  <2>4. ASSUME StopReturn PROVE Good /\ Moved
    BY <2>4 DEF StopReturn, Good, TypeOK, Moved
  <2> QED BY <1>4, <2>1, <2>2, <2>3, <2>4 DEF StopStep
<1>5. ASSUME BMCStalls \/ BMCGone PROVE Good /\ Moved
  BY <1>5 DEF BMCStalls, BMCGone, Good, TypeOK, Moved
<1>6. ASSUME RunSession \/ ReadValidateRsp \/ ReadGetActiveClients
      PROVE  Good /\ (Moved \/ Answered)
  <2>1. ASSUME RunSession PROVE Good /\ (Moved \/ Answered)
    BY <2>1 DEF RunSession, SessionEnds, Answers, Answered, Good, TypeOK, Moved, sendVars
  <2>2. ASSUME ReadValidateRsp PROVE Good /\ (Moved \/ Answered)
    BY <2>2 DEF ReadValidateRsp, SessionEnds, Answers, Answered, Good, TypeOK, Moved, sendVars
  <2>3. ASSUME ReadGetActiveClients PROVE Good /\ Answered
    BY <2>3 DEF ReadGetActiveClients, Answers, Answered, Good, TypeOK
  <2> QED BY <1>6, <2>1, <2>2, <2>3
<1>7. ASSUME NextFragment \/ FirstFragment PROVE Good /\ Fragmented
  <2>1. ASSUME NEW f, NEW i, NEW len, handleVideoFragment(f, i, len) PROVE Good
    BY <2>1 DEF handleVideoFragment, Good, TypeOK
  <2>2. ASSUME NextFragment PROVE Good /\ Fragmented
    BY <2>1, <2>2, FramesAssumption DEF NextFragment, Fragmented, TypeOK
  <2>3. ASSUME FirstFragment PROVE Good /\ Fragmented
    BY <2>1, <2>3, FramesAssumption DEF FirstFragment, Fragmented, TypeOK
  <2> QED BY <1>7, <2>2, <2>3
<1>8. ASSUME NEW r \in Requests, Command(r) PROVE Good /\ (Moved \/ Requested)
  <2>1. ASSUME NEW ms \in Commands, Request(r, ms) PROVE Good /\ Requested
    BY <2>1 DEF Request, Requested, Good, TypeOK
  <2>2. CASE \E ms \in Commands : Request(r, ms)
    BY <2>1, <2>2
  <2>3. CASE /\ running /\ conn \in {"open", "stalled"} /\ conn' = "lost"
             /\ UNCHANGED <<bridgeVars, sendVars, videoVars>>
    BY <2>3 DEF Moved, Good, TypeOK
  <2> QED
    BY <1>8, <2>2, <2>3, Zenon
       DEF Command, Commands, KVMPowerControl, KVMDisplayLock, KVMResetVideo, KVMMouseMode,
           KVMKeyboardLayout, KVMIPMICommand, ViewerInput
<1>9. ASSUME NEW w \in Writers, Send(w) PROVE Good
  <2>1. ASSUME SendHeader(w) \/ SendPayload(w) \/ SendBlocks(w) PROVE Good
    <3>1. UNCHANGED <<pc, running, cancelled, ticking, stopped, stop, conn>>
      BY <2>1 DEF SendHeader, SendPayload, SendBlocks
    <3> QED BY <3>1 DEF Good, TypeOK
  <2>2. ASSUME SendFails(w) PROVE Good
    <3>1. UNCHANGED <<running, ticking, stopped, stop, conn>>
      BY <2>2 DEF SendFails
    <3>2. UNCHANGED <<pc, cancelled>> \/ SessionEnds
      BY <2>2 DEF SendFails
    <3> QED BY <3>1, <3>2 DEF SessionEnds, Good, TypeOK
  <2> QED BY <1>9, <2>1, <2>2 DEF Send
<1>10. ASSUME Tick PROVE Good
  BY <1>10 DEF Tick, Good, TypeOK
<1>11. ASSUME UNCHANGED vars PROVE Good /\ Moved
  BY <1>11 DEF vars, sendVars, videoVars, Good, TypeOK, Moved
<1> QED
  BY <1>1, <1>2, <1>3, <1>4, <1>5, <1>6, <1>7, <1>8, <1>9, <1>10, <1>11 DEF Next, Read, Good

-----------------------------------------------------------------------------
SendTypes ==
    /\ mu \in Writers \cup {NoOne}
    /\ queue \in [Writers -> Seq(Messages)]
    /\ half \in SUBSET Writers
    /\ expect \in Writers \cup {NoOne}
    /\ torn \in BOOLEAN /\ paused \in BOOLEAN
    /\ mu # NoOne => queue[mu] # <<>>

\* Why messages are whole: the BMC waits for a payload exactly as long as a writer
\* is between header and payload, and that writer holds the mutex.
OneWriter ==
    /\ pc \notin {"auth", "loop"} => queue[Session] = <<>>
    /\ \A w \in half : mu = w /\ Head(queue[w]).payload
    /\ conn \in {"none", "open"} => \A w \in Writers : expect = w <=> w \in half

SendInv == SendTypes /\ OneWriter /\ MessagesAreWhole

\* Queueing messages for an idle writer.
LEMMA EnqueueKeepsSendInv ==
    ASSUME TypeOK, SendInv, NEW w \in Writers, NEW ms \in Commands \cup Answers,
           queue[w] = <<>>, Enqueue(w, ms), UNCHANGED <<mu, half, expect, torn, paused, conn>>,
           pc' \in {"auth", "loop"} \/ (w # Session /\ pc' = pc)
    PROVE  SendInv'
<1>1. ms \in Seq(Messages) /\ ms # <<>>
  BY QueuedFacts
<1>2. /\ queue' \in [Writers -> Seq(Messages)]
      /\ queue'[w] = ms /\ \A v \in Writers \ {w} : queue'[v] = queue[v]
  BY <1>1 DEF Enqueue, SendInv, SendTypes
<1>3. SendTypes'
  BY <1>1, <1>2 DEF SendInv, SendTypes
<1>4. w \notin half
  BY WritersAssumption DEF SendInv, SendTypes, OneWriter
<1>5. pc' \notin {"auth", "loop"} => queue'[Session] = <<>>
  BY <1>2 DEF SendInv, OneWriter, Writers
<1>6. OneWriter'
  BY <1>2, <1>4, <1>5 DEF SendInv, SendTypes, OneWriter
<1> QED BY <1>3, <1>6 DEF SendInv, MessagesAreWhole

\* Sending, by any writer, in any state of the connection.
LEMMA SendKeepsSendInv ==
    ASSUME TypeOK, SendInv, NEW w \in Writers, Send(w)
    PROVE  SendInv'
<1> USE WritersAssumption
<1> DEFINE m == Head(queue[w])
<1>1. ASSUME queue[w] # <<>>
      PROVE  m \in Messages /\ Tail(queue[w]) \in Seq(Messages)
  BY <1>1, TailFacts DEF SendInv, SendTypes
<1>2. ASSUME w \in half PROVE mu = w /\ half = {w} /\ queue[w] # <<>>
  BY <1>2 DEF SendInv, SendTypes, OneWriter, Writers
<1>3. mu = NoOne => half = {}
  BY DEF SendInv, SendTypes, OneWriter
<1>4. ASSUME SendHeader(w) PROVE SendInv'
  <2>1. queue[w] # <<>> /\ mu = NoOne /\ half = {} /\ conn = "open" /\ expect = NoOne
    BY <1>3, <1>4 DEF SendHeader, SendInv, SendTypes, OneWriter
  <2>2. m \in Messages /\ m.payload \in BOOLEAN
    BY <1>1, <2>1 DEF Messages
  <2>3. torn' = FALSE
    BY <1>4, <2>1 DEF SendHeader, Arrives, SendInv, MessagesAreWhole
  <2>4. paused' \in BOOLEAN
    BY <1>4 DEF SendHeader, Arrives, SendInv, SendTypes
  <2>5. CASE m.payload
    <3>1. mu' = w /\ half' = {w} /\ queue' = queue /\ expect' = w /\ conn' = conn /\ pc' = pc
      BY <1>4, <2>1, <2>5 DEF SendHeader, Arrives, bridgeVars
    <3> QED BY <2>1, <2>3, <2>4, <2>5, <3>1 DEF SendInv, SendTypes, OneWriter, MessagesAreWhole
  <2>6. CASE ~m.payload
    <3>1. /\ mu' = NoOne /\ half' = {} /\ expect' = NoOne /\ conn' = conn /\ pc' = pc
          /\ queue' = [queue EXCEPT ![w] = Tail(@)]
      BY <1>4, <2>1, <2>6 DEF SendHeader, Arrives, bridgeVars, Pop
    <3>2. queue' \in [Writers -> Seq(Messages)]
      BY <1>1, <2>1, <3>1 DEF SendInv, SendTypes
    <3>3. pc \notin {"auth", "loop"} => queue'[Session] = <<>>
      BY <2>1, <3>1, <3>2 DEF SendInv, SendTypes, OneWriter, Writers
    <3> QED BY <2>3, <2>4, <3>1, <3>2, <3>3 DEF SendInv, SendTypes, OneWriter, MessagesAreWhole
  <2> QED BY <2>2, <2>5, <2>6
<1>5. ASSUME SendPayload(w) PROVE SendInv'
  <2>1. w \in half /\ conn = "open" /\ expect = w
    BY <1>5 DEF SendPayload, SendInv, OneWriter
  <2>2. /\ mu' = NoOne /\ half' = {} /\ expect' = NoOne /\ conn' = conn /\ pc' = pc
        /\ queue' = [queue EXCEPT ![w] = Tail(@)] /\ paused' = paused
    BY <1>2, <1>5, <2>1 DEF SendPayload, bridgeVars, Pop
  <2>3. torn' = FALSE
    BY <1>5, <2>1 DEF SendPayload, SendInv, MessagesAreWhole
  <2>4. queue' \in [Writers -> Seq(Messages)]
    BY <1>1, <1>2, <2>1, <2>2 DEF SendInv, SendTypes
  <2>5. pc \notin {"auth", "loop"} => queue'[Session] = <<>>
    BY <1>2, <2>1, <2>2, <2>4 DEF SendInv, SendTypes, OneWriter, Writers
  <2> QED BY <2>2, <2>3, <2>4, <2>5 DEF SendInv, SendTypes, OneWriter, MessagesAreWhole
<1>6. ASSUME SendBlocks(w) PROVE SendInv'
  BY <1>3, <1>6 DEF SendBlocks, bridgeVars, SendInv, SendTypes, OneWriter, MessagesAreWhole
<1>7. ASSUME SendFails(w) PROVE SendInv'
  <2>1. /\ queue[w] # <<>> /\ mu' = NoOne /\ half' = half \ {w}
        /\ mu \in {NoOne, w} /\ conn' \notin {"none", "open"}
        /\ expect' = expect /\ torn' = torn /\ paused' = paused
    BY <1>7 DEF SendFails
  <2>5. half' = {}
    BY <2>1 DEF SendInv, SendTypes, OneWriter
  <2>2. /\ queue' = [queue EXCEPT ![w] = Tail(@)] \/ queue' = [queue EXCEPT ![w] = <<>>]
        /\ pc' = pc \/ (pc' = "over" /\ w = Session /\ queue' = [queue EXCEPT ![w] = <<>>])
    BY <1>7 DEF SendFails, SessionEnds, Pop
  <2>3. queue' \in [Writers -> Seq(Messages)]
    <3>1. Tail(queue[w]) \in Seq(Messages) /\ <<>> \in Seq(Messages)
      BY <1>1, <2>1
    <3>2. queue \in [Writers -> Seq(Messages)]
      BY DEF SendInv, SendTypes
    <3> QED BY <2>2, <3>1, <3>2, Zenon
  <2>4. pc' \notin {"auth", "loop"} => queue'[Session] = <<>>
    BY <2>1, <2>2, <2>3 DEF SendInv, SendTypes, OneWriter, Writers
  <2> QED BY <2>1, <2>3, <2>4, <2>5 DEF SendInv, SendTypes, OneWriter, MessagesAreWhole
<1> QED BY <1>4, <1>5, <1>6, <1>7 DEF Send

\* Nothing else touches what is being sent.
LEMMA SendInvStep ==
    ASSUME TypeOK, NotStarted, SendInv, [Next]_vars
    PROVE  SendInv'
<1>1. ASSUME Moved PROVE SendInv'
  BY <1>1 DEF Moved, sendVars, SendInv, SendTypes, OneWriter, MessagesAreWhole
<1>2. ASSUME Answered PROVE SendInv'
  <2>1. Session \in Writers /\ queue[Session] = <<>>
    BY <1>2 DEF Answered, Writers, SendInv, OneWriter
  <2> QED BY <1>2, <2>1, EnqueueKeepsSendInv DEF Answered
<1>3. ASSUME Requested PROVE SendInv'
  <2>1. PICK r \in Requests, ms \in Commands : Request(r, ms)
    BY <1>3 DEF Requested
  <2>2. r \in Writers /\ r # Session
    BY WritersAssumption DEF Writers
  <2> QED BY <2>1, <2>2, EnqueueKeepsSendInv DEF Request, bridgeVars
<1>4. ASSUME Tick PROVE SendInv'
  <2>1. Ticker \in Writers /\ Ticker # Session
    BY WritersAssumption DEF Writers
  <2> QED BY <1>4, <2>1, EnqueueKeepsSendInv DEF Tick, bridgeVars, Answers
<1>5. ASSUME Fragmented PROVE SendInv'
  <2>1. /\ pc = "read" /\ pc' = "loop"
        /\ UNCHANGED <<conn, mu, half, expect, torn, paused>>
        /\ \/ queue' = queue
           \/ \E r \in Requests : queue[r] = <<>> /\ Enqueue(r, <<Header("other")>>)
    BY <1>5 DEF Fragmented, handleVideoFragment
  <2>2. CASE queue' = queue
    BY <2>1, <2>2 DEF SendInv, SendTypes, OneWriter, MessagesAreWhole
  <2>3. CASE \E r \in Requests : queue[r] = <<>> /\ Enqueue(r, <<Header("other")>>)
    <3>1. PICK r \in Requests : queue[r] = <<>> /\ Enqueue(r, <<Header("other")>>)
      BY <2>3
    <3>2. r \in Writers /\ <<Header("other")>> \in Answers
      BY DEF Writers, Answers
    <3> QED BY <2>1, <3>1, <3>2, EnqueueKeepsSendInv
  <2> QED BY <2>1, <2>2, <2>3
<1>6. ASSUME NEW w \in Writers, Send(w) PROVE SendInv'
  BY <1>6, SendKeepsSendInv
<1> QED BY <1>1, <1>2, <1>3, <1>4, <1>5, <1>6, StepKinds

-----------------------------------------------------------------------------
VideoTypes ==
    /\ bmc \in [frame : 0..MaxFrames, next : 0..MaxFrags, len : 0..MaxFrags]
    /\ frameBuf \in Seq(Fragments)
    /\ shown \in Seq(Fragments)

\* Why frames are whole: the buffer holds what the BMC has sent of its present frame.
BufferFollows ==
    /\ Len(frameBuf) = bmc.next
    /\ \A i \in 1..Len(frameBuf) : frameBuf[i] = [frame |-> bmc.frame, num |-> i - 1]
    /\ shown # <<>> => shown[1].frame <= bmc.frame

VideoInv == VideoTypes /\ BufferFollows /\ FramesAreWhole

\* One fragment, of the frame under way or the first of another.
LEMMA FragmentKeepsVideoInv ==
    ASSUME VideoInv,
           NEW f \in 0..MaxFrames, NEW i \in 0..MaxFrags, NEW len \in 0..MaxFrags,
           i < len,
           \/ f = bmc.frame /\ i = bmc.next /\ len = bmc.len
           \/ f = bmc.frame + 1 /\ i = 0,
           handleVideoFragment(f, i, len)
    PROVE  VideoInv'
<1> USE FramesAssumption
<1>1. i % FragMod = i
  OBVIOUS
<1>2. Fragment(f, i) = [frame |-> f, num |-> i] /\ Fragment(f, i) \in Fragments
  BY <1>1 DEF Fragment, Fragments
<1>3. bmc' = [frame |-> f, next |-> i + 1, len |-> len]
  BY DEF handleVideoFragment
<1>4. /\ frameBuf' \in Seq(Fragments) /\ Len(frameBuf') = i + 1
      /\ \A j \in 1..Len(frameBuf') : frameBuf'[j] = [frame |-> f, num |-> j - 1]
  <2>1. CASE i = 0
    <3>1. frameBuf' = Append(<<>>, Fragment(f, i))
      BY <1>2, <2>1 DEF handleVideoFragment, Assemble
    <3> QED BY <1>2, <2>1, <3>1
  <2>2. CASE i # 0
    <3>1. frameBuf' = Append(frameBuf, Fragment(f, i))
      BY <1>2, <2>2 DEF handleVideoFragment, Assemble
    <3>2. /\ frameBuf \in Seq(Fragments) /\ Len(frameBuf) = i
          /\ \A j \in 1..Len(frameBuf) : frameBuf[j] = [frame |-> f, num |-> j - 1]
      BY <2>2 DEF VideoInv, VideoTypes, BufferFollows
    <3> QED BY <1>2, <3>1, <3>2
  <2> QED BY <2>1, <2>2
<1>5. VideoTypes'
  BY <1>3, <1>4 DEF VideoInv, VideoTypes, handleVideoFragment
<1>6. CASE shown' = frameBuf' /\ i + 1 = len
  <2>1. shown' # <<>> /\ shown'[1].frame = f /\ Len(shown') = len
    BY <1>4, <1>6
  <2> QED
    BY <1>3, <1>4, <1>5, <1>6, <2>1 DEF VideoInv, BufferFollows, FramesAreWhole
<1>7. CASE shown' = shown
  <2>1. bmc \in [frame : 0..MaxFrames, next : 0..MaxFrags, len : 0..MaxFrags]
    BY DEF VideoInv, VideoTypes
  <2>2. ASSUME shown # <<>>
        PROVE  /\ shown[1].frame \in 0..MaxFrames /\ shown[1].frame <= f
               /\ f = shown[1].frame => Len(shown) = len
    <3>1. shown[1] \in Fragments
      BY <2>2 DEF VideoInv, VideoTypes
    <3> QED BY <2>1, <2>2, <3>1 DEF VideoInv, BufferFollows, FramesAreWhole, Fragments
  <2> QED
    BY <1>3, <1>4, <1>5, <1>7, <2>2 DEF VideoInv, BufferFollows, FramesAreWhole
<1> QED BY <1>6, <1>7 DEF handleVideoFragment

\* No other step touches the frames.
LEMMA VideoInvStep ==
    ASSUME TypeOK, NotStarted, VideoInv, [Next]_vars
    PROVE  VideoInv'
<1>1. ASSUME UNCHANGED videoVars PROVE VideoInv'
  BY <1>1 DEF videoVars, VideoInv, VideoTypes, BufferFollows, FramesAreWhole
<1>2. ASSUME Moved \/ Answered \/ Requested \/ Tick PROVE UNCHANGED videoVars
  BY <1>2 DEF Moved, Answered, Requested, Request, Tick
<1>3. ASSUME NEW w \in Writers, Send(w) PROVE UNCHANGED videoVars
  BY <1>3 DEF Send, SendHeader, SendPayload, SendBlocks, SendFails
<1>4. ASSUME Fragmented PROVE VideoInv'
  BY <1>4, FragmentKeepsVideoInv DEF Fragmented
<1> QED BY <1>1, <1>2, <1>3, <1>4, StepKinds

-----------------------------------------------------------------------------
Resumes(r) == queue[r] # <<>> /\ Head(queue[r]).type = "resume"

\* Why the stream is not left paused: whoever has paused it has the "resume" at the
\* head of its queue; only requests pause.
PauseInv ==
    /\ \A w \in Writers : WellFormed(queue[w])
    /\ \A w \in Writers \ Requests : NeverPauses(queue[w])
    /\ paused /\ conn \in {"none", "open", "stalled"} => \E r \in Requests : Resumes(r)

\* Queueing for an idle writer takes no "resume" away.
LEMMA EnqueueKeepsPauseInv ==
    ASSUME SendInv, PauseInv, NEW w \in Writers, NEW ms \in Commands \cup Answers,
           w \notin Requests => ms \in Answers,
           queue[w] = <<>>, Enqueue(w, ms), UNCHANGED <<paused, conn>>
    PROVE  PauseInv'
<1>1. WellFormed(ms) /\ (w \notin Requests => NeverPauses(ms))
  BY QueuedFacts
<1>2. queue'[w] = ms /\ \A v \in Writers \ {w} : queue'[v] = queue[v]
  BY DEF Enqueue, SendInv, SendTypes
<1>3. \A v \in Writers : WellFormed(queue'[v])
  BY <1>1, <1>2 DEF PauseInv
<1>4. \A v \in Writers \ Requests : NeverPauses(queue'[v])
  BY <1>1, <1>2 DEF PauseInv
<1>5. ASSUME NEW r \in Requests, Resumes(r) PROVE Resumes(r)'
  <2>1. r # w /\ r \in Writers
    BY <1>5 DEF Resumes, Writers
  <2> QED BY <1>2, <1>5, <2>1 DEF Resumes
<1> QED BY <1>3, <1>4, <1>5 DEF PauseInv

\* Sending a "pause" brings the "resume" to the head of the queue; the "resume" ends
\* the pause; nothing else is sent in front of it.
LEMMA SendKeepsPauseInv ==
    ASSUME SendInv, PauseInv, NEW w \in Writers, Send(w)
    PROVE  PauseInv'
<1> DEFINE q == queue[w]
<1>1. q \in Seq(Messages) /\ WellFormed(q) /\ (w \notin Requests => NeverPauses(q))
  BY DEF SendInv, SendTypes, PauseInv
<1>2. w \in half => q # <<>> /\ Head(q).payload
  BY WritersAssumption DEF SendInv, SendTypes, OneWriter
<1>3. ASSUME q # <<>>, Pop(w)
      PROVE  /\ queue'[w] = Tail(q) /\ \A v \in Writers \ {w} : queue'[v] = queue[v]
             /\ \A v \in Writers : WellFormed(queue'[v])
             /\ \A v \in Writers \ Requests : NeverPauses(queue'[v])
  <2>1. queue'[w] = Tail(q) /\ \A v \in Writers \ {w} : queue'[v] = queue[v]
    BY <1>3 DEF Pop, SendInv, SendTypes
  <2>2. WellFormed(Tail(q)) /\ (w \notin Requests => NeverPauses(Tail(q)))
    BY <1>1, <1>3, TailFacts
  <2> QED BY <2>1, <2>2 DEF PauseInv
<1>4. ASSUME q # <<>>, Pop(w), Head(q).type # "resume", NEW r \in Requests, Resumes(r)
      PROVE  Resumes(r)'
  <2>1. r # w /\ r \in Writers
    BY <1>4 DEF Resumes, Writers
  <2> QED BY <1>3, <1>4, <2>1 DEF Resumes
<1>5. ASSUME SendHeader(w) PROVE PauseInv'
  <2>1. q # <<>> /\ conn' = conn /\ conn = "open" /\ Arrives(w, Head(q))
    BY <1>5 DEF SendHeader
  <2>2. CASE Head(q).payload
    <3>1. queue' = queue /\ Head(q).type \notin {"pause", "resume"}
      BY <1>1, <1>5, <2>1, <2>2, TailFacts DEF SendHeader
    <3>2. paused' = paused
      BY <2>1, <3>1 DEF Arrives
    <3> QED BY <2>1, <3>1, <3>2 DEF PauseInv, Resumes
  <2>3. CASE ~Head(q).payload
    <3>1. Pop(w)
      BY <1>5, <2>3 DEF SendHeader
    <3>2. CASE Head(q).type = "pause"
      <4>1. w \in Requests
        BY <1>1, <2>1, <3>2, TailFacts DEF NeverPauses
      <4>2. Tail(q) # <<>> /\ Head(Tail(q)).type = "resume"
        BY <1>1, <2>1, <3>2, TailFacts
      <4>3. Resumes(w)'
        BY <1>3, <2>1, <3>1, <4>2 DEF Resumes
      <4> QED BY <1>3, <2>1, <3>1, <4>1, <4>3 DEF PauseInv
    <3>3. CASE Head(q).type = "resume"
      <4>1. ~paused'
        BY <2>1, <3>3 DEF Arrives
      <4> QED BY <1>3, <2>1, <3>1, <4>1 DEF PauseInv
    <3>4. CASE Head(q).type \notin {"pause", "resume"}
      <4>1. paused' = paused
        BY <2>1, <3>4 DEF Arrives
      <4> QED BY <1>3, <1>4, <2>1, <3>1, <3>4, <4>1 DEF PauseInv
    <3> QED BY <3>2, <3>3, <3>4
  <2> QED BY <2>2, <2>3
<1>6. ASSUME SendPayload(w) PROVE PauseInv'
  <2>1. q # <<>> /\ Head(q).payload /\ Pop(w) /\ UNCHANGED <<conn, paused>>
    BY <1>2, <1>6 DEF SendPayload
  <2>2. Head(q).type # "resume"
    BY <1>1, <2>1, TailFacts
  <2> QED BY <1>3, <1>4, <2>1, <2>2 DEF PauseInv
<1>7. ASSUME SendBlocks(w) PROVE PauseInv'
  BY <1>7 DEF SendBlocks, PauseInv, Resumes
<1>8. ASSUME SendFails(w) PROVE PauseInv'
  <2>1. q # <<>> /\ conn' \notin {"none", "open", "stalled"}
    BY <1>8 DEF SendFails
  <2>2. CASE Pop(w)
    BY <1>3, <2>1, <2>2 DEF PauseInv
  <2>3. CASE queue' = [queue EXCEPT ![w] = <<>>]
    <3>1. queue'[w] = <<>> /\ \A v \in Writers \ {w} : queue'[v] = queue[v]
      BY <2>3 DEF SendInv, SendTypes
    <3>2. WellFormed(<<>>) /\ NeverPauses(<<>>)
      BY DEF WellFormed, NeverPauses
    <3> QED BY <2>1, <3>1, <3>2 DEF PauseInv
  <2> QED BY <1>8, <2>2, <2>3 DEF SendFails
<1> QED BY <1>5, <1>6, <1>7, <1>8 DEF Send

\* Of all steps only sending changes what is paused.
LEMMA PauseInvStep ==
    ASSUME TypeOK, NotStarted, SendInv, PauseInv, [Next]_vars
    PROVE  PauseInv'
<1>1. ASSUME Moved PROVE PauseInv'
  BY <1>1 DEF Moved, sendVars, PauseInv, Resumes
<1>2. ASSUME Answered PROVE PauseInv'
  <2>1. Session \in Writers /\ queue[Session] = <<>>
    BY <1>2 DEF Answered, Writers, SendInv, OneWriter
  <2> QED BY <1>2, <2>1, EnqueueKeepsPauseInv DEF Answered
<1>3. ASSUME Requested PROVE PauseInv'
  <2>1. PICK r \in Requests, ms \in Commands : Request(r, ms)
    BY <1>3 DEF Requested
  <2>2. r \in Writers
    BY DEF Writers
  <2> QED BY <2>1, <2>2, EnqueueKeepsPauseInv DEF Request
<1>4. ASSUME Tick PROVE PauseInv'
  <2>1. Ticker \in Writers /\ <<Header("other")>> \in Answers
    BY DEF Writers, Answers
  <2> QED BY <1>4, <2>1, EnqueueKeepsPauseInv DEF Tick
<1>5. ASSUME Fragmented PROVE PauseInv'
  <2>1. /\ UNCHANGED <<conn, paused>>
        /\ \/ queue' = queue
           \/ \E r \in Requests : queue[r] = <<>> /\ Enqueue(r, <<Header("other")>>)
    BY <1>5 DEF Fragmented, handleVideoFragment
  <2>2. CASE queue' = queue
    BY <2>1, <2>2 DEF PauseInv, Resumes
  <2>3. CASE \E r \in Requests : queue[r] = <<>> /\ Enqueue(r, <<Header("other")>>)
    <3>1. PICK r \in Requests : queue[r] = <<>> /\ Enqueue(r, <<Header("other")>>)
      BY <2>3
    <3>2. r \in Writers /\ <<Header("other")>> \in Answers
      BY DEF Writers, Answers
    <3> QED BY <2>1, <3>1, <3>2, EnqueueKeepsPauseInv
  <2> QED BY <2>1, <2>2, <2>3
<1>6. ASSUME NEW w \in Writers, Send(w) PROVE PauseInv'
  BY <1>6, SendKeepsPauseInv
<1> QED BY <1>1, <1>2, <1>3, <1>4, <1>5, <1>6, StepKinds

-----------------------------------------------------------------------------
IInv == ControlTypes /\ NotStarted /\ SendInv /\ VideoInv /\ PauseInv

\* The inductive invariant contains the properties.
LEMMA IInvImplies == IInv => TypeOK /\ FramesAreWhole /\ MessagesAreWhole /\ NotLeftPaused
<1> SUFFICES ASSUME IInv
             PROVE  TypeOK /\ FramesAreWhole /\ MessagesAreWhole /\ NotLeftPaused
  OBVIOUS
<1>1. TypeOK
  BY Zenon DEF IInv, ControlTypes, SendInv, SendTypes, VideoInv, VideoTypes, TypeOK
<1>2. NotLeftPaused
  BY DEF IInv, PauseInv, Resumes, NotLeftPaused
<1> QED BY <1>1, <1>2 DEF IInv, SendInv, VideoInv

\* It holds in every reachable state of the bridge.
LEMMA IInvInvariant == Spec => []IInv
<1>1. Init => IInv
  <2> SUFFICES ASSUME Init PROVE IInv
    OBVIOUS
  <2>1. ControlTypes /\ NotStarted
    BY Zenon DEF Init, ControlTypes, NotStarted
  <2>2. SendInv
    <3>1. torn \in BOOLEAN /\ paused \in BOOLEAN /\ ~torn
      BY Zenon DEF Init
    <3> QED
      BY <3>1, WritersAssumption
         DEF Init, SendInv, SendTypes, OneWriter, MessagesAreWhole, Writers
  <2>3. VideoInv
    BY FramesAssumption
       DEF Init, VideoInv, VideoTypes, BufferFollows, FramesAreWhole, Fragments
  <2>4. PauseInv
    <3>1. \A w \in Writers : queue[w] = <<>>
      BY DEF Init
    <3>2. WellFormed(<<>>) /\ NeverPauses(<<>>)
      BY DEF WellFormed, NeverPauses
    <3> QED BY <3>1, <3>2 DEF Init, PauseInv
  <2> QED BY <2>1, <2>2, <2>3, <2>4 DEF IInv
<1>2. IInv /\ [Next]_vars => IInv'
  <2> SUFFICES ASSUME IInv, [Next]_vars PROVE IInv'
    OBVIOUS
  <2>1. TypeOK /\ NotStarted /\ SendInv /\ VideoInv /\ PauseInv
    BY IInvImplies DEF IInv
  <2> QED BY <2>1, StepKinds, SendInvStep, VideoInvStep, PauseInvStep DEF IInv
<1> QED BY <1>1, <1>2, PTL DEF Spec

\* Type correctness of the bridge and its connection.
THEOREM TypeCorrect == Spec => []TypeOK
BY IInvInvariant, IInvImplies, PTL

\* Until the disconnect message, however many requests, the ticker and the read loop
\* write at once, the BMC never takes a payload for a header.
THEOREM MessagesAreWholeHolds == Spec => []MessagesAreWhole
BY IInvInvariant, IInvImplies, PTL

\* Every frame handed to the decoder is one whole frame, for frames of up to as many
\* fragments as there are fragment numbers.
THEOREM FramesAreWholeHolds == Spec => []FramesAreWhole
BY IInvInvariant, IInvImplies, PTL

\* No interleaving of video resets leaves a live connection paused with nobody about
\* to resume it.
THEOREM NotLeftPausedHolds == Spec => []NotLeftPaused
BY IInvInvariant, IInvImplies, PTL

-----------------------------------------------------------------------------
\* The order of Stop: the context and stopCh first, then the connection, and the
\* return only once both goroutines are gone.  Only a bridge whose Start has
\* returned is stopped.
StopOrder ==
    /\ running \/ stop # "no" => pc \notin {"new", "tunnel", "failed"}
    /\ stop # "no" => cancelled /\ stopped
    /\ stop \in {"wait", "returned"} => conn = "closed"
    /\ stop = "returned" => pc = "over" /\ ~ticking /\ ~running

\* Somebody's conn.Write returns an error, which frees c.mu and shortens a queue.
SomeSendFails == \E w \in Writers : queue[w] # <<>> /\ mu \in {NoOne, w} /\ conn = "closed"

\* While Stop waits for its goroutines, each of them can go on or waits for c.mu, and
\* then some writer's failing Write is about to free it: Stop, the session goroutine,
\* the ticker and the holder of c.mu never all wait for each other.
StopIsNotBlocked ==
    stop = "wait" =>
        /\ pc # "over" =>
              pc \in {"await", "read"} \/ (pc \in {"auth", "loop"} /\ SessionIdle) \/ SomeSendFails
        /\ ticking => queue[Ticker] = <<>> \/ SomeSendFails

\* Once Stop waits for the goroutines nothing reaches the BMC any more, although
\* requests may still hold the bridge; once it has returned no frame is assembled
\* or shown either, and the bridge does not start again.
StopIsFinal ==
    [][/\ stop \in {"wait", "returned"} => UNCHANGED <<expect, torn, paused, conn>>
       /\ stop = "returned" => UNCHANGED <<bridgeVars, videoVars>>]_vars

\* Every step keeps the order of Stop.
LEMMA StopOrderStep ==
    ASSUME TypeOK, NotStarted, StopOrder, [Next]_vars
    PROVE  StopOrder'
<1> USE DEF NotStarted, StopOrder, bridgeVars, SessionEnds
<1>1. ASSUME Connect \/ singlePortHandshake PROVE StopOrder'
  BY <1>1 DEF Connect, singlePortHandshake
<1>2. ASSUME readLoop PROVE StopOrder'
  BY <1>2 DEF readLoop
<1>3. ASSUME Read PROVE StopOrder'
  <2>1. /\ pc \in {"await", "read"} /\ pc' \in {"auth", "loop", "over"}
        /\ cancelled' = cancelled \/ cancelled' = TRUE
        /\ UNCHANGED <<running, ticking, stopped, stop, conn>>
    BY <1>3 DEF Read, RunSession, ReadValidateRsp, ReadGetActiveClients, ReadOther,
                ReadStopSession, ReadFails, NextFragment, FirstFragment, handleVideoFragment
  <2> QED BY <2>1
<1>4. ASSUME TickerEnds PROVE StopOrder'
  BY <1>4 DEF TickerEnds
<1>5. ASSUME Stop \/ StopStep PROVE StopOrder'
  BY <1>5 DEF Stop, StopStep, Disconnect, CloseConn, StopReturn
<1>6. ASSUME BMCStalls \/ BMCGone PROVE StopOrder'
  BY <1>6 DEF BMCStalls, BMCGone
<1>7. ASSUME NEW r \in Requests, Command(r) PROVE StopOrder'
  <2>1. UNCHANGED bridgeVars /\ (UNCHANGED conn \/ conn \in {"open", "stalled"})
    BY <1>7 DEF Command, KVMPowerControl, KVMDisplayLock, KVMResetVideo, KVMMouseMode,
                KVMKeyboardLayout, KVMIPMICommand, ViewerInput, Request
  <2> QED BY <2>1
<1>8. ASSUME NEW w \in Writers, Send(w) PROVE StopOrder'
  <2>1. /\ UNCHANGED <<running, ticking, stopped, stop, conn>>
        /\ UNCHANGED <<pc, cancelled>> \/ (pc = "auth" /\ SessionEnds)
    BY <1>8 DEF Send, SendHeader, SendPayload, SendBlocks, SendFails
  <2> QED BY <2>1
<1>9. ASSUME Tick \/ UNCHANGED vars PROVE StopOrder'
  BY <1>9 DEF Tick, vars
<1> QED BY <1>1, <1>2, <1>3, <1>4, <1>5, <1>6, <1>7, <1>8, <1>9 DEF Next

\* StopOrder in every reachable state.
LEMMA StopOrderInvariant == Spec => []StopOrder
<1>1. Init => StopOrder
  BY Zenon DEF Init, StopOrder
<1>2. IInv /\ StopOrder /\ [Next]_vars => StopOrder'
  BY IInvImplies, StopOrderStep DEF IInv
<1> QED BY <1>1, <1>2, IInvInvariant, PTL DEF Spec

\* StopIsNotBlocked: the wait of Bridge.Stop for its goroutines, which write under
\* c.mu and read a connection that Stop closes, is no deadlock.
THEOREM StopIsNotBlockedHolds == Spec => []StopIsNotBlocked
<1>1. IInv /\ StopOrder => StopIsNotBlocked
  <2> SUFFICES ASSUME IInv, StopOrder, stop = "wait"
               PROVE  /\ \/ pc \in {"over", "await", "read"}
                         \/ pc \in {"auth", "loop"} /\ SessionIdle
                         \/ SomeSendFails
                      /\ queue[Ticker] = <<>> \/ SomeSendFails
    BY DEF StopIsNotBlocked
  <2>1. TypeOK /\ conn = "closed" /\ pc \notin {"new", "tunnel", "failed"}
    BY IInvImplies DEF StopOrder
  <2>2. ASSUME NEW w \in Writers, queue[w] # <<>> PROVE SomeSendFails
    <3>1. CASE mu = NoOne
      BY <2>1, <2>2, <3>1 DEF SomeSendFails
    <3>2. CASE mu # NoOne
      BY <2>1, <3>2 DEF SomeSendFails, TypeOK
    <3> QED BY <3>1, <3>2
  <2>3. Session \in Writers /\ Ticker \in Writers
    BY DEF Writers
  <2> QED BY <2>1, <2>2, <2>3 DEF TypeOK, SessionIdle
<1> QED BY <1>1, IInvInvariant, StopOrderInvariant, PTL

\* StopIsFinal: what Stop has closed stays silent, whatever requests, the ticker and
\* the session goroutine still try.
THEOREM StopIsFinalHolds == Spec => StopIsFinal
<1> DEFINE Final ==
      /\ stop \in {"wait", "returned"} => UNCHANGED <<expect, torn, paused, conn>>
      /\ stop = "returned" => UNCHANGED <<bridgeVars, videoVars>>
<1>1. IInv /\ StopOrder /\ [Next]_vars => [Final]_vars
  <2> SUFFICES ASSUME IInv, StopOrder, Next, stop \in {"wait", "returned"}
               PROVE  Final
    BY DEF vars, bridgeVars, videoVars
  <2>1. /\ conn = "closed" /\ pc \notin {"new", "tunnel", "failed"}
        /\ stop = "returned" => pc = "over" /\ ~ticking /\ ~running
    BY DEF StopOrder
  <2> USE <2>1 DEF bridgeVars, videoVars, sendVars, SessionEnds
  <2>2. ASSUME Connect \/ singlePortHandshake PROVE Final
    BY <2>2 DEF Connect, singlePortHandshake
  <2>3. ASSUME readLoop PROVE Final
    BY <2>3 DEF readLoop
  <2>4. ASSUME Read PROVE Final
    BY <2>4 DEF Read, RunSession, ReadValidateRsp, ReadGetActiveClients, ReadOther,
                ReadStopSession, ReadFails, NextFragment, FirstFragment, handleVideoFragment
  <2>5. ASSUME Tick \/ TickerEnds PROVE Final
    BY <2>5 DEF Tick, TickerEnds
  <2>6. ASSUME Stop \/ StopStep PROVE Final
    BY <2>6 DEF Stop, StopStep, Disconnect, CloseConn, StopReturn
  <2>7. ASSUME BMCStalls \/ BMCGone PROVE Final
    BY <2>7 DEF BMCStalls, BMCGone
  <2>8. ASSUME NEW r \in Requests, Command(r) PROVE Final
    BY <2>8 DEF Command, KVMPowerControl, KVMDisplayLock, KVMResetVideo, KVMMouseMode,
                KVMKeyboardLayout, KVMIPMICommand, ViewerInput, Request
  <2>9. ASSUME NEW w \in Writers, Send(w) PROVE Final
    BY <2>9 DEF Send, SendHeader, SendPayload, SendBlocks, SendFails
  <2> QED BY <2>2, <2>3, <2>4, <2>5, <2>6, <2>7, <2>8, <2>9 DEF Next
<1> QED BY <1>1, IInvInvariant, StopOrderInvariant, PTL DEF Spec, StopIsFinal
=============================================================================
