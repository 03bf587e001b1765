------------------------ MODULE CameraProtocolProofs ------------------------
(***************************************************************************)
(* The camera is never opened twice, for every number of sessions and      *)
(* every length of the queues.  The argument: sessions are numbered, only  *)
(* the newest one can own the device, a start request is queued only while *)
(* the device is free, and an end of the newest session is announced only  *)
(* when nothing of it is left in the worker or in its queue.               *)
(***************************************************************************)
EXTENDS CameraProtocol, SubsequencesProofs, TLAPS

\* Every message belongs to a session that was started, and the controller
\* knows of no session but the newest.
Numbered ==
    /\ \A request \in ToSet(cameraQueue) : request.session \in 1..sequence
    /\ \A event \in ToSet(guiQueue) : event.session \in 1..sequence
    /\ LastSession \in {0, sequence}

\* The fields of the controller agree with one another.
Views ==
    /\ session.active = 0 <=> session.state \in {"Idle", "Error"}
    /\ releasePending <=> timedOut # 0
    /\ releasePending => session.state = "Error"

\* The worker works for the newest session, if it works at all.
Ownership ==
    /\ activeSession # 0 => activeSession = LastSession
    /\ cameraPc \in {"opening", "reading"} => activeSession # 0
    /\ cameraPc = "releasing" =>
          /\ activeSession = 0
          /\ LastSession # 0
          /\ reply \in {CameraEvent("stopped", LastSession),
                        CameraEvent("cameraFailed", LastSession)}
    /\ cameraPc = "ended" => activeSession = 0 /\ cameraQueue = <<>>

\* A start request waits only while the device is free.
StartsWait ==
    \A request \in ToSet(cameraQueue) :
        request.kind = "start" => request.session = LastSession /\ ~DeviceHeld

\* What is queued before a start request belongs to older sessions.
InOrder ==
    \A i, j \in 1..Len(cameraQueue) :
        i < j /\ cameraQueue[j].kind = "start"
            => cameraQueue[i].session < cameraQueue[j].session

IInv == /\ ProtocolTypeOK
        /\ Numbered
        /\ Views
        /\ Ownership
        /\ StartsWait
        /\ InOrder
        /\ AnnouncedMeansReleased

-----------------------------------------------------------------------------
(* What taking, sending and delivering a message does to the queues. *)

\* The worker takes a request: a start request still queued is for a newer
\* session than the one taken.
LEMMA TakeFacts ==
  ASSUME IInv, NEW kind, NextRequest(kind)
  PROVE  /\ cameraQueue' \in Seq(RequestType)
         /\ ToSet(cameraQueue') \subseteq ToSet(cameraQueue)
         /\ Head(cameraQueue) \in ToSet(cameraQueue)
         /\ Head(cameraQueue) \in RequestType
         /\ InOrder'
         /\ \A request \in ToSet(cameraQueue') :
                request.kind = "start" => Requested < request.session
<1>1. cameraQueue \in Seq(RequestType) /\ cameraQueue # <<>> /\ cameraQueue' = Tail(cameraQueue)
  BY DEF IInv, ProtocolTypeOK, NextRequest
<1>2. /\ cameraQueue' \in Seq(RequestType)
      /\ ToSet(cameraQueue') \subseteq ToSet(cameraQueue)
      /\ Head(cameraQueue) \in ToSet(cameraQueue)
      /\ Head(cameraQueue) \in RequestType
  BY <1>1, ToSetTail
<1>3. \A i \in 1..Len(cameraQueue') :
         i + 1 \in 1..Len(cameraQueue) /\ cameraQueue'[i] = cameraQueue[i + 1]
  BY <1>1
<1>4. InOrder'
  BY <1>3, <1>1, <1>2 DEF IInv, InOrder
<1>5. ASSUME NEW request \in ToSet(cameraQueue'), request.kind = "start"
      PROVE  Requested < request.session
  <2>1. DOMAIN cameraQueue' = 1..Len(cameraQueue')
    BY <1>2
  <2>2. PICK i \in 1..Len(cameraQueue') : cameraQueue'[i] = request
    BY <2>1 DEF ToSet
  <2>3. i + 1 \in 1..Len(cameraQueue) /\ cameraQueue[i + 1] = request
    BY <1>3, <2>2
  <2>4. 1 \in 1..Len(cameraQueue) /\ 1 < i + 1 /\ cameraQueue[1] = Head(cameraQueue)
    BY <1>1, <2>3
  <2> QED BY <1>5, <2>3, <2>4 DEF IInv, InOrder, Requested
<1> QED BY <1>2, <1>4, <1>5

\* The controller sends a request for the newest session or starts a newer one.
LEMMA SendFacts ==
  ASSUME IInv, NEW request \in RequestType, Send(request),
         request.kind = "start" => request.session > sequence
  PROVE  /\ cameraQueue' \in Seq(RequestType)
         /\ ToSet(cameraQueue') \subseteq ToSet(cameraQueue) \cup {request}
         /\ InOrder'
         /\ cameraPc = "ended" => cameraQueue' = cameraQueue
<1>1. cameraQueue \in Seq(RequestType)
  BY DEF IInv, ProtocolTypeOK
<1>2. CASE cameraPc = "ended"
  BY <1>1, <1>2 DEF Send, IInv, InOrder
<1>3. CASE cameraPc # "ended"
  <2>1. cameraQueue' = Append(cameraQueue, request)
    BY <1>3 DEF Send
  <2>2. /\ cameraQueue' \in Seq(RequestType)
        /\ ToSet(cameraQueue') = ToSet(cameraQueue) \cup {request}
    BY <1>1, <2>1, ToSetAppend
  <2>3. /\ Len(cameraQueue') = Len(cameraQueue) + 1 /\ Len(cameraQueue) \in Nat
        /\ \A i \in 1..Len(cameraQueue) : cameraQueue'[i] = cameraQueue[i]
        /\ cameraQueue'[Len(cameraQueue) + 1] = request
    BY <1>1, <2>1
  <2>4. \A i \in 1..Len(cameraQueue) : cameraQueue[i] \in ToSet(cameraQueue)
    BY <1>1 DEF ToSet
  <2>5. \A i \in 1..Len(cameraQueue) : cameraQueue[i].session \in 1..sequence
    BY <2>4 DEF IInv, Numbered
  <2>6. ASSUME NEW i \in 1..Len(cameraQueue'), NEW j \in 1..Len(cameraQueue'),
               i < j, cameraQueue'[j].kind = "start"
        PROVE  cameraQueue'[i].session < cameraQueue'[j].session
    <3>1. CASE j = Len(cameraQueue) + 1
      <4>1. i \in 1..Len(cameraQueue) /\ cameraQueue'[j] = request
        BY <2>3, <2>6, <3>1
      <4>2. cameraQueue'[i].session \in 1..sequence /\ request.session > sequence
        BY <2>3, <2>5, <2>6, <4>1
      <4>3. sequence \in Nat /\ request.session \in Nat
        BY DEF IInv, ProtocolTypeOK, RequestType
      <4> QED BY <4>1, <4>2, <4>3
    <3>2. CASE j # Len(cameraQueue) + 1
      <4>1. i \in 1..Len(cameraQueue) /\ j \in 1..Len(cameraQueue)
        BY <2>3, <2>6, <3>2
      <4>2. cameraQueue'[i] = cameraQueue[i] /\ cameraQueue'[j] = cameraQueue[j]
        BY <2>3, <4>1
      <4> QED BY <2>6, <4>1, <4>2 DEF IInv, InOrder
    <3> QED BY <3>1, <3>2
  <2> QED BY <1>3, <2>2, <2>6 DEF InOrder
<1> QED BY <1>2, <1>3

\* The GUI thread takes an event.
LEMMA DeliverFacts ==
  ASSUME IInv, NEW kind, Handle(CameraEvent(kind, Sender))
  PROVE  /\ guiQueue' \in Seq(CameraEventType)
         /\ ToSet(guiQueue') \subseteq ToSet(guiQueue)
         /\ CameraEvent(kind, Sender) \in ToSet(guiQueue)
         /\ Sender \in 1..sequence
<1>1. /\ guiQueue \in Seq(CameraEventType) /\ guiQueue # <<>>
      /\ guiQueue' = Tail(guiQueue) /\ CameraEvent(kind, Sender) = Head(guiQueue)
  BY DEF IInv, ProtocolTypeOK, Handle, Deliver
<1>2. /\ guiQueue' \in Seq(CameraEventType)
      /\ ToSet(guiQueue') \subseteq ToSet(guiQueue)
      /\ Head(guiQueue) \in ToSet(guiQueue)
  BY <1>1, ToSetTail
<1>3. Sender \in 1..sequence
  BY <1>2 DEF IInv, Numbered, Sender
<1> QED BY <1>1, <1>2, <1>3

-----------------------------------------------------------------------------
(* The invariant is inductive. *)

\* It holds before anything was started.
LEMMA InitIInv == ProtocolInit => IInv
<1> SUFFICES ASSUME ProtocolInit PROVE IInv
  OBVIOUS
<1> USE DEF ProtocolInit, CameraWorkerInit, ControllerInit, IdleSession, SessionState
<1>1. ProtocolTypeOK
  <2>1. guiQueue \in Seq(CameraEventType) /\ cameraQueue \in Seq(RequestType)
    OBVIOUS
  <2>2. session \in [state : CameraStates, active : Nat]
    BY DEF CameraStates
  <2> QED BY <2>1, <2>2 DEF ProtocolTypeOK, GuiPcs
<1>2. ToSet(cameraQueue) = {} /\ ToSet(guiQueue) = {}
  BY ToSetEmpty
<1>3. Numbered /\ StartsWait
  BY <1>2 DEF Numbered, LastSession, StartsWait
<1>4. Views /\ Ownership
  BY DEF Views, Ownership
<1>5. InOrder
  BY DEF InOrder
<1>6. AnnouncedMeansReleased
  BY <1>2 DEF AnnouncedMeansReleased, Announced
<1> QED BY <1>1, <1>3, <1>4, <1>5, <1>6 DEF IInv

\* The worker's steps leave the controller alone.
ControllerRests == UNCHANGED <<controllerVars, guiPc>>

\* start(): the request names the newest session, and the device is free.
LEMMA StartKeepsIInv == ASSUME IInv, Start, ControllerRests PROVE IInv'
<1> USE DEF ControllerRests, controllerVars
<1>1. NextRequest("start")
  BY DEF Start
<1>2. /\ cameraQueue' \in Seq(RequestType)
      /\ ToSet(cameraQueue') \subseteq ToSet(cameraQueue)
      /\ Head(cameraQueue) \in ToSet(cameraQueue)
      /\ Head(cameraQueue) \in RequestType
      /\ InOrder'
      /\ \A request \in ToSet(cameraQueue') :
             request.kind = "start" => Requested < request.session
  BY <1>1, TakeFacts
<1>3. Requested = LastSession /\ ~DeviceHeld /\ cameraPc = "idle"
  BY <1>1, <1>2 DEF NextRequest, Requested, IInv, StartsWait
<1>4. Requested \in 1..sequence
  BY <1>2 DEF IInv, Numbered, Requested
<1>5. /\ activeSession = 0 /\ activeSession' = Requested
      /\ firstFrameSeen' = FALSE /\ cameraPc' = "opening"
      /\ UNCHANGED <<guiQueue, timerArmed, reply>>
  BY <1>3 DEF Start, DeviceHeld
<1>6. LastSession' = LastSession /\ sequence' = sequence /\ sequence \in Nat
  BY DEF LastSession, IInv, ProtocolTypeOK
<1>7. ProtocolTypeOK'
  <2>1. activeSession' \in Nat
    BY <1>4, <1>5, <1>6
  <2> QED BY <2>1, <1>2, <1>5, <1>6 DEF IInv, ProtocolTypeOK
<1>8. Numbered'
  BY <1>2, <1>5, <1>6 DEF IInv, Numbered
<1>9. Views' /\ Ownership'
  BY <1>3, <1>4, <1>5, <1>6 DEF IInv, Views, Ownership
<1>10. ~StartQueued'
  BY <1>2, <1>3, <1>4 DEF StartQueued, IInv, StartsWait
<1>11. StartsWait'
  BY <1>10 DEF StartQueued, StartsWait
<1>12. AnnouncedMeansReleased'
  <2>1. StartQueued
    BY <1>1, <1>2 DEF StartQueued, NextRequest
  <2> QED BY <2>1, <1>3, <1>4, <1>5, <1>6 DEF IInv, AnnouncedMeansReleased, Announced
<1> QED BY <1>2, <1>7, <1>8, <1>9, <1>11, <1>12 DEF IInv

\* stop() of a session the worker does not run.
LEMMA StopIgnoredKeepsIInv == ASSUME IInv, StopIgnored, ControllerRests PROVE IInv'
<1> USE DEF ControllerRests, controllerVars
<1>1. NextRequest("stop") /\ cameraPc = "idle"
  BY DEF StopIgnored, NextRequest
<1>2. /\ cameraQueue' \in Seq(RequestType)
      /\ ToSet(cameraQueue') \subseteq ToSet(cameraQueue)
      /\ Head(cameraQueue) \in ToSet(cameraQueue)
      /\ Head(cameraQueue) \in RequestType
      /\ InOrder'
      /\ \A request \in ToSet(cameraQueue') :
             request.kind = "start" => Requested < request.session
  BY <1>1, TakeFacts
<1>3. Requested \in 1..sequence /\ sequence \in Nat
  BY <1>2 DEF IInv, Numbered, Requested, ProtocolTypeOK
<1>4. /\ UNCHANGED <<cameraPc, activeSession, firstFrameSeen, timerArmed, reply>>
      /\ activeSession = 0 \/ Requested # activeSession
  BY DEF StopIgnored
<1>5. /\ guiQueue' \in Seq(CameraEventType)
      /\ ToSet(guiQueue') = ToSet(guiQueue) \cup {CameraEvent("stopped", Requested)}
  <2>1. CameraEvent("stopped", Requested) \in CameraEventType
    BY <1>3 DEF CameraEvent, CameraEventType
  <2>2. guiQueue \in Seq(CameraEventType)
    BY DEF IInv, ProtocolTypeOK
  <2>3. guiQueue' = guiQueue \o <<CameraEvent("stopped", Requested)>>
    BY DEF StopIgnored, Post
  <2> QED BY <2>1, <2>2, <2>3, ToSetPost
<1>6. LastSession' = LastSession /\ DeviceHeld' = DeviceHeld
  BY <1>4 DEF LastSession, DeviceHeld
<1>7. ProtocolTypeOK'
  BY <1>2, <1>4, <1>5 DEF IInv, ProtocolTypeOK
<1>8. Numbered'
  BY <1>2, <1>3, <1>5, <1>6 DEF IInv, Numbered, CameraEvent
<1>9. Views' /\ Ownership'
  BY <1>1, <1>4, <1>6 DEF IInv, Views, Ownership
<1>10. StartsWait'
  BY <1>2, <1>6 DEF IInv, StartsWait
<1>11. AnnouncedMeansReleased'
  <2>1. StartQueued' => StartQueued
    BY <1>2 DEF StartQueued
  <2>2. CASE Requested # LastSession
    <3>1. \A event \in {"stopped", "cameraFailed"} :
             Announced(event, LastSession)' => Announced(event, LastSession)
      BY <2>2, <1>5, <1>6 DEF Announced, CameraEvent
    <3> QED BY <2>1, <3>1, <1>6 DEF IInv, AnnouncedMeansReleased
  <2>3. CASE Requested = LastSession
    <3>1. ~DeviceHeld
      BY <1>1, <1>4, <2>3 DEF IInv, Ownership, DeviceHeld
    <3>2. ~StartQueued'
      BY <1>2, <1>3, <2>3 DEF StartQueued, IInv, StartsWait
    <3> QED BY <3>1, <3>2, <1>6 DEF AnnouncedMeansReleased
  <2> QED BY <2>2, <2>3
<1> QED BY <1>2, <1>7, <1>8, <1>9, <1>10, <1>11 DEF IInv

\* A step that begins to release the device of the running session.
LEMMA ReleaseKeepsIInv ==
  ASSUME IInv, NEW event \in {"stopped", "cameraFailed"}, ReleaseThen(event),
         activeSession # 0, ControllerRests, UNCHANGED guiQueue,
         cameraQueue' \in Seq(RequestType),
         ToSet(cameraQueue') \subseteq ToSet(cameraQueue), InOrder'
  PROVE  IInv'
<1> USE DEF ControllerRests, controllerVars
<1>1. /\ cameraPc' = "releasing" /\ activeSession' = 0
      /\ firstFrameSeen' = FALSE /\ timerArmed' = FALSE
      /\ reply' = CameraEvent(event, activeSession)
  BY DEF ReleaseThen
<1>2. /\ LastSession' = LastSession /\ LastSession = activeSession
      /\ activeSession \in Nat /\ DeviceHeld
  BY DEF LastSession, IInv, Ownership, ProtocolTypeOK, DeviceHeld
<1>3. ProtocolTypeOK'
  <2>1. reply' \in CameraEventType
    BY <1>1, <1>2 DEF CameraEvent, CameraEventType
  <2> QED BY <1>1, <2>1 DEF IInv, ProtocolTypeOK
<1>4. Numbered'
  BY <1>2 DEF IInv, Numbered
<1>5. Views' /\ Ownership'
  BY <1>1, <1>2 DEF IInv, Views, Ownership
<1>6. ~StartQueued /\ ~StartQueued'
  BY <1>2 DEF StartQueued, IInv, StartsWait
<1>7. StartsWait'
  BY <1>6 DEF StartQueued, StartsWait
<1>8. AnnouncedMeansReleased'
  <2>1. \A e \in {"stopped", "cameraFailed"} : ~Announced(e, LastSession)
    BY <1>2 DEF IInv, AnnouncedMeansReleased
  <2> QED BY <2>1, <1>2 DEF AnnouncedMeansReleased, Announced
<1> QED BY <1>3, <1>4, <1>5, <1>7, <1>8 DEF IInv

\* stop() of the running session, and a failed open or read.
LEMMA EndKeepsIInv ==
  ASSUME IInv, Stop \/ OpenFails \/ ReadFails, ControllerRests PROVE IInv'
<1>1. CASE Stop
  <2>1. NextRequest("stop")
    BY <1>1 DEF Stop
  <2>2. /\ cameraQueue' \in Seq(RequestType)
        /\ ToSet(cameraQueue') \subseteq ToSet(cameraQueue) /\ InOrder'
    BY <2>1, TakeFacts
  <2>3. activeSession # 0 /\ ReleaseThen("stopped") /\ UNCHANGED guiQueue
    BY <1>1 DEF Stop
  <2> QED BY <2>2, <2>3, ReleaseKeepsIInv
<1>2. CASE OpenFails \/ ReadFails
  <2>1. /\ ReleaseThen("cameraFailed") /\ UNCHANGED <<guiQueue, cameraQueue>>
        /\ cameraPc \in {"opening", "reading"}
    BY <1>2 DEF OpenFails, ReadFails
  <2>2. activeSession # 0
    BY <2>1 DEF IInv, Ownership
  <2>3. /\ cameraQueue' \in Seq(RequestType)
        /\ ToSet(cameraQueue') \subseteq ToSet(cameraQueue) /\ InOrder'
    BY <2>1 DEF IInv, ProtocolTypeOK, InOrder
  <2> QED BY <2>1, <2>2, <2>3, ReleaseKeepsIInv
<1> QED BY <1>1, <1>2

\* The steps that keep the device open: an open that succeeds, and reads.
LEMMA CaptureKeepsIInv ==
  ASSUME IInv, OpenSucceeds \/ CaptureNext \/ ReadSucceeds, ControllerRests
  PROVE  IInv'
<1> USE DEF ControllerRests, controllerVars
<1>1. /\ UNCHANGED <<cameraQueue, activeSession, reply>>
      /\ cameraPc' \in {"idle", "reading"} /\ activeSession # 0
      /\ timerArmed' \in BOOLEAN /\ firstFrameSeen' \in BOOLEAN
      /\ cameraPc # "releasing"
  BY DEF OpenSucceeds, CaptureNext, ReadSucceeds, IInv, Ownership, ProtocolTypeOK
<1>2. /\ LastSession' = LastSession /\ LastSession = activeSession
      /\ DeviceHeld /\ DeviceHeld' /\ sequence \in Nat /\ activeSession \in 1..sequence
  BY <1>1 DEF LastSession, DeviceHeld, IInv, Ownership, Numbered, ProtocolTypeOK
<1>3. /\ guiQueue' \in Seq(CameraEventType)
      /\ ToSet(guiQueue') \subseteq ToSet(guiQueue) \cup
            {CameraEvent("started", activeSession), CameraEvent("frame", activeSession)}
  <2>1. /\ CameraEvent("started", activeSession) \in CameraEventType
        /\ CameraEvent("frame", activeSession) \in CameraEventType
    BY <1>2 DEF CameraEvent, CameraEventType
  <2>2. guiQueue \in Seq(CameraEventType)
    BY DEF IInv, ProtocolTypeOK
  <2>3. \A first, frame \in CameraEventType :
           /\ guiQueue \o <<frame>> \in Seq(CameraEventType)
           /\ ToSet(guiQueue \o <<frame>>) = ToSet(guiQueue) \cup {frame}
           /\ guiQueue \o <<first, frame>> \in Seq(CameraEventType)
           /\ ToSet(guiQueue \o <<first, frame>>) = ToSet(guiQueue) \cup {first, frame}
    BY <2>2, ToSetPost, ToSetPostTwo
  <2>4. \/ guiQueue' = guiQueue
        \/ guiQueue' = guiQueue \o <<CameraEvent("frame", activeSession)>>
        \/ guiQueue' = guiQueue \o <<CameraEvent("started", activeSession),
                                     CameraEvent("frame", activeSession)>>
    BY DEF OpenSucceeds, CaptureNext, ReadSucceeds, Post
  <2>5. CASE guiQueue' = guiQueue
    BY <2>2, <2>5
  <2>6. CASE guiQueue' = guiQueue \o <<CameraEvent("frame", activeSession)>>
    <3>1. /\ guiQueue' \in Seq(CameraEventType)
          /\ ToSet(guiQueue') = ToSet(guiQueue) \cup {CameraEvent("frame", activeSession)}
      BY <2>1, <2>3, <2>6, Zenon
    <3> QED BY <3>1
  <2>7. CASE guiQueue' = guiQueue \o <<CameraEvent("started", activeSession),
                                       CameraEvent("frame", activeSession)>>
    <3>1. /\ guiQueue' \in Seq(CameraEventType)
          /\ ToSet(guiQueue') = ToSet(guiQueue) \cup {CameraEvent("started", activeSession),
                                                      CameraEvent("frame", activeSession)}
      BY <2>1, <2>3, <2>7, Zenon
    <3> QED BY <3>1
  <2> QED BY <2>4, <2>5, <2>6, <2>7
<1>4. ProtocolTypeOK'
  BY <1>1, <1>3 DEF IInv, ProtocolTypeOK
<1>5. Numbered'
  BY <1>1, <1>2, <1>3 DEF IInv, Numbered, CameraEvent
<1>6. Views' /\ Ownership'
  BY <1>1, <1>2 DEF IInv, Views, Ownership
<1>7. StartsWait' /\ InOrder'
  BY <1>1, <1>2 DEF IInv, StartsWait, InOrder
<1>8. AnnouncedMeansReleased'
  <2>1. \A e \in {"stopped", "cameraFailed"} : ~Announced(e, LastSession)
    BY <1>2 DEF IInv, AnnouncedMeansReleased
  <2>2. \A e \in {"stopped", "cameraFailed"} : ~Announced(e, LastSession)'
    BY <2>1, <1>2, <1>3 DEF Announced, CameraEvent
  <2> QED BY <2>2 DEF AnnouncedMeansReleased
<1> QED BY <1>4, <1>5, <1>6, <1>7, <1>8 DEF IInv

\* The native release returned: only now the end of the session is announced.
LEMMA ReleasedKeepsIInv == ASSUME IInv, Released, ControllerRests PROVE IInv'
<1> USE DEF ControllerRests, controllerVars
<1>1. /\ UNCHANGED <<cameraQueue, activeSession, firstFrameSeen, timerArmed>>
      /\ cameraPc = "releasing" /\ cameraPc' = "idle" /\ reply' = NoReply
      /\ guiQueue' = guiQueue \o <<reply>>
  BY DEF Released, Post
<1>2. /\ LastSession' = LastSession /\ LastSession # 0 /\ activeSession = 0
      /\ DeviceHeld /\ ~DeviceHeld'
      /\ sequence \in Nat /\ LastSession \in 1..sequence
      /\ reply \in {CameraEvent("stopped", LastSession), CameraEvent("cameraFailed", LastSession)}
  BY <1>1 DEF LastSession, DeviceHeld, IInv, Ownership, Numbered, ProtocolTypeOK
<1>3. /\ guiQueue' \in Seq(CameraEventType)
      /\ ToSet(guiQueue') = ToSet(guiQueue) \cup {reply}
  <2>1. reply \in CameraEventType
    BY <1>2 DEF CameraEvent, CameraEventType
  <2>2. guiQueue \in Seq(CameraEventType)
    BY DEF IInv, ProtocolTypeOK
  <2> QED BY <1>1, <2>1, <2>2, ToSetPost
<1>4. ProtocolTypeOK'
  BY <1>1, <1>3 DEF IInv, ProtocolTypeOK
<1>5. Numbered'
  BY <1>1, <1>2, <1>3 DEF IInv, Numbered, CameraEvent
<1>6. Views' /\ Ownership'
  BY <1>1, <1>2 DEF IInv, Views, Ownership
<1>7. ~StartQueued /\ ~StartQueued'
  BY <1>1, <1>2 DEF StartQueued, IInv, StartsWait
<1>8. StartsWait' /\ InOrder'
  BY <1>1, <1>7 DEF StartQueued, StartsWait, IInv, InOrder
<1>9. AnnouncedMeansReleased'
  BY <1>2, <1>7 DEF AnnouncedMeansReleased
<1> QED BY <1>4, <1>5, <1>6, <1>8, <1>9 DEF IInv

-----------------------------------------------------------------------------
(* The steps of the GUI thread, by what they do to the newest session. *)

\* The part of the invariant that relates the controller to the worker.
Relation == Numbered /\ Ownership /\ StartsWait /\ InOrder /\ AnnouncedMeansReleased

\* The GUI thread only takes events from its queue.
OnlyTakes == guiQueue' \in Seq(CameraEventType) /\ ToSet(guiQueue') \subseteq ToSet(guiQueue)

\* The session stays the newest one; at most a request to stop it is sent.
LEMMA SameSession ==
  ASSUME IInv, OnlyTakes, UNCHANGED <<workerRest, sequence>>, LastSession' = LastSession,
         \/ UNCHANGED cameraQueue
         \/ LastSession # 0 /\ Send(Request("stop", LastSession))
  PROVE  Relation' /\ cameraQueue' \in Seq(RequestType)
<1> USE DEF workerRest, OnlyTakes
<1>1. sequence \in Nat /\ cameraQueue \in Seq(RequestType) /\ LastSession \in 0..sequence
  BY DEF IInv, ProtocolTypeOK, Numbered
<1>2. /\ cameraQueue' \in Seq(RequestType)
      /\ \A request \in ToSet(cameraQueue') :
             \/ request \in ToSet(cameraQueue)
             \/ LastSession # 0 /\ request = Request("stop", LastSession)
      /\ InOrder'
      /\ cameraPc = "ended" => cameraQueue' = cameraQueue
  <2>1. CASE UNCHANGED cameraQueue
    BY <1>1, <2>1 DEF IInv, InOrder
  <2>2. CASE LastSession # 0 /\ Send(Request("stop", LastSession))
    <3>1. Request("stop", LastSession) \in RequestType
      BY <1>1 DEF Request, RequestType
    <3>2. Request("stop", LastSession).kind # "start"
      BY DEF Request
    <3> QED BY <2>2, <3>1, <3>2, SendFacts
  <2> QED BY <2>1, <2>2
<1>3. Numbered'
  BY <1>1, <1>2 DEF IInv, Numbered, Request
<1>4. Ownership'
  BY <1>2 DEF IInv, Ownership
<1>5. StartsWait'
  BY <1>2 DEF IInv, StartsWait, DeviceHeld, Request
<1>6. AnnouncedMeansReleased'
  <2>1. StartQueued' => StartQueued
    BY <1>2 DEF StartQueued, Request
  <2>2. \A e \in {"stopped", "cameraFailed"} :
           Announced(e, LastSession)' => Announced(e, LastSession)
    BY DEF Announced
  <2> QED BY <2>1, <2>2 DEF IInv, AnnouncedMeansReleased, DeviceHeld
<1> QED BY <1>2, <1>3, <1>4, <1>5, <1>6 DEF Relation

\* The controller forgets a session that left nothing behind in the worker.
LEMMA SessionEnds ==
  ASSUME IInv, OnlyTakes, UNCHANGED <<workerRest, sequence, cameraQueue>>,
         LastSession' = 0, ~DeviceHeld, ~StartQueued
  PROVE  Relation'
<1> USE DEF workerRest, OnlyTakes
<1>1. Numbered'
  BY DEF IInv, Numbered
<1>2. Ownership'
  BY DEF IInv, Ownership, DeviceHeld
<1>3. StartsWait' /\ InOrder'
  BY DEF IInv, StartsWait, StartQueued, InOrder
<1>4. AnnouncedMeansReleased'
  BY DEF AnnouncedMeansReleased
<1> QED BY <1>1, <1>2, <1>3, <1>4 DEF Relation

\* The controller starts a session while the worker has nothing to do.
LEMMA SessionStarts ==
  ASSUME IInv, OnlyTakes, UNCHANGED workerRest,
         sequence' = sequence + 1, LastSession' = sequence + 1,
         Send(Request("start", sequence + 1)), ~DeviceHeld, ~StartQueued
  PROVE  Relation' /\ cameraQueue' \in Seq(RequestType)
<1> USE DEF workerRest, OnlyTakes
<1>1. sequence \in Nat
  BY DEF IInv, ProtocolTypeOK
<1>2. /\ cameraQueue' \in Seq(RequestType)
      /\ \A request \in ToSet(cameraQueue') :
            request \in ToSet(cameraQueue) \/ request = Request("start", sequence + 1)
      /\ InOrder'
      /\ cameraPc = "ended" => cameraQueue' = cameraQueue
  <2>1. Request("start", sequence + 1) \in RequestType
    BY <1>1 DEF Request, RequestType
  <2>2. Request("start", sequence + 1).session > sequence
    BY <1>1 DEF Request
  <2> QED BY <2>1, <2>2, SendFacts
<1>3. Numbered'
  BY <1>1, <1>2 DEF IInv, Numbered, Request
<1>4. Ownership'
  BY <1>2 DEF IInv, Ownership, DeviceHeld
<1>5. StartsWait'
  BY <1>2 DEF StartQueued, StartsWait, DeviceHeld, Request
<1>6. AnnouncedMeansReleased'
  <2>1. \A e \in {"stopped", "cameraFailed"} : ~Announced(e, sequence + 1)
    BY <1>1 DEF Announced, CameraEvent, IInv, Numbered
  <2>2. \A e \in {"stopped", "cameraFailed"} : ~Announced(e, LastSession)'
    BY <2>1 DEF Announced
  <2> QED BY <2>2 DEF AnnouncedMeansReleased
<1> QED BY <1>2, <1>3, <1>4, <1>5, <1>6 DEF Relation

-----------------------------------------------------------------------------
(* The actions of the GUI thread. *)

\* What an action must establish besides the relation to the worker.
LEMMA Conjuncts == ASSUME Relation', ProtocolTypeOK', Views' PROVE IInv'
BY DEF Relation, IInv

\* Where the controller would accept a start, nothing of a session is left.
LEMMA StartableIsFree ==
  ASSUME IInv, LastSession = 0 PROVE ~DeviceHeld /\ ~StartQueued
<1>1. ~DeviceHeld
  BY DEF IInv, Ownership, DeviceHeld
<1>2. ~StartQueued
  BY DEF IInv, Numbered, StartsWait, StartQueued, ProtocolTypeOK
<1> QED BY <1>1, <1>2

\* An announced end of the newest session means the same.
LEMMA AnnouncedIsFree ==
  ASSUME IInv, NEW kind \in {"stopped", "cameraFailed"}, LastSession # 0,
         CameraEvent(kind, LastSession) \in ToSet(guiQueue)
  PROVE  ~DeviceHeld /\ ~StartQueued
BY DEF IInv, AnnouncedMeansReleased, Announced

\* startCamera().
LEMMA StartCameraKeepsIInv == ASSUME IInv, StartCamera PROVE IInv'
<1>1. /\ BeginCameraStart(session, watchdogs) /\ ~releasePending
      /\ UNCHANGED <<guiQueue, workerRest, releasePending, timedOut, guiPc>>
  BY DEF StartCamera
<1>2. /\ session.state \in {"Idle", "Error"}
      /\ sequence' = sequence + 1 /\ session' = SessionState("Opening", sequence + 1)
      /\ watchdogs' = watchdogs \cup {"open"}
      /\ Send(Request("start", sequence + 1)) /\ sequence \in Nat
  BY <1>1 DEF BeginCameraStart, CanBeginOpening, BeginOpening, IInv, ProtocolTypeOK
<1>3. LastSession = 0 /\ LastSession' = sequence + 1 /\ timedOut = 0
  BY <1>1, <1>2 DEF LastSession, SessionState, IInv, Views
<1>4. ~DeviceHeld /\ ~StartQueued
  BY <1>3, StartableIsFree
<1>5. OnlyTakes
  BY <1>1 DEF OnlyTakes, IInv, ProtocolTypeOK
<1>6. Relation' /\ cameraQueue' \in Seq(RequestType)
  BY <1>1, <1>2, <1>3, <1>4, <1>5, SessionStarts
<1>7. session' \in [state : CameraStates, active : Nat]
  BY <1>2 DEF SessionState, CameraStates
<1>8. ProtocolTypeOK'
  BY <1>1, <1>2, <1>5, <1>6, <1>7 DEF IInv, ProtocolTypeOK, OnlyTakes, workerRest
<1>9. Views'
  BY <1>1, <1>2, <1>3 DEF SessionState, IInv, Views
<1> QED BY <1>6, <1>8, <1>9, Conjuncts

\* beginCameraStop().
LEMMA StopCameraKeepsIInv == ASSUME IInv, StopCamera PROVE IInv'
<1>1. /\ session.state \in {"Opening", "Running"}
      /\ session' = SessionState("Stopping", session.active)
      /\ watchdogs' = {"stop"}
      /\ Send(Request("stop", session.active))
      /\ UNCHANGED <<guiQueue, workerRest, sequence, releasePending, timedOut, guiPc>>
  BY DEF StopCamera, BeginCameraStop, CanBeginStopping, BeginStopping
<1>2. session.active # 0 /\ session.active \in Nat /\ LastSession = session.active
  BY <1>1 DEF IInv, Views, LastSession, ProtocolTypeOK
<1>3. LastSession' = LastSession
  BY <1>1, <1>2 DEF LastSession, SessionState
<1>4. OnlyTakes
  BY <1>1 DEF OnlyTakes, IInv, ProtocolTypeOK
<1>5. Relation' /\ cameraQueue' \in Seq(RequestType)
  BY <1>1, <1>2, <1>3, <1>4, SameSession
<1>6. session' \in [state : CameraStates, active : Nat]
  BY <1>1, <1>2 DEF SessionState, CameraStates
<1>7. ProtocolTypeOK'
  BY <1>1, <1>4, <1>5, <1>6 DEF IInv, ProtocolTypeOK, OnlyTakes, workerRest
<1>8. Views'
  BY <1>1, <1>2 DEF SessionState, IInv, Views
<1> QED BY <1>5, <1>7, <1>8, Conjuncts

\* handleCameraWatchdogTimeout().
LEMMA TimeoutKeepsIInv == ASSUME IInv, NEW timer, Timeout(timer) PROVE IInv'
<1>1. /\ UNCHANGED <<guiQueue, workerRest, guiPc, sequence>> /\ TimeoutFires(timer)
      /\ OnlyTakes /\ session.active \in Nat /\ watchdogs \subseteq {"open", "stop"}
  BY DEF Timeout, TimeoutFires, OnlyTakes, IInv, ProtocolTypeOK
<1>2. CASE session.active = 0
  <2>1. /\ UNCHANGED <<session, releasePending, timedOut, cameraQueue>>
        /\ watchdogs' \subseteq watchdogs
    BY <1>1, <1>2 DEF TimeoutFires
  <2>2. Relation' /\ cameraQueue' \in Seq(RequestType)
    BY <1>1, <2>1, SameSession DEF LastSession
  <2>3. ProtocolTypeOK' /\ Views'
    BY <1>1, <2>1, <2>2 DEF IInv, ProtocolTypeOK, Views, OnlyTakes, workerRest
  <2> QED BY <2>2, <2>3, Conjuncts
<1>3. CASE session.active # 0
  <2>1. /\ session' = SessionState("Error", 0) /\ watchdogs' = {}
        /\ releasePending' = TRUE /\ timedOut' = session.active
        /\ Send(Request("stop", session.active))
    BY <1>1, <1>3 DEF TimeoutFires, Fail
  <2>2. LastSession = session.active /\ LastSession' = LastSession
    BY <1>3, <2>1 DEF LastSession, SessionState
  <2>3. Relation' /\ cameraQueue' \in Seq(RequestType)
    BY <1>1, <1>3, <2>1, <2>2, SameSession
  <2>4. session' \in [state : CameraStates, active : Nat]
    BY <2>1 DEF SessionState, CameraStates
  <2>5. ProtocolTypeOK'
    BY <1>1, <2>1, <2>3, <2>4 DEF IInv, ProtocolTypeOK, OnlyTakes, workerRest
  <2>6. Views'
    BY <1>1, <1>3, <2>1 DEF SessionState, Views
  <2> QED BY <2>3, <2>5, <2>6, Conjuncts
<1> QED BY <1>2, <1>3

\* A handler that leaves the session alone.
LEMMA IgnoredKeepsIInv ==
  ASSUME IInv, OnlyTakes, UNCHANGED <<workerRest, guiPc, controllerVars, cameraQueue>>
  PROVE  IInv'
<1>1. Relation' /\ cameraQueue' \in Seq(RequestType)
  BY SameSession DEF controllerVars, LastSession
<1>2. ProtocolTypeOK' /\ Views'
  BY <1>1 DEF IInv, ProtocolTypeOK, Views, OnlyTakes, workerRest, controllerVars
<1> QED BY <1>1, <1>2, Conjuncts

\* A late answer lifts the fence around the session that timed out.
LEMMA RecoverKeepsIInv ==
  ASSUME IInv, OnlyTakes, UNCHANGED <<workerRest, guiPc>>,
         NEW kind \in {"stopped", "cameraFailed"}, NEW s, RecoverLate(s),
         CameraEvent(kind, s) \in ToSet(guiQueue)
  PROVE  IInv'
<1>1. /\ releasePending /\ s = timedOut /\ releasePending' = FALSE /\ timedOut' = 0
      /\ UNCHANGED <<session, sequence, watchdogs, cameraQueue>>
  BY DEF RecoverLate, Late, MarkCameraWorkerResponsive
<1>2. session.active = 0 /\ LastSession = s /\ LastSession # 0 /\ LastSession' = 0
  BY <1>1 DEF IInv, Views, LastSession
<1>3. ~DeviceHeld /\ ~StartQueued
  BY <1>2, AnnouncedIsFree
<1>4. Relation'
  BY <1>1, <1>2, <1>3, SessionEnds
<1>5. ProtocolTypeOK' /\ Views'
  BY <1>1 DEF IInv, ProtocolTypeOK, Views, OnlyTakes, workerRest
<1> QED BY <1>4, <1>5, Conjuncts

\* The end of the active session is accepted, as a stop or as a failure.
LEMMA EndedKeepsIInv ==
  ASSUME IInv, OnlyTakes, UNCHANGED <<workerRest, guiPc>>,
         NEW kind \in {"stopped", "cameraFailed"}, NEW s,
         AcceptStopped(s) \/ AcceptFailed(s),
         CameraEvent(kind, s) \in ToSet(guiQueue)
  PROVE  IInv'
<1>1. /\ s # 0 /\ s = session.active /\ releasePending' = FALSE /\ timedOut' = 0
      /\ session' \in {SessionState("Idle", 0), SessionState("Error", 0)}
      /\ watchdogs' \subseteq watchdogs
      /\ UNCHANGED <<sequence, cameraQueue>>
  BY DEF AcceptStopped, AcceptFailed, StoppedAccepted, CanAcknowledgeStopped, CanFail,
         Accepts, AcknowledgeStopped, IdleSession, Fail, MarkCameraWorkerResponsive
<1>2. LastSession = s /\ LastSession # 0 /\ LastSession' = 0
  BY <1>1 DEF LastSession, SessionState
<1>3. ~DeviceHeld /\ ~StartQueued
  BY <1>2, AnnouncedIsFree
<1>4. Relation'
  BY <1>1, <1>2, <1>3, SessionEnds
<1>5. session' \in [state : CameraStates, active : Nat]
  BY <1>1 DEF SessionState, CameraStates
<1>6. ProtocolTypeOK'
  BY <1>1, <1>5 DEF IInv, ProtocolTypeOK, OnlyTakes, workerRest
<1>7. Views'
  BY <1>1 DEF Views, SessionState
<1> QED BY <1>4, <1>6, <1>7, Conjuncts

\* The end of a session is accepted and the next one is started at once.
LEMMA RestartKeepsIInv ==
  ASSUME IInv, OnlyTakes, UNCHANGED <<workerRest, guiPc>>, NEW s,
         AcceptStoppedAndRestart(s), CameraEvent("stopped", s) \in ToSet(guiQueue)
  PROVE  IInv'
<1>1. /\ s # 0 /\ s = session.active /\ releasePending' = FALSE /\ timedOut' = 0
      /\ sequence' = sequence + 1 /\ session' = SessionState("Opening", sequence + 1)
      /\ watchdogs' = (watchdogs \ {"stop"}) \cup {"open"}
      /\ Send(Request("start", sequence + 1)) /\ sequence \in Nat
  BY DEF AcceptStoppedAndRestart, StoppedAccepted, CanAcknowledgeStopped, Accepts,
         MarkCameraWorkerResponsive, BeginCameraStart, BeginOpening, IInv, ProtocolTypeOK
<1>2. LastSession = s /\ LastSession # 0 /\ LastSession' = sequence + 1
  BY <1>1 DEF LastSession, SessionState
<1>3. ~DeviceHeld /\ ~StartQueued
  BY <1>2, AnnouncedIsFree
<1>4. Relation' /\ cameraQueue' \in Seq(RequestType)
  BY <1>1, <1>2, <1>3, SessionStarts
<1>5. session' \in [state : CameraStates, active : Nat]
  BY <1>1 DEF SessionState, CameraStates
<1>6. ProtocolTypeOK'
  <2>1. watchdogs' \subseteq {"open", "stop"} /\ sequence' \in Nat
    BY <1>1 DEF IInv, ProtocolTypeOK
  <2>2. releasePending' \in BOOLEAN /\ timedOut' \in Nat
    BY <1>1
  <2> QED BY <1>4, <1>5, <2>1, <2>2 DEF IInv, ProtocolTypeOK, OnlyTakes, workerRest
<1>7. Views'
  BY <1>1 DEF Views, SessionState
<1> QED BY <1>4, <1>6, <1>7, Conjuncts

\* The four camera signals the GUI thread takes from its queue.
LEMMA DispatchKeepsIInv == ASSUME IInv, Dispatch PROVE IInv'
<1> DEFINE kinds == {"started", "frame", "stopped", "cameraFailed"}
<1>1. ASSUME NEW kind \in kinds, Handle(CameraEvent(kind, Sender))
      PROVE  /\ OnlyTakes /\ UNCHANGED <<workerRest, guiPc>>
             /\ CameraEvent(kind, Sender) \in ToSet(guiQueue)
  BY <1>1, DeliverFacts DEF OnlyTakes, Handle
<1>2. CASE OnCameraFrame
  BY <1>1, <1>2, IgnoredKeepsIInv DEF OnCameraFrame
<1>3. CASE OnCameraStarted
  <2>1. OnlyTakes /\ UNCHANGED <<workerRest, guiPc>>
    BY <1>1, <1>3 DEF OnCameraStarted
  <2>2. CASE IgnoreStarted(Sender)
    BY <2>1, <2>2, IgnoredKeepsIInv DEF IgnoreStarted
  <2>3. CASE AcceptStarted(Sender)
    <3>1. /\ session' = SessionState("Running", session.active) /\ session.active # 0
          /\ watchdogs' \subseteq watchdogs
          /\ releasePending' = FALSE /\ timedOut' = 0
          /\ UNCHANGED <<sequence, cameraQueue>> /\ session.active \in Nat
      BY <2>3 DEF AcceptStarted, CanAcknowledgeStarted, Accepts, AcknowledgeStarted,
                  MarkCameraWorkerResponsive, IInv, ProtocolTypeOK
    <3>2. LastSession' = LastSession
      BY <3>1 DEF LastSession, SessionState
    <3>3. Relation'
      BY <2>1, <3>1, <3>2, SameSession
    <3>4. session' \in [state : CameraStates, active : Nat]
      BY <3>1 DEF SessionState, CameraStates
    <3>5. ProtocolTypeOK' /\ Views'
      BY <2>1, <3>1, <3>4 DEF IInv, ProtocolTypeOK, Views, OnlyTakes, workerRest, SessionState
    <3> QED BY <3>3, <3>5, Conjuncts
  <2> QED BY <1>3, <2>2, <2>3 DEF OnCameraStarted
<1>4. CASE OnCameraStopped
  <2>1. /\ OnlyTakes /\ UNCHANGED <<workerRest, guiPc>>
        /\ CameraEvent("stopped", Sender) \in ToSet(guiQueue)
    BY <1>1, <1>4 DEF OnCameraStopped
  <2>2. CASE RecoverLate(Sender)
    BY <2>1, <2>2, RecoverKeepsIInv
  <2>3. CASE AcceptStopped(Sender)
    BY <2>1, <2>3, EndedKeepsIInv
  <2>4. CASE AcceptStoppedAndRestart(Sender)
    BY <2>1, <2>4, RestartKeepsIInv
  <2>5. CASE IgnoreStopped(Sender)
    BY <2>1, <2>5, IgnoredKeepsIInv DEF IgnoreStopped
  <2> QED BY <1>4, <2>2, <2>3, <2>4, <2>5 DEF OnCameraStopped
<1>5. CASE OnCameraFailed
  <2>1. /\ OnlyTakes /\ UNCHANGED <<workerRest, guiPc>>
        /\ CameraEvent("cameraFailed", Sender) \in ToSet(guiQueue)
    BY <1>1, <1>5 DEF OnCameraFailed
  <2>2. CASE RecoverLate(Sender)
    BY <2>1, <2>2, RecoverKeepsIInv
  <2>3. CASE AcceptFailed(Sender)
    BY <2>1, <2>3, EndedKeepsIInv
  <2>4. CASE IgnoreFailed(Sender)
    BY <2>1, <2>4, IgnoredKeepsIInv DEF IgnoreFailed
  <2> QED BY <1>5, <2>2, <2>3, <2>4 DEF OnCameraFailed
<1> QED BY <1>2, <1>3, <1>4, <1>5 DEF Dispatch

\* shutdown(): the watchdogs stop, and the last session is told to stop.
LEMMA ShutdownKeepsIInv == ASSUME IInv, Shutdown PROVE IInv'
<1>1. /\ watchdogs' = {} /\ guiPc' \in {"stopCamera", "joinCamera"}
      /\ UNCHANGED <<guiQueue, workerRest, session, sequence, releasePending, timedOut>>
      /\ \/ LastSession # 0 /\ Send(Request("stop", LastSession))
         \/ UNCHANGED cameraQueue
  BY DEF Shutdown
<1>2. LastSession' = LastSession /\ OnlyTakes
  BY <1>1 DEF LastSession, OnlyTakes, IInv, ProtocolTypeOK
<1>3. Relation' /\ cameraQueue' \in Seq(RequestType)
  BY <1>1, <1>2, SameSession
<1>4. ProtocolTypeOK'
  BY <1>1, <1>2, <1>3 DEF IInv, ProtocolTypeOK, GuiPcs, OnlyTakes, workerRest
<1>5. Views'
  BY <1>1 DEF IInv, Views
<1> QED BY <1>3, <1>4, <1>5, Conjuncts

\* The later steps of the shutdown only move the GUI thread on.
LEMMA ShuttingDownKeepsIInv == ASSUME IInv, ShuttingDown PROVE IInv'
<1>1. /\ UNCHANGED <<guiQueue, cameraWorkerVars, controllerVars>>
      /\ guiPc' \in GuiPcs
  BY DEF ShuttingDown, ShutdownStopped, CameraThreadJoined, InferenceJoined, Quit, GuiPcs
<1>2. /\ OnlyTakes /\ UNCHANGED <<workerRest, sequence, cameraQueue>>
      /\ LastSession' = LastSession
  BY <1>1 DEF OnlyTakes, IInv, ProtocolTypeOK, cameraWorkerVars, workerRest,
              controllerVars, LastSession
<1>3. Relation'
  BY <1>2, SameSession
<1>4. ProtocolTypeOK' /\ Views'
  BY <1>1 DEF IInv, ProtocolTypeOK, Views, cameraWorkerVars, controllerVars
<1> QED BY <1>3, <1>4, Conjuncts

\* The camera thread ends and the worker with it.
LEMMA ThreadEndKeepsIInv == ASSUME IInv, CameraThreadEnds PROVE IInv'
<1>1. /\ cameraPc = "idle" /\ cameraPc' = "ended" /\ activeSession' = 0
      /\ firstFrameSeen' = FALSE /\ timerArmed' = FALSE /\ cameraQueue' = <<>>
      /\ UNCHANGED <<guiQueue, reply, controllerVars, guiPc>>
  BY DEF CameraThreadEnds
<1>2. LastSession' = LastSession /\ ToSet(cameraQueue') = {} /\ ~DeviceHeld'
  BY <1>1, ToSetEmpty DEF LastSession, controllerVars, DeviceHeld
<1>3. ProtocolTypeOK'
  <2>1. cameraQueue' \in Seq(RequestType)
    BY <1>1
  <2> QED BY <1>1, <2>1 DEF IInv, ProtocolTypeOK, controllerVars
<1>4. Numbered' /\ Views'
  BY <1>1, <1>2 DEF IInv, Numbered, Views, controllerVars
<1>5. Ownership' /\ InOrder'
  BY <1>1 DEF Ownership, InOrder
<1>6. StartsWait'
  BY <1>2 DEF StartsWait
<1>7. AnnouncedMeansReleased'
  BY <1>2 DEF AnnouncedMeansReleased, StartQueued
<1> QED BY <1>3, <1>4, <1>5, <1>6, <1>7 DEF IInv

\* The worker's own steps.
LEMMA WorkerKeepsIInv == ASSUME IInv, Worker PROVE IInv'
<1>1. CameraThread /\ ControllerRests
  BY DEF Worker, ControllerRests
<1>2. CASE Start
  BY <1>1, <1>2, StartKeepsIInv
<1>3. CASE StopIgnored
  BY <1>1, <1>3, StopIgnoredKeepsIInv
<1>4. CASE Stop \/ OpenFails \/ ReadFails
  BY <1>1, <1>4, EndKeepsIInv
<1>5. CASE OpenSucceeds \/ CaptureNext \/ ReadSucceeds
  BY <1>1, <1>5, CaptureKeepsIInv
<1>6. CASE Released
  BY <1>1, <1>6, ReleasedKeepsIInv
<1> QED BY <1>1, <1>2, <1>3, <1>4, <1>5, <1>6 DEF CameraThread, TakeRequest

\* Nothing happens.
LEMMA StutterKeepsIInv == ASSUME IInv, UNCHANGED protocolVars PROVE IInv'
<1>1. /\ OnlyTakes /\ UNCHANGED <<workerRest, guiPc, controllerVars, cameraQueue>>
  BY DEF protocolVars, cameraWorkerVars, workerRest, controllerVars, OnlyTakes, IInv,
         ProtocolTypeOK
<1> QED BY <1>1, IgnoredKeepsIInv

\* Every step keeps the invariant, and so does no step.
LEMMA StepKeepsIInv == ASSUME IInv, [ProtocolNext]_protocolVars PROVE IInv'
<1>1. CASE ProtocolNext
  <2>1. CASE \E timer \in {"open", "stop"} : Timeout(timer)
    BY <2>1, TimeoutKeepsIInv
  <2>2. CASE Terminated
    BY <2>2, StutterKeepsIInv DEF Terminated
  <2> QED BY <1>1, <2>1, <2>2, StartCameraKeepsIInv, StopCameraKeepsIInv,
             DispatchKeepsIInv, ShutdownKeepsIInv, ShuttingDownKeepsIInv,
             ThreadEndKeepsIInv, WorkerKeepsIInv DEF ProtocolNext
<1>2. CASE UNCHANGED protocolVars
  BY <1>2, StutterKeepsIInv
<1> QED BY <1>1, <1>2

\* The invariant holds in every reachable state.
LEMMA Inductive == ProtocolSpec => []IInv
<1>1. IInv /\ [ProtocolNext]_protocolVars => IInv'
  BY StepKeepsIInv
<1> QED BY <1>1, InitIInv, PTL DEF ProtocolSpec

-----------------------------------------------------------------------------
(* The theorems. *)

\* Types, for every number of sessions and every length of the queues.
THEOREM ProtocolTypeCorrect == ProtocolSpec => []ProtocolTypeOK
BY Inductive, PTL DEF IInv

\* CameraWorker::start never runs into a session that is still active.
LEMMA StartFindsFree == ASSUME IInv PROVE NoOverlap
<1> SUFFICES ASSUME cameraQueue # <<>>, Head(cameraQueue).kind = "start"
             PROVE  activeSession = 0
  BY DEF NoOverlap
<1>1. Head(cameraQueue) \in ToSet(cameraQueue)
  BY ToSetTail DEF IInv, ProtocolTypeOK
<1> QED BY <1>1 DEF IInv, StartsWait, DeviceHeld

\* That two sessions never overlap at the device.
THEOREM NeverOverlaps == ProtocolSpec => []NoOverlap
<1>1. IInv => NoOverlap
  BY StartFindsFree
<1> QED BY Inductive, <1>1, PTL

\* Whenever a start would be accepted the device is free: after a stop, a
\* failure, a timeout that was recovered from, in whatever order they came.
LEMMA StartableFindsReleased == ASSUME IInv PROVE ReleasedWhenStartable
<1> SUFFICES ASSUME session.state \in {"Idle", "Error"}, ~releasePending
             PROVE  ~DeviceHeld /\ ~StartQueued
  BY DEF ReleasedWhenStartable
<1>1. LastSession = 0
  BY DEF IInv, Views, LastSession
<1> QED BY <1>1, StartableIsFree

\* That the controller only accepts a start when the device is free.
THEOREM StartableMeansReleased == ProtocolSpec => []ReleasedWhenStartable
<1>1. IInv => ReleasedWhenStartable
  BY StartableFindsReleased
<1> QED BY Inductive, <1>1, PTL

\* The acknowledgements of the worker can be believed.
THEOREM AnnouncementsTrue == ProtocolSpec => []AnnouncedMeansReleased
BY Inductive, PTL DEF IInv

\* The worker opens each session at most once, the newest one, in order.
THEOREM OpenedInOrder == ProtocolSpec => SessionsOpenInOrder
<1>1. ASSUME IInv, [ProtocolNext]_protocolVars
      PROVE  [activeSession' \notin {0, activeSession} =>
                 activeSession' = sequence /\ LastSession = sequence]_protocolVars
  <2> SUFFICES ASSUME ProtocolNext, activeSession' \notin {0, activeSession}
               PROVE  activeSession' = sequence /\ LastSession = sequence
    BY <1>1
  <2>1. CASE Start
    <3>1. Head(cameraQueue) \in ToSet(cameraQueue) /\ Head(cameraQueue).kind = "start"
      BY <1>1, <2>1, ToSetTail DEF IInv, ProtocolTypeOK, Start, NextRequest
    <3>2. Requested = LastSession /\ Requested # 0
      BY <1>1, <3>1 DEF IInv, StartsWait, Numbered, Requested, ProtocolTypeOK
    <3>3. activeSession' = Requested
      BY <2>1 DEF Start
    <3> QED BY <1>1, <3>2, <3>3 DEF IInv, Numbered
  <2>2. CASE Worker /\ ~Start
    BY <2>2 DEF Worker, CameraThread, TakeRequest, OpenSucceeds, OpenFails, CaptureNext,
                ReadSucceeds, ReadFails, Stop, StopIgnored, Released, ReleaseThen
  <2>3. CASE CameraThreadEnds
    BY <2>3 DEF CameraThreadEnds
  <2>4. CASE ~Worker /\ ~CameraThreadEnds
    BY <2>4 DEF ProtocolNext, StartCamera, StopCamera, Dispatch, Timeout, Shutdown,
                ShuttingDown, Terminated, OnCameraStarted, OnCameraFrame, OnCameraStopped,
                OnCameraFailed, Handle, ShutdownStopped, CameraThreadJoined,
                InferenceJoined, Quit, workerRest, cameraWorkerVars, protocolVars
  <2> QED BY <2>1, <2>2, <2>3, <2>4
<1> QED BY <1>1, Inductive, PTL DEF ProtocolSpec, SessionsOpenInOrder

\* Every handler starts and stops the timers with the state they watch.
LEMMA StepKeepsWatch ==
    ASSUME IInv, WatchedWhileWaiting, [ProtocolNext]_protocolVars
    PROVE  WatchedWhileWaiting'
<1> SUFFICES ASSUME guiPc' = "loop"
             PROVE  /\ "open" \in watchdogs' <=> session'.state = "Opening"
                    /\ "stop" \in watchdogs' <=> session'.state = "Stopping"
  BY DEF WatchedWhileWaiting
<1> USE DEF WatchedWhileWaiting
<1>1. CASE UNCHANGED <<controllerVars, guiPc>>
  BY <1>1 DEF controllerVars
<1>2. CASE StartCamera
  BY <1>2 DEF StartCamera, BeginCameraStart, CanBeginOpening, BeginOpening, SessionState
<1>3. CASE StopCamera
  BY <1>3 DEF StopCamera, BeginCameraStop, BeginStopping, SessionState
<1>4. CASE OnCameraStarted
  <2>1. guiPc = "loop"
    BY <1>4 DEF OnCameraStarted, Handle
  <2>2. CASE AcceptStarted(Sender)
    BY <2>1, <2>2 DEF AcceptStarted, CanAcknowledgeStarted, AcknowledgeStarted, SessionState
  <2>3. CASE IgnoreStarted(Sender)
    BY <2>1, <2>3 DEF IgnoreStarted, controllerVars
  <2> QED BY <1>4, <2>2, <2>3 DEF OnCameraStarted
<1>5. CASE OnCameraStopped
  <2>1. guiPc = "loop"
    BY <1>5 DEF OnCameraStopped, Handle
  <2>2. CASE RecoverLate(Sender)
    BY <2>1, <2>2 DEF RecoverLate
  <2>3. CASE AcceptStopped(Sender)
    BY <2>1, <2>3 DEF AcceptStopped, StoppedAccepted, CanAcknowledgeStopped,
                      AcknowledgeStopped, IdleSession, SessionState
  <2>4. CASE AcceptStoppedAndRestart(Sender)
    BY <2>1, <2>4 DEF AcceptStoppedAndRestart, BeginCameraStart, BeginOpening, SessionState
  <2>5. CASE IgnoreStopped(Sender)
    BY <2>1, <2>5 DEF IgnoreStopped, controllerVars
  <2> QED BY <1>5, <2>2, <2>3, <2>4, <2>5 DEF OnCameraStopped
<1>6. CASE OnCameraFailed
  <2>1. guiPc = "loop"
    BY <1>6 DEF OnCameraFailed, Handle
  <2>2. CASE RecoverLate(Sender)
    BY <2>1, <2>2 DEF RecoverLate
  <2>3. CASE AcceptFailed(Sender)
    BY <2>3 DEF AcceptFailed, Fail, SessionState
  <2>4. CASE IgnoreFailed(Sender)
    BY <2>1, <2>4 DEF IgnoreFailed, controllerVars
  <2> QED BY <1>6, <2>2, <2>3, <2>4 DEF OnCameraFailed
<1>7. ASSUME NEW timer \in {"open", "stop"}, Timeout(timer)
      PROVE  /\ "open" \in watchdogs' <=> session'.state = "Opening"
             /\ "stop" \in watchdogs' <=> session'.state = "Stopping"
  <2>1. session.active # 0 /\ guiPc = "loop"
    BY <1>7 DEF Timeout, TimeoutFires, IInv, Views
  <2> QED BY <1>7, <2>1 DEF Timeout, TimeoutFires, Fail, SessionState
<1>8. ASSUME Shutdown \/ ShuttingDown PROVE FALSE
  BY <1>8 DEF Shutdown, ShuttingDown, ShutdownStopped, CameraThreadJoined,
              InferenceJoined, Quit
<1>9. ASSUME OnCameraFrame \/ Worker \/ CameraThreadEnds \/ Terminated
             \/ UNCHANGED protocolVars
      PROVE  UNCHANGED <<controllerVars, guiPc>>
  BY <1>9 DEF OnCameraFrame, Handle, Worker, CameraThreadEnds, Terminated, protocolVars
<1> QED BY <1>1, <1>2, <1>3, <1>4, <1>5, <1>6, <1>7, <1>8, <1>9 DEF ProtocolNext, Dispatch

\* No timer runs at first.
LEMMA InitWatch == ProtocolInit => WatchedWhileWaiting
BY DEF ProtocolInit, ControllerInit, IdleSession, SessionState, WatchedWhileWaiting

\* A watchdog runs exactly while the controller waits for the worker.
THEOREM WatchdogsCorrect == ProtocolSpec => []WatchedWhileWaiting
<1>1. IInv /\ WatchedWhileWaiting /\ [ProtocolNext]_protocolVars => WatchedWhileWaiting'
  BY StepKeepsWatch
<1> QED BY <1>1, InitWatch, Inductive, PTL DEF ProtocolSpec

-----------------------------------------------------------------------------
(* No session is lost: whatever the controller waits for is under way. *)

\* A stop of the newest session is on its way: requested, in the native call that
\* releases the device, or acknowledged.
StopUnderWay ==
    \/ Request("stop", LastSession) \in ToSet(cameraQueue)
    \/ cameraPc = "releasing" /\ reply = CameraEvent("stopped", LastSession)
    \/ Announced("stopped", LastSession)

\* While the window is open a stop that is on its way was asked for, by the
\* controller's stop or by a watchdog: its acknowledgement will not be ignored.
StopExpected ==
    guiPc = "loop" /\ LastSession # 0 /\ StopUnderWay
        => session.state = "Stopping" \/ releasePending

\* shutdown() gets past the camera only when its thread has ended.
EndOrder == guiPc \in {"joinInference", "closed", "exited"} => cameraPc = "ended"

AInv == EndOrder /\ StopExpected /\ SessionAccountedFor

\* A step of the worker finishes nothing without passing it on.
LEMMA WorkerKeepsAInv == ASSUME IInv, IInv', AInv, Worker PROVE AInv'
<1>1. /\ UNCHANGED <<session, sequence, watchdogs, releasePending, timedOut, guiPc>>
      /\ LastSession' = LastSession
  BY DEF Worker, controllerVars, LastSession
<1>2. cameraPc # "ended" /\ cameraPc' # "ended"
  BY DEF Worker, CameraThread, TakeRequest, NextRequest, Start, Stop, StopIgnored, OpenSucceeds,
         OpenFails, CaptureNext, ReadSucceeds, ReadFails, Released, ReleaseThen
<1>3. EndOrder'
  BY <1>1, <1>2 DEF AInv, EndOrder
<1>4. ASSUME StopUnderWay' => StopUnderWay PROVE StopExpected'
  BY <1>1, <1>4 DEF AInv, StopExpected
<1>5. ASSUME NEW kind, NextRequest(kind)
      PROVE  /\ Head(cameraQueue) \in ToSet(cameraQueue)
             /\ ToSet(cameraQueue) = ToSet(cameraQueue') \cup {Head(cameraQueue)}
             /\ Head(cameraQueue) \in RequestType /\ Head(cameraQueue).kind = kind
             /\ cameraPc = "idle"
  BY <1>5, ToSetTail DEF NextRequest, IInv, ProtocolTypeOK
<1>6. ASSUME NEW event \in CameraEventType, guiQueue' = guiQueue \o <<event>>
      PROVE  ToSet(guiQueue') = ToSet(guiQueue) \cup {event}
  <2>1. guiQueue \in Seq(CameraEventType)
    BY DEF IInv, ProtocolTypeOK
  <2> QED BY <1>6, <2>1, ToSetPost
<1>7. CASE Start
  <2>1. NextRequest("start")
    BY <1>7 DEF Start
  <2>2. Requested = LastSession /\ ~DeviceHeld
    BY <1>5, <2>1 DEF IInv, StartsWait, Requested
  <2>3. /\ activeSession' = LastSession /\ cameraPc' = "opening"
        /\ UNCHANGED <<guiQueue, reply>>
    BY <1>7, <2>2 DEF Start, DeviceHeld
  <2>4. StopUnderWay' => StopUnderWay
    BY <1>1, <1>5, <2>1, <2>3 DEF StopUnderWay, Announced
  <2> QED BY <1>1, <1>3, <1>4, <2>3, <2>4 DEF AInv, SessionAccountedFor
<1>8. CASE StopIgnored
  <2>1. NextRequest("stop") /\ UNCHANGED <<cameraPc, activeSession, reply>>
    BY <1>8 DEF StopIgnored
  <2>2. CameraEvent("stopped", Requested) \in CameraEventType
    BY <1>5, <2>1 DEF CameraEvent, CameraEventType, RequestType, Requested
  <2>3. ToSet(guiQueue') = ToSet(guiQueue) \cup {CameraEvent("stopped", Requested)}
    BY <1>6, <1>8, <2>2 DEF StopIgnored, Post
  <2>4. Head(cameraQueue) = Request("stop", Requested)
    BY <1>5, <2>1 DEF Request, Requested, RequestType
  <2>5. StopUnderWay' => StopUnderWay
    BY <1>1, <1>5, <2>1, <2>3, <2>4 DEF StopUnderWay, Announced, CameraEvent
  <2>6. Request("start", LastSession) # Head(cameraQueue)
    BY <2>4 DEF Request
  <2>7. SessionAccountedFor'
    BY <1>1, <1>2, <1>5, <2>1, <2>3, <2>6 DEF AInv, SessionAccountedFor, Starting, Announced
  <2> QED BY <1>3, <1>4, <2>5, <2>7 DEF AInv
<1>9. CASE Stop
  <2>1. /\ NextRequest("stop") /\ guiQueue' = guiQueue
        /\ cameraPc' = "releasing" /\ reply' = CameraEvent("stopped", activeSession)
        /\ Requested = activeSession /\ activeSession # 0
    BY <1>9 DEF Stop, ReleaseThen
  <2>2. activeSession = LastSession
    BY <2>1 DEF IInv, Ownership
  <2>3. Head(cameraQueue) = Request("stop", LastSession)
    BY <1>5, <2>1, <2>2 DEF Request, Requested, RequestType
  <2>4. StopUnderWay
    BY <1>5, <2>1, <2>3 DEF StopUnderWay
  <2>5. SessionAccountedFor'
    BY <1>1, <2>1, <2>2 DEF SessionAccountedFor, CameraEvent
  <2> QED BY <1>3, <1>4, <2>4, <2>5 DEF AInv
<1>10. CASE OpenFails \/ ReadFails
  <2>1. /\ UNCHANGED <<guiQueue, cameraQueue>> /\ cameraPc \in {"opening", "reading"}
        /\ cameraPc' = "releasing" /\ reply' = CameraEvent("cameraFailed", activeSession)
    BY <1>10 DEF OpenFails, ReadFails, ReleaseThen
  <2>2. activeSession = LastSession
    BY <2>1 DEF IInv, Ownership
  <2>3. StopUnderWay' => StopUnderWay
    BY <1>1, <2>1 DEF StopUnderWay, Announced, CameraEvent
  <2>4. SessionAccountedFor'
    BY <1>1, <2>1, <2>2 DEF SessionAccountedFor, CameraEvent
  <2> QED BY <1>3, <1>4, <2>3, <2>4 DEF AInv
<1>11. CASE OpenSucceeds \/ CaptureNext \/ ReadSucceeds
  <2>1. /\ UNCHANGED <<cameraQueue, activeSession, reply>> /\ activeSession # 0
        /\ cameraPc' # "releasing"
    BY <1>11 DEF OpenSucceeds, CaptureNext, ReadSucceeds, IInv, Ownership
  <2>2. activeSession = LastSession
    BY <2>1 DEF IInv, Ownership
  <2>3. DeviceHeld'
    BY <2>1 DEF DeviceHeld
  <2>4. ~Announced("stopped", LastSession)'
    BY <1>1, <2>1, <2>2, <2>3 DEF IInv, AnnouncedMeansReleased
  <2>5. StopUnderWay' => StopUnderWay
    BY <1>1, <2>1, <2>4 DEF StopUnderWay
  <2>6. SessionAccountedFor'
    BY <1>1, <2>1, <2>2 DEF SessionAccountedFor
  <2> QED BY <1>3, <1>4, <2>5, <2>6 DEF AInv
<1>12. CASE Released
  <2>1. /\ UNCHANGED <<cameraQueue, activeSession>> /\ cameraPc = "releasing"
        /\ cameraPc' = "idle" /\ guiQueue' = guiQueue \o <<reply>>
    BY <1>12 DEF Released, Post
  <2>2. reply \in {CameraEvent("stopped", LastSession), CameraEvent("cameraFailed", LastSession)}
    BY <2>1 DEF IInv, Ownership
  <2>3. reply \in CameraEventType
    BY <2>2, <1>1 DEF IInv, ProtocolTypeOK, NoReply, CameraEvent
  <2>4. ToSet(guiQueue') = ToSet(guiQueue) \cup {reply}
    BY <1>6, <2>1, <2>3
  <2>5. StopUnderWay' => StopUnderWay
    BY <1>1, <2>1, <2>2, <2>4 DEF StopUnderWay, Announced
  <2>6. SessionAccountedFor'
    BY <1>1, <2>2, <2>4 DEF SessionAccountedFor, Announced
  <2> QED BY <1>3, <1>4, <2>5, <2>6 DEF AInv
<1> QED BY <1>7, <1>8, <1>9, <1>10, <1>11, <1>12 DEF Worker, CameraThread, TakeRequest

\* A step of the GUI thread under which the newest session stays the same: at
\* most it asks for a stop, and it takes no announcement of the session's end
\* before the camera thread has ended.
LEMMA SameKeepsAInv ==
  ASSUME IInv, AInv, LastSession' = LastSession,
         UNCHANGED <<cameraPc, activeSession, reply>>,
         ToSet(guiQueue') \subseteq ToSet(guiQueue),
         \/ cameraPc = "ended"
         \/ \A event \in {"stopped", "cameraFailed"} :
               Announced(event, LastSession) => Announced(event, LastSession)',
         \/ UNCHANGED cameraQueue
         \/ LastSession # 0 /\ Send(Request("stop", LastSession)),
         \/ UNCHANGED <<cameraQueue, session, releasePending>>
         \/ session'.state = "Stopping" \/ releasePending'
         \/ guiPc' # "loop"
         \/ LastSession # 0 => ~StopUnderWay /\ UNCHANGED cameraQueue,
         EndOrder', guiPc' = "loop" => guiPc = "loop"
  PROVE  AInv'
<1>1. ToSet(cameraQueue) \subseteq ToSet(cameraQueue')
  <2>1. CASE UNCHANGED cameraQueue
    BY <2>1
  <2>2. CASE LastSession # 0 /\ Send(Request("stop", LastSession))
    <3>1. Request("stop", LastSession) \in RequestType /\ cameraQueue \in Seq(RequestType)
      BY <2>2 DEF IInv, ProtocolTypeOK, Numbered, Request, RequestType
    <3> QED BY <2>2, <3>1, ToSetAppend DEF Send
  <2> QED BY <2>1, <2>2
<1>2. SessionAccountedFor'
  BY <1>1 DEF AInv, SessionAccountedFor, Starting
<1>3. ASSUME UNCHANGED cameraQueue, StopUnderWay' PROVE StopUnderWay
  BY <1>3 DEF StopUnderWay, Announced
<1>4. StopExpected'
  BY <1>3 DEF AInv, StopExpected
<1> QED BY <1>2, <1>4 DEF AInv

\* A step of the GUI thread that knows of no session afterwards.
LEMMA NoneKeepsAInv == ASSUME LastSession' = 0, EndOrder' PROVE AInv'
BY DEF AInv, StopExpected, SessionAccountedFor

\* A step of the GUI thread that starts a session.
LEMMA StartedKeepsAInv ==
  ASSUME IInv, sequence' = sequence + 1, LastSession' = sequence + 1,
         UNCHANGED <<cameraPc, activeSession, reply, guiPc>>,
         ToSet(guiQueue') \subseteq ToSet(guiQueue),
         Send(Request("start", sequence + 1)), EndOrder'
  PROVE  AInv'
<1>1. sequence \in Nat /\ cameraQueue \in Seq(RequestType)
  BY DEF IInv, ProtocolTypeOK
<1>2. Request("start", sequence + 1) \in RequestType
  BY <1>1 DEF Request, RequestType
<1>3. ToSet(cameraQueue') \subseteq ToSet(cameraQueue) \cup {Request("start", sequence + 1)}
  BY <1>1, <1>2, SendFacts DEF Request
<1>4. SessionAccountedFor'
  <2>1. CASE cameraPc = "ended"
    BY <2>1 DEF SessionAccountedFor
  <2>2. CASE cameraPc # "ended"
    BY <1>1, <1>2, <2>2, ToSetAppend DEF Send, SessionAccountedFor, Starting
  <2> QED BY <2>1, <2>2
<1>5. Request("stop", sequence + 1) \notin ToSet(cameraQueue')
  BY <1>1, <1>3 DEF Request, IInv, Numbered
<1>6. CameraEvent("stopped", sequence + 1) \notin ToSet(guiQueue')
  BY <1>1 DEF CameraEvent, IInv, Numbered
<1>7. cameraPc # "releasing" \/ reply # CameraEvent("stopped", sequence + 1)
  BY <1>1 DEF IInv, Ownership, CameraEvent, Numbered
<1>8. StopExpected'
  BY <1>5, <1>6, <1>7 DEF StopExpected, StopUnderWay, Announced
<1> QED BY <1>4, <1>8 DEF AInv

\* What taking an event leaves, and that its sender's end is announced.
LEMMA HandleFacts ==
  ASSUME IInv, AInv, NEW kind, Handle(CameraEvent(kind, Sender))
  PROVE  /\ ToSet(guiQueue) = ToSet(guiQueue') \cup {CameraEvent(kind, Sender)}
         /\ UNCHANGED <<cameraPc, activeSession, reply, guiPc>>
         /\ EndOrder' /\ guiPc \in {"loop", "closed"}
         /\ CameraEvent(kind, Sender) \in ToSet(guiQueue)
         /\ Sender \in 1..sequence /\ sequence \in Nat
<1>1. /\ guiQueue \in Seq(CameraEventType) /\ guiQueue # <<>>
      /\ guiQueue' = Tail(guiQueue) /\ CameraEvent(kind, Sender) = Head(guiQueue)
      /\ UNCHANGED <<cameraPc, activeSession, reply, guiPc>> /\ guiPc \in {"loop", "closed"}
  BY DEF IInv, ProtocolTypeOK, Handle, Deliver, workerRest, Dispatching
<1>2. ToSet(guiQueue) = ToSet(guiQueue') \cup {CameraEvent(kind, Sender)}
  BY <1>1, ToSetTail
<1>3. EndOrder'
  BY <1>1 DEF AInv, EndOrder
<1>4. Sender \in 1..sequence /\ sequence \in Nat
  BY DeliverFacts DEF IInv, ProtocolTypeOK
<1> QED BY <1>1, <1>2, <1>3, <1>4

\* The handlers of the worker's four signals.
LEMMA DispatchKeepsAInv == ASSUME IInv, AInv, Dispatch PROVE AInv'
<1>1. ASSUME OnCameraFrame \/ OnCameraStarted, UNCHANGED <<controllerVars, cameraQueue>>
      PROVE  AInv'
  <2>1. PICK kind \in {"frame", "started"} : Handle(CameraEvent(kind, Sender))
    BY <1>1 DEF OnCameraFrame, OnCameraStarted
  <2>2. /\ ToSet(guiQueue) = ToSet(guiQueue') \cup {CameraEvent(kind, Sender)}
        /\ UNCHANGED <<cameraPc, activeSession, reply, guiPc>> /\ EndOrder'
    BY <2>1, HandleFacts
  <2>3. \A event \in {"stopped", "cameraFailed"} :
           Announced(event, LastSession) => Announced(event, LastSession)'
    BY <1>1, <2>2 DEF Announced, CameraEvent, controllerVars, LastSession
  <2> QED BY <1>1, <2>2, <2>3, SameKeepsAInv DEF controllerVars, LastSession
<1>2. CASE OnCameraStarted /\ AcceptStarted(Sender)
  <2>1. /\ ToSet(guiQueue) = ToSet(guiQueue') \cup {CameraEvent("started", Sender)}
        /\ UNCHANGED <<cameraPc, activeSession, reply, guiPc>> /\ EndOrder'
        /\ guiPc \in {"loop", "closed"}
    BY <1>2, HandleFacts DEF OnCameraStarted
  <2>2. /\ session.state = "Opening" /\ session.active # 0 /\ ~releasePending /\ timedOut = 0
        /\ session' = SessionState("Running", session.active) /\ cameraQueue' = cameraQueue
        /\ timedOut' = 0
    BY <1>2 DEF AcceptStarted, CanAcknowledgeStarted, Accepts, AcknowledgeStarted, IInv, Views,
                MarkCameraWorkerResponsive
  <2>3. LastSession' = LastSession
    BY <2>2 DEF LastSession, SessionState
  <2>4. \A event \in {"stopped", "cameraFailed"} :
           Announced(event, LastSession) => Announced(event, LastSession)'
    BY <2>1, <2>3 DEF Announced, CameraEvent
  <2>5. guiPc' # "loop" \/ (LastSession # 0 => ~StopUnderWay /\ UNCHANGED cameraQueue)
    BY <2>1, <2>2 DEF AInv, StopExpected
  <2> QED BY <2>1, <2>2, <2>3, <2>4, <2>5, SameKeepsAInv
<1>3. CASE OnCameraStopped
  <2>1. /\ ToSet(guiQueue) = ToSet(guiQueue') \cup {CameraEvent("stopped", Sender)}
        /\ UNCHANGED <<cameraPc, activeSession, reply, guiPc>> /\ EndOrder'
        /\ guiPc \in {"loop", "closed"}
        /\ CameraEvent("stopped", Sender) \in ToSet(guiQueue)
        /\ Sender \in 1..sequence /\ sequence \in Nat
    BY <1>3, HandleFacts DEF OnCameraStopped
  <2>2. CASE RecoverLate(Sender)
    <3>1. LastSession' = 0
      BY <2>2 DEF RecoverLate, Late, MarkCameraWorkerResponsive, IInv, Views, LastSession
    <3> QED BY <2>1, <3>1, NoneKeepsAInv
  <2>3. CASE AcceptStopped(Sender)
    <3>1. LastSession' = 0
      BY <2>3 DEF AcceptStopped, MarkCameraWorkerResponsive, AcknowledgeStopped, IdleSession,
                  SessionState, LastSession
    <3> QED BY <2>1, <3>1, NoneKeepsAInv
  <2>4. CASE AcceptStoppedAndRestart(Sender)
    <3>1. /\ sequence' = sequence + 1 /\ session' = SessionState("Opening", sequence + 1)
          /\ Send(Request("start", sequence + 1))
      BY <2>4 DEF AcceptStoppedAndRestart, BeginCameraStart, BeginOpening
    <3>2. LastSession' = sequence + 1
      <4>1. sequence + 1 # 0
        BY <2>1
      <4> QED BY <3>1, <4>1 DEF LastSession, SessionState
    <3> QED BY <2>1, <3>1, <3>2, StartedKeepsAInv
  <2>5. CASE IgnoreStopped(Sender)
    <3>1. /\ UNCHANGED <<controllerVars, cameraQueue>>
          /\ ~Late(Sender) /\ ~CanAcknowledgeStopped(session, Sender)
      BY <2>5 DEF IgnoreStopped
    <3>2. ASSUME Sender = LastSession PROVE cameraPc = "ended"
      <4>1. LastSession # 0 /\ StopUnderWay
        BY <2>1, <3>2 DEF StopUnderWay, Announced
      <4>2. session.active = Sender /\ Sender # 0
        <5>1. session.active = 0 => releasePending /\ timedOut = Sender
          BY <3>2, <4>1 DEF LastSession, IInv, Views
        <5> QED BY <3>1, <3>2, <4>1, <5>1 DEF Late, LastSession
      <4>3. session.state # "Stopping" /\ ~releasePending
        BY <3>1, <4>2 DEF CanAcknowledgeStopped, Accepts, IInv, Views
      <4> QED BY <2>1, <4>1, <4>3 DEF AInv, StopExpected, EndOrder
    <3>3. \/ cameraPc = "ended"
          \/ \A event \in {"stopped", "cameraFailed"} :
                Announced(event, LastSession) => Announced(event, LastSession)'
      BY <2>1, <3>1, <3>2 DEF Announced, CameraEvent, controllerVars, LastSession
    <3> QED BY <2>1, <3>1, <3>3, SameKeepsAInv DEF controllerVars, LastSession
  <2> QED BY <1>3, <2>2, <2>3, <2>4, <2>5 DEF OnCameraStopped
<1>4. CASE OnCameraFailed
  <2>1. /\ ToSet(guiQueue) = ToSet(guiQueue') \cup {CameraEvent("cameraFailed", Sender)}
        /\ UNCHANGED <<cameraPc, activeSession, reply, guiPc>> /\ EndOrder'
        /\ Sender \in 1..sequence /\ sequence \in Nat
    BY <1>4, HandleFacts DEF OnCameraFailed
  <2>2. CASE RecoverLate(Sender)
    <3>1. LastSession' = 0
      BY <2>2 DEF RecoverLate, Late, MarkCameraWorkerResponsive, IInv, Views, LastSession
    <3> QED BY <2>1, <3>1, NoneKeepsAInv
  <2>3. CASE AcceptFailed(Sender)
    <3>1. LastSession' = 0
      BY <2>3 DEF AcceptFailed, MarkCameraWorkerResponsive, Fail, SessionState, LastSession
    <3> QED BY <2>1, <3>1, NoneKeepsAInv
  <2>4. CASE IgnoreFailed(Sender)
    <3>1. /\ UNCHANGED <<controllerVars, cameraQueue>>
          /\ ~Late(Sender) /\ ~CanFail(session, Sender)
      BY <2>4 DEF IgnoreFailed
    <3>2. Sender # LastSession
      BY <2>1, <3>1 DEF Late, CanFail, Accepts, LastSession, IInv, Views
    <3>3. \A event \in {"stopped", "cameraFailed"} :
             Announced(event, LastSession) => Announced(event, LastSession)'
      BY <2>1, <3>1, <3>2 DEF Announced, CameraEvent, controllerVars, LastSession
    <3> QED BY <2>1, <3>1, <3>3, SameKeepsAInv DEF controllerVars, LastSession
  <2> QED BY <1>4, <2>2, <2>3, <2>4 DEF OnCameraFailed
<1> QED BY <1>1, <1>2, <1>3, <1>4
        DEF Dispatch, OnCameraFrame, OnCameraStarted, IgnoreStarted

\* The commands, the watchdogs and the shutdown, which take no event.
LEMMA CommandKeepsAInv ==
  ASSUME IInv, AInv,
         \/ StartCamera \/ StopCamera \/ Shutdown \/ ShuttingDown
         \/ \E timer \in {"open", "stop"} : Timeout(timer)
         \/ UNCHANGED protocolVars
  PROVE  AInv'
<1>1. ASSUME UNCHANGED <<guiQueue, session, timedOut>>
      PROVE  LastSession' = LastSession
  BY <1>1 DEF LastSession
<1>2. ASSUME UNCHANGED guiQueue, LastSession' = LastSession
      PROVE  \A event \in {"stopped", "cameraFailed"} :
                Announced(event, LastSession) => Announced(event, LastSession)'
  BY <1>2 DEF Announced
<1>3. ASSUME UNCHANGED <<guiPc, cameraPc>> PROVE EndOrder'
  BY <1>3 DEF AInv, EndOrder
<1>4. CASE StartCamera
  <2>1. /\ sequence' = sequence + 1 /\ session' = SessionState("Opening", sequence + 1)
        /\ Send(Request("start", sequence + 1)) /\ sequence \in Nat
        /\ UNCHANGED <<guiQueue, cameraPc, activeSession, reply, guiPc>>
    BY <1>4 DEF StartCamera, BeginCameraStart, BeginOpening, workerRest, IInv, ProtocolTypeOK
  <2>2. LastSession' = sequence + 1
    <3>1. sequence + 1 # 0
      BY <2>1
    <3> QED BY <2>1, <3>1 DEF LastSession, SessionState
  <2> QED BY <1>3, <2>1, <2>2, StartedKeepsAInv
<1>5. CASE StopCamera
  <2>1. /\ session' = SessionState("Stopping", session.active) /\ session.active # 0
        /\ Send(Request("stop", session.active))
        /\ UNCHANGED <<guiQueue, cameraPc, activeSession, reply, guiPc>>
    BY <1>5 DEF StopCamera, BeginCameraStop, BeginStopping, CanBeginStopping, workerRest, IInv, Views
  <2>2. /\ LastSession = session.active /\ LastSession' = LastSession
        /\ session'.state = "Stopping"
    BY <2>1 DEF LastSession, SessionState
  <2> QED BY <1>2, <1>3, <2>1, <2>2, SameKeepsAInv
<1>6. CASE \E timer \in {"open", "stop"} : Timeout(timer)
  <2>1. PICK timer \in {"open", "stop"} : Timeout(timer)
    BY <1>6
  <2>2. UNCHANGED <<guiQueue, cameraPc, activeSession, reply, guiPc>>
    BY <2>1 DEF Timeout, workerRest
  <2>3. CASE session.active = 0
    <3>1. UNCHANGED <<session, releasePending, timedOut, cameraQueue>>
      BY <2>1, <2>3 DEF Timeout, TimeoutFires
    <3> QED BY <1>1, <1>2, <1>3, <2>2, <3>1, SameKeepsAInv
  <2>4. CASE session.active # 0
    <3>1. /\ session' = SessionState("Error", 0) /\ releasePending' = TRUE
          /\ timedOut' = session.active /\ Send(Request("stop", session.active))
      BY <2>1, <2>4 DEF Timeout, TimeoutFires, Fail
    <3>2. LastSession = session.active /\ LastSession' = LastSession
      BY <2>4, <3>1 DEF LastSession, SessionState
    <3> QED BY <1>2, <1>3, <2>2, <2>4, <3>1, <3>2, SameKeepsAInv
  <2> QED BY <2>3, <2>4
<1>7. CASE Shutdown
  <2>1. /\ guiPc' \in {"stopCamera", "joinCamera"}
        /\ UNCHANGED <<guiQueue, cameraPc, activeSession, reply, session, timedOut>>
        /\ \/ UNCHANGED cameraQueue
           \/ LastSession # 0 /\ Send(Request("stop", LastSession))
    BY <1>7 DEF Shutdown, workerRest
  <2>2. EndOrder'
    BY <2>1 DEF EndOrder
  <2> QED BY <1>1, <1>2, <2>1, <2>2, SameKeepsAInv
<1>8. CASE ShuttingDown \/ UNCHANGED protocolVars
  <2>1. /\ UNCHANGED <<guiQueue, cameraPc, activeSession, reply, session, timedOut,
                       releasePending, cameraQueue>>
        /\ EndOrder' /\ (guiPc' = "loop" => guiPc = "loop")
    BY <1>8 DEF ShuttingDown, ShutdownStopped, CameraThreadJoined, InferenceJoined, Quit,
                protocolVars, cameraWorkerVars, controllerVars, AInv, EndOrder
  <2> QED BY <1>1, <1>2, <2>1, SameKeepsAInv
<1> QED BY <1>4, <1>5, <1>6, <1>7, <1>8

\* A session is accounted for when none was started.
LEMMA InitAInv == ProtocolInit => AInv
BY DEF ProtocolInit, ControllerInit, IdleSession, SessionState, LastSession, AInv, EndOrder,
       StopExpected, SessionAccountedFor

\* Every step hands on what it finishes.
LEMMA StepKeepsAInv ==
    ASSUME IInv, IInv', AInv, [ProtocolNext]_protocolVars
    PROVE  AInv'
<1>1. CASE CameraThreadEnds
  <2>1. cameraPc' = "ended" /\ guiPc' = "joinCamera"
    BY <1>1 DEF CameraThreadEnds
  <2> QED BY <2>1 DEF AInv, EndOrder, StopExpected, SessionAccountedFor
<1> QED BY <1>1, WorkerKeepsAInv, DispatchKeepsAInv, CommandKeepsAInv
        DEF ProtocolNext, Terminated

\* No session is lost: until the camera thread ends, one whose end the controller
\* has not seen is opening or open in the worker, or its end is about to be
\* announced; no stop, timeout or late answer leaves the controller waiting for
\* something that will not come.
THEOREM SessionNeverLost == ProtocolSpec => []SessionAccountedFor
<1>1. IInv /\ IInv' /\ AInv /\ [ProtocolNext]_protocolVars => AInv'
  BY StepKeepsAInv
<1>2. AInv => SessionAccountedFor
  BY DEF AInv
<1> QED BY <1>1, <1>2, InitAInv, Inductive, PTL DEF ProtocolSpec
=============================================================================
