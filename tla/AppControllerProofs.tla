------------------------ MODULE AppControllerProofs ------------------------
(***************************************************************************)
(* The controller as a whole, for every number of sessions, loads, sources *)
(* and frames: its camera part implements the camera protocol, what the    *)
(* window says of models and cameras is true, and what it shows is         *)
(* current.  The argument: the invariant of the camera protocol holds of   *)
(* the camera events among the queued ones; besides it, one load is under  *)
(* way while the window says "Loading" and none otherwise, a continuation  *)
(* that waits for the camera excludes the other, and a frame at work is of *)
(* the detector loaded last or of a source that is gone.                   *)
(***************************************************************************)
EXTENDS AppController, SubsequencesProofs, TLAPS

\* The camera protocol, of the camera events among the queued events.
CameraPart == INSTANCE CameraProtocolProofs
    WITH guiQueue <- KeepIn(guiQueue, Camera!CameraEventType)

FrameType == [frame : Nat, source : Nat]
InferenceEventType ==
    LoadAnswers \cup [event : {"inferenceFailed", "detection"},
                      load : Nat, frame : FrameType, dropped : Nat]
InboxType == [stopping : BOOLEAN, desired : Nat, source : Nat, dropped : Nat,
              load : Nat, frame : FrameType]
JobType == [load : Nat, frame : FrameType, dropped : Nat]

\* The fields of the controller, field by field.
AppFields == {"modelState", "sourceGeneration", "cameraSource", "currentImage", "packet",
              "afterCameraStop", "pendingModelLoad", "refreshActive",
              "refreshRestartCamera", "modelLoading", "camerasListed",
              "initialCamera", "submitted", "usedDestroyed"}

FieldsOK(a) ==
    /\ DOMAIN a = AppFields
    /\ a.modelState \in {"Loading", "Ready", "Error", "Unloading"}
    /\ a.sourceGeneration \in Nat /\ a.cameraSource \in Nat /\ a.submitted \in Nat
    /\ a.packet \in InferenceEventType \cup {NoPacket}
    /\ a.afterCameraStop \in {"None", "Refresh", "LoadModel"}
    /\ a.currentImage \in BOOLEAN /\ a.pendingModelLoad \in BOOLEAN
    /\ a.refreshActive \in BOOLEAN /\ a.refreshRestartCamera \in BOOLEAN
    /\ a.modelLoading \in BOOLEAN /\ a.camerasListed \in BOOLEAN
    /\ a.initialCamera \in BOOLEAN /\ a.usedDestroyed \in BOOLEAN

\* Types of the queue, of the inference worker and of the controller.
AppTypeOK ==
    /\ guiQueue \in Seq(Camera!CameraEventType \cup InferenceEventType)
    /\ inbox \in InboxType
    /\ inferencePc \in InferencePcs
    /\ job \in JobType
    /\ detector \in BOOLEAN /\ loadedGeneration \in Nat
    /\ FieldsOK(app)

\* What the inference thread works on fits where it is.
Working ==
    /\ inferencePc \in {"loading", "loaded", "announcing"} <=> job.load # NoLoad
    /\ inferencePc \in {"detecting", "detected", "publishing"} <=> job.frame # NoFrame
    /\ inferencePc = "detecting" => detector

\* The detector is of the load requested last, and none is under way.
Loaded(box) == /\ detector /\ loadedGeneration = box.desired
               /\ box.load = NoLoad /\ job.load = NoLoad

\* Every load under way is the one requested last; "Ready", its announcement and
\* a frame in the mailbox mean that its detector is there.  Only shutdown() stops
\* the mailbox, and empties it.
OfLastLoad(state, box) ==
    /\ box.stopping => /\ guiPc \in {"joinInference", "closed", "exited"}
                       /\ box.load = NoLoad /\ box.frame = NoFrame
    /\ box.load \in {NoLoad, box.desired} /\ job.load \in {NoLoad, box.desired}
    /\ WindowOpen /\ state = "Ready" => Loaded(box)
    /\ WindowOpen => \A e \in ToSet(guiQueue) : e.event = "modelLoaded" => Loaded(box)
    /\ box.frame # NoFrame => Loaded(box)

\* What waits, what is shown, what is at work and what was posted is of no later
\* source than the controller's; what is of this source is of the last load.
OfSource(source, packet, box) ==
    WorkerExists =>
        /\ box.source = source
        /\ box.frame # NoFrame => box.frame.source = source
        /\ packet # NoPacket => packet.frame.source = source /\ packet.load = box.desired
        /\ job.frame # NoFrame =>
              /\ job.frame.source <= source
              /\ job.frame.source = source => loadedGeneration = box.desired
        /\ \A e \in ToSet(guiQueue) : e.event = "detection" =>
              /\ e.frame.source <= source
              /\ e.frame.source = source => e.load = box.desired

InferenceSide == /\ Working
                 /\ OfLastLoad(app.modelState, inbox)
                 /\ OfSource(app.sourceGeneration, app.packet, inbox)

\* The two things that can wait for the camera to stop exclude one another, and
\* no load is under way while a Refresh is.
Continuations ==
    /\ WindowOpen => ~(app.modelState = "Loading" /\ app.pendingModelLoad)
    /\ app.afterCameraStop = "LoadModel" => ~app.refreshActive
    /\ app.refreshActive => /\ LoadsUnderWay = 0
                            /\ app.modelState # "Loading"
                            /\ ~WindowOpen => app.modelState # "Ready"

\* A camera that is wanted has a model and the current source, also while it opens.
CameraServed ==
    WindowOpen /\ CameraWanted => /\ app.modelState = "Ready" /\ ~app.currentImage
                                  /\ app.cameraSource = app.sourceGeneration

\* The camera of the command line waits for the first model: nothing of the
\* camera has happened before.
NothingBeforeFirst ==
    app.initialCamera => /\ sequence = 0 /\ session.state = "Idle"
                         /\ ~releasePending
                         /\ app.modelState # "Ready"

Flags == LoadingIsTrue /\ Continuations /\ CameraServed /\ NothingBeforeFirst

IInv == AppTypeOK /\ CameraPart!IInv /\ InferenceSide /\ Flags

-----------------------------------------------------------------------------
(* The queue of the GUI thread. *)

EventType == Camera!CameraEventType \cup InferenceEventType
CameraEvents == KeepIn(guiQueue, Camera!CameraEventType)
LoadEvents == KeepIn(guiQueue, LoadAnswers)

\* A signal is of the camera or of the inference worker; only the latter's
\* answers to a load are counted as such.
LEMMA Kinds ==
  ASSUME NEW e \in EventType
  PROVE  /\ e \in Camera!CameraEventType => e \notin InferenceEventType /\ e \notin LoadAnswers
         /\ e \in Camera!CameraEventType <=>
               e.event \in {"started", "stopped", "frame", "cameraFailed"}
         /\ e \notin Camera!CameraEventType => e \in InferenceEventType
         /\ e \in LoadAnswers => e.event \in {"modelLoaded", "loadFailed"}
BY DEF EventType, Camera!CameraEventType, InferenceEventType, LoadAnswers

\* The counts of events are numbers.
LEMMA Counts ==
  ASSUME guiQueue \in Seq(EventType)
  PROVE  Len(LoadEvents) \in Nat /\ Len(CameraEvents) \in Nat
                                 /\ Len(CameraEvents) <= Len(guiQueue)
<1>1. LoadEvents \in Seq(EventType \cap LoadAnswers) /\ CameraEvents \in Seq(EventType \cap Camera!CameraEventType)
  BY KeepInType DEF LoadEvents, CameraEvents
<1>2. Len(CameraEvents) <= Len(guiQueue)
  BY KeepInLength DEF CameraEvents
<1> QED BY <1>1, <1>2

\* The event at the head of the queue is delivered.
LEMMA Delivered ==
  ASSUME guiQueue \in Seq(EventType), NEW e, Deliver(e)
  PROVE  /\ guiQueue' \in Seq(EventType) /\ ToSet(guiQueue') \subseteq ToSet(guiQueue)
         /\ e \in ToSet(guiQueue) /\ e \in EventType
         /\ e \in Camera!CameraEventType =>
               /\ CameraEvents # <<>> /\ Head(CameraEvents) = e
               /\ CameraEvents' = Tail(CameraEvents)
         /\ e \notin Camera!CameraEventType => CameraEvents' = CameraEvents
         /\ e \in LoadAnswers => Len(LoadEvents) = Len(LoadEvents') + 1
         /\ e \notin LoadAnswers => Len(LoadEvents') = Len(LoadEvents)
<1>1. guiQueue # <<>> /\ e = Head(guiQueue) /\ guiQueue' = Tail(guiQueue)
  BY DEF Deliver
<1>2. /\ Tail(guiQueue) \in Seq(EventType) /\ ToSet(Tail(guiQueue)) \subseteq ToSet(guiQueue)
      /\ Head(guiQueue) \in ToSet(guiQueue) /\ Head(guiQueue) \in EventType
  BY <1>1, ToSetTail
<1>3. /\ e \in Camera!CameraEventType =>
            /\ CameraEvents # <<>> /\ Head(CameraEvents) = e
            /\ CameraEvents' = Tail(CameraEvents)
      /\ e \notin Camera!CameraEventType => CameraEvents' = CameraEvents
  <2>1. CameraEvents' = KeepIn(Tail(guiQueue), Camera!CameraEventType)
    BY <1>1 DEF CameraEvents
  <2> QED BY <1>1, <2>1, KeepInTail DEF CameraEvents
<1>4. /\ e \in LoadAnswers => Len(LoadEvents) = Len(LoadEvents') + 1
      /\ e \notin LoadAnswers => LoadEvents' = LoadEvents
  <2>1. LoadEvents' = KeepIn(Tail(guiQueue), LoadAnswers)
    BY <1>1 DEF LoadEvents
  <2> QED BY <1>1, <2>1, KeepInTail DEF LoadEvents
<1> QED BY <1>1, <1>2, <1>3, <1>4

\* The camera worker posts an event ...
LEMMA CameraPosts ==
  ASSUME guiQueue \in Seq(EventType), NEW e \in Camera!CameraEventType, Post(<<e>>)
  PROVE  /\ guiQueue' \in Seq(EventType)
         /\ CameraEvents' = CameraEvents \o <<e>>
         /\ LoadEvents' = LoadEvents
         /\ ToSet(guiQueue') = ToSet(guiQueue) \cup {e}
<1>1. e \in EventType /\ e \notin LoadAnswers
  BY Kinds DEF EventType
<1>2. guiQueue' = guiQueue \o <<e>>
  BY DEF Post
<1>3. guiQueue' \in Seq(EventType) /\ ToSet(guiQueue') = ToSet(guiQueue) \cup {e}
  BY <1>1, <1>2, ToSetPost
<1>4. KeepIn(guiQueue', Camera!CameraEventType) = KeepIn(guiQueue, Camera!CameraEventType) \o <<e>>
  <2>1. ASSUME NEW x \in EventType, NEW S
        PROVE  KeepIn(guiQueue \o <<x>>, S)
                  = IF x \in S THEN KeepIn(guiQueue, S) \o <<x>> ELSE KeepIn(guiQueue, S)
    BY KeepInPost
  <2> QED BY <1>1, <1>2, <2>1, Zenon
<1>5. KeepIn(guiQueue', LoadAnswers) = KeepIn(guiQueue, LoadAnswers)
  BY <1>1, <1>2, KeepInPost
<1> QED BY <1>3, <1>4, <1>5 DEF CameraEvents, LoadEvents

\* ... or the first frame, with the start of the session before it.
LEMMA CameraPostsTwo ==
  ASSUME guiQueue \in Seq(EventType), NEW e \in Camera!CameraEventType,
         NEW f \in Camera!CameraEventType, Post(<<e, f>>)
  PROVE  /\ guiQueue' \in Seq(EventType)
         /\ CameraEvents' = CameraEvents \o <<e, f>>
         /\ LoadEvents' = LoadEvents
         /\ ToSet(guiQueue') = ToSet(guiQueue) \cup {e, f}
<1>1. e \in EventType /\ f \in EventType /\ e \notin LoadAnswers /\ f \notin LoadAnswers
  BY Kinds DEF EventType
<1>2. guiQueue' = guiQueue \o <<e, f>>
  BY DEF Post
<1>3. guiQueue' \in Seq(EventType) /\ ToSet(guiQueue') = ToSet(guiQueue) \cup {e, f}
  BY <1>1, <1>2, ToSetPostTwo
<1>4. KeepIn(guiQueue', Camera!CameraEventType) = KeepIn(guiQueue, Camera!CameraEventType) \o <<e, f>>
  <2>1. KeepIn(guiQueue \o <<e, f>>, Camera!CameraEventType)
           = KeepIn(guiQueue, Camera!CameraEventType) \o <<e, f>>
    BY <1>1, KeepInPostTwo
  <2> QED BY <1>2, <2>1, Zenon
<1>5. KeepIn(guiQueue', LoadAnswers) = KeepIn(guiQueue, LoadAnswers)
  <2>1. guiQueue \o <<e>> \in Seq(EventType) /\ guiQueue' = (guiQueue \o <<e>>) \o <<f>>
    <3>1. /\ guiQueue \o <<e>> \in Seq(EventType)
          /\ guiQueue \o <<e, f>> = (guiQueue \o <<e>>) \o <<f>>
      BY <1>1, PostTwo
    <3> QED BY <1>2, <3>1, Zenon
  <2>2. ASSUME NEW q \in Seq(EventType), NEW x \in EventType, x \notin LoadAnswers
        PROVE  KeepIn(q \o <<x>>, LoadAnswers) = KeepIn(q, LoadAnswers)
    <3>1. KeepIn(q \o <<x>>, LoadAnswers)
             = IF x \in LoadAnswers THEN KeepIn(q, LoadAnswers) \o <<x>> ELSE KeepIn(q, LoadAnswers)
      BY KeepInPost
    <3> QED BY <2>2, <3>1, Zenon
  <2> QED BY <1>1, <2>1, <2>2, Zenon
<1> QED BY <1>3, <1>4, <1>5 DEF CameraEvents, LoadEvents

\* The inference worker posts an event.
LEMMA InferencePosts ==
  ASSUME guiQueue \in Seq(EventType), NEW e \in InferenceEventType, Post(<<e>>)
  PROVE  /\ guiQueue' \in Seq(EventType)
         /\ CameraEvents' = CameraEvents
         /\ e \in LoadAnswers => Len(LoadEvents') = Len(LoadEvents) + 1
         /\ e \notin LoadAnswers => LoadEvents' = LoadEvents
         /\ ToSet(guiQueue') = ToSet(guiQueue) \cup {e}
<1>1. e \in EventType /\ e \notin Camera!CameraEventType
  BY DEF EventType, InferenceEventType, LoadAnswers, Camera!CameraEventType
<1>2. guiQueue' = guiQueue \o <<e>>
  BY DEF Post
<1>3. guiQueue' \in Seq(EventType) /\ ToSet(guiQueue') = ToSet(guiQueue) \cup {e}
  BY <1>1, <1>2, ToSetPost
<1>4. KeepIn(guiQueue', Camera!CameraEventType) = KeepIn(guiQueue, Camera!CameraEventType)
  BY <1>1, <1>2, KeepInPost
<1>5. /\ e \in LoadAnswers => LoadEvents' = LoadEvents \o <<e>>
      /\ e \notin LoadAnswers => LoadEvents' = LoadEvents
  <2>1. KeepIn(guiQueue', LoadAnswers) = IF e \in LoadAnswers
                                         THEN KeepIn(guiQueue, LoadAnswers) \o <<e>>
                                         ELSE KeepIn(guiQueue, LoadAnswers)
    BY <1>1, <1>2, KeepInPost
  <2> QED BY <2>1, Zenon DEF LoadEvents
<1>6. LoadEvents \in Seq(EventType \cap LoadAnswers)
  BY KeepInType DEF LoadEvents
<1>7. e \in LoadAnswers => Len(LoadEvents \o <<e>>) = Len(LoadEvents) + 1
  BY <1>1, <1>6
<1> QED BY <1>3, <1>4, <1>5, <1>7 DEF CameraEvents

-----------------------------------------------------------------------------
(* Every step of the controller is one of the camera protocol, or none. *)

cameraProtocolVars == <<CameraEvents, cameraWorkerVars, cameraFields, guiPc>>

\* The protocol looks at the camera events only.
LEMMA SameVars == cameraProtocolVars = CameraPart!protocolVars
BY DEF cameraProtocolVars, CameraEvents, cameraWorkerVars, cameraFields,
       CameraPart!protocolVars, CameraPart!cameraWorkerVars, CameraPart!controllerVars

\* A handler of a camera event is one of the protocol ...
LEMMA CameraHandled ==
  ASSUME guiQueue \in Seq(EventType), NEW e \in Camera!CameraEventType, Handle(e)
  PROVE  CameraPart!Handle(e) /\ CameraPart!Sender = e.session
<1>1. Deliver(e) /\ Camera!Dispatching /\ UNCHANGED <<cameraRest, guiPc>>
  BY DEF Handle
<1>2. CameraEvents # <<>> /\ Head(CameraEvents) = e /\ CameraEvents' = Tail(CameraEvents)
  BY <1>1, Delivered
<1>3. CameraPart!Deliver(e) /\ CameraPart!Sender = e.session
  BY <1>2 DEF CameraPart!Deliver, CameraPart!Sender, CameraEvents
<1> QED BY <1>1, <1>3 DEF CameraPart!Handle, CameraPart!Dispatching, Camera!Dispatching,
                       CameraPart!workerRest, cameraRest

\* ... and one of another event leaves the queue of the protocol alone.
LEMMA OtherHandled ==
  ASSUME guiQueue \in Seq(EventType), NEW e, e \notin Camera!CameraEventType, Handle(e)
  PROVE  CameraEvents' = CameraEvents /\ UNCHANGED <<cameraRest, guiPc>>
<1>1. Deliver(e) /\ UNCHANGED <<cameraRest, guiPc>>
  BY DEF Handle
<1> QED BY <1>1, Delivered

\* The camera worker does what it does in the protocol.
LEMMA WorkerMaps ==
  ASSUME AppTypeOK, CameraPart!IInv, CameraStep PROVE CameraPart!Worker
<1>1. guiQueue \in Seq(EventType)
  BY DEF AppTypeOK, EventType
<1>2. /\ activeSession \in Nat /\ cameraQueue \in Seq(Camera!RequestType)
      /\ cameraPc = "releasing" => reply \in Camera!CameraEventType
  <2>1. /\ activeSession \in Nat /\ cameraQueue \in Seq(Camera!RequestType)
        /\ reply \in Camera!CameraEventType \cup {CameraPart!NoReply}
    BY DEF CameraPart!IInv, CameraPart!ProtocolTypeOK, CameraPart!RequestType,
           Camera!RequestType, Camera!CameraEventType, CameraPart!CameraEventType
  <2>2. cameraPc = "releasing" => reply.event \in {"stopped", "cameraFailed"}
    BY DEF CameraPart!IInv, CameraPart!Ownership, CameraPart!CameraEvent
  <2>3. CameraPart!NoReply.event = "none"
    BY DEF CameraPart!NoReply
  <2> QED BY <2>1, <2>2, <2>3
<1>3. cameraQueue # <<>> => Requested \in Nat
  <2>1. cameraQueue # <<>> => Head(cameraQueue) \in Camera!RequestType
    BY <1>2
  <2> QED BY <2>1 DEF Requested, Camera!RequestType
<1>4. \A s \in Nat : /\ CameraEvent("cameraFailed", s) \in Camera!CameraEventType
                     /\ CameraEvent("stopped", s) \in Camera!CameraEventType
                     /\ CameraEvent("started", s) \in Camera!CameraEventType
                     /\ CameraEvent("frame", s) \in Camera!CameraEventType
  BY DEF CameraEvent, Camera!CameraEventType
<1>5. CASE Start /\ activeSession # 0
  <2>1. Post(<<CameraEvent("cameraFailed", Requested)>>) /\ cameraQueue # <<>>
    BY <1>5 DEF Start, NextRequest
  <2>2. CameraEvents' = CameraEvents \o <<CameraEvent("cameraFailed", Requested)>>
    BY <1>1, <1>3, <1>4, <2>1, CameraPosts
  <2>3. CameraPart!Start
    BY <1>5, <2>2 DEF Start, NextRequest, Requested, CameraEvent, CameraEvents, CameraPart!Start,
       CameraPart!NextRequest, CameraPart!Requested, CameraPart!CameraEvent, CameraPart!Post
  <2> QED BY <2>3 DEF CameraStep, CameraPart!Worker, CameraPart!CameraThread, CameraPart!TakeRequest,
                      cameraFields, CameraPart!controllerVars
<1>6. CASE Start /\ activeSession = 0
  <2>1. CameraPart!Start
    BY <1>6 DEF Start, NextRequest, Requested, CameraPart!Start,
       CameraPart!NextRequest, CameraPart!Requested
  <2> QED BY <2>1 DEF CameraStep, CameraPart!Worker, CameraPart!CameraThread, CameraPart!TakeRequest,
                      cameraFields, CameraPart!controllerVars
<1>7. CASE StopIgnored
  <2>1. Post(<<CameraEvent("stopped", Requested)>>) /\ cameraQueue # <<>>
    BY <1>7 DEF StopIgnored, NextRequest
  <2>2. CameraEvents' = CameraEvents \o <<CameraEvent("stopped", Requested)>>
    BY <1>1, <1>3, <1>4, <2>1, CameraPosts
  <2>3. CameraPart!StopIgnored
    BY <1>7, <2>2 DEF StopIgnored, NextRequest, Requested, CameraEvent, CameraEvents,
       CameraPart!StopIgnored, CameraPart!NextRequest, CameraPart!Requested,
       CameraPart!CameraEvent, CameraPart!Post
  <2> QED BY <2>3 DEF CameraStep, CameraPart!Worker, CameraPart!CameraThread, CameraPart!TakeRequest,
                      cameraFields, CameraPart!controllerVars
<1>8. CASE Stop \/ OpenSucceeds \/ OpenFails \/ ReadFails
  <2>1. CameraPart!Stop \/ CameraPart!OpenSucceeds \/ CameraPart!OpenFails \/ CameraPart!ReadFails
    BY <1>8 DEF Stop, OpenSucceeds, OpenFails, ReadFails, NextRequest, Requested, ReleaseThen,
       CameraEvent, CameraPart!Stop, CameraPart!OpenSucceeds, CameraPart!OpenFails,
       CameraPart!ReadFails, CameraPart!NextRequest, CameraPart!Requested,
       CameraPart!ReleaseThen, CameraPart!CameraEvent
  <2> QED BY <2>1 DEF CameraStep, CameraPart!Worker, CameraPart!CameraThread, CameraPart!TakeRequest,
                      cameraFields, CameraPart!controllerVars
<1>9. CASE CaptureNext
  <2>1. Len(CameraEvents) < MaxGuiEvents
    <3>1. Len(CameraEvents) <= Len(guiQueue) /\ Len(CameraEvents) \in Nat /\ Len(guiQueue) \in Nat
      BY <1>1, Counts
    <3> QED BY <1>9, <3>1, MaxGuiEventsAssumption DEF CaptureNext
  <2>2. CameraPart!CaptureNext
    BY <1>9, <2>1 DEF CaptureNext, CameraPart!CaptureNext, CameraEvents
  <2> QED BY <2>2 DEF CameraStep, CameraPart!Worker, CameraPart!CameraThread,
                      cameraFields, CameraPart!controllerVars
<1>10. CASE ReadSucceeds
  <2> DEFINE first == CameraEvent("started", activeSession)
             frame == CameraEvent("frame", activeSession)
  <2>1. first \in Camera!CameraEventType /\ frame \in Camera!CameraEventType
    BY <1>2, <1>4
  <2>2. CameraEvents' = CameraEvents \o (IF firstFrameSeen THEN <<frame>> ELSE <<first, frame>>)
    <3> HIDE DEF first, frame
    <3>1. CASE firstFrameSeen
      <4>1. Post(<<frame>>)
        BY <1>10, <3>1 DEF ReadSucceeds, frame
      <4> QED BY <1>1, <2>1, <3>1, <4>1, CameraPosts
    <3>2. CASE ~ firstFrameSeen
      <4>1. Post(<<first, frame>>)
        BY <1>10, <3>2 DEF ReadSucceeds, first, frame
      <4> QED BY <1>1, <2>1, <3>2, <4>1, CameraPostsTwo
    <3> QED BY <3>1, <3>2, Zenon
  <2>3. CameraPart!ReadSucceeds
    BY <1>10, <2>2 DEF ReadSucceeds, CameraEvent, CameraEvents, CameraPart!ReadSucceeds,
                       CameraPart!CameraEvent, CameraPart!Post
  <2> QED BY <2>3 DEF CameraStep, CameraPart!Worker, CameraPart!CameraThread,
                      cameraFields, CameraPart!controllerVars
<1>11. CASE Released
  <2>1. Post(<<reply>>) /\ reply \in Camera!CameraEventType
    BY <1>2, <1>11 DEF Released
  <2>2. CameraEvents' = CameraEvents \o <<reply>>
    BY <1>1, <2>1, CameraPosts
  <2>3. CameraPart!Released
    BY <1>11, <2>2 DEF Released, CameraEvents, NoReply, CameraPart!Released, CameraPart!NoReply,
                       CameraPart!Post
  <2> QED BY <2>3 DEF CameraStep, CameraPart!Worker, CameraPart!CameraThread,
                      cameraFields, CameraPart!controllerVars
<1> QED BY <1>5, <1>6, <1>7, <1>8, <1>9, <1>10, <1>11
        DEF CameraStep, CameraThread, TakeRequest

\* A step of the controller that leaves the camera alone ...
LEMMA QuietMaps ==
  ASSUME CameraEvents' = CameraEvents, UNCHANGED <<cameraRest, guiPc>>, KeepCamera
  PROVE  UNCHANGED CameraPart!protocolVars
<1>1. UNCHANGED cameraProtocolVars
  BY DEF KeepCamera, cameraRest, cameraProtocolVars, cameraWorkerVars
<1> QED BY <1>1 DEF cameraProtocolVars, CameraEvents, cameraWorkerVars, cameraFields,
                    CameraPart!protocolVars, CameraPart!cameraWorkerVars, CameraPart!controllerVars

\* ... stops it ...
LEMMA StopMaps ==
  ASSUME CameraEvents' = CameraEvents, UNCHANGED <<cameraRest, guiPc>>, Camera!Dispatching,
         Camera!BeginCameraStop
  PROVE  CameraPart!StopCamera
BY DEF cameraRest, Camera!Dispatching, Camera!BeginCameraStop, Camera!Send, Camera!Request,
       Camera!CanBeginStopping, Camera!BeginStopping, Camera!SessionState,
       CameraEvents, CameraPart!StopCamera, CameraPart!Dispatching, CameraPart!BeginCameraStop,
       CameraPart!Send, CameraPart!Request, CameraPart!CanBeginStopping,
       CameraPart!BeginStopping, CameraPart!SessionState, CameraPart!workerRest

\* ... or starts it.
LEMMA StartMaps ==
  ASSUME CameraEvents' = CameraEvents, UNCHANGED <<cameraRest, guiPc>>, Camera!Dispatching,
         Camera!BeginCameraStart(session, watchdogs), ~ releasePending,
         UNCHANGED <<releasePending, timedOut>>
  PROVE  CameraPart!StartCamera
BY DEF cameraRest, Camera!Dispatching, Camera!BeginCameraStart, Camera!Send, Camera!Request,
       Camera!CanBeginOpening, Camera!BeginOpening, Camera!SessionState,
       CameraEvents, CameraPart!StartCamera, CameraPart!Dispatching, CameraPart!BeginCameraStart,
       CameraPart!Send, CameraPart!Request, CameraPart!CanBeginOpening,
       CameraPart!BeginOpening, CameraPart!SessionState, CameraPart!workerRest

ProtocolStep == CameraPart!ProtocolNext \/ UNCHANGED CameraPart!protocolVars

\* The commands of the user.
LEMMA CommandMaps == ASSUME Commands PROVE ProtocolStep
<1>1. CASE Command /\ KeepCamera
  <2>1. CameraEvents' = CameraEvents /\ UNCHANGED <<cameraRest, guiPc>>
    BY <1>1 DEF Command, CameraEvents
  <2> QED BY <1>1, <2>1, QuietMaps DEF ProtocolStep
<1>2. CASE Command /\ Camera!BeginCameraStop
  <2>1. CameraEvents' = CameraEvents /\ UNCHANGED <<cameraRest, guiPc>> /\ Camera!Dispatching
    BY <1>2 DEF Command, CameraEvents, Camera!Dispatching
  <2>2. CameraPart!StopCamera
    BY <1>2, <2>1, StopMaps
  <2> QED BY <2>2 DEF ProtocolStep, CameraPart!ProtocolNext
<1>3. CASE StartCamera
  <2>1. CameraEvents' = CameraEvents /\ UNCHANGED <<cameraRest, guiPc>> /\ Camera!Dispatching
    BY <1>3 DEF StartCamera, Command, CameraEvents, Camera!Dispatching
  <2>2. CameraPart!StartCamera
    BY <1>3, <2>1, StartMaps DEF StartCamera
  <2> QED BY <2>2 DEF ProtocolStep, CameraPart!ProtocolNext
<1>4. CASE Shutdown
  <2>1. CameraPart!Shutdown
    BY <1>4 DEF Shutdown, Camera!Shutdown, Camera!Send, Camera!Request, Camera!LastSession,
       Camera!workerRest, CameraPart!Shutdown, CameraPart!Send, CameraPart!Request,
       CameraPart!LastSession, CameraPart!workerRest
  <2> QED BY <2>1 DEF ProtocolStep, CameraPart!ProtocolNext
<1> QED BY <1>1, <1>2, <1>3, <1>4, Zenon
        DEF Commands, LoadModel, RefreshSources, RefreshBlocked, RefreshIdle, RefreshAfterStop,
            OpenImage, StopCamera, UpdateThresholds

\* The signals of the camera.
LEMMA CameraSignalMaps ==
  ASSUME AppTypeOK, Continuations, NEW s \in Nat,
         OnCameraStarted(s) \/ OnCameraFrame(s) \/ OnCameraStopped(s) \/ OnCameraFailed(s)
  PROVE  CameraPart!ProtocolNext
<1>1. guiQueue \in Seq(EventType)
  BY DEF AppTypeOK, EventType
<1>2. /\ CameraEvent("started", s) \in Camera!CameraEventType
      /\ CameraEvent("frame", s) \in Camera!CameraEventType
      /\ CameraEvent("stopped", s) \in Camera!CameraEventType
      /\ CameraEvent("cameraFailed", s) \in Camera!CameraEventType
  BY DEF CameraEvent, Camera!CameraEventType
<1>3. ASSUME NEW event \in {"started", "frame", "stopped", "cameraFailed"},
             Handle(CameraEvent(event, s))
      PROVE  CameraPart!Handle(CameraPart!CameraEvent(event, s)) /\ CameraPart!Sender = s
  <2>1. CameraEvent(event, s) \in Camera!CameraEventType
    BY <1>2
  <2>2. CameraPart!Handle(CameraEvent(event, s)) /\ CameraPart!Sender = CameraEvent(event, s).session
    BY <1>1, <1>3, <2>1, CameraHandled
  <2> QED BY <2>2 DEF CameraEvent, CameraPart!CameraEvent
<1>4. CASE OnCameraStarted(s)
  <2>1. CameraPart!Handle(CameraPart!CameraEvent("started", s)) /\ CameraPart!Sender = s
    BY <1>3, <1>4 DEF OnCameraStarted
  <2>2. CameraPart!AcceptStarted(s) \/ CameraPart!IgnoreStarted(s)
    BY <1>4 DEF OnCameraStarted, Camera!AcceptStarted, Camera!IgnoreStarted,
       Camera!CanAcknowledgeStarted, Camera!AcknowledgeStarted, Camera!Accepts,
       Camera!SessionState, Camera!MarkCameraWorkerResponsive, Camera!controllerVars,
       CameraPart!AcceptStarted, CameraPart!IgnoreStarted, CameraPart!CanAcknowledgeStarted,
       CameraPart!AcknowledgeStarted, CameraPart!Accepts, CameraPart!SessionState,
       CameraPart!MarkCameraWorkerResponsive, CameraPart!controllerVars
  <2> QED BY <2>1, <2>2 DEF CameraPart!OnCameraStarted, CameraPart!Dispatch, CameraPart!ProtocolNext
<1>5. CASE OnCameraFrame(s)
  <2>1. CameraPart!Handle(CameraPart!CameraEvent("frame", s)) /\ CameraPart!Sender = s
    BY <1>3, <1>5 DEF OnCameraFrame
  <2>2. UNCHANGED <<CameraPart!controllerVars, cameraQueue>>
    BY <1>5 DEF OnCameraFrame, KeepCamera, cameraFields, CameraPart!controllerVars
  <2> QED BY <2>1, <2>2 DEF CameraPart!OnCameraFrame, CameraPart!Dispatch, CameraPart!ProtocolNext
<1>6. CASE OnCameraStopped(s)
  <2>1. CameraPart!Handle(CameraPart!CameraEvent("stopped", s)) /\ CameraPart!Sender = s
    BY <1>3, <1>6 DEF OnCameraStopped
  <2>2. \/ Camera!RecoverLate(s) \/ Camera!AcceptStopped(s) \/ Camera!IgnoreStopped(s)
        \/ guiPc = "loop" /\ Camera!AcceptStoppedAndRestart(s)
    <3>1. Camera!Dispatching
      BY <1>6 DEF OnCameraStopped, Handle
    <3>2. app.refreshActive /\ ~ RestartRefused => guiPc = "loop"
      BY DEF Continuations, WindowOpen, RestartRefused
    <3> QED BY <1>6, <3>1, <3>2, Zenon DEF OnCameraStopped, AcceptStopped
  <2>3. \/ CameraPart!RecoverLate(s) \/ CameraPart!AcceptStopped(s) \/ CameraPart!IgnoreStopped(s)
        \/ guiPc = "loop" /\ CameraPart!AcceptStoppedAndRestart(s)
    BY <2>2 DEF Camera!RecoverLate, Camera!AcceptStopped, Camera!IgnoreStopped, Camera!Late,
       Camera!AcceptStoppedAndRestart, Camera!StoppedAccepted, Camera!CanAcknowledgeStopped,
       Camera!AcknowledgeStopped, Camera!IdleSession, Camera!Accepts, Camera!SessionState,
       Camera!MarkCameraWorkerResponsive, Camera!controllerVars, Camera!BeginCameraStart,
       Camera!CanBeginOpening, Camera!BeginOpening, Camera!Send, Camera!Request,
       CameraPart!RecoverLate, CameraPart!AcceptStopped, CameraPart!IgnoreStopped, CameraPart!Late,
       CameraPart!AcceptStoppedAndRestart, CameraPart!StoppedAccepted,
       CameraPart!CanAcknowledgeStopped, CameraPart!AcknowledgeStopped, CameraPart!IdleSession,
       CameraPart!Accepts, CameraPart!SessionState, CameraPart!MarkCameraWorkerResponsive,
       CameraPart!controllerVars, CameraPart!BeginCameraStart, CameraPart!CanBeginOpening,
       CameraPart!BeginOpening, CameraPart!Send, CameraPart!Request
  <2> QED BY <2>1, <2>3 DEF CameraPart!OnCameraStopped, CameraPart!Dispatch, CameraPart!ProtocolNext
<1>7. CASE OnCameraFailed(s)
  <2>1. CameraPart!Handle(CameraPart!CameraEvent("cameraFailed", s)) /\ CameraPart!Sender = s
    BY <1>3, <1>7 DEF OnCameraFailed
  <2>2. Camera!RecoverLate(s) \/ Camera!AcceptFailed(s) \/ Camera!IgnoreFailed(s)
    BY <1>7 DEF OnCameraFailed, AcceptFailed
  <2>3. CameraPart!RecoverLate(s) \/ CameraPart!AcceptFailed(s) \/ CameraPart!IgnoreFailed(s)
    BY <2>2 DEF Camera!RecoverLate, Camera!AcceptFailed, Camera!IgnoreFailed, Camera!Late,
       Camera!CanFail, Camera!Fail, Camera!Accepts, Camera!SessionState,
       Camera!MarkCameraWorkerResponsive, Camera!controllerVars,
       CameraPart!RecoverLate, CameraPart!AcceptFailed, CameraPart!IgnoreFailed, CameraPart!Late,
       CameraPart!CanFail, CameraPart!Fail, CameraPart!Accepts, CameraPart!SessionState,
       CameraPart!MarkCameraWorkerResponsive, CameraPart!controllerVars
  <2> QED BY <2>1, <2>3 DEF CameraPart!OnCameraFailed, CameraPart!Dispatch, CameraPart!ProtocolNext
<1> QED BY <1>4, <1>5, <1>6, <1>7

\* The signals of the inference worker.
LEMMA InferenceSignalMaps ==
  ASSUME AppTypeOK, NothingBeforeFirst, NEW e \in EventType, e \notin Camera!CameraEventType,
         Handle(e),
         \/ OnModelLoaded(e.load) \/ OnLoadFailed(e.load)
         \/ OnInferenceFailed(e.frame) \/ OnDetection(e)
  PROVE  ProtocolStep
<1>1. guiQueue \in Seq(EventType)
  BY DEF AppTypeOK, EventType
<1>2. CameraEvents' = CameraEvents /\ UNCHANGED <<cameraRest, guiPc>> /\ Camera!Dispatching
  BY <1>1, OtherHandled DEF Handle
<1>3. CASE KeepCamera
  BY <1>2, <1>3, QuietMaps DEF ProtocolStep
<1>4. CASE Camera!BeginCameraStop
  <2>1. CameraPart!StopCamera
    BY <1>2, <1>4, StopMaps
  <2> QED BY <2>1 DEF ProtocolStep, CameraPart!ProtocolNext
<1>5. CASE /\ app.initialCamera /\ Camera!BeginCameraStart(session, watchdogs)
           /\ UNCHANGED <<releasePending, timedOut>>
  <2>1. CameraPart!StartCamera
    BY <1>2, <1>5, StartMaps DEF NothingBeforeFirst
  <2> QED BY <2>1 DEF ProtocolStep, CameraPart!ProtocolNext
<1> QED BY <1>3, <1>4, <1>5 DEF OnModelLoaded, OnLoadFailed, OnInferenceFailed, OnDetection

\* Both kinds of signals.
LEMMA DispatchMaps ==
  ASSUME AppTypeOK, Continuations, NothingBeforeFirst, Dispatch PROVE ProtocolStep
<1> DEFINE e == Head(guiQueue)
<1>1. guiQueue \in Seq(EventType) /\ guiQueue # <<>>
  BY DEF AppTypeOK, EventType, Dispatch
<1>2. e \in EventType
  BY <1>1
<1>3. CASE IsCameraEvent(e)
  <2>1. e.session \in Nat
    BY <1>3 DEF IsCameraEvent, Camera!CameraEventType
  <2>2. \/ OnCameraStarted(e.session) \/ OnCameraFrame(e.session)
        \/ OnCameraStopped(e.session) \/ OnCameraFailed(e.session)
    BY <1>3 DEF Dispatch
  <2> HIDE DEF e
  <2> QED BY <2>1, <2>2, CameraSignalMaps DEF ProtocolStep
<1>4. CASE ~ IsCameraEvent(e)
  <2>1. \/ OnModelLoaded(e.load) \/ OnLoadFailed(e.load)
        \/ OnInferenceFailed(e.frame) \/ OnDetection(e)
    BY <1>4 DEF Dispatch
  <2>2. Handle(e)
    BY <2>1 DEF OnModelLoaded, OnLoadFailed, OnInferenceFailed, OnDetection, Handle, Deliver
  <2>3. e \notin Camera!CameraEventType
    BY <1>4 DEF IsCameraEvent
  <2> HIDE DEF e
  <2> QED BY <1>2, <2>1, <2>2, <2>3, InferenceSignalMaps
<1> QED BY <1>3, <1>4

\* The watchdogs, shutdown, and the two threads.
LEMMA OtherMaps ==
  ASSUME AppTypeOK, CameraPart!IInv,
         \/ \E timer \in {"open", "stop"} : Timeout(timer)
         \/ ShuttingDown \/ CameraThreadEnds \/ CameraStep \/ InferenceStep \/ Terminated
  PROVE  ProtocolStep
<1>1. guiQueue \in Seq(EventType)
  BY DEF AppTypeOK, EventType
<1>2. CASE \E timer \in {"open", "stop"} : Timeout(timer)
  <2>1. PICK timer \in {"open", "stop"} : Timeout(timer)
    BY <1>2
  <2>2. CameraEvents' = CameraEvents
    BY <2>1 DEF Timeout, CameraEvents
  <2>3. CameraPart!Timeout(timer)
    BY <2>1, <2>2 DEF Timeout, Camera!Dispatching, Camera!TimeoutFires, Camera!Fail, Camera!Send,
       Camera!Request, Camera!SessionState, cameraRest, CameraEvents, CameraPart!Timeout,
       CameraPart!Dispatching, CameraPart!TimeoutFires, CameraPart!Fail, CameraPart!Send,
       CameraPart!Request, CameraPart!SessionState, CameraPart!workerRest
  <2> QED BY <2>3 DEF ProtocolStep, CameraPart!ProtocolNext
<1>3. CASE ShuttingDown
  <2>1. CASE StopCameraThread
    <3>1. CameraPart!ShutdownStopped \/ CameraPart!CameraThreadJoined
      BY <2>1 DEF StopCameraThread, Camera!ShutdownStopped, Camera!CameraThreadJoined,
         Camera!cameraWorkerVars, Camera!controllerVars, CameraPart!ShutdownStopped,
         CameraPart!CameraThreadJoined, CameraPart!cameraWorkerVars, CameraPart!controllerVars
    <3> QED BY <3>1 DEF ProtocolStep, CameraPart!ProtocolNext, CameraPart!ShuttingDown
  <2>2. CASE StopInference
    <3>1. CameraEvents' = CameraEvents /\ UNCHANGED <<cameraRest, guiPc>> /\ KeepCamera
      BY <2>2 DEF StopInference, CameraEvents, cameraRest, cameraWorkerVars, KeepCamera
    <3> QED BY <3>1, QuietMaps DEF ProtocolStep
  <2>3. CASE InferenceJoined
    <3>1. CameraPart!InferenceJoined
      BY <2>3 DEF InferenceJoined, Camera!InferenceJoined, Camera!cameraWorkerVars,
         Camera!controllerVars, CameraPart!InferenceJoined, CameraPart!cameraWorkerVars,
         CameraPart!controllerVars
    <3> QED BY <3>1 DEF ProtocolStep, CameraPart!ProtocolNext, CameraPart!ShuttingDown
  <2>4. CASE Quit
    <3>1. CameraPart!Quit
      BY <2>4 DEF Quit, Camera!Quit, Camera!cameraWorkerVars, Camera!controllerVars,
         CameraPart!Quit, CameraPart!cameraWorkerVars, CameraPart!controllerVars
    <3> QED BY <3>1 DEF ProtocolStep, CameraPart!ProtocolNext, CameraPart!ShuttingDown
  <2> QED BY <1>3, <2>1, <2>2, <2>3, <2>4 DEF ShuttingDown
<1>4. CASE CameraThreadEnds
  <2>1. CameraPart!CameraThreadEnds
    BY <1>4 DEF CameraThreadEnds, Camera!CameraThreadEnds, Camera!controllerVars,
       CameraPart!CameraThreadEnds, CameraPart!controllerVars
  <2> QED BY <2>1 DEF ProtocolStep, CameraPart!ProtocolNext
<1>5. CASE CameraStep
  BY <1>5, WorkerMaps DEF ProtocolStep, CameraPart!ProtocolNext
<1>6. CASE InferenceStep
  <2>1. UNCHANGED <<cameraRest, guiPc>> /\ KeepCamera
    BY <1>6 DEF InferenceStep, cameraRest, cameraWorkerVars, KeepCamera
  <2>2. CameraEvents' = CameraEvents
    <3>1. CASE UNCHANGED guiQueue
      BY <3>1 DEF CameraEvents
    <3>2. CASE \E e \in InferenceEventType : Post(<<e>>)
      BY <1>1, <3>2, InferencePosts
    <3>3. \A load \in Nat, frame \in FrameType, dropped \in Nat :
             /\ InferenceEvent("loadFailed", load, NoFrame, 0) \in InferenceEventType
             /\ InferenceEvent("modelLoaded", load, NoFrame, 0) \in InferenceEventType
             /\ InferenceEvent("inferenceFailed", load, frame, 0) \in InferenceEventType
             /\ InferenceEvent("detection", load, frame, dropped) \in InferenceEventType
      BY DEF InferenceEvent, InferenceEventType, LoadAnswers
    <3>4. /\ job.load \in Nat /\ job.frame \in FrameType /\ job.dropped \in Nat
          /\ loadedGeneration \in Nat /\ NoFrame \in FrameType /\ NoLoad \in Nat
      BY DEF AppTypeOK, JobType, FrameType, NoFrame, NoLoad
    <3>5. (\E e \in InferenceEventType : Post(<<e>>)) \/ UNCHANGED guiQueue
      BY <1>6, <3>3, <3>4, Zenon DEF InferenceStep, InferenceThread, FallAsleep, Exit, TakeLoad, TakeFrame,
         LoadFails, LoadSucceeds, CheckLoad, AnnounceLoad, DetectFails, DetectSucceeds,
         CheckDetection, Publish, Emit
    <3> QED BY <3>1, <3>2, <3>5
  <2> QED BY <2>1, <2>2, QuietMaps DEF ProtocolStep
<1>7. CASE Terminated
  <2>1. CameraEvents' = CameraEvents /\ UNCHANGED <<cameraRest, guiPc>> /\ KeepCamera
    BY <1>7 DEF Terminated, appVars, CameraEvents, cameraRest, cameraWorkerVars, KeepCamera
  <2> QED BY <2>1, QuietMaps DEF ProtocolStep
<1> QED BY <1>2, <1>3, <1>4, <1>5, <1>6, <1>7

\* Every step.
LEMMA StepMaps ==
  ASSUME IInv, [AppNext]_appVars
  PROVE  ProtocolStep
<1>1. AppTypeOK /\ CameraPart!IInv /\ Continuations /\ NothingBeforeFirst
  BY DEF IInv, Flags
<1>2. CASE UNCHANGED appVars
  <2>1. CameraEvents' = CameraEvents /\ UNCHANGED <<cameraRest, guiPc>> /\ KeepCamera
    BY <1>2 DEF appVars, CameraEvents, cameraRest, cameraWorkerVars, KeepCamera
  <2> QED BY <2>1, QuietMaps DEF ProtocolStep
<1> QED BY <1>1, <1>2, CommandMaps, DispatchMaps, OtherMaps DEF AppNext

\* What holds of the camera protocol goes on to hold.
LEMMA CameraKeepsIInv ==
  ASSUME IInv, [AppNext]_appVars PROVE CameraPart!IInv'
<1>1. MaxSessions \in Nat
  BY AppBounds
<1>2. CameraPart!IInv
  BY DEF IInv
<1>3. [CameraPart!ProtocolNext]_(CameraPart!protocolVars)
  BY StepMaps DEF ProtocolStep
<1> QED BY <1>1, <1>2, <1>3, MaxGuiEventsAssumption, CameraPart!StepKeepsIInv

-----------------------------------------------------------------------------
(* What the GUI thread does to the mailbox, the source and what is shown. *)

\* The mailboxes that the operations make, and their fields.
LEMMA Boxes ==
  ASSUME NEW box \in InboxType, NEW source \in Nat, NEW frame \in Nat
  PROVE  /\ WithSource(box, source) \in InboxType /\ WithLoad(box) \in InboxType
         /\ WithFrame(box, frame, source) \in InboxType /\ WithStop(box) \in InboxType
BY DEF InboxType, FrameType, WithSource, WithLoad, WithFrame, WithStop, Inbox, NoFrame, NoLoad

\* What stays true while "Ready" is not said anew.
LEMMA StateLost ==
  ASSUME NEW state, NEW other, NEW box, OfLastLoad(state, box),
         other # "Ready" \/ other = state \/ Loaded(box) \/ ~ WindowOpen
  PROVE  OfLastLoad(other, box)
BY DEF OfLastLoad

\* The mailbox after invalidateSource(), if the worker still exists.
Told(box, source) == IF WorkerExists THEN WithSource(box, source + 1) ELSE box

\* invalidateSource(): the mailbox is told of the new source, and what it held is
\* gone; what was made of the old source is of an earlier one.
LEMMA SourceIsNew ==
  ASSUME AppTypeOK, NEW state, NEW packet, NEW box \in InboxType, NEW source \in Nat,
         OfLastLoad(state, box), OfSource(source, packet, box)
  PROVE  LET new == Told(box, source)
         IN  /\ new \in InboxType
             /\ new.desired = box.desired /\ new.load = box.load
             /\ WorkerExists => new.frame = NoFrame
             /\ OfLastLoad(state, new) /\ OfSource(source + 1, NoPacket, new)
             /\ WorkerExists =>
                   /\ job.frame # NoFrame => job.frame.source < source + 1
                   /\ \A e \in ToSet(guiQueue) : e.event = "detection" => e.frame.source < source + 1
<1> DEFINE new == Told(box, source)
<1>1. CASE ~ WorkerExists
  BY <1>1 DEF OfSource, Told
<1>2. CASE WorkerExists
  <2>1. source + 1 \in Nat /\ source < source + 1
    OBVIOUS
  <2>2. new = WithSource(box, source + 1)
    BY <1>2 DEF Told
  <2>3. new \in InboxType
    BY <2>1, <2>2, Boxes
  <2>4. /\ new.stopping = box.stopping /\ new.desired = box.desired
        /\ new.source = source + 1 /\ new.load = box.load /\ new.frame = NoFrame
    BY <2>2 DEF WithSource, Inbox
  <2> HIDE DEF new
  <2>5. OfLastLoad(state, new)
    BY <2>4 DEF OfLastLoad, Loaded
  <2>6. job.frame # NoFrame => job.frame.source \in Nat /\ job.frame.source < source + 1
    BY <1>2, <2>1 DEF OfSource, AppTypeOK, JobType, FrameType
  <2>7. ASSUME NEW e \in ToSet(guiQueue), e.event = "detection"
        PROVE  e.frame.source \in Nat /\ e.frame.source < source + 1
    <3>1. e \in EventType
      BY DEF AppTypeOK, EventType, ToSet
    <3>2. e.frame.source \in Nat
      BY <2>7, <3>1 DEF EventType, InferenceEventType, LoadAnswers, Camera!CameraEventType, FrameType
    <3> QED BY <1>2, <2>1, <2>7, <3>2 DEF OfSource
  <2>8. OfSource(source + 1, NoPacket, new)
    <3>1. \A n \in Nat : n < source + 1 => n <= source + 1 /\ n # source + 1
      OBVIOUS
    <3> QED BY <2>4, <2>6, <2>7, <3>1 DEF OfSource
  <2> QED BY <1>2, <2>3, <2>4, <2>5, <2>6, <2>7, <2>8 DEF new
<1> QED BY <1>1, <1>2

\* requestLoad(), when no load is under way and the source is new.
LEMMA LoadIsRequested ==
  ASSUME AppTypeOK, Camera!Dispatching, NEW state, NEW box \in InboxType, NEW source \in Nat,
         OfLastLoad(state, box), OfSource(source, NoPacket, box),
         WorkerExists => /\ box.frame = NoFrame
                         /\ job.frame # NoFrame => job.frame.source < source
                         /\ \A e \in ToSet(guiQueue) : e.event = "detection" => e.frame.source < source,
         WindowOpen => job.load = NoLoad /\ \A e \in ToSet(guiQueue) : e.event # "modelLoaded"
  PROVE  LET new == IF WorkerExists THEN WithLoad(box) ELSE box
         IN  /\ new \in InboxType
             /\ WorkerExists => new.load # NoLoad
             /\ OfLastLoad("Loading", new) /\ OfSource(source, NoPacket, new)
<1> DEFINE new == IF WorkerExists THEN WithLoad(box) ELSE box
<1>1. CASE ~ WorkerExists
  BY <1>1, StateLost DEF OfSource
<1>2. CASE WorkerExists
  <2>1. WindowOpen
    BY <1>2 DEF WorkerExists, WindowOpen, Camera!Dispatching
  <2>2. new = WithLoad(box) /\ new \in InboxType
    BY <1>2, Boxes
  <2>3. /\ new.stopping = box.stopping /\ new.desired = box.desired + 1
        /\ new.source = box.source /\ new.load = box.desired + 1 /\ new.frame = NoFrame
    BY <2>2 DEF WithLoad, Inbox
  <2>4. box.desired + 1 # NoLoad
    BY DEF InboxType, NoLoad
  <2>5. ~ box.stopping
    BY <2>1 DEF OfLastLoad, WindowOpen
  <2> HIDE DEF new
  <2>6. OfLastLoad("Loading", new)
    BY <2>1, <2>3, <2>5 DEF OfLastLoad
  <2>7. job.frame # NoFrame => job.frame.source \in Nat /\ job.frame.source < source
    BY <1>2 DEF AppTypeOK, JobType, FrameType
  <2>8. ASSUME NEW e \in ToSet(guiQueue), e.event = "detection"
        PROVE  e.frame.source \in Nat /\ e.frame.source < source
    <3>1. e \in EventType
      BY DEF AppTypeOK, EventType, ToSet
    <3>2. e.frame.source \in Nat
      BY <2>8, <3>1 DEF EventType, InferenceEventType, LoadAnswers, Camera!CameraEventType, FrameType
    <3> QED BY <1>2, <2>8, <3>2
  <2>9. OfSource(source, NoPacket, new)
    <3>1. \A n \in Nat : n < source => n <= source /\ n # source
      OBVIOUS
    <3> QED BY <1>2, <2>3, <2>7, <2>8, <3>1 DEF OfSource
  <2> QED BY <2>2, <2>3, <2>4, <2>6, <2>9 DEF new
<1> QED BY <1>1, <1>2

\* submitFrame() with a model that is ready.
LEMMA FrameIsSubmitted ==
  ASSUME WindowOpen, NEW packet, NEW box, box \in InboxType, NEW source, source \in Nat,
         NEW frame, frame \in Nat, OfLastLoad("Ready", box), OfSource(source, packet, box)
  PROVE  LET new == WithFrame(box, frame, source)
         IN  /\ new \in InboxType /\ new.load = box.load
             /\ OfLastLoad("Ready", new) /\ OfSource(source, packet, new)
<1> DEFINE new == WithFrame(box, frame, source)
<1>1. WindowOpen /\ WorkerExists
  BY DEF WorkerExists, WindowOpen
<1>2. new \in InboxType
  BY Boxes
<1>3. /\ new.stopping = box.stopping /\ new.desired = box.desired
      /\ new.source = box.source /\ new.load = box.load
      /\ new.frame = [frame |-> frame, source |-> source] /\ new.frame.source = source
  BY DEF WithFrame, Inbox
<1> HIDE DEF new
<1>4. OfLastLoad("Ready", new)
  BY <1>1, <1>3 DEF OfLastLoad, Loaded, WindowOpen
<1>5. OfSource(source, packet, new)
  BY <1>3 DEF OfSource
<1> QED BY <1>2, <1>3, <1>4, <1>5 DEF new

-----------------------------------------------------------------------------
(* What the methods of the controller do to its fields. *)

\* A state of the GUI thread in which the above holds.
NowOK(now) ==
    /\ FieldsOK(now.app) /\ now.inbox \in InboxType /\ now.notify \in BOOLEAN
    /\ OfLastLoad(now.app.modelState, now.inbox)
    /\ OfSource(now.app.sourceGeneration, now.app.packet, now.inbox)

\* Two states of the fields agree on what is loading and what waits ...
SameLoad(a, b) == /\ b.modelState = a.modelState /\ b.modelLoading = a.modelLoading
                  /\ b.pendingModelLoad = a.pendingModelLoad
                  /\ b.afterCameraStop = a.afterCameraStop
                  /\ b.refreshActive = a.refreshActive

\* ... and on where frames come from.
SameSource(a, b) == /\ b.sourceGeneration = a.sourceGeneration /\ b.packet = a.packet
                    /\ b.cameraSource = a.cameraSource /\ b.currentImage = a.currentImage
                    /\ b.initialCamera = a.initialCamera

\* What a frame of the camera is submitted for.
SameFrames(a, b) == /\ b.sourceGeneration = a.sourceGeneration
                    /\ b.cameraSource = a.cameraSource /\ b.currentImage = a.currentImage

\* The state before the handler.
LEMMA NowHolds ==
  ASSUME AppTypeOK, InferenceSide
  PROVE  NowOK(Now) /\ Now.app = app /\ Now.inbox = inbox /\ Now.notify = FALSE
BY DEF AppTypeOK, InferenceSide, NowOK, Now, GuiState

\* Other fields than those of the source are changed.
LEMMA FieldsChanged ==
  ASSUME NEW now, NowOK(now), NEW fields, FieldsOK(fields),
         fields.sourceGeneration = now.app.sourceGeneration, fields.packet = now.app.packet,
         \/ fields.modelState = now.app.modelState \/ fields.modelState # "Ready"
         \/ Loaded(now.inbox) \/ ~ WindowOpen
  PROVE  LET new == WithFields(now, fields)
         IN  NowOK(new) /\ new.app = fields /\ new.inbox = now.inbox /\ new.notify = now.notify
<1> DEFINE new == WithFields(now, fields)
<1>1. new.app = fields /\ new.inbox = now.inbox /\ new.notify = now.notify
  BY DEF WithFields, GuiState
<1>2. OfLastLoad(fields.modelState, now.inbox)
  BY StateLost DEF NowOK
<1> HIDE DEF new
<1> QED BY <1>1, <1>2 DEF NowOK, new

\* completeRefresh()
LEMMA RefreshCompleted ==
  ASSUME NEW now, NowOK(now)
  PROVE  LET new == CompleteRefresh(now)
         IN  /\ NowOK(new) /\ new.inbox = now.inbox /\ SameSource(now.app, new.app)
             /\ ~ new.app.refreshActive
             /\ new.app.modelState = now.app.modelState
             /\ new.app.modelLoading = now.app.modelLoading
             /\ new.app.pendingModelLoad = now.app.pendingModelLoad
             /\ new.app.afterCameraStop = now.app.afterCameraStop
<1> DEFINE b == [now.app EXCEPT !.refreshActive = FALSE, !.refreshRestartCamera = FALSE]
<1>1. FieldsOK(now.app)
  BY DEF NowOK
<1>2. FieldsOK(b)
  BY <1>1 DEF FieldsOK, AppFields
<1>3. /\ SameSource(now.app, b) /\ ~ b.refreshActive /\ b.modelState = now.app.modelState
      /\ b.modelLoading = now.app.modelLoading /\ b.pendingModelLoad = now.app.pendingModelLoad
      /\ b.afterCameraStop = now.app.afterCameraStop
  BY <1>1 DEF FieldsOK, AppFields, SameSource
<1> HIDE DEF b
<1>4. LET new == WithFields(now, b)
      IN  NowOK(new) /\ new.app = b /\ new.inbox = now.inbox
  BY <1>2, <1>3, FieldsChanged DEF SameSource
<1> QED BY <1>3, <1>4, Zenon DEF CompleteRefresh, b

\* enumerateCameraDevices()
LEMMA Enumerated ==
  ASSUME NEW now, NowOK(now), NEW listed \in BOOLEAN
  PROVE  LET new == Enumerate(now, listed)
         IN  /\ NowOK(new) /\ new.inbox = now.inbox
             /\ SameLoad(now.app, new.app) /\ SameSource(now.app, new.app)
<1> DEFINE b == [now.app EXCEPT !.camerasListed = listed]
<1>1. FieldsOK(now.app)
  BY DEF NowOK
<1>2. FieldsOK(b)
  BY <1>1 DEF FieldsOK, AppFields
<1>3. /\ SameLoad(now.app, b) /\ SameSource(now.app, b)
  BY <1>1 DEF FieldsOK, AppFields, SameSource, SameLoad
<1> HIDE DEF b
<1>4. LET new == WithFields(now, b)
      IN  NowOK(new) /\ new.app = b /\ new.inbox = now.inbox
  BY <1>2, <1>3, FieldsChanged DEF SameSource, SameLoad
<1> QED BY <1>3, <1>4 DEF Enumerate, b

\* What was to follow the stop is taken up.
LEMMA StopIsHandled ==
  ASSUME NEW now, NowOK(now)
  PROVE  LET new == StopHandled(now)
         IN  /\ NowOK(new) /\ new.inbox = now.inbox
             /\ SameSource(now.app, new.app)
             /\ new.app.afterCameraStop = "None"
             /\ new.app.modelState = now.app.modelState
             /\ new.app.modelLoading = now.app.modelLoading
             /\ new.app.pendingModelLoad = now.app.pendingModelLoad
             /\ new.app.refreshActive = now.app.refreshActive
<1> DEFINE b == [now.app EXCEPT !.afterCameraStop = "None"]
<1>1. FieldsOK(now.app)
  BY DEF NowOK
<1>2. FieldsOK(b)
  BY <1>1 DEF FieldsOK, AppFields
<1>3. /\ SameSource(now.app, b)
      /\ b.afterCameraStop = "None"
      /\ b.modelState = now.app.modelState
      /\ b.modelLoading = now.app.modelLoading
      /\ b.pendingModelLoad = now.app.pendingModelLoad
      /\ b.refreshActive = now.app.refreshActive
  BY <1>1 DEF FieldsOK, AppFields, SameSource, SameLoad
<1> HIDE DEF b
<1>4. LET new == WithFields(now, b)
      IN  NowOK(new) /\ new.app = b /\ new.inbox = now.inbox
  BY <1>2, <1>3, FieldsChanged DEF SameSource, SameLoad
<1> QED BY <1>3, <1>4, Zenon DEF StopHandled, b

\* A load waits for the camera.
LEMMA LoadPostponed ==
  ASSUME NEW now, NowOK(now)
  PROVE  LET new == PostponeLoad(now)
         IN  /\ NowOK(new) /\ new.inbox = now.inbox
             /\ SameSource(now.app, new.app)
             /\ new.app.pendingModelLoad /\ new.app.modelLoading
             /\ new.app.afterCameraStop = "LoadModel"
             /\ new.app.modelState = now.app.modelState
             /\ new.app.refreshActive = now.app.refreshActive
<1> DEFINE b == [now.app EXCEPT !.pendingModelLoad = TRUE,
                              !.afterCameraStop = "LoadModel",
                              !.modelLoading = TRUE]
<1>1. FieldsOK(now.app)
  BY DEF NowOK
<1>2. FieldsOK(b)
  BY <1>1 DEF FieldsOK, AppFields
<1>3. /\ SameSource(now.app, b)
      /\ b.pendingModelLoad /\ b.modelLoading
      /\ b.afterCameraStop = "LoadModel"
      /\ b.modelState = now.app.modelState
      /\ b.refreshActive = now.app.refreshActive
  BY <1>1 DEF FieldsOK, AppFields, SameSource, SameLoad
<1> HIDE DEF b
<1>4. LET new == WithFields(now, b)
      IN  NowOK(new) /\ new.app = b /\ new.inbox = now.inbox
  BY <1>2, <1>3, FieldsChanged DEF SameSource, SameLoad
<1> QED BY <1>3, <1>4, Zenon DEF PostponeLoad, b

\* A load that waits is given up.
LEMMA LoadGivenUp ==
  ASSUME NEW now, NowOK(now)
  PROVE  LET new == GiveUpLoad(now)
         IN  /\ NowOK(new) /\ new.inbox = now.inbox
             /\ SameSource(now.app, new.app)
             /\ ~ new.app.pendingModelLoad
             /\ new.app.afterCameraStop = "None"
             /\ new.app.modelLoading = (now.app.modelLoading /\ ~ now.app.pendingModelLoad)
             /\ new.app.modelState = now.app.modelState
             /\ new.app.refreshActive = now.app.refreshActive
<1> DEFINE b == [now.app EXCEPT !.pendingModelLoad = FALSE,
                              !.afterCameraStop = "None",
                              !.modelLoading = @ /\ ~now.app.pendingModelLoad]
<1>1. FieldsOK(now.app)
  BY DEF NowOK
<1>2. FieldsOK(b)
  BY <1>1 DEF FieldsOK, AppFields
<1>3. /\ SameSource(now.app, b)
      /\ ~ b.pendingModelLoad
      /\ b.afterCameraStop = "None"
      /\ b.modelLoading = (now.app.modelLoading /\ ~ now.app.pendingModelLoad)
      /\ b.modelState = now.app.modelState
      /\ b.refreshActive = now.app.refreshActive
  BY <1>1 DEF FieldsOK, AppFields, SameSource, SameLoad
<1> HIDE DEF b
<1>4. LET new == WithFields(now, b)
      IN  NowOK(new) /\ new.app = b /\ new.inbox = now.inbox
  BY <1>2, <1>3, FieldsChanged DEF SameSource, SameLoad
<1> QED BY <1>3, <1>4, Zenon DEF GiveUpLoad, b

\* invalidateSource()
LEMMA Invalidated ==
  ASSUME AppTypeOK, NEW now, NowOK(now)
  PROVE  LET new == InvalidateSource(now)
         IN  /\ NowOK(new) /\ SameLoad(now.app, new.app)
             /\ new.inbox.load = now.inbox.load /\ new.app.packet = NoPacket
             /\ new.app.cameraSource = now.app.cameraSource
             /\ new.app.currentImage = now.app.currentImage
             /\ new.app.initialCamera = now.app.initialCamera
             /\ WorkerExists =>
                   /\ new.inbox.frame = NoFrame
                   /\ job.frame # NoFrame => job.frame.source < new.app.sourceGeneration
                   /\ \A e \in ToSet(guiQueue) :
                         e.event = "detection" => e.frame.source < new.app.sourceGeneration
<1> DEFINE b == [now.app EXCEPT !.sourceGeneration = @ + 1, !.packet = NoPacket]
           source == now.app.sourceGeneration
           box == Told(now.inbox, source)
           new == InvalidateSource(now)
<1>1. FieldsOK(now.app) /\ source \in Nat
  BY DEF NowOK, FieldsOK
<1>2. FieldsOK(b)
  BY <1>1 DEF FieldsOK, AppFields
<1>3. /\ SameLoad(now.app, b) /\ b.packet = NoPacket /\ b.sourceGeneration = source + 1
      /\ b.cameraSource = now.app.cameraSource /\ b.currentImage = now.app.currentImage
      /\ b.initialCamera = now.app.initialCamera
  BY <1>1 DEF FieldsOK, AppFields, SameLoad
<1>4. new.app = b /\ new.inbox = box /\ new.notify = now.notify
  BY DEF InvalidateSource, GuiState, Told
<1> HIDE DEF b, new
<1>5. /\ box \in InboxType /\ box.load = now.inbox.load
      /\ OfLastLoad(now.app.modelState, box) /\ OfSource(source + 1, NoPacket, box)
      /\ WorkerExists =>
            /\ box.frame = NoFrame
            /\ job.frame # NoFrame => job.frame.source < source + 1
            /\ \A e \in ToSet(guiQueue) : e.event = "detection" => e.frame.source < source + 1
  <2>1. /\ now.inbox \in InboxType /\ OfLastLoad(now.app.modelState, now.inbox)
        /\ OfSource(source, now.app.packet, now.inbox)
    BY DEF NowOK
  <2>2. ASSUME NEW old \in InboxType, NEW number \in Nat, NEW state, NEW packet,
               OfLastLoad(state, old), OfSource(number, packet, old)
        PROVE  LET told == Told(old, number)
               IN  /\ told \in InboxType /\ told.load = old.load
                   /\ OfLastLoad(state, told) /\ OfSource(number + 1, NoPacket, told)
                   /\ WorkerExists =>
                         /\ told.frame = NoFrame
                         /\ job.frame # NoFrame => job.frame.source < number + 1
                         /\ \A e \in ToSet(guiQueue) :
                               e.event = "detection" => e.frame.source < number + 1
    BY <2>2, SourceIsNew, Zenon
  <2> HIDE DEF source
  <2> QED BY <1>1, <2>1, <2>2
<1> HIDE DEF box, source
<1>6. NowOK(new)
  BY <1>2, <1>3, <1>4, <1>5 DEF NowOK, SameLoad
<1> QED BY <1>3, <1>4, <1>5, <1>6 DEF new

\* performModelLoad(), while no other load is under way.
LEMMA LoadPerformed ==
  ASSUME AppTypeOK, Camera!Dispatching, NEW now, NowOK(now),
         WindowOpen => job.load = NoLoad /\ \A e \in ToSet(guiQueue) : e.event # "modelLoaded"
  PROVE  LET new == PerformModelLoad(now)
         IN  /\ NowOK(new)
             /\ WindowOpen => new.inbox.load # NoLoad
             /\ new.app.modelState = "Loading" /\ new.app.modelLoading
             /\ ~ new.app.pendingModelLoad /\ new.app.afterCameraStop = "None"
             /\ new.app.refreshActive = now.app.refreshActive
             /\ new.app.currentImage = now.app.currentImage
             /\ new.app.initialCamera = now.app.initialCamera
<1> DEFINE mid == InvalidateSource(now)
           b == [mid.app EXCEPT !.pendingModelLoad = FALSE,
                                !.afterCameraStop = "None",
                                !.modelState = "Loading",
                                !.modelLoading = TRUE,
                                !.usedDestroyed = ~WorkerExists]
           box == IF WorkerExists THEN WithLoad(mid.inbox) ELSE mid.inbox
           new == RequestLoad(mid)
<1>1. /\ NowOK(mid) /\ SameLoad(now.app, mid.app)
      /\ mid.app.packet = NoPacket
      /\ mid.app.currentImage = now.app.currentImage
      /\ mid.app.initialCamera = now.app.initialCamera
      /\ WorkerExists =>
            /\ mid.inbox.frame = NoFrame
            /\ job.frame # NoFrame => job.frame.source < mid.app.sourceGeneration
            /\ \A e \in ToSet(guiQueue) :
                  e.event = "detection" => e.frame.source < mid.app.sourceGeneration
  BY Invalidated
<1>2. new.app = b /\ new.inbox = box /\ new.notify = WorkerExists
  BY DEF RequestLoad, GuiState
<1>3. PerformModelLoad(now) = new
  BY DEF PerformModelLoad
<1> HIDE DEF mid, new
<1>4. FieldsOK(mid.app)
  BY <1>1 DEF NowOK
<1>5. WorkerExists \in BOOLEAN
  BY DEF WorkerExists
<1>6. FieldsOK(b)
  BY <1>4, <1>5 DEF FieldsOK, AppFields
<1>7. /\ b.modelState = "Loading" /\ b.modelLoading /\ ~ b.pendingModelLoad
      /\ b.afterCameraStop = "None" /\ b.refreshActive = mid.app.refreshActive
      /\ b.currentImage = mid.app.currentImage /\ b.initialCamera = mid.app.initialCamera
      /\ b.sourceGeneration = mid.app.sourceGeneration /\ b.packet = mid.app.packet
  BY <1>4 DEF FieldsOK, AppFields
<1> HIDE DEF b
<1>8. /\ box \in InboxType
      /\ WorkerExists => box.load # NoLoad
      /\ OfLastLoad("Loading", box) /\ OfSource(mid.app.sourceGeneration, NoPacket, box)
  <2>1. /\ mid.inbox \in InboxType /\ mid.app.sourceGeneration \in Nat
        /\ OfLastLoad(mid.app.modelState, mid.inbox)
        /\ OfSource(mid.app.sourceGeneration, NoPacket, mid.inbox)
    BY <1>1 DEF NowOK, FieldsOK
  <2> QED BY <1>1, <2>1, LoadIsRequested
<1> HIDE DEF box
<1>9. NowOK(new)
  BY <1>1, <1>2, <1>5, <1>6, <1>7, <1>8 DEF NowOK
<1>10. WindowOpen => WorkerExists
  BY DEF WindowOpen, WorkerExists
<1> QED BY <1>1, <1>2, <1>3, <1>7, <1>8, <1>9, <1>10 DEF SameLoad

\* submitFrame() of the current source, with a model that is ready.
LEMMA FrameTaken ==
  ASSUME Camera!Dispatching, NEW now, NowOK(now), now.app.modelState = "Ready",
         NEW source, source = now.app.sourceGeneration
  PROVE  LET new == SubmitFrame(now, source)
         IN  /\ NowOK(new) /\ SameLoad(now.app, new.app) /\ SameSource(now.app, new.app)
             /\ new.inbox.load = now.inbox.load
<1> DEFINE b == [now.app EXCEPT !.submitted = @ + 1]
           frame == now.app.submitted + 1
           box == WithFrame(now.inbox, frame, source)
           new == SubmitFrame(now, source)
<1>1. FieldsOK(now.app) /\ source \in Nat /\ frame \in Nat
  BY DEF NowOK, FieldsOK
<1>2. CASE WorkerExists /\ TakesFrame(now.inbox, source) /\ now.app.submitted < MaxFrames
  <2>1. new.app = b /\ new.inbox = box /\ new.notify = TRUE
    BY <1>2 DEF SubmitFrame, GuiState
  <2>2. FieldsOK(b)
    BY <1>1 DEF FieldsOK, AppFields
  <2>3. SameLoad(now.app, b) /\ SameSource(now.app, b)
    BY <1>1 DEF FieldsOK, AppFields, SameLoad, SameSource
  <2> HIDE DEF b, new, frame
  <2>4. /\ box \in InboxType /\ box.load = now.inbox.load
        /\ OfLastLoad("Ready", box) /\ OfSource(source, now.app.packet, box)
    <3>1. /\ now.inbox \in InboxType /\ OfLastLoad("Ready", now.inbox)
          /\ OfSource(source, now.app.packet, now.inbox)
      BY DEF NowOK
    <3>2. WindowOpen
      BY <1>2 DEF WorkerExists, WindowOpen, Camera!Dispatching
    <3>3. box.load = now.inbox.load
      BY DEF WithFrame, Inbox
    <3>4. box \in InboxType
      BY <1>1, <3>1, <3>2, FrameIsSubmitted, Zenon
    <3>5. OfLastLoad("Ready", box) /\ OfSource(source, now.app.packet, box)
      BY <1>1, <3>1, <3>2, FrameIsSubmitted
    <3> QED BY <3>3, <3>4, <3>5
  <2> HIDE DEF box
  <2>5. NowOK(new)
    BY <2>1, <2>2, <2>3, <2>4, Zenon DEF NowOK, SameLoad, SameSource
  <2> QED BY <2>1, <2>3, <2>4, <2>5 DEF new
<1>3. CASE ~ (WorkerExists /\ TakesFrame(now.inbox, source) /\ now.app.submitted < MaxFrames)
  <2>1. SubmitFrame(now, source) = now
    BY <1>3, Zenon DEF SubmitFrame
  <2> QED BY <2>1 DEF SameLoad, SameSource
<1> QED BY <1>2, <1>3

\* submitCurrentImage()
LEMMA ImageSubmitted ==
  ASSUME Camera!Dispatching, NEW now, NowOK(now)
  PROVE  LET new == SubmitCurrentImage(now)
         IN  /\ NowOK(new) /\ SameLoad(now.app, new.app) /\ SameSource(now.app, new.app)
             /\ new.inbox.load = now.inbox.load
<1>1. CASE now.app.modelState = "Ready" /\ now.app.currentImage
  BY <1>1, FrameTaken DEF SubmitCurrentImage
<1>2. CASE ~ (now.app.modelState = "Ready" /\ now.app.currentImage)
  BY <1>2 DEF SubmitCurrentImage, SameLoad, SameSource
<1> QED BY <1>1, <1>2

\* beginCameraStart() past its checks.
LEMMA CameraIsStarted ==
  ASSUME AppTypeOK, NEW now, NowOK(now)
  PROVE  LET new == CameraStarted(now)
         IN  /\ NowOK(new) /\ SameLoad(now.app, new.app)
             /\ new.inbox.load = now.inbox.load
             /\ new.app.cameraSource = new.app.sourceGeneration
             /\ ~ new.app.currentImage
             /\ new.app.initialCamera = now.app.initialCamera
<1> DEFINE mid == InvalidateSource(now)
           b == [mid.app EXCEPT !.cameraSource = mid.app.sourceGeneration, !.currentImage = FALSE]
<1>1. /\ NowOK(mid) /\ SameLoad(now.app, mid.app) /\ mid.inbox.load = now.inbox.load
      /\ mid.app.initialCamera = now.app.initialCamera
  BY Invalidated
<1>2. CameraStarted(now) = WithFields(mid, b)
  BY DEF CameraStarted
<1> HIDE DEF mid
<1>3. FieldsOK(mid.app)
  BY <1>1 DEF NowOK
<1>4. FieldsOK(b)
  BY <1>3 DEF FieldsOK, AppFields
<1>5. /\ SameLoad(mid.app, b) /\ b.sourceGeneration = mid.app.sourceGeneration
      /\ b.packet = mid.app.packet /\ b.cameraSource = b.sourceGeneration
      /\ ~ b.currentImage /\ b.initialCamera = mid.app.initialCamera
  BY <1>3 DEF FieldsOK, AppFields, SameLoad
<1> HIDE DEF b
<1>6. LET new == WithFields(mid, b)
      IN  NowOK(new) /\ new.app = b /\ new.inbox = mid.inbox
  BY <1>1, <1>4, <1>5, FieldsChanged DEF SameLoad
<1> QED BY <1>1, <1>2, <1>5, <1>6 DEF SameLoad

-----------------------------------------------------------------------------
(* The handlers and commands on the GUI thread. *)

\* What is proved of a step besides the camera protocol.
Rest == AppTypeOK /\ InferenceSide /\ Flags

\* What a handler may rely on.
LEMMA Before ==
  ASSUME IInv
  PROVE  /\ AppTypeOK /\ InferenceSide /\ Flags
         /\ NowOK(Now) /\ Now.app = app /\ Now.inbox = inbox
         /\ guiQueue \in Seq(EventType)
         /\ session.state \in CameraStates
         /\ session.active = 0 <=> session.state \in {"Idle", "Error"}
         /\ LoadsUnderWay \in Nat
<1>1. AppTypeOK /\ InferenceSide /\ Flags /\ guiQueue \in Seq(EventType)
  BY DEF IInv, AppTypeOK, EventType
<1>2. NowOK(Now) /\ Now.app = app /\ Now.inbox = inbox
  BY <1>1, NowHolds
<1>3. /\ session.state \in CameraStates
      /\ session.active = 0 <=> session.state \in {"Idle", "Error"}
  BY DEF IInv, CameraPart!IInv, CameraPart!ProtocolTypeOK, CameraPart!Views,
         CameraPart!CameraStates, CameraStates
<1>4. LoadsUnderWay \in Nat
  <2>1. Len(LoadEvents) \in Nat
    BY <1>1, Counts
  <2> QED BY <2>1 DEF LoadsUnderWay, LoadEvents, One
<1> QED BY <1>1, <1>2, <1>3, <1>4

\* A handler ends with its effect on the fields and the mailbox.
LEMMA Carried ==
  ASSUME AppTypeOK, InferenceSide, NEW now, NowOK(now), Become(now),
         guiPc' = guiPc, guiQueue' \in Seq(EventType), ToSet(guiQueue') \subseteq ToSet(guiQueue)
  PROVE  /\ AppTypeOK' /\ InferenceSide'
         /\ app' = now.app /\ inbox'.load = now.inbox.load /\ job' = job
<1>1. app' = now.app /\ inbox' = now.inbox /\ UNCHANGED inferenceRest
  BY DEF Become
<1>2. UNCHANGED <<job, detector, loadedGeneration>>
  BY <1>1 DEF inferenceRest
<1>3. inferencePc' = inferencePc \/ (inferencePc = "asleep" /\ inferencePc' = "waiting")
  BY DEF Become, Notify
<1>4. AppTypeOK'
  <2>1. guiQueue' \in Seq(Camera!CameraEventType \cup InferenceEventType)
    BY DEF EventType
  <2>2. inferencePc' \in InferencePcs
    BY <1>3 DEF AppTypeOK, InferencePcs
  <2>3. app' = now.app /\ FieldsOK(now.app) /\ inbox' \in InboxType
    BY <1>1 DEF NowOK
  <2>4. FieldsOK(app')
    BY <2>3
  <2> QED BY <1>2, <2>1, <2>2, <2>3, <2>4 DEF AppTypeOK
<1>5. Working'
  BY <1>2, <1>3 DEF InferenceSide, Working
<1>6. OfLastLoad(app.modelState, inbox)'
  <2>1. OfLastLoad(now.app.modelState, now.inbox)
    BY DEF NowOK
  <2> QED BY <1>1, <1>2, <2>1 DEF OfLastLoad, Loaded, WindowOpen
<1>7. OfSource(app.sourceGeneration, app.packet, inbox)'
  <2>1. OfSource(now.app.sourceGeneration, now.app.packet, now.inbox)
    BY DEF NowOK
  <2> QED BY <1>1, <1>2, <2>1 DEF OfSource, WorkerExists
<1> QED BY <1>1, <1>2, <1>4, <1>5, <1>6, <1>7 DEF InferenceSide

\* The loads under way after a step that touches none of them ...
LEMMA LoadsSame ==
  ASSUME Len(LoadEvents') = Len(LoadEvents), inbox'.load = inbox.load, job' = job
  PROVE  LoadsUnderWay' = LoadsUnderWay
BY DEF LoadsUnderWay, LoadEvents

\* ... while there is none ...
LEMMA NoLoads ==
  ASSUME guiQueue \in Seq(EventType), LoadsUnderWay = 0
  PROVE  /\ inbox.load = NoLoad /\ job.load = NoLoad /\ Len(LoadEvents) = 0
         /\ \A e \in ToSet(guiQueue) : e.event # "modelLoaded"
<1>1. Len(LoadEvents) \in Nat
  BY Counts
<1>2. inbox.load = NoLoad /\ job.load = NoLoad /\ Len(LoadEvents) = 0
  BY <1>1 DEF LoadsUnderWay, LoadEvents, One
<1>3. \A e \in ToSet(guiQueue) : e \notin LoadAnswers
  BY <1>2, NothingKept DEF LoadEvents
<1>4. \A e \in ToSet(guiQueue) : e \in EventType
  BY DEF ToSet
<1>5. \A e \in EventType : e.event = "modelLoaded" => e \in LoadAnswers
  BY DEF EventType, InferenceEventType, LoadAnswers, Camera!CameraEventType
<1> QED BY <1>2, <1>3, <1>4, <1>5

\* ... and after one is requested.
LEMMA LoadsOne ==
  ASSUME guiQueue \in Seq(EventType), LoadsUnderWay = 0,
         Len(LoadEvents') = Len(LoadEvents), inbox'.load # NoLoad, job' = job
  PROVE  LoadsUnderWay' = 1
<1>1. inbox.load = NoLoad /\ job.load = NoLoad /\ Len(LoadEvents) = 0
  BY NoLoads
<1> QED BY <1>1 DEF LoadsUnderWay, LoadEvents, One

\* The camera asked to stop.
LEMMA StopBegun ==
  ASSUME Camera!BeginCameraStop
  PROVE  /\ session.state \in {"Opening", "Running"} /\ session'.state = "Stopping"
         /\ UNCHANGED <<sequence, releasePending>>
BY DEF Camera!BeginCameraStop, Camera!CanBeginStopping, Camera!BeginStopping, Camera!SessionState

\* The Load button: the load starts at once, or waits for the camera to stop.
LEMMA LoadModelKeepsRest == ASSUME IInv, LoadModel PROVE Rest'
<1>1. /\ AppTypeOK /\ InferenceSide /\ Flags /\ NowOK(Now) /\ Now.app = app /\ Now.inbox = inbox
      /\ guiQueue \in Seq(EventType) /\ session.state \in CameraStates
  BY Before
<1>2. /\ guiPc = "loop" /\ guiPc' = guiPc /\ guiQueue' = guiQueue
      /\ ~ app.modelLoading /\ ~ app.refreshActive
      /\ Camera!Dispatching /\ WindowOpen
  BY DEF LoadModel, Command, Camera!Dispatching, WindowOpen
<1>3. /\ LoadsUnderWay = 0 /\ app.modelState # "Loading" /\ ~ app.pendingModelLoad
      /\ LoadEvents' = LoadEvents
  BY <1>1, <1>2 DEF Flags, LoadingIsTrue, One, LoadEvents
<1>4. CASE CameraStartable /\ KeepCamera /\ Become(PerformModelLoad(Now))
  <2> DEFINE new == PerformModelLoad(Now)
  <2>1. /\ NowOK(new) /\ new.inbox.load # NoLoad
        /\ new.app.modelState = "Loading" /\ new.app.modelLoading
        /\ ~ new.app.pendingModelLoad /\ new.app.afterCameraStop = "None"
        /\ new.app.refreshActive = app.refreshActive
        /\ new.app.initialCamera = app.initialCamera
    <3>1. job.load = NoLoad /\ \A e \in ToSet(guiQueue) : e.event # "modelLoaded"
      BY <1>1, <1>3, NoLoads
    <3> QED BY <1>1, <1>2, <3>1, LoadPerformed
  <2> HIDE DEF new
  <2>2. /\ AppTypeOK' /\ InferenceSide' /\ app' = new.app /\ inbox'.load = new.inbox.load /\ job' = job
    BY <1>1, <1>2, <1>4, <2>1, Carried DEF new
  <2>3. LoadsUnderWay' = 1
    BY <1>1, <1>3, <2>1, <2>2, LoadsOne
  <2>4. session' = session /\ sequence' = sequence /\ releasePending' = releasePending
    BY <1>4 DEF KeepCamera, cameraFields
  <2>5. Flags'
    BY <1>1, <1>2, <1>3, <1>4, <2>1, <2>2, <2>3, <2>4
       DEF Flags, LoadingIsTrue, Continuations, CameraServed, NothingBeforeFirst, One,
           WindowOpen, CameraWanted, CameraStartable
  <2> QED BY <2>2, <2>5 DEF Rest
<1>5. CASE session.state = "Stopping" /\ KeepCamera /\ Become(PostponeLoad(Now))
  <2> DEFINE new == PostponeLoad(Now)
  <2>1. /\ NowOK(new) /\ new.inbox = inbox /\ SameSource(app, new.app)
        /\ new.app.pendingModelLoad /\ new.app.modelLoading
        /\ new.app.afterCameraStop = "LoadModel"
        /\ new.app.modelState = app.modelState /\ new.app.refreshActive = app.refreshActive
    BY <1>1, LoadPostponed
  <2> HIDE DEF new
  <2>2. /\ AppTypeOK' /\ InferenceSide' /\ app' = new.app /\ inbox'.load = new.inbox.load /\ job' = job
    BY <1>1, <1>2, <1>5, <2>1, Carried DEF new
  <2>3. LoadsUnderWay' = LoadsUnderWay
    BY <1>3, <2>1, <2>2, LoadsSame
  <2>4. session' = session /\ sequence' = sequence /\ releasePending' = releasePending
    BY <1>5 DEF KeepCamera, cameraFields
  <2>5. Flags'
    BY <1>1, <1>2, <1>3, <1>5, <2>1, <2>2, <2>3, <2>4
       DEF Flags, LoadingIsTrue, Continuations, CameraServed, NothingBeforeFirst, One,
           WindowOpen, CameraWanted, SameSource
  <2> QED BY <2>2, <2>5 DEF Rest
<1>6. CASE Camera!BeginCameraStop /\ Become(InvalidateSource(PostponeLoad(Now)))
  <2> DEFINE mid == PostponeLoad(Now)
             new == InvalidateSource(mid)
  <2>1. /\ NowOK(mid) /\ mid.inbox = inbox /\ SameSource(app, mid.app)
        /\ mid.app.pendingModelLoad /\ mid.app.modelLoading
        /\ mid.app.afterCameraStop = "LoadModel"
        /\ mid.app.modelState = app.modelState /\ mid.app.refreshActive = app.refreshActive
    BY <1>1, LoadPostponed
  <2> HIDE DEF mid
  <2>2. /\ NowOK(new) /\ new.inbox.load = mid.inbox.load /\ SameLoad(mid.app, new.app)
        /\ new.app.initialCamera = mid.app.initialCamera
    BY <1>1, <2>1, Invalidated
  <2> HIDE DEF new
  <2>3. /\ AppTypeOK' /\ InferenceSide' /\ app' = new.app /\ inbox'.load = new.inbox.load /\ job' = job
    BY <1>1, <1>2, <1>6, <2>2, Carried DEF new, mid
  <2>4. LoadsUnderWay' = LoadsUnderWay
    BY <1>3, <2>1, <2>2, <2>3, LoadsSame
  <2>5. /\ session.state \in {"Opening", "Running"} /\ session'.state = "Stopping"
        /\ UNCHANGED <<sequence, releasePending>>
    BY <1>6, StopBegun
  <2>6. Flags'
    BY <1>1, <1>2, <1>3, <2>1, <2>2, <2>3, <2>4, <2>5, Zenon
       DEF Flags, LoadingIsTrue, Continuations, CameraServed, NothingBeforeFirst, One,
           WindowOpen, CameraWanted, SameSource, SameLoad
  <2> QED BY <2>3, <2>6 DEF Rest
<1> QED BY <1>4, <1>5, <1>6 DEF LoadModel

\* What is loading and what waits is left alone, up to a Refresh that ends, and
\* the camera is not started: what the flags say stays true.
LEMMA FlagsKept ==
  ASSUME Flags, guiPc' = guiPc, LoadsUnderWay' = LoadsUnderWay,
         app'.modelState = app.modelState, app'.modelLoading = app.modelLoading,
         app'.pendingModelLoad = app.pendingModelLoad, app'.refreshActive => app.refreshActive,
         app'.afterCameraStop = "LoadModel" => app.afterCameraStop = "LoadModel",
         WindowOpen /\ app.pendingModelLoad =>
             app'.afterCameraStop = "LoadModel" /\ session'.state = "Stopping",
         WindowOpen /\ session'.state \in {"Opening", "Running"} =>
             /\ session.state \in {"Opening", "Running"}
             /\ app'.currentImage = app.currentImage /\ app'.cameraSource = app.cameraSource
             /\ app'.sourceGeneration = app.sourceGeneration,
         app'.initialCamera =>
             /\ app.initialCamera
             /\ session.state = "Idle" /\ ~ releasePending =>
                   session' = session /\ UNCHANGED <<sequence, releasePending>>
  PROVE  Flags'
<1>1. LoadingIsTrue'
  BY DEF Flags, LoadingIsTrue, WindowOpen, One
<1>2. Continuations'
  BY DEF Flags, Continuations, WindowOpen
<1>3. CameraServed'
  BY DEF Flags, CameraServed, WindowOpen, CameraWanted
<1>4. NothingBeforeFirst'
  BY DEF Flags, NothingBeforeFirst
<1> QED BY <1>1, <1>2, <1>3, <1>4 DEF Flags

\* The same, for a handler that leaves the loads, the continuations and the camera
\* alone, or asks the camera to stop.
LEMMA KeptByHandler ==
  ASSUME IInv, NEW new, NowOK(new), Become(new), guiPc' = guiPc,
         guiQueue' \in Seq(EventType), ToSet(guiQueue') \subseteq ToSet(guiQueue),
         Len(LoadEvents') = Len(LoadEvents), new.inbox.load = inbox.load,
         SameLoad(app, new.app), new.app.initialCamera = app.initialCamera,
         \/ Camera!BeginCameraStop
         \/ /\ KeepCamera
            /\ SameFrames(app, new.app) \/ CameraStartable \/ session.state = "Stopping"
  PROVE  Rest'
<1>1. AppTypeOK /\ InferenceSide /\ Flags
  BY Before
<1>2. /\ AppTypeOK' /\ InferenceSide' /\ app' = new.app /\ inbox'.load = new.inbox.load /\ job' = job
  BY <1>1, Carried
<1>3. LoadsUnderWay' = LoadsUnderWay
  BY <1>2, LoadsSame
<1>4. CASE Camera!BeginCameraStop
  <2>1. /\ session.state \in {"Opening", "Running"} /\ session'.state = "Stopping"
        /\ UNCHANGED <<sequence, releasePending>>
    BY <1>4, StopBegun
  <2>2. ~ (WindowOpen /\ app.pendingModelLoad)
    BY <1>1, <2>1 DEF Flags, LoadingIsTrue
  <2>3. Flags'
    BY <1>1, <1>2, <1>3, <2>1, <2>2, FlagsKept DEF SameLoad
  <2> QED BY <1>2, <2>3 DEF Rest
<1>5. CASE /\ KeepCamera
           /\ SameFrames(app, new.app) \/ CameraStartable \/ session.state = "Stopping"
  <2>1. session' = session /\ UNCHANGED <<sequence, releasePending>>
    BY <1>5 DEF KeepCamera, cameraFields
  <2>2. WindowOpen /\ app.pendingModelLoad =>
           session.state = "Stopping" /\ app.afterCameraStop = "LoadModel"
    BY <1>1 DEF Flags, LoadingIsTrue
  <2>3. session'.state \in {"Opening", "Running"} => SameFrames(app, new.app)
    BY <1>5, <2>1 DEF CameraStartable
  <2>4. Flags'
    BY <1>1, <1>2, <1>3, <2>1, <2>2, <2>3, FlagsKept DEF SameLoad, SameFrames
  <2> QED BY <1>2, <2>4 DEF Rest
<1> QED BY <1>4, <1>5

\* The other commands than to load a model, to close the window, and to start the
\* camera or to stop it for a Refresh.
LEMMA PlainCommandKeepsRest ==
  ASSUME IInv, OpenImage \/ StopCamera \/ UpdateThresholds PROVE Rest'
<1>1. /\ AppTypeOK /\ NowOK(Now) /\ Now.app = app /\ Now.inbox = inbox /\ guiQueue \in Seq(EventType)
      /\ FieldsOK(app)
  BY Before DEF AppTypeOK
<1>2. /\ guiPc' = guiPc /\ guiQueue' = guiQueue /\ guiQueue' \in Seq(EventType)
      /\ ToSet(guiQueue') \subseteq ToSet(guiQueue) /\ Len(LoadEvents') = Len(LoadEvents)
      /\ Camera!Dispatching
  BY <1>1 DEF OpenImage, StopCamera, UpdateThresholds, Command, Camera!Dispatching, LoadEvents
<1>3. CASE OpenImage
  <2> DEFINE b == [app EXCEPT !.currentImage = TRUE]
             first == WithFields(Now, b)
             mid == InvalidateSource(first)
             new == SubmitCurrentImage(mid)
  <2>1. FieldsOK(b)
    BY <1>1 DEF FieldsOK, AppFields
  <2>2. /\ SameLoad(app, b) /\ b.sourceGeneration = app.sourceGeneration
        /\ b.packet = app.packet /\ b.initialCamera = app.initialCamera
    BY <1>1 DEF FieldsOK, AppFields, SameLoad
  <2> HIDE DEF b
  <2>3. NowOK(first) /\ first.app = b /\ first.inbox = inbox
    BY <1>1, <2>1, <2>2, FieldsChanged DEF SameLoad
  <2> HIDE DEF first
  <2>4. /\ NowOK(mid) /\ SameLoad(first.app, mid.app) /\ mid.inbox.load = first.inbox.load
        /\ mid.app.initialCamera = first.app.initialCamera
    BY <1>1, <2>3, Invalidated
  <2> HIDE DEF mid
  <2>5. /\ NowOK(new) /\ SameLoad(mid.app, new.app) /\ SameSource(mid.app, new.app)
        /\ new.inbox.load = mid.inbox.load
    BY <1>2, <2>4, ImageSubmitted
  <2> HIDE DEF new
  <2>6. /\ SameLoad(app, new.app) /\ new.app.initialCamera = app.initialCamera
        /\ new.inbox.load = inbox.load
    BY <2>2, <2>3, <2>4, <2>5 DEF SameLoad, SameSource
  <2>7. Become(new) /\ KeepCamera /\ CameraStartable
    BY <1>3 DEF OpenImage, new, mid, first, b
  <2> QED BY <1>2, <2>5, <2>6, <2>7, KeptByHandler
<1>4. CASE StopCamera
  <2> DEFINE new == InvalidateSource(Now)
  <2>1. /\ NowOK(new) /\ SameLoad(app, new.app) /\ new.inbox.load = inbox.load
        /\ new.app.initialCamera = app.initialCamera
    BY <1>1, Invalidated
  <2>2. Become(new) /\ Camera!BeginCameraStop
    BY <1>4 DEF StopCamera
  <2> HIDE DEF new
  <2> QED BY <1>2, <2>1, <2>2, KeptByHandler
<1>5. CASE UpdateThresholds
  <2> DEFINE new == SubmitCurrentImage(Now)
  <2>1. /\ NowOK(new) /\ SameLoad(app, new.app) /\ SameSource(app, new.app)
        /\ new.inbox.load = inbox.load
    BY <1>1, <1>2, ImageSubmitted
  <2>2. Become(new) /\ KeepCamera
    BY <1>5 DEF UpdateThresholds
  <2> HIDE DEF new
  <2> QED BY <1>2, <2>1, <2>2, KeptByHandler DEF SameSource, SameFrames
<1> QED BY <1>3, <1>4, <1>5

\* The Start button: a model is ready, and the camera gets the current source.
LEMMA StartCameraKeepsRest == ASSUME IInv, StartCamera PROVE Rest'
<1> DEFINE new == CameraStarted(Now)
<1>1. /\ AppTypeOK /\ InferenceSide /\ Flags /\ NowOK(Now) /\ Now.app = app /\ Now.inbox = inbox
      /\ guiQueue \in Seq(EventType) /\ guiQueue' = guiQueue /\ guiPc' = guiPc
      /\ LoadEvents' = LoadEvents
  BY Before DEF StartCamera, Command, LoadEvents
<1>2. /\ NowOK(new) /\ SameLoad(app, new.app) /\ new.inbox.load = inbox.load
      /\ new.app.cameraSource = new.app.sourceGeneration
      /\ ~ new.app.currentImage /\ new.app.initialCamera = app.initialCamera
  BY <1>1, CameraIsStarted
<1>3. Become(new) /\ app.modelState = "Ready"
  BY DEF StartCamera
<1> HIDE DEF new
<1>4. /\ AppTypeOK' /\ InferenceSide' /\ app' = new.app /\ inbox'.load = new.inbox.load /\ job' = job
  BY <1>1, <1>2, <1>3, Carried
<1>5. LoadsUnderWay' = LoadsUnderWay
  BY <1>1, <1>2, <1>4, LoadsSame
<1>6. session.state \in {"Idle", "Error"} /\ session'.state = "Opening"
  BY DEF StartCamera, Camera!BeginCameraStart, Camera!CanBeginOpening, Camera!BeginOpening,
         Camera!SessionState
<1>7. Flags'
  BY <1>1, <1>2, <1>3, <1>4, <1>5, <1>6
     DEF Flags, LoadingIsTrue, Continuations, CameraServed, NothingBeforeFirst,
         WindowOpen, CameraWanted, SameLoad
<1> QED BY <1>4, <1>7 DEF Rest

\* beginRefreshStop() notes what is to follow the stop.
LEMMA RefreshBegun ==
  ASSUME AppTypeOK, NowOK(Now), Now.app = app, Now.inbox = inbox, NEW restart \in BOOLEAN
  PROVE  LET new == BeginRefresh(restart)
         IN  /\ NowOK(new) /\ new.inbox = inbox /\ SameSource(app, new.app)
             /\ new.app.refreshActive /\ new.app.afterCameraStop = "Refresh"
             /\ new.app.modelState = app.modelState
             /\ new.app.modelLoading = app.modelLoading
             /\ new.app.pendingModelLoad = app.pendingModelLoad
<1> DEFINE b == [app EXCEPT !.refreshActive = TRUE, !.refreshRestartCamera = restart,
                            !.afterCameraStop = "Refresh"]
<1>1. FieldsOK(app)
  BY DEF AppTypeOK
<1>2. FieldsOK(b)
  BY <1>1 DEF FieldsOK, AppFields
<1>3. /\ SameSource(app, b) /\ b.refreshActive /\ b.afterCameraStop = "Refresh"
      /\ b.modelState = app.modelState /\ b.modelLoading = app.modelLoading
      /\ b.pendingModelLoad = app.pendingModelLoad
  BY <1>1 DEF FieldsOK, AppFields, SameSource
<1> HIDE DEF b
<1>4. LET new == WithFields(Now, b)
      IN  NowOK(new) /\ new.app = b /\ new.inbox = inbox
  BY <1>2, <1>3, FieldsChanged DEF SameSource
<1> QED BY <1>3, <1>4, Zenon DEF BeginRefresh, b

\* The Refresh button: at once, or after the camera has stopped.
LEMMA RefreshKeepsRest == ASSUME IInv, RefreshSources PROVE Rest'
<1>1. /\ AppTypeOK /\ InferenceSide /\ Flags /\ NowOK(Now) /\ Now.app = app /\ Now.inbox = inbox
      /\ guiQueue \in Seq(EventType)
  BY Before
<1>2. /\ guiPc' = guiPc /\ guiQueue' = guiQueue /\ guiQueue' \in Seq(EventType)
      /\ ToSet(guiQueue') \subseteq ToSet(guiQueue) /\ Len(LoadEvents') = Len(LoadEvents)
      /\ Camera!Dispatching /\ WindowOpen
      /\ ~ app.modelLoading /\ ~ app.refreshActive /\ app.modelState # "Loading"
  BY <1>1 DEF RefreshSources, Command, Camera!Dispatching, LoadEvents, WindowOpen
<1>3. LoadsUnderWay = 0 /\ ~ app.pendingModelLoad
  BY <1>1, <1>2 DEF Flags, LoadingIsTrue, One
<1>4. CASE RefreshBlocked
  <2>1. PICK listed \in BOOLEAN : Become(Enumerate(Now, listed))
    BY <1>4 DEF RefreshBlocked
  <2> DEFINE new == Enumerate(Now, listed)
  <2>2. /\ NowOK(new) /\ new.inbox = inbox /\ SameLoad(app, new.app) /\ SameSource(app, new.app)
    BY <1>1, Enumerated
  <2>3. Become(new) /\ KeepCamera
    BY <1>4, <2>1 DEF RefreshBlocked
  <2> HIDE DEF new
  <2> QED BY <1>2, <2>2, <2>3, KeptByHandler DEF SameSource, SameFrames
<1>5. CASE RefreshIdle
  <2> DEFINE mid == InvalidateSource(Now)
  <2>1. PICK listed \in BOOLEAN : LET now == Enumerate(mid, listed)
                                  IN  Become(now) \/ Become(SubmitCurrentImage(now))
    BY <1>5 DEF RefreshIdle
  <2> DEFINE next == Enumerate(mid, listed)
             new == SubmitCurrentImage(next)
  <2>2. /\ NowOK(mid) /\ SameLoad(app, mid.app) /\ mid.inbox.load = inbox.load
        /\ mid.app.initialCamera = app.initialCamera
    BY <1>1, Invalidated
  <2>3. Become(next) \/ Become(new)
    BY <2>1
  <2>4. KeepCamera /\ CameraStartable
    BY <1>5 DEF RefreshIdle
  <2> HIDE DEF mid
  <2>5. /\ NowOK(next) /\ next.inbox = mid.inbox /\ SameLoad(mid.app, next.app)
        /\ SameSource(mid.app, next.app)
    BY <2>2, Enumerated
  <2> HIDE DEF next
  <2>6. /\ NowOK(new) /\ SameLoad(next.app, new.app) /\ SameSource(next.app, new.app)
        /\ new.inbox.load = next.inbox.load
    BY <1>2, <2>5, ImageSubmitted
  <2> HIDE DEF new
  <2>7. /\ SameLoad(app, next.app) /\ next.app.initialCamera = app.initialCamera
        /\ next.inbox.load = inbox.load
        /\ SameLoad(app, new.app) /\ new.app.initialCamera = app.initialCamera
        /\ new.inbox.load = inbox.load
    BY <2>2, <2>5, <2>6 DEF SameLoad, SameSource
  <2> QED BY <1>2, <2>3, <2>4, <2>5, <2>6, <2>7, KeptByHandler
<1>6. CASE session.state = "Stopping" /\ KeepCamera /\ Become(BeginRefresh(FALSE))
  <2> DEFINE new == BeginRefresh(FALSE)
  <2>1. /\ NowOK(new) /\ new.inbox = inbox /\ SameSource(app, new.app)
        /\ new.app.refreshActive /\ new.app.afterCameraStop = "Refresh"
        /\ new.app.modelState = app.modelState /\ new.app.modelLoading = app.modelLoading
        /\ new.app.pendingModelLoad = app.pendingModelLoad
    BY <1>1, RefreshBegun, Zenon
  <2> HIDE DEF new
  <2>2. /\ AppTypeOK' /\ InferenceSide' /\ app' = new.app /\ inbox'.load = new.inbox.load /\ job' = job
    BY <1>1, <1>2, <1>6, <2>1, Carried, Zenon DEF new
  <2>3. LoadsUnderWay' = LoadsUnderWay
    BY <1>2, <2>1, <2>2, LoadsSame
  <2>4. session' = session /\ sequence' = sequence /\ releasePending' = releasePending
    BY <1>6 DEF KeepCamera, cameraFields
  <2>5. Flags'
    BY <1>1, <1>2, <1>3, <1>6, <2>1, <2>2, <2>3, <2>4
       DEF Flags, LoadingIsTrue, Continuations, CameraServed, NothingBeforeFirst, One,
           WindowOpen, CameraWanted, SameSource
  <2> QED BY <2>2, <2>5 DEF Rest
<1>7. CASE Camera!BeginCameraStop /\ Become(InvalidateSource(BeginRefresh(TRUE)))
  <2> DEFINE mid == BeginRefresh(TRUE)
             new == InvalidateSource(mid)
  <2>1. /\ NowOK(mid) /\ mid.inbox = inbox /\ SameSource(app, mid.app)
        /\ mid.app.refreshActive /\ mid.app.afterCameraStop = "Refresh"
        /\ mid.app.modelState = app.modelState /\ mid.app.modelLoading = app.modelLoading
        /\ mid.app.pendingModelLoad = app.pendingModelLoad
    BY <1>1, RefreshBegun, Zenon
  <2> HIDE DEF mid
  <2>2. /\ NowOK(new) /\ new.inbox.load = mid.inbox.load /\ SameLoad(mid.app, new.app)
        /\ new.app.initialCamera = mid.app.initialCamera
    BY <1>1, <2>1, Invalidated
  <2> HIDE DEF new
  <2>3. /\ AppTypeOK' /\ InferenceSide' /\ app' = new.app /\ inbox'.load = new.inbox.load /\ job' = job
    BY <1>1, <1>2, <1>7, <2>2, Carried, Zenon DEF new, mid
  <2>4. LoadsUnderWay' = LoadsUnderWay
    BY <1>2, <2>1, <2>2, <2>3, LoadsSame
  <2>5. /\ session.state \in {"Opening", "Running"} /\ session'.state = "Stopping"
        /\ UNCHANGED <<sequence, releasePending>>
    BY <1>7, StopBegun
  <2>6. Flags'
    BY <1>1, <1>2, <1>3, <2>1, <2>2, <2>3, <2>4, <2>5
       DEF Flags, LoadingIsTrue, Continuations, CameraServed, NothingBeforeFirst, One,
           WindowOpen, CameraWanted, SameSource, SameLoad
  <2> QED BY <2>3, <2>6 DEF Rest
<1> QED BY <1>4, <1>5, <1>6, <1>7, Zenon DEF RefreshSources, RefreshAfterStop

-----------------------------------------------------------------------------
(* The signals of the camera. *)

\* The queue after a camera event was delivered.
LEMMA CameraDelivered ==
  ASSUME guiQueue \in Seq(EventType), NEW e \in Camera!CameraEventType, Handle(e)
  PROVE  /\ guiPc' = guiPc /\ Camera!Dispatching /\ guiQueue' \in Seq(EventType)
         /\ ToSet(guiQueue') \subseteq ToSet(guiQueue) /\ Len(LoadEvents') = Len(LoadEvents)
<1>1. Deliver(e) /\ guiPc' = guiPc /\ Camera!Dispatching
  BY DEF Handle
<1>2. e \notin LoadAnswers
  BY Kinds DEF EventType
<1> QED BY <1>1, <1>2, Delivered

\* A camera event that is ignored, or only ends the wait for a release.
LEMMA IgnoredKeepsRest ==
  ASSUME IInv, NEW e \in Camera!CameraEventType, Handle(e), Become(Now),
         UNCHANGED <<session, sequence>>,
         ~ releasePending => releasePending' = releasePending
  PROVE  Rest'
<1>1. /\ AppTypeOK /\ InferenceSide /\ Flags /\ NowOK(Now) /\ Now.app = app /\ Now.inbox = inbox
      /\ guiQueue \in Seq(EventType)
  BY Before
<1>2. /\ guiPc' = guiPc /\ guiQueue' \in Seq(EventType)
      /\ ToSet(guiQueue') \subseteq ToSet(guiQueue) /\ Len(LoadEvents') = Len(LoadEvents)
  BY <1>1, CameraDelivered
<1>3. /\ AppTypeOK' /\ InferenceSide' /\ app' = app /\ inbox'.load = inbox.load /\ job' = job
  BY <1>1, <1>2, Carried
<1>4. LoadsUnderWay' = LoadsUnderWay
  BY <1>2, <1>3, LoadsSame
<1>5. WindowOpen /\ app.pendingModelLoad =>
         session.state = "Stopping" /\ app.afterCameraStop = "LoadModel"
  BY <1>1 DEF Flags, LoadingIsTrue
<1>6. Flags'
  BY <1>1, <1>2, <1>3, <1>4, <1>5, FlagsKept
<1> QED BY <1>3, <1>6 DEF Rest

\* The camera runs: a Refresh that restarted it is over.
LEMMA StartedKeepsRest ==
  ASSUME IInv, NEW s \in Nat, OnCameraStarted(s) PROVE Rest'
<1>1. /\ AppTypeOK /\ InferenceSide /\ Flags /\ NowOK(Now) /\ Now.app = app /\ Now.inbox = inbox
      /\ guiQueue \in Seq(EventType)
  BY Before
<1> DEFINE e == CameraEvent("started", s)
<1>2. e \in Camera!CameraEventType /\ Handle(e)
  BY DEF CameraEvent, Camera!CameraEventType, OnCameraStarted
<1> HIDE DEF e
<1>3. CASE Camera!AcceptStarted(s) /\ Become(CompleteRefresh(Now))
  <2> DEFINE new == CompleteRefresh(Now)
  <2>1. /\ guiPc' = guiPc /\ guiQueue' \in Seq(EventType)
        /\ ToSet(guiQueue') \subseteq ToSet(guiQueue) /\ Len(LoadEvents') = Len(LoadEvents)
    BY <1>1, <1>2, CameraDelivered
  <2>2. /\ NowOK(new) /\ new.inbox = inbox /\ SameSource(app, new.app)
        /\ ~ new.app.refreshActive /\ new.app.modelState = app.modelState
        /\ new.app.modelLoading = app.modelLoading
        /\ new.app.pendingModelLoad = app.pendingModelLoad
        /\ new.app.afterCameraStop = app.afterCameraStop
    BY <1>1, RefreshCompleted
  <2>3. /\ AppTypeOK' /\ InferenceSide' /\ app' = new.app /\ inbox'.load = new.inbox.load /\ job' = job
    <3> HIDE DEF new
    <3> QED BY <1>1, <1>3, <2>1, <2>2, Carried DEF new
  <2> HIDE DEF new
  <2>4. LoadsUnderWay' = LoadsUnderWay
    BY <2>1, <2>2, <2>3, LoadsSame
  <2>5. session.state = "Opening" /\ session'.state = "Running"
    BY <1>3 DEF Camera!AcceptStarted, Camera!CanAcknowledgeStarted, Camera!AcknowledgeStarted,
                Camera!SessionState
  <2>6. ~ (WindowOpen /\ app.pendingModelLoad)
    BY <1>1, <2>5 DEF Flags, LoadingIsTrue
  <2>7. Flags'
    BY <1>1, <2>1, <2>2, <2>3, <2>4, <2>5, <2>6, FlagsKept DEF SameSource
  <2> QED BY <2>3, <2>7 DEF Rest
<1>4. CASE Camera!IgnoreStarted(s) /\ Become(Now)
  BY <1>2, <1>4, IgnoredKeepsRest DEF Camera!IgnoreStarted, Camera!controllerVars
<1> QED BY <1>3, <1>4 DEF OnCameraStarted

\* A frame of the camera is submitted only with a model that is ready.
LEMMA FrameKeepsRest ==
  ASSUME IInv, NEW s \in Nat, OnCameraFrame(s) PROVE Rest'
<1>1. /\ AppTypeOK /\ InferenceSide /\ Flags /\ NowOK(Now) /\ Now.app = app /\ Now.inbox = inbox
      /\ guiQueue \in Seq(EventType)
  BY Before
<1> DEFINE e == CameraEvent("frame", s)
<1>2. e \in Camera!CameraEventType /\ Handle(e)
  BY DEF CameraEvent, Camera!CameraEventType, OnCameraFrame
<1> HIDE DEF e
<1>3. /\ guiPc' = guiPc /\ Camera!Dispatching /\ guiQueue' \in Seq(EventType)
      /\ ToSet(guiQueue') \subseteq ToSet(guiQueue) /\ Len(LoadEvents') = Len(LoadEvents)
  BY <1>1, <1>2, CameraDelivered
<1> DEFINE taken == /\ Accepts(session, s) /\ session.state = "Running"
                    /\ app.cameraSource = app.sourceGeneration
           new == SubmitFrame(Now, app.cameraSource)
<1>4. CASE ~ taken \/ ~ WindowOpen
  <2>1. Become(Now)
    <3>1. CASE taken
      <4>1. ~ WorkerExists
        BY <1>3, <1>4, <3>1 DEF WindowOpen, WorkerExists, Camera!Dispatching
      <4>2. new = Now
        BY <4>1 DEF SubmitFrame
      <4> QED BY <3>1, <4>2 DEF OnCameraFrame
    <3>2. CASE ~ taken
      BY <3>2 DEF OnCameraFrame
    <3> QED BY <3>1, <3>2
  <2>2. SameLoad(app, app) /\ SameFrames(app, app) /\ KeepCamera
    BY DEF SameLoad, SameFrames, OnCameraFrame
  <2> QED BY <1>1, <1>3, <2>1, <2>2, KeptByHandler
<1>5. CASE taken /\ WindowOpen
  <2>1. app.modelState = "Ready"
    BY <1>1, <1>5 DEF Flags, CameraServed, CameraWanted
  <2>2. /\ NowOK(new) /\ SameLoad(app, new.app) /\ SameSource(app, new.app)
        /\ new.inbox.load = inbox.load
    BY <1>1, <1>3, <1>5, <2>1, FrameTaken
  <2>3. Become(new) /\ KeepCamera
    BY <1>5 DEF OnCameraFrame
  <2> HIDE DEF new
  <2> QED BY <1>3, <2>2, <2>3, KeptByHandler DEF SameSource, SameFrames
<1> QED BY <1>4, <1>5

\* The camera is idle again, and nothing waits for it.
LEMMA EndedKeepsRest ==
  ASSUME IInv, NEW e \in Camera!CameraEventType, Handle(e), NEW new, NowOK(new), Become(new),
         new.inbox.load = inbox.load, new.app.initialCamera = app.initialCamera,
         new.app.modelState = app.modelState, new.app.modelLoading = app.modelLoading,
         new.app.pendingModelLoad = app.pendingModelLoad, new.app.afterCameraStop = "None",
         new.app.refreshActive => app.refreshActive,
         session.state # "Idle", session'.state \in {"Idle", "Error"},
         ~ (app.afterCameraStop = "LoadModel" /\ app.pendingModelLoad)
  PROVE  Rest'
<1>1. AppTypeOK /\ InferenceSide /\ Flags /\ guiQueue \in Seq(EventType)
  BY Before
<1>2. /\ guiPc' = guiPc /\ guiQueue' \in Seq(EventType)
      /\ ToSet(guiQueue') \subseteq ToSet(guiQueue) /\ Len(LoadEvents') = Len(LoadEvents)
  BY <1>1, CameraDelivered
<1>3. /\ AppTypeOK' /\ InferenceSide' /\ app' = new.app /\ inbox'.load = new.inbox.load /\ job' = job
  BY <1>1, <1>2, Carried
<1>4. LoadsUnderWay' = LoadsUnderWay
  BY <1>2, <1>3, LoadsSame
<1>5. ~ (WindowOpen /\ app.pendingModelLoad) /\ ~ app.initialCamera
  BY <1>1 DEF Flags, LoadingIsTrue, NothingBeforeFirst
<1>6. Flags'
  BY <1>1, <1>2, <1>3, <1>4, <1>5, FlagsKept
<1> QED BY <1>3, <1>6 DEF Rest

\* The camera is idle again, and the load that waited for it is requested.
LEMMA WaitedKeepsRest ==
  ASSUME IInv, NEW e \in Camera!CameraEventType, Handle(e), NEW now, NowOK(now),
         Become(PerformModelLoad(now)),
         now.app.refreshActive = app.refreshActive, now.app.initialCamera = app.initialCamera,
         session.state # "Idle", session'.state \in {"Idle", "Error"},
         app.afterCameraStop = "LoadModel", app.pendingModelLoad
  PROVE  Rest'
<1> DEFINE new == PerformModelLoad(now)
<1>1. AppTypeOK /\ InferenceSide /\ Flags /\ guiQueue \in Seq(EventType)
  BY Before
<1>2. /\ guiPc' = guiPc /\ guiQueue' \in Seq(EventType) /\ Camera!Dispatching
      /\ ToSet(guiQueue') \subseteq ToSet(guiQueue) /\ Len(LoadEvents') = Len(LoadEvents)
  BY <1>1, CameraDelivered
<1>3. WindowOpen => LoadsUnderWay = 0
  BY <1>1 DEF Flags, LoadingIsTrue, Continuations, One
<1>4. ~ app.refreshActive /\ ~ app.initialCamera
  BY <1>1 DEF Flags, Continuations, NothingBeforeFirst
<1>5. /\ NowOK(new)
      /\ WindowOpen => new.inbox.load # NoLoad
      /\ new.app.modelState = "Loading" /\ new.app.modelLoading
      /\ ~ new.app.pendingModelLoad /\ new.app.afterCameraStop = "None"
      /\ new.app.refreshActive = now.app.refreshActive
      /\ new.app.initialCamera = now.app.initialCamera
  <2>1. WindowOpen => job.load = NoLoad /\ \A x \in ToSet(guiQueue) : x.event # "modelLoaded"
    BY <1>1, <1>3, NoLoads
  <2> QED BY <1>1, <1>2, <2>1, LoadPerformed
<1>6. Become(new)
  OBVIOUS
<1> HIDE DEF new
<1>7. /\ AppTypeOK' /\ InferenceSide' /\ app' = new.app /\ inbox'.load = new.inbox.load /\ job' = job
  BY <1>1, <1>2, <1>5, <1>6, Carried
<1>8. WindowOpen => LoadsUnderWay' = 1
  BY <1>1, <1>2, <1>3, <1>5, <1>7, LoadsOne
<1>9. Flags'
  BY <1>2, <1>4, <1>5, <1>7, <1>8
     DEF Flags, LoadingIsTrue, Continuations, CameraServed, NothingBeforeFirst, One,
         WindowOpen, CameraWanted
<1> QED BY <1>7, <1>9 DEF Rest

\* The camera has stopped: what waited for it goes on.
LEMMA StoppedKeepsRest ==
  ASSUME IInv, NEW s \in Nat, OnCameraStopped(s) PROVE Rest'
<1> DEFINE e == CameraEvent("stopped", s)
           now == StopHandled(Now)
           refresh == app.afterCameraStop = "Refresh" /\ app.refreshActive
           load == app.afterCameraStop = "LoadModel" /\ app.pendingModelLoad
<1>1. /\ AppTypeOK /\ InferenceSide /\ Flags /\ NowOK(Now) /\ Now.app = app /\ Now.inbox = inbox
      /\ guiQueue \in Seq(EventType)
  BY Before
<1>2. e \in Camera!CameraEventType /\ Handle(e)
  BY DEF CameraEvent, Camera!CameraEventType, OnCameraStopped
<1> HIDE DEF e
<1>3. /\ guiPc' = guiPc /\ guiQueue' \in Seq(EventType) /\ Camera!Dispatching
      /\ ToSet(guiQueue') \subseteq ToSet(guiQueue) /\ Len(LoadEvents') = Len(LoadEvents)
  BY <1>1, <1>2, CameraDelivered
<1>4. /\ NowOK(now) /\ now.inbox = inbox /\ SameSource(app, now.app)
      /\ now.app.afterCameraStop = "None" /\ now.app.modelState = app.modelState
      /\ now.app.modelLoading = app.modelLoading
      /\ now.app.pendingModelLoad = app.pendingModelLoad
      /\ now.app.refreshActive = app.refreshActive
  BY <1>1, StopIsHandled
<1>5. CASE (Camera!RecoverLate(s) \/ Camera!IgnoreStopped(s)) /\ Become(Now)
  BY <1>2, <1>5, IgnoredKeepsRest
     DEF Camera!RecoverLate, Camera!IgnoreStopped, Camera!Late, Camera!controllerVars
<1>6. CASE Camera!AcceptStopped(s)
  <2>1. session.state = "Stopping" /\ session'.state = "Idle"
    BY <1>6 DEF Camera!AcceptStopped, Camera!StoppedAccepted, Camera!CanAcknowledgeStopped,
                Camera!AcknowledgeStopped, Camera!IdleSession, Camera!SessionState
  <2>2. CASE load /\ Become(PerformModelLoad(now))
    <3> HIDE DEF now
    <3> QED BY <1>2, <1>4, <2>1, <2>2, WaitedKeepsRest DEF SameSource
  <2>3. CASE ~ load /\ Become(now)
    <3> HIDE DEF now
    <3> QED BY <1>2, <1>4, <2>1, <2>3, EndedKeepsRest DEF SameSource
  <2>4. CASE ~ load /\ \E listed \in BOOLEAN : Become(Enumerate(now, listed))
    <3>1. PICK listed \in BOOLEAN : Become(Enumerate(now, listed))
      BY <2>4
    <3> HIDE DEF now
    <3> DEFINE new == Enumerate(now, listed)
    <3>2. /\ NowOK(new) /\ new.inbox = now.inbox /\ SameLoad(now.app, new.app)
          /\ SameSource(now.app, new.app)
      BY <1>4, Enumerated
    <3>3. Become(new)
      BY <3>1
    <3> HIDE DEF new
    <3> QED BY <1>2, <1>4, <2>1, <2>4, <3>2, <3>3, EndedKeepsRest DEF SameSource, SameLoad
  <2>5. CASE ~ load /\ FinishRefresh(now)
    <3>1. PICK listed \in BOOLEAN :
             \/ Become(CompleteRefresh(Enumerate(now, listed)))
             \/ Become(CompleteRefresh(SubmitCurrentImage(Enumerate(now, listed))))
      BY <2>5 DEF FinishRefresh
    <3> HIDE DEF now
    <3> DEFINE next == Enumerate(now, listed)
               done == CompleteRefresh(next)
               shown == SubmitCurrentImage(next)
               new == CompleteRefresh(shown)
    <3>2. /\ NowOK(next) /\ next.inbox = now.inbox /\ SameLoad(now.app, next.app)
          /\ SameSource(now.app, next.app)
      BY <1>4, Enumerated
    <3>3. Become(done) \/ Become(new)
      BY <3>1
    <3> HIDE DEF next
    <3>4. /\ NowOK(done) /\ done.inbox = next.inbox /\ SameSource(next.app, done.app)
          /\ ~ done.app.refreshActive /\ done.app.modelState = next.app.modelState
          /\ done.app.modelLoading = next.app.modelLoading
          /\ done.app.pendingModelLoad = next.app.pendingModelLoad
          /\ done.app.afterCameraStop = next.app.afterCameraStop
      BY <3>2, RefreshCompleted
    <3>5. /\ NowOK(shown) /\ SameLoad(next.app, shown.app) /\ SameSource(next.app, shown.app)
          /\ shown.inbox.load = next.inbox.load
      BY <1>3, <3>2, ImageSubmitted
    <3> HIDE DEF done, shown
    <3>6. /\ NowOK(new) /\ new.inbox = shown.inbox /\ SameSource(shown.app, new.app)
          /\ ~ new.app.refreshActive /\ new.app.modelState = shown.app.modelState
          /\ new.app.modelLoading = shown.app.modelLoading
          /\ new.app.pendingModelLoad = shown.app.pendingModelLoad
          /\ new.app.afterCameraStop = shown.app.afterCameraStop
      BY <3>5, RefreshCompleted
    <3> HIDE DEF new
    <3>7. CASE Become(done)
      BY <1>2, <1>4, <2>1, <2>5, <3>2, <3>4, <3>7, EndedKeepsRest DEF SameSource, SameLoad
    <3>8. CASE Become(new)
      BY <1>2, <1>4, <2>1, <2>5, <3>2, <3>5, <3>6, <3>8, EndedKeepsRest DEF SameSource, SameLoad
    <3> QED BY <3>3, <3>7, <3>8
  <2>6. refresh => ~ load
    OBVIOUS
  <2>7. CASE AcceptStopped(s)
    <3>1. \/ ~ refresh /\ load /\ Become(PerformModelLoad(now))
          \/ ~ refresh /\ ~ load /\ Become(now)
          \/ refresh /\ FinishRefresh(now)
          \/ refresh /\ Become(Enumerate(now, TRUE))
          \/ Camera!AcceptStoppedAndRestart(s)
      BY <2>7, Zenon DEF AcceptStopped
    <3>2. ~ Camera!AcceptStoppedAndRestart(s)
      BY <2>1 DEF Camera!AcceptStoppedAndRestart, Camera!BeginCameraStart, Camera!BeginOpening,
                  Camera!SessionState
    <3> QED BY <2>2, <2>3, <2>4, <2>5, <2>6, <3>1, <3>2, Zenon
  <2>8. CASE ~ AcceptStopped(s)
    <3>1. Camera!RecoverLate(s) \/ Camera!IgnoreStopped(s)
      BY <2>8 DEF OnCameraStopped
    <3>2. session' = session
      BY <3>1 DEF Camera!RecoverLate, Camera!IgnoreStopped, Camera!controllerVars
    <3> QED BY <2>1, <3>2
  <2> QED BY <2>7, <2>8
<1>7. CASE /\ refresh /\ ~ RestartRefused
           /\ Camera!AcceptStoppedAndRestart(s)
           /\ Become(CameraStarted(Enumerate(now, TRUE)))
  <2> HIDE DEF now
  <2> DEFINE next == Enumerate(now, TRUE)
             new == CameraStarted(next)
  <2>1. /\ NowOK(next) /\ next.inbox = now.inbox /\ SameLoad(now.app, next.app)
        /\ SameSource(now.app, next.app)
    BY <1>4, Enumerated, Zenon
  <2> HIDE DEF next
  <2>2. /\ NowOK(new) /\ SameLoad(next.app, new.app) /\ new.inbox.load = next.inbox.load
        /\ new.app.cameraSource = new.app.sourceGeneration /\ ~ new.app.currentImage
        /\ new.app.initialCamera = next.app.initialCamera
    BY <1>1, <2>1, CameraIsStarted
  <2>3. Become(new)
    BY <1>7, Zenon DEF new, next
  <2> HIDE DEF new
  <2>4. /\ AppTypeOK' /\ InferenceSide' /\ app' = new.app /\ inbox'.load = new.inbox.load /\ job' = job
    BY <1>1, <1>3, <2>2, <2>3, Carried
  <2>5. LoadsUnderWay' = LoadsUnderWay
    BY <1>3, <1>4, <2>1, <2>2, <2>4, LoadsSame
  <2>6. session.state = "Stopping" /\ session'.state = "Opening"
    BY <1>7 DEF Camera!AcceptStoppedAndRestart, Camera!StoppedAccepted,
       Camera!CanAcknowledgeStopped, Camera!BeginCameraStart, Camera!BeginOpening,
       Camera!SessionState
  <2>7. /\ app.refreshActive /\ app.afterCameraStop = "Refresh" /\ app.modelState = "Ready"
        /\ ~ app.initialCamera
    BY <1>1, <1>7, <2>6 DEF RestartRefused, Flags, NothingBeforeFirst
  <2>8. Flags'
    BY <1>1, <1>3, <1>4, <2>1, <2>2, <2>4, <2>5, <2>6, <2>7
       DEF Flags, LoadingIsTrue, Continuations, CameraServed, NothingBeforeFirst, One,
           WindowOpen, CameraWanted, SameLoad, SameSource
  <2> QED BY <2>4, <2>8 DEF Rest
<1> QED BY <1>5, <1>6, <1>7, Zenon DEF OnCameraStopped, AcceptStopped

\* The camera has failed: a load that waited for it goes on, a Refresh is over.
LEMMA FailedKeepsRest ==
  ASSUME IInv, NEW s \in Nat, OnCameraFailed(s) PROVE Rest'
<1> DEFINE e == CameraEvent("cameraFailed", s)
           mid == InvalidateSource(Now)
           now == StopHandled(mid)
           load == app.afterCameraStop = "LoadModel" /\ app.pendingModelLoad
<1>1. /\ AppTypeOK /\ InferenceSide /\ Flags /\ NowOK(Now) /\ Now.app = app /\ Now.inbox = inbox
      /\ guiQueue \in Seq(EventType)
      /\ session.active = 0 <=> session.state \in {"Idle", "Error"}
  BY Before
<1>2. e \in Camera!CameraEventType /\ Handle(e)
  BY DEF CameraEvent, Camera!CameraEventType, OnCameraFailed
<1> HIDE DEF e
<1>3. CASE (Camera!RecoverLate(s) \/ Camera!IgnoreFailed(s)) /\ Become(Now)
  BY <1>2, <1>3, IgnoredKeepsRest
     DEF Camera!RecoverLate, Camera!IgnoreFailed, Camera!Late, Camera!controllerVars
<1>4. CASE AcceptFailed(s)
  <2>1. session.state # "Idle" /\ session'.state = "Error"
    BY <1>1, <1>4 DEF AcceptFailed, Camera!AcceptFailed, Camera!CanFail, Camera!Fail,
                      Camera!Accepts, Camera!SessionState
  <2>2. /\ NowOK(mid) /\ SameLoad(app, mid.app) /\ mid.inbox.load = inbox.load
        /\ mid.app.initialCamera = app.initialCamera
    BY <1>1, Invalidated
  <2>3. Become(IF load THEN PerformModelLoad(now) ELSE CompleteRefresh(now))
    BY <1>4 DEF AcceptFailed
  <2> HIDE DEF mid
  <2>4. /\ NowOK(now) /\ now.inbox = mid.inbox /\ SameSource(mid.app, now.app)
        /\ now.app.afterCameraStop = "None" /\ now.app.modelState = mid.app.modelState
        /\ now.app.modelLoading = mid.app.modelLoading
        /\ now.app.pendingModelLoad = mid.app.pendingModelLoad
        /\ now.app.refreshActive = mid.app.refreshActive
    BY <2>2, StopIsHandled
  <2> HIDE DEF now
  <2>5. CASE load
    BY <1>2, <2>1, <2>2, <2>3, <2>4, <2>5, WaitedKeepsRest DEF SameLoad, SameSource
  <2>6. CASE ~ load
    <3> DEFINE new == CompleteRefresh(now)
    <3>1. /\ NowOK(new) /\ new.inbox = now.inbox /\ SameSource(now.app, new.app)
          /\ ~ new.app.refreshActive /\ new.app.modelState = now.app.modelState
          /\ new.app.modelLoading = now.app.modelLoading
          /\ new.app.pendingModelLoad = now.app.pendingModelLoad
          /\ new.app.afterCameraStop = now.app.afterCameraStop
      BY <2>4, RefreshCompleted
    <3>2. Become(new)
      BY <2>3, <2>6
    <3> HIDE DEF new
    <3> QED BY <1>2, <2>1, <2>2, <2>4, <2>6, <3>1, <3>2, EndedKeepsRest DEF SameLoad, SameSource
  <2> QED BY <2>5, <2>6
<1> QED BY <1>3, <1>4 DEF OnCameraFailed

\* A watchdog runs out: what waited for the camera is given up.
LEMMA TimeoutKeepsRest ==
  ASSUME IInv, NEW timer, Timeout(timer) PROVE Rest'
<1>1. /\ AppTypeOK /\ InferenceSide /\ Flags /\ NowOK(Now) /\ Now.app = app /\ Now.inbox = inbox
      /\ guiQueue \in Seq(EventType)
      /\ session.active = 0 <=> session.state \in {"Idle", "Error"}
  BY Before
<1>2. /\ guiPc' = guiPc /\ guiQueue' = guiQueue /\ guiQueue' \in Seq(EventType)
      /\ ToSet(guiQueue') \subseteq ToSet(guiQueue) /\ Len(LoadEvents') = Len(LoadEvents)
  BY <1>1 DEF Timeout, LoadEvents
<1>3. CASE session.active = 0
  <2>1. Become(Now) /\ UNCHANGED <<session, sequence, releasePending>>
    BY <1>3 DEF Timeout, Camera!TimeoutFires
  <2>2. /\ AppTypeOK' /\ InferenceSide' /\ app' = app /\ inbox'.load = inbox.load /\ job' = job
    BY <1>1, <1>2, <2>1, Carried
  <2>3. LoadsUnderWay' = LoadsUnderWay
    BY <1>2, <2>2, LoadsSame
  <2>4. WindowOpen /\ app.pendingModelLoad =>
           session.state = "Stopping" /\ app.afterCameraStop = "LoadModel"
    BY <1>1 DEF Flags, LoadingIsTrue
  <2>5. Flags'
    BY <1>1, <1>2, <2>1, <2>2, <2>3, <2>4, FlagsKept
  <2> QED BY <2>2, <2>5 DEF Rest
<1>4. CASE session.active # 0
  <2> DEFINE mid == InvalidateSource(Now)
             next == GiveUpLoad(mid)
             new == CompleteRefresh(next)
  <2>1. Become(new)
    BY <1>4 DEF Timeout, GiveUp
  <2>2. session'.state = "Error" /\ session.state # "Idle"
    BY <1>1, <1>4 DEF Timeout, Camera!TimeoutFires, Camera!Fail, Camera!SessionState
  <2>3. /\ NowOK(mid) /\ SameLoad(app, mid.app) /\ mid.inbox.load = inbox.load
        /\ mid.app.initialCamera = app.initialCamera
    BY <1>1, Invalidated
  <2> HIDE DEF mid
  <2>4. /\ NowOK(next) /\ next.inbox = mid.inbox /\ SameSource(mid.app, next.app)
        /\ ~ next.app.pendingModelLoad /\ next.app.afterCameraStop = "None"
        /\ next.app.modelLoading = (mid.app.modelLoading /\ ~ mid.app.pendingModelLoad)
        /\ next.app.modelState = mid.app.modelState
        /\ next.app.refreshActive = mid.app.refreshActive
    BY <2>3, LoadGivenUp
  <2> HIDE DEF next
  <2>5. /\ NowOK(new) /\ new.inbox = next.inbox /\ SameSource(next.app, new.app)
        /\ ~ new.app.refreshActive /\ new.app.modelState = next.app.modelState
        /\ new.app.modelLoading = next.app.modelLoading
        /\ new.app.pendingModelLoad = next.app.pendingModelLoad
        /\ new.app.afterCameraStop = next.app.afterCameraStop
    BY <2>4, RefreshCompleted
  <2> HIDE DEF new
  <2>6. /\ AppTypeOK' /\ InferenceSide' /\ app' = new.app /\ inbox'.load = new.inbox.load /\ job' = job
    BY <1>1, <1>2, <2>1, <2>5, Carried
  <2>7. LoadsUnderWay' = LoadsUnderWay
    BY <1>2, <2>3, <2>4, <2>5, <2>6, LoadsSame
  <2>8. LoadingIsTrue'
    BY <1>1, <1>2, <2>2, <2>3, <2>4, <2>5, <2>6, <2>7, Zenon
       DEF Flags, LoadingIsTrue, Continuations, WindowOpen, SameLoad
  <2>9. Continuations' /\ CameraServed' /\ NothingBeforeFirst'
    BY <1>1, <2>2, <2>3, <2>4, <2>5, <2>6
       DEF Flags, Continuations, CameraServed, NothingBeforeFirst, CameraWanted, SameSource
  <2> QED BY <2>6, <2>8, <2>9 DEF Rest, Flags
<1> QED BY <1>3, <1>4

-----------------------------------------------------------------------------
(* The signals of the inference worker. *)

\* The queue after an answer to a load was delivered.
LEMMA AnswerDelivered ==
  ASSUME IInv, NEW load, NEW event \in {"modelLoaded", "loadFailed"},
         Handle(InferenceEvent(event, load, NoFrame, 0))
  PROVE  /\ guiPc' = guiPc /\ Camera!Dispatching /\ guiQueue' \in Seq(EventType)
         /\ ToSet(guiQueue') \subseteq ToSet(guiQueue)
         /\ Len(LoadEvents') \in Nat /\ Len(LoadEvents) = Len(LoadEvents') + 1
         /\ event = "modelLoaded" /\ WindowOpen => Loaded(inbox)
         /\ LoadsUnderWay # 0 /\ ~ app.refreshActive
         /\ WindowOpen => /\ LoadsUnderWay = 1 /\ app.modelState = "Loading"
                          /\ ~ app.pendingModelLoad /\ ~ CameraWanted
                          /\ inbox.load = NoLoad /\ job.load = NoLoad
<1> DEFINE e == InferenceEvent(event, load, NoFrame, 0)
<1>1. /\ Deliver(e) /\ guiPc' = guiPc /\ Camera!Dispatching /\ e.event = event
      /\ InferenceSide /\ Flags /\ AppTypeOK /\ guiQueue \in Seq(EventType)
  BY Before DEF Handle, InferenceEvent
<1> HIDE DEF e
<1>2. /\ guiQueue' \in Seq(EventType) /\ ToSet(guiQueue') \subseteq ToSet(guiQueue)
      /\ e \in ToSet(guiQueue) /\ e \in EventType
      /\ e \in LoadAnswers => Len(LoadEvents) = Len(LoadEvents') + 1
  BY <1>1, Delivered
<1>3. e \in LoadAnswers
  BY <1>1, <1>2 DEF EventType, InferenceEventType, LoadAnswers, Camera!CameraEventType
<1>4. Len(LoadEvents') \in Nat
  <2>1. LoadEvents' \in Seq(EventType \cap LoadAnswers)
    BY <1>2, KeepInType DEF LoadEvents
  <2> QED BY <2>1
<1>5. event = "modelLoaded" /\ WindowOpen => Loaded(inbox)
  BY <1>1, <1>2 DEF InferenceSide, OfLastLoad
<1>6. /\ LoadsUnderWay # 0
      /\ LoadsUnderWay = 1 => inbox.load = NoLoad /\ job.load = NoLoad
  BY <1>2, <1>3, <1>4 DEF LoadsUnderWay, LoadEvents, One
<1>7. WindowOpen => /\ LoadsUnderWay = 1 /\ app.modelState = "Loading"
                    /\ ~ app.pendingModelLoad /\ ~ CameraWanted
  BY <1>1, <1>6 DEF Flags, LoadingIsTrue, Continuations, CameraServed, One
<1>8. ~ app.refreshActive
  BY <1>1, <1>6 DEF Flags, Continuations
<1> QED BY <1>1, <1>2, <1>3, <1>4, <1>5, <1>6, <1>7, <1>8

\* No load is under way after the answer.
LEMMA LoadsEnd ==
  ASSUME Len(LoadEvents') \in Nat, Len(LoadEvents) = Len(LoadEvents') + 1,
         LoadsUnderWay = 1, inbox.load = NoLoad, job.load = NoLoad,
         inbox'.load = inbox.load, job' = job
  PROVE  LoadsUnderWay' = 0
BY DEF LoadsUnderWay, LoadEvents, One

\* The model is ready.
LEMMA ReadyHolds ==
  ASSUME AppTypeOK, NowOK(Now), Now.app = app, Now.inbox = inbox, Camera!Dispatching,
         WindowOpen => Loaded(inbox)
  PROVE  LET new == ModelReady
         IN  /\ NowOK(new) /\ new.inbox.load = inbox.load
             /\ new.app.modelState = "Ready" /\ ~ new.app.modelLoading
             /\ ~ new.app.initialCamera
             /\ new.app.pendingModelLoad = app.pendingModelLoad
             /\ new.app.afterCameraStop = app.afterCameraStop
             /\ new.app.refreshActive = app.refreshActive
<1> DEFINE b == [app EXCEPT !.modelState = "Ready", !.modelLoading = FALSE, !.initialCamera = FALSE]
           mid == WithFields(Now, b)
           new == SubmitCurrentImage(mid)
<1>1. FieldsOK(app)
  BY DEF AppTypeOK
<1>2. FieldsOK(b)
  BY <1>1 DEF FieldsOK, AppFields
<1>3. /\ b.modelState = "Ready" /\ ~ b.modelLoading /\ ~ b.initialCamera
      /\ b.pendingModelLoad = app.pendingModelLoad /\ b.afterCameraStop = app.afterCameraStop
      /\ b.refreshActive = app.refreshActive
      /\ b.sourceGeneration = app.sourceGeneration /\ b.packet = app.packet
  BY <1>1 DEF FieldsOK, AppFields
<1>4. new = ModelReady
  BY DEF ModelReady
<1> HIDE DEF b
<1>5. NowOK(mid) /\ mid.app = b /\ mid.inbox = inbox
  BY <1>2, <1>3, FieldsChanged
<1> HIDE DEF mid
<1>6. /\ NowOK(new) /\ SameLoad(mid.app, new.app) /\ SameSource(mid.app, new.app)
      /\ new.inbox.load = mid.inbox.load
  BY <1>5, ImageSubmitted
<1> HIDE DEF new
<1> QED BY <1>3, <1>4, <1>5, <1>6 DEF SameLoad, SameSource

\* The model requested last is loaded; the camera of the command line may start.
LEMMA LoadedKeepsRest ==
  ASSUME IInv, NEW load, OnModelLoaded(load) PROVE Rest'
<1> DEFINE ready == ModelReady
           started == CameraStarted(ready)
<1>1. /\ AppTypeOK /\ InferenceSide /\ Flags /\ NowOK(Now) /\ Now.app = app /\ Now.inbox = inbox
  BY Before
<1>2. /\ guiPc' = guiPc /\ Camera!Dispatching /\ guiQueue' \in Seq(EventType)
      /\ ToSet(guiQueue') \subseteq ToSet(guiQueue)
      /\ Len(LoadEvents') \in Nat /\ Len(LoadEvents) = Len(LoadEvents') + 1
      /\ WindowOpen => Loaded(inbox)
      /\ ~ app.refreshActive
      /\ WindowOpen => /\ LoadsUnderWay = 1 /\ app.modelState = "Loading"
                       /\ ~ app.pendingModelLoad /\ ~ CameraWanted
                       /\ inbox.load = NoLoad /\ job.load = NoLoad
  <2>1. Handle(InferenceEvent("modelLoaded", load, NoFrame, 0))
    BY DEF OnModelLoaded
  <2> QED BY <2>1, AnswerDelivered
<1>3. /\ NowOK(ready) /\ ready.inbox.load = inbox.load
      /\ ready.app.modelState = "Ready" /\ ~ ready.app.modelLoading /\ ~ ready.app.initialCamera
      /\ ready.app.pendingModelLoad = app.pendingModelLoad
      /\ ready.app.afterCameraStop = app.afterCameraStop
      /\ ready.app.refreshActive = app.refreshActive
  BY <1>1, <1>2, ReadyHolds
<1>4. CASE KeepCamera /\ Become(ready)
  <2> HIDE DEF ready
  <2>1. /\ AppTypeOK' /\ InferenceSide' /\ app' = ready.app /\ inbox'.load = ready.inbox.load /\ job' = job
    BY <1>1, <1>2, <1>3, <1>4, Carried
  <2>2. WindowOpen => LoadsUnderWay' = 0
    BY <1>2, <1>3, <2>1, LoadsEnd
  <2>3. session' = session
    BY <1>4 DEF KeepCamera, cameraFields
  <2>4. Flags'
    BY <1>1, <1>2, <1>3, <2>1, <2>2, <2>3
       DEF Flags, LoadingIsTrue, Continuations, CameraServed, NothingBeforeFirst, One,
           WindowOpen, CameraWanted
  <2> QED BY <2>1, <2>4 DEF Rest
<1>5. CASE Camera!BeginCameraStart(session, watchdogs) /\ Become(started)
  <2> HIDE DEF ready
  <2>1. /\ NowOK(started) /\ SameLoad(ready.app, started.app)
        /\ started.inbox.load = ready.inbox.load
        /\ started.app.cameraSource = started.app.sourceGeneration
        /\ ~ started.app.currentImage
        /\ started.app.initialCamera = ready.app.initialCamera
    BY <1>1, <1>3, CameraIsStarted
  <2> HIDE DEF started
  <2>2. /\ AppTypeOK' /\ InferenceSide' /\ app' = started.app /\ inbox'.load = started.inbox.load
        /\ job' = job
    BY <1>1, <1>2, <1>5, <2>1, Carried
  <2>3. WindowOpen => LoadsUnderWay' = 0
    BY <1>2, <1>3, <2>1, <2>2, LoadsEnd
  <2>4. session'.state = "Opening"
    BY <1>5 DEF Camera!BeginCameraStart, Camera!BeginOpening, Camera!SessionState
  <2>5. Flags'
    BY <1>1, <1>2, <1>3, <2>1, <2>2, <2>3, <2>4
       DEF Flags, LoadingIsTrue, Continuations, CameraServed, NothingBeforeFirst, One,
           WindowOpen, CameraWanted, SameLoad
  <2> QED BY <2>2, <2>5 DEF Rest
<1> QED BY <1>4, <1>5 DEF OnModelLoaded

\* The load requested last has failed.
LEMMA LoadFailedKeepsRest ==
  ASSUME IInv, NEW load, OnLoadFailed(load) PROVE Rest'
<1> DEFINE b == [app EXCEPT !.modelState = "Error", !.modelLoading = FALSE]
           new == WithFields(Now, b)
<1>1. /\ AppTypeOK /\ InferenceSide /\ Flags /\ NowOK(Now) /\ Now.app = app /\ Now.inbox = inbox
      /\ FieldsOK(app)
  BY Before DEF AppTypeOK
<1>2. /\ guiPc' = guiPc /\ guiQueue' \in Seq(EventType)
      /\ ToSet(guiQueue') \subseteq ToSet(guiQueue)
      /\ Len(LoadEvents') \in Nat /\ Len(LoadEvents) = Len(LoadEvents') + 1
      /\ ~ app.refreshActive
      /\ WindowOpen => /\ LoadsUnderWay = 1 /\ app.modelState = "Loading"
                       /\ ~ app.pendingModelLoad /\ ~ CameraWanted
                       /\ inbox.load = NoLoad /\ job.load = NoLoad
  <2>1. Handle(InferenceEvent("loadFailed", load, NoFrame, 0))
    BY DEF OnLoadFailed
  <2> QED BY <2>1, AnswerDelivered
<1>3. FieldsOK(b)
  BY <1>1 DEF FieldsOK, AppFields
<1>4. /\ b.modelState = "Error" /\ ~ b.modelLoading
      /\ b.pendingModelLoad = app.pendingModelLoad /\ b.afterCameraStop = app.afterCameraStop
      /\ b.refreshActive = app.refreshActive /\ SameSource(app, b)
  BY <1>1 DEF FieldsOK, AppFields, SameSource
<1>5. Become(new) /\ session' = session /\ UNCHANGED <<sequence, releasePending>>
  BY DEF OnLoadFailed, KeepCamera, cameraFields
<1> HIDE DEF b
<1>6. NowOK(new) /\ new.app = b /\ new.inbox = inbox
  BY <1>1, <1>3, <1>4, FieldsChanged DEF SameSource
<1> HIDE DEF new
<1>7. /\ AppTypeOK' /\ InferenceSide' /\ app' = b /\ inbox'.load = inbox.load /\ job' = job
  BY <1>1, <1>2, <1>5, <1>6, Carried
<1>8. WindowOpen => LoadsUnderWay' = 0
  BY <1>2, <1>7, LoadsEnd
<1>9. Flags'
  BY <1>1, <1>2, <1>4, <1>5, <1>7, <1>8
     DEF Flags, LoadingIsTrue, Continuations, CameraServed, NothingBeforeFirst, One,
         WindowOpen, CameraWanted, SameSource
<1> QED BY <1>7, <1>9 DEF Rest

\* The queue after a result or a failure of a detection was delivered.
LEMMA ResultDelivered ==
  ASSUME guiQueue \in Seq(EventType), NEW e, Handle(e),
         e.event \in {"inferenceFailed", "detection"}
  PROVE  /\ guiPc' = guiPc /\ Camera!Dispatching /\ guiQueue' \in Seq(EventType)
         /\ ToSet(guiQueue') \subseteq ToSet(guiQueue) /\ Len(LoadEvents') = Len(LoadEvents)
         /\ e \in ToSet(guiQueue) /\ e \in InferenceEventType
<1>1. Deliver(e) /\ guiPc' = guiPc /\ Camera!Dispatching
  BY DEF Handle
<1>2. e \in EventType /\ e \in ToSet(guiQueue)
  BY <1>1, Delivered
<1>3. e \notin LoadAnswers /\ e \in InferenceEventType
  BY <1>2, Kinds
<1> QED BY <1>1, <1>2, <1>3, Delivered

\* A detection that failed stops the camera, and leaves the loads alone.
LEMMA InferenceFailedKeepsRest ==
  ASSUME IInv, NEW frame, OnInferenceFailed(frame) PROVE Rest'
<1> DEFINE e == InferenceEvent("inferenceFailed", NoLoad, frame, 0)
<1>1. /\ AppTypeOK /\ NowOK(Now) /\ Now.app = app /\ Now.inbox = inbox
      /\ guiQueue \in Seq(EventType) /\ Handle(e) /\ e.event = "inferenceFailed"
  BY Before DEF OnInferenceFailed, InferenceEvent
<1> HIDE DEF e
<1>2. /\ guiPc' = guiPc /\ guiQueue' \in Seq(EventType)
      /\ ToSet(guiQueue') \subseteq ToSet(guiQueue) /\ Len(LoadEvents') = Len(LoadEvents)
  BY <1>1, ResultDelivered
<1>3. CASE Camera!BeginCameraStop /\ Become(InvalidateSource(Now))
  <2> DEFINE new == InvalidateSource(Now)
  <2>1. /\ NowOK(new) /\ SameLoad(app, new.app) /\ new.inbox.load = inbox.load
        /\ new.app.initialCamera = app.initialCamera
    BY <1>1, Invalidated
  <2>2. Become(new) /\ Camera!BeginCameraStop
    BY <1>3
  <2> HIDE DEF new
  <2> QED BY <1>2, <2>1, <2>2, KeptByHandler
<1>4. CASE KeepCamera /\ Become(Now)
  <2>1. SameLoad(app, app) /\ SameFrames(app, app)
    BY DEF SameLoad, SameFrames
  <2> QED BY <1>1, <1>2, <1>4, <2>1, KeptByHandler
<1> QED BY <1>3, <1>4 DEF OnInferenceFailed

\* A detection is shown if it is of the current source; then it is also of the
\* model loaded last.
LEMMA DetectionKeepsRest ==
  ASSUME IInv, NEW packet, OnDetection(packet) PROVE Rest'
<1>1. /\ AppTypeOK /\ InferenceSide /\ NowOK(Now) /\ Now.app = app /\ Now.inbox = inbox
      /\ guiQueue \in Seq(EventType) /\ Handle(packet) /\ packet.event = "detection"
      /\ FieldsOK(app) /\ KeepCamera
  BY Before DEF OnDetection, AppTypeOK
<1>2. /\ guiPc' = guiPc /\ guiQueue' \in Seq(EventType)
      /\ ToSet(guiQueue') \subseteq ToSet(guiQueue) /\ Len(LoadEvents') = Len(LoadEvents)
      /\ packet \in ToSet(guiQueue) /\ packet \in InferenceEventType
  BY <1>1, ResultDelivered
<1>3. CASE packet.frame.source # app.sourceGeneration
  <2>1. SameLoad(app, app) /\ SameFrames(app, app) /\ Become(Now)
    BY <1>3 DEF SameLoad, SameFrames, OnDetection
  <2> QED BY <1>1, <1>2, <2>1, KeptByHandler
<1>4. CASE packet.frame.source = app.sourceGeneration
  <2> DEFINE b == [app EXCEPT !.packet = packet]
             new == WithFields(Now, b)
  <2>1. FieldsOK(b)
    BY <1>1, <1>2 DEF FieldsOK, AppFields
  <2>2. /\ SameLoad(app, b) /\ SameFrames(app, b) /\ b.initialCamera = app.initialCamera
        /\ b.packet = packet
    BY <1>1 DEF FieldsOK, AppFields, SameLoad, SameFrames
  <2>3. Become(new)
    BY <1>4 DEF OnDetection
  <2> HIDE DEF b
  <2>4. new.app = b /\ new.inbox = inbox /\ new.notify = FALSE
    BY <1>1 DEF WithFields, GuiState, Now
  <2> HIDE DEF new
  <2>5. OfLastLoad(app.modelState, inbox) /\ OfSource(app.sourceGeneration, app.packet, inbox)
    BY <1>1 DEF InferenceSide
  <2>6. OfSource(app.sourceGeneration, packet, inbox)
    BY <1>1, <1>2, <1>4, <2>5 DEF OfSource
  <2>7. NowOK(new)
    BY <1>1, <2>1, <2>2, <2>4, <2>5, <2>6, Zenon DEF NowOK, SameLoad, SameFrames
  <2> QED BY <1>1, <1>2, <2>2, <2>3, <2>4, <2>7, KeptByHandler
<1> QED BY <1>3, <1>4

-----------------------------------------------------------------------------
(* Closing the window. *)

\* shutdown() begins: from here on the window is not open.
LEMMA ShutdownKeepsRest == ASSUME IInv, Shutdown PROVE Rest'
<1> DEFINE b == [app EXCEPT !.modelState = "Unloading"]
           new == WithFields(Now, b)
<1>1. /\ AppTypeOK /\ InferenceSide /\ Flags /\ NowOK(Now) /\ Now.app = app /\ Now.inbox = inbox
      /\ FieldsOK(app)
  BY Before DEF AppTypeOK
<1>2. /\ guiPc = "loop" /\ guiPc' \in {"stopCamera", "joinCamera"} /\ guiQueue' = guiQueue
      /\ session' = session /\ UNCHANGED <<sequence, releasePending>> /\ Become(new)
  BY DEF Shutdown, Camera!Shutdown
<1>3. FieldsOK(b)
  BY <1>1 DEF FieldsOK, AppFields
<1>4. /\ SameSource(app, b) /\ b.modelState = "Unloading"
      /\ b.afterCameraStop = app.afterCameraStop /\ b.refreshActive = app.refreshActive
  BY <1>1 DEF FieldsOK, AppFields, SameSource
<1> HIDE DEF b
<1>5. new.app = b /\ new.inbox = inbox /\ new.notify = FALSE
  BY <1>1 DEF WithFields, GuiState, Now
<1> HIDE DEF new
<1>6. /\ app' = b /\ inbox' = inbox /\ inferencePc' = inferencePc
      /\ UNCHANGED <<job, detector, loadedGeneration>>
  BY <1>2, <1>5 DEF Become, inferenceRest
<1>7. AppTypeOK'
  <2>1. FieldsOK(app')
    BY <1>3, <1>6
  <2> QED BY <1>1, <1>2, <1>6, <2>1 DEF AppTypeOK
<1>8. Working' /\ OfLastLoad(app.modelState, inbox)'
  BY <1>1, <1>2, <1>6 DEF InferenceSide, Working, OfLastLoad, Loaded, WindowOpen
<1>9. OfSource(app.sourceGeneration, app.packet, inbox)'
  BY <1>1, <1>2, <1>4, <1>6 DEF InferenceSide, OfSource, WorkerExists, SameSource
<1>10. LoadsUnderWay' = LoadsUnderWay
  BY <1>2, <1>6 DEF LoadsUnderWay
<1>11. Flags'
  BY <1>1, <1>2, <1>4, <1>6, <1>10
     DEF Flags, LoadingIsTrue, Continuations, CameraServed, NothingBeforeFirst,
         WindowOpen, SameSource
<1> QED BY <1>7, <1>8, <1>9, <1>11 DEF Rest, InferenceSide

\* The steps of shutdown() that leave the controller and the inference worker
\* alone.
LEMMA ClosingKeepsRest ==
  ASSUME IInv, StopCameraThread \/ InferenceJoined \/ Quit \/ CameraThreadEnds PROVE Rest'
<1>1. AppTypeOK /\ InferenceSide /\ Flags
  BY Before
<1>2. /\ UNCHANGED <<guiQueue, inbox, inferencePc, job, detector, loadedGeneration, app>>
      /\ UNCHANGED <<session, sequence, releasePending>>
  BY DEF StopCameraThread, InferenceJoined, Quit, CameraThreadEnds, inferenceWorkerVars,
         Camera!ShutdownStopped, Camera!CameraThreadJoined, Camera!InferenceJoined, Camera!Quit,
         Camera!CameraThreadEnds, Camera!controllerVars
<1>3. /\ ~ WindowOpen /\ ~ WindowOpen' /\ (WorkerExists' => WorkerExists)
      /\ guiPc \in {"joinInference", "closed", "exited"} =>
             guiPc' \in {"joinInference", "closed", "exited"}
  BY DEF StopCameraThread, InferenceJoined, Quit, CameraThreadEnds, WindowOpen, WorkerExists,
         Camera!ShutdownStopped, Camera!CameraThreadJoined, Camera!InferenceJoined, Camera!Quit,
         Camera!CameraThreadEnds
<1>4. AppTypeOK'
  <2>1. FieldsOK(app')
    BY <1>1, <1>2 DEF AppTypeOK
  <2> QED BY <1>1, <1>2, <2>1 DEF AppTypeOK
<1>5. Working' /\ OfLastLoad(app.modelState, inbox)'
  BY <1>1, <1>2, <1>3 DEF InferenceSide, Working, OfLastLoad, Loaded
<1>6. OfSource(app.sourceGeneration, app.packet, inbox)'
  BY <1>1, <1>2, <1>3 DEF InferenceSide, OfSource
<1>7. LoadsUnderWay' = LoadsUnderWay
  BY <1>2 DEF LoadsUnderWay
<1>8. Flags'
  BY <1>1, <1>2, <1>3, <1>7
     DEF Flags, LoadingIsTrue, Continuations, CameraServed, NothingBeforeFirst
<1> QED BY <1>4, <1>5, <1>6, <1>8 DEF Rest, InferenceSide

\* The inference worker is told to stop: its mailbox is empty.
LEMMA StopInferenceKeepsRest == ASSUME IInv, StopInference PROVE Rest'
<1>1. /\ AppTypeOK /\ InferenceSide /\ Flags /\ guiQueue \in Seq(EventType) /\ inbox \in InboxType
  BY Before DEF AppTypeOK
<1>2. /\ guiPc = "joinInference" /\ guiPc' = guiPc /\ guiQueue' = guiQueue
      /\ UNCHANGED <<session, sequence, releasePending>>
      /\ Become(GuiState(app, WithStop(inbox), TRUE))
  BY Zenon DEF StopInference, cameraFields
<1>3. /\ app' = app /\ inbox' = WithStop(inbox) /\ UNCHANGED <<job, detector, loadedGeneration>>
      /\ inferencePc' = inferencePc \/ (inferencePc = "asleep" /\ inferencePc' = "waiting")
  BY <1>2 DEF Become, GuiState, inferenceRest, Notify
<1>4. /\ inbox' \in InboxType /\ inbox'.stopping /\ inbox'.desired = inbox.desired
      /\ inbox'.source = inbox.source /\ inbox'.load = NoLoad /\ inbox'.frame = NoFrame
  <2>1. 0 \in Nat
    OBVIOUS
  <2> QED BY <1>1, <1>3, <2>1, Boxes DEF WithStop, Inbox
<1>5. AppTypeOK'
  <2>1. FieldsOK(app')
    BY <1>1, <1>3 DEF AppTypeOK
  <2> QED BY <1>1, <1>2, <1>3, <1>4, <2>1 DEF AppTypeOK, InferencePcs
<1>6. Working' /\ OfLastLoad(app.modelState, inbox)'
  BY <1>1, <1>2, <1>3, <1>4 DEF InferenceSide, Working, OfLastLoad, Loaded, WindowOpen
<1>7. OfSource(app.sourceGeneration, app.packet, inbox)'
  BY <1>1, <1>2, <1>3, <1>4 DEF InferenceSide, OfSource, WorkerExists
<1>8. LoadsUnderWay = 0 => LoadsUnderWay' = 0
  <2>1. SUFFICES ASSUME LoadsUnderWay = 0 PROVE LoadsUnderWay' = 0
    OBVIOUS
  <2>2. job.load = NoLoad /\ Len(LoadEvents) = 0
    BY <1>1, <2>1, NoLoads
  <2>3. LoadEvents' = LoadEvents
    BY <1>2 DEF LoadEvents
  <2> QED BY <1>3, <1>4, <2>2, <2>3 DEF LoadsUnderWay, LoadEvents, One
<1>9. Flags'
  BY <1>1, <1>2, <1>3, <1>8
     DEF Flags, LoadingIsTrue, Continuations, CameraServed, NothingBeforeFirst, WindowOpen
<1> QED BY <1>5, <1>6, <1>7, <1>9 DEF Rest, InferenceSide

-----------------------------------------------------------------------------
(* The two worker threads. *)

\* What the camera thread posts are events of the camera.
LEMMA CameraStepPosts ==
  ASSUME IInv, CameraStep
  PROVE  /\ guiQueue' \in Seq(EventType) /\ LoadEvents' = LoadEvents
         /\ \A e \in ToSet(guiQueue') : e \in ToSet(guiQueue) \/ e \in Camera!CameraEventType
<1>1. guiQueue \in Seq(EventType)
  BY Before
<1>2. /\ activeSession \in Nat /\ cameraQueue \in Seq(Camera!RequestType)
      /\ cameraPc = "releasing" => reply \in Camera!CameraEventType
  <2>1. /\ activeSession \in Nat /\ cameraQueue \in Seq(Camera!RequestType)
        /\ reply \in Camera!CameraEventType \cup {CameraPart!NoReply}
    BY DEF IInv, CameraPart!IInv, CameraPart!ProtocolTypeOK, CameraPart!RequestType,
           Camera!RequestType, Camera!CameraEventType, CameraPart!CameraEventType
  <2>2. cameraPc = "releasing" => reply.event \in {"stopped", "cameraFailed"}
    BY DEF IInv, CameraPart!IInv, CameraPart!Ownership, CameraPart!CameraEvent
  <2>3. CameraPart!NoReply.event = "none"
    BY DEF CameraPart!NoReply
  <2> QED BY <2>1, <2>2, <2>3
<1>3. cameraQueue # <<>> => Requested \in Nat
  <2>1. cameraQueue # <<>> => Head(cameraQueue) \in Camera!RequestType
    BY <1>2
  <2> QED BY <2>1 DEF Requested, Camera!RequestType
<1>4. \A s \in Nat : /\ CameraEvent("cameraFailed", s) \in Camera!CameraEventType
                     /\ CameraEvent("stopped", s) \in Camera!CameraEventType
                     /\ CameraEvent("started", s) \in Camera!CameraEventType
                     /\ CameraEvent("frame", s) \in Camera!CameraEventType
  BY DEF CameraEvent, Camera!CameraEventType
<1>5. CASE UNCHANGED guiQueue
  BY <1>1, <1>5 DEF LoadEvents
<1>6. CASE \E e \in Camera!CameraEventType : Post(<<e>>)
  BY <1>1, <1>6, CameraPosts
<1>7. CASE \E e, f \in Camera!CameraEventType : Post(<<e, f>>)
  BY <1>1, <1>7, CameraPostsTwo
<1>8. \/ UNCHANGED guiQueue
      \/ \E e \in Camera!CameraEventType : Post(<<e>>)
      \/ \E e, f \in Camera!CameraEventType : Post(<<e, f>>)
  <2>1. CASE Start
    BY <1>3, <1>4, <2>1, Zenon DEF Start, NextRequest
  <2>2. CASE StopIgnored
    BY <1>3, <1>4, <2>2, Zenon DEF StopIgnored, NextRequest
  <2>3. CASE ReadSucceeds
    <3>1. CASE firstFrameSeen
      BY <1>2, <1>4, <2>3, <3>1, Zenon DEF ReadSucceeds
    <3>2. CASE ~ firstFrameSeen
      BY <1>2, <1>4, <2>3, <3>2, Zenon DEF ReadSucceeds
    <3> QED BY <3>1, <3>2, Zenon
  <2>4. CASE Released
    BY <1>2, <2>4 DEF Released
  <2>5. CASE Stop \/ OpenSucceeds \/ OpenFails \/ ReadFails \/ CaptureNext
    BY <2>5 DEF Stop, OpenSucceeds, OpenFails, ReadFails, CaptureNext
  <2> QED BY <2>1, <2>2, <2>3, <2>4, <2>5, Zenon DEF CameraStep, CameraThread, TakeRequest
<1> QED BY <1>5, <1>6, <1>7, <1>8, Zenon

\* A step of a worker leaves the flags alone while it conserves the loads.
LEMMA WorkerKeepsFlags ==
  ASSUME Flags, LoadsUnderWay' = LoadsUnderWay, UNCHANGED <<cameraFields, guiPc, app>>
  PROVE  Flags'
<1>1. UNCHANGED <<session, sequence, releasePending>>
  BY DEF cameraFields
<1>2. WindowOpen /\ app.pendingModelLoad =>
         session.state = "Stopping" /\ app.afterCameraStop = "LoadModel"
  BY DEF Flags, LoadingIsTrue
<1> QED BY <1>1, <1>2, FlagsKept

\* The camera thread.
LEMMA CameraStepKeepsRest == ASSUME IInv, CameraStep PROVE Rest'
<1>1. AppTypeOK /\ InferenceSide /\ Flags
  BY Before
<1>2. /\ UNCHANGED <<inbox, inferencePc, job, detector, loadedGeneration>>
      /\ UNCHANGED <<cameraFields, guiPc, app>>
  BY DEF CameraStep, inferenceWorkerVars
<1>3. /\ guiQueue' \in Seq(EventType) /\ LoadEvents' = LoadEvents
      /\ \A e \in ToSet(guiQueue') : e \in ToSet(guiQueue) \/ e \in Camera!CameraEventType
  BY CameraStepPosts
<1>4. \A e \in ToSet(guiQueue') :
         e.event \in {"modelLoaded", "detection"} => e \in ToSet(guiQueue)
  BY <1>3 DEF Camera!CameraEventType
<1>5. AppTypeOK'
  <2>1. FieldsOK(app')
    BY <1>1, <1>2 DEF AppTypeOK
  <2> QED BY <1>1, <1>2, <1>3, <2>1 DEF AppTypeOK, EventType
<1>6. Working' /\ OfLastLoad(app.modelState, inbox)'
  BY <1>1, <1>2, <1>4 DEF InferenceSide, Working, OfLastLoad, Loaded, WindowOpen
<1>7. OfSource(app.sourceGeneration, app.packet, inbox)'
  BY <1>1, <1>2, <1>4 DEF InferenceSide, OfSource, WorkerExists
<1>8. LoadsUnderWay' = LoadsUnderWay
  BY <1>2, <1>3 DEF LoadsUnderWay, LoadEvents
<1> QED BY <1>1, <1>2, <1>5, <1>6, <1>7, <1>8, WorkerKeepsFlags DEF Rest, InferenceSide

\* What the inference thread works on.
LEMMA AtWork ==
  ASSUME IInv
  PROVE  /\ AppTypeOK /\ Working /\ Flags /\ guiQueue \in Seq(EventType)
         /\ OfLastLoad(app.modelState, inbox)
         /\ OfSource(app.sourceGeneration, app.packet, inbox)
         /\ inbox \in InboxType /\ job \in JobType /\ loadedGeneration \in Nat
         /\ inferencePc \in InferencePcs /\ FieldsOK(app)
         /\ job.load # NoLoad /\ WindowOpen => inbox.load = NoLoad
<1>1. AppTypeOK /\ InferenceSide /\ Flags /\ guiQueue \in Seq(EventType)
  BY Before
<1>2. job.load # NoLoad /\ WindowOpen => inbox.load = NoLoad
  <2>1. WindowOpen => LoadsUnderWay \in {0, 1}
    BY <1>1 DEF Flags, LoadingIsTrue, One
  <2>2. Len(LoadEvents) \in Nat
    BY <1>1, Counts
  <2> QED BY <2>1, <2>2 DEF LoadsUnderWay, LoadEvents, One
<1> QED BY <1>1, <1>2 DEF InferenceSide, AppTypeOK

\* The steps of the inference thread that post nothing and take nothing.
LEMMA QuietWorkKeepsRest ==
  ASSUME IInv, UNCHANGED <<cameraFields, guiPc, app>>,
         \/ FallAsleep \/ Exit \/ LoadSucceeds \/ CheckLoad \/ DetectSucceeds \/ CheckDetection
  PROVE  Rest'
<1>1. /\ AppTypeOK /\ Working /\ Flags
      /\ OfLastLoad(app.modelState, inbox)
      /\ OfSource(app.sourceGeneration, app.packet, inbox)
      /\ job \in JobType /\ inferencePc \in InferencePcs /\ FieldsOK(app)
  BY AtWork
<1>2. UNCHANGED <<guiQueue, inbox, loadedGeneration>> /\ LoadEvents' = LoadEvents
  BY DEF FallAsleep, Exit, LoadSucceeds, CheckLoad, DetectSucceeds, CheckDetection, LoadEvents
<1>3. detector' = detector \/ (detector' = FALSE /\ inbox.stopping)
  BY DEF FallAsleep, Exit, LoadSucceeds, CheckLoad, DetectSucceeds, CheckDetection
<1>4. /\ job'.load = job.load
      /\ job' = job \/ (job' = NoJob /\ job.load = NoLoad)
      /\ inferencePc' \in InferencePcs
      /\ Working'
  <2>1. CASE FallAsleep \/ Exit
    BY <1>1, <2>1 DEF FallAsleep, Exit, Working, InferencePcs
  <2>2. CASE LoadSucceeds
    BY <1>1, <2>2 DEF LoadSucceeds, Working, InferencePcs
  <2>3. CASE DetectSucceeds
    BY <1>1, <2>3 DEF DetectSucceeds, Working, InferencePcs
  <2>4. CASE CheckLoad
    <3>1. job.load = inbox.desired
      BY <1>1, <2>4 DEF CheckLoad, Working, OfLastLoad
    <3> QED BY <1>1, <2>4, <3>1 DEF CheckLoad, Working, InferencePcs
  <2>5. CASE CheckDetection
    <3>1. job.load = NoLoad
      BY <1>1, <2>5 DEF CheckDetection, Working
    <3>2. NoJob.load = NoLoad /\ NoJob.frame = NoFrame
      BY DEF NoJob, Job
    <3> QED BY <1>1, <2>5, <3>1, <3>2 DEF CheckDetection, Working, InferencePcs, Abandon
  <2> QED BY <2>1, <2>2, <2>3, <2>4, <2>5
<1>5. NoJob \in JobType /\ NoJob.frame = NoFrame
  BY DEF NoJob, Job, JobType, FrameType, NoFrame, NoLoad
<1>6. AppTypeOK'
  <2>1. FieldsOK(app') /\ job' \in JobType /\ detector' \in BOOLEAN
    BY <1>1, <1>3, <1>4, <1>5, Zenon DEF AppTypeOK
  <2> QED BY <1>1, <1>2, <1>4, <2>1 DEF AppTypeOK
<1>7. OfLastLoad(app.modelState, inbox)'
  BY <1>1, <1>2, <1>3, <1>4 DEF OfLastLoad, Loaded, WindowOpen
<1>8. OfSource(app.sourceGeneration, app.packet, inbox)'
  BY <1>1, <1>2, <1>4, <1>5 DEF OfSource, WorkerExists
<1>9. LoadsUnderWay' = LoadsUnderWay
  BY <1>2, <1>4 DEF LoadsUnderWay, LoadEvents
<1> QED BY <1>1, <1>4, <1>6, <1>7, <1>8, <1>9, WorkerKeepsFlags DEF Rest, InferenceSide

\* A load or a frame is taken out of the mailbox.
LEMMA TakingKeepsRest ==
  ASSUME IInv, UNCHANGED <<cameraFields, guiPc, app>>, TakeLoad \/ TakeFrame
  PROVE  Rest'
<1>1. /\ AppTypeOK /\ Working /\ Flags
      /\ OfLastLoad(app.modelState, inbox)
      /\ OfSource(app.sourceGeneration, app.packet, inbox)
      /\ inbox \in InboxType /\ job \in JobType /\ FieldsOK(app)
      /\ guiQueue \in Seq(EventType)
  BY AtWork
<1>2. /\ guiQueue' = guiQueue /\ loadedGeneration' = loadedGeneration
      /\ LoadEvents' = LoadEvents
      /\ inferencePc = "waiting" /\ ~ inbox.stopping
      /\ inbox' = Inbox(FALSE, inbox.desired, inbox.source, inbox.dropped, NoLoad, NoFrame)
  BY Zenon DEF TakeLoad, TakeFrame, LoadEvents
<1>3. job.load = NoLoad /\ job.frame = NoFrame
  BY <1>1, <1>2 DEF Working
<1>4. /\ inbox' \in InboxType /\ ~ inbox'.stopping /\ inbox'.desired = inbox.desired
      /\ inbox'.source = inbox.source /\ inbox'.load = NoLoad /\ inbox'.frame = NoFrame
  BY <1>1, <1>2 DEF Inbox, InboxType, FrameType, NoLoad, NoFrame
<1>5. CASE TakeLoad
  <2>1. /\ job' \in JobType /\ job'.load = inbox.load /\ job'.frame = NoFrame
        /\ inferencePc' = "loading" /\ detector' = FALSE /\ inbox.load # NoLoad
    BY <1>1, <1>5 DEF TakeLoad, Job, JobType, InboxType, FrameType, NoLoad, NoFrame
  <2>2. AppTypeOK'
    <3>1. FieldsOK(app')
      BY <1>1
    <3> QED BY <1>1, <1>2, <1>4, <2>1, <3>1, Zenon DEF AppTypeOK, InferencePcs
  <2>3. Working'
    BY <2>1 DEF Working
  <2>4. OfLastLoad(app.modelState, inbox)'
    BY <1>1, <1>2, <1>4, <2>1, Zenon DEF OfLastLoad, Loaded, WindowOpen
  <2>5. OfSource(app.sourceGeneration, app.packet, inbox)'
    BY <1>1, <1>2, <1>4, <2>1, Zenon DEF OfSource, WorkerExists
  <2>6. LoadsUnderWay' = LoadsUnderWay
    <3>1. Len(LoadEvents) \in Nat
      BY <1>1, Counts
    <3>2. LoadsUnderWay = 1 + Len(LoadEvents)
      BY <1>3, <2>1, <3>1 DEF LoadsUnderWay, LoadEvents, One
    <3>3. LoadsUnderWay' = 1 + Len(LoadEvents')
      <4>1. One(inbox'.load # NoLoad) = 0 /\ One(job'.load # NoLoad) = 1
        BY <1>4, <2>1 DEF One
      <4>2. LoadsUnderWay' = One(inbox'.load # NoLoad) + One(job'.load # NoLoad) + Len(LoadEvents')
        BY DEF LoadsUnderWay, LoadEvents
      <4>3. Len(LoadEvents') \in Nat
        BY <1>2, <3>1
      <4> HIDE DEF LoadEvents
      <4> QED BY <4>1, <4>2, <4>3
    <3> QED BY <1>2, <3>2, <3>3
  <2> QED BY <1>1, <2>2, <2>3, <2>4, <2>5, <2>6, WorkerKeepsFlags DEF Rest, InferenceSide
<1>6. CASE TakeFrame
  <2>1. /\ job' \in JobType /\ job'.load = NoLoad /\ job'.frame = inbox.frame
        /\ inferencePc' = "detecting" /\ detector' = detector
        /\ inbox.load = NoLoad /\ inbox.frame # NoFrame
    BY <1>1, <1>6 DEF TakeFrame, Job, JobType, InboxType, NoLoad
  <2>2. AppTypeOK'
    <3>1. FieldsOK(app')
      BY <1>1
    <3> QED BY <1>1, <1>2, <1>4, <2>1, <3>1, Zenon DEF AppTypeOK, InferencePcs
  <2>3. Loaded(inbox)
    BY <1>1, <2>1 DEF OfLastLoad
  <2>4. Working'
    BY <2>1, <2>3 DEF Working, Loaded
  <2>5. OfLastLoad(app.modelState, inbox)'
    BY <1>1, <1>2, <1>4, <2>1, <2>3, Zenon DEF OfLastLoad, Loaded, WindowOpen
  <2>6. OfSource(app.sourceGeneration, app.packet, inbox)'
    <3>1. WorkerExists => inbox.frame.source = app.sourceGeneration /\ app.sourceGeneration \in Nat
      BY <1>1, <2>1 DEF OfSource, FieldsOK
    <3>2. WorkerExists => /\ job'.frame.source = app.sourceGeneration
                          /\ job'.frame.source <= app.sourceGeneration
      BY <2>1, <3>1
    <3>4. loadedGeneration' = inbox'.desired
      BY <1>2, <1>4, <2>3, Zenon DEF Loaded
    <3>3. OfSource(app.sourceGeneration, app.packet, inbox)
      BY <1>1
    <3> QED BY <1>2, <1>4, <3>2, <3>3, <3>4, Zenon DEF OfSource, WorkerExists
  <2>7. LoadsUnderWay' = LoadsUnderWay
    BY <1>2, <1>3, <1>4, <2>1, Zenon DEF LoadsUnderWay, LoadEvents, One
  <2> QED BY <1>1, <2>2, <2>4, <2>5, <2>6, <2>7, WorkerKeepsFlags DEF Rest, InferenceSide
<1> QED BY <1>5, <1>6

\* A load ends: its answer takes its place among the loads under way.
LEMMA AnsweringKeepsRest ==
  ASSUME IInv, UNCHANGED <<cameraFields, guiPc, app>>, LoadFails \/ AnnounceLoad
  PROVE  Rest'
<1>1. /\ AppTypeOK /\ Working /\ Flags /\ guiQueue \in Seq(EventType)
      /\ OfLastLoad(app.modelState, inbox)
      /\ OfSource(app.sourceGeneration, app.packet, inbox)
      /\ job \in JobType /\ loadedGeneration \in Nat /\ FieldsOK(app)
      /\ job.load # NoLoad /\ WindowOpen => inbox.load = NoLoad
  BY AtWork
<1>2. job.load # NoLoad /\ job.load = inbox.desired /\ job.load \in Nat
  BY <1>1 DEF LoadFails, AnnounceLoad, Working, OfLastLoad, JobType
<1>3. /\ inbox' = inbox /\ inferencePc' = "waiting" /\ job' = NoJob
  BY DEF LoadFails, AnnounceLoad, Emit
<1>4. NoJob \in JobType /\ NoJob.load = NoLoad /\ NoJob.frame = NoFrame
  BY DEF NoJob, Job, JobType, FrameType, NoFrame, NoLoad
<1>5. PICK e \in LoadAnswers :
         /\ Post(<<e>>)
         /\ \/ /\ e.event = "modelLoaded" /\ detector' = TRUE
               /\ loadedGeneration' = job.load
            \/ /\ e.event = "loadFailed"
               /\ UNCHANGED <<detector, loadedGeneration>>
  <2>1. /\ InferenceEvent("loadFailed", job.load, NoFrame, 0) \in LoadAnswers
        /\ InferenceEvent("loadFailed", job.load, NoFrame, 0).event = "loadFailed"
        /\ InferenceEvent("modelLoaded", job.load, NoFrame, 0) \in LoadAnswers
        /\ InferenceEvent("modelLoaded", job.load, NoFrame, 0).event = "modelLoaded"
    BY <1>2 DEF InferenceEvent, LoadAnswers
  <2>2. CASE LoadFails
    BY <2>1, <2>2 DEF LoadFails, Emit
  <2>3. CASE AnnounceLoad
    BY <2>1, <2>3, Zenon DEF AnnounceLoad, Emit
  <2> QED BY <2>2, <2>3, Zenon
<1>6. /\ guiQueue' \in Seq(EventType) /\ ToSet(guiQueue') = ToSet(guiQueue) \cup {e}
      /\ Len(LoadEvents') = Len(LoadEvents) + 1 /\ Len(LoadEvents) \in Nat
  <2>1. e \in InferenceEventType
    BY DEF InferenceEventType
  <2> QED BY <1>1, <1>5, <2>1, InferencePosts, Counts
<1>7. AppTypeOK'
  <2>1. FieldsOK(app') /\ detector' \in BOOLEAN /\ loadedGeneration' \in Nat
    BY <1>1, <1>2, <1>5, Zenon DEF AppTypeOK
  <2> QED BY <1>1, <1>3, <1>4, <1>6, <2>1 DEF AppTypeOK, EventType, InferencePcs
<1>8. Working'
  BY <1>3, <1>4 DEF Working
<1>9. OfLastLoad(app.modelState, inbox)'
  <2>1. /\ inbox.frame = NoFrame
        /\ WindowOpen => /\ app.modelState # "Ready" /\ inbox.load = NoLoad
                         /\ \A x \in ToSet(guiQueue) : x.event # "modelLoaded"
    BY <1>1, <1>2 DEF OfLastLoad, Loaded
  <2>2. WindowOpen /\ e.event = "modelLoaded" => Loaded(inbox)'
    BY <1>2, <1>3, <1>4, <1>5, <2>1 DEF Loaded
  <2> QED BY <1>1, <1>3, <1>4, <1>6, <2>1, <2>2 DEF OfLastLoad, WindowOpen
<1>10. OfSource(app.sourceGeneration, app.packet, inbox)'
  BY <1>1, <1>3, <1>4, <1>5, <1>6 DEF OfSource, WorkerExists
<1>11. LoadsUnderWay' = LoadsUnderWay
  BY <1>2, <1>3, <1>4, <1>6 DEF LoadsUnderWay, LoadEvents, One
<1> QED BY <1>1, <1>7, <1>8, <1>9, <1>10, <1>11, WorkerKeepsFlags DEF Rest, InferenceSide

\* A detection ends: what is posted is of the source and the load of the frame.
LEMMA DetectingKeepsRest ==
  ASSUME IInv, UNCHANGED <<cameraFields, guiPc, app>>, DetectFails \/ Publish
  PROVE  Rest'
<1>1. /\ AppTypeOK /\ Working /\ Flags /\ guiQueue \in Seq(EventType)
      /\ OfLastLoad(app.modelState, inbox)
      /\ OfSource(app.sourceGeneration, app.packet, inbox)
      /\ job \in JobType /\ loadedGeneration \in Nat /\ FieldsOK(app)
  BY AtWork
<1>2. job.load = NoLoad /\ job.frame # NoFrame
  BY <1>1 DEF DetectFails, Publish, Working
<1>3. /\ UNCHANGED <<inbox, detector, loadedGeneration>>
      /\ inferencePc' = "waiting" /\ job' = NoJob
  BY DEF DetectFails, Publish, Emit
<1>4. NoJob \in JobType /\ NoJob.load = NoLoad /\ NoJob.frame = NoFrame
  BY DEF NoJob, Job, JobType, FrameType, NoFrame, NoLoad
<1>5. PICK e \in InferenceEventType :
         /\ Post(<<e>>) /\ e \notin LoadAnswers
         /\ \/ e.event = "inferenceFailed"
            \/ e.event = "detection" /\ e.frame = job.frame /\ e.load = loadedGeneration
  <2>1. CASE DetectFails
    <3> DEFINE x == InferenceEvent("inferenceFailed", NoLoad, job.frame, 0)
    <3>1. x \in InferenceEventType /\ x \notin LoadAnswers /\ x.event = "inferenceFailed"
      BY <1>1 DEF InferenceEvent, InferenceEventType, LoadAnswers, JobType, NoLoad
    <3>2. Post(<<x>>)
      BY <2>1 DEF DetectFails, Emit
    <3> HIDE DEF x
    <3> QED BY <3>1, <3>2
  <2>2. CASE Publish
    <3> DEFINE x == InferenceEvent("detection", loadedGeneration, job.frame, job.dropped)
    <3>1. /\ x \in InferenceEventType /\ x \notin LoadAnswers /\ x.event = "detection"
          /\ x.frame = job.frame /\ x.load = loadedGeneration
      BY <1>1 DEF InferenceEvent, InferenceEventType, LoadAnswers, JobType
    <3>2. Post(<<x>>)
      BY <2>2 DEF Publish, Emit
    <3> HIDE DEF x
    <3> QED BY <3>1, <3>2
  <2> QED BY <2>1, <2>2
<1>6. /\ guiQueue' \in Seq(EventType) /\ ToSet(guiQueue') = ToSet(guiQueue) \cup {e}
      /\ LoadEvents' = LoadEvents
  BY <1>1, <1>5, InferencePosts
<1>7. AppTypeOK'
  <2>1. FieldsOK(app')
    BY <1>1
  <2> QED BY <1>1, <1>3, <1>4, <1>6, <2>1 DEF AppTypeOK, EventType, InferencePcs
<1>8. Working'
  BY <1>3, <1>4 DEF Working
<1>9. OfLastLoad(app.modelState, inbox)'
  BY <1>1, <1>2, <1>3, <1>4, <1>5, <1>6 DEF OfLastLoad, Loaded, WindowOpen
<1>10. OfSource(app.sourceGeneration, app.packet, inbox)'
  BY <1>1, <1>2, <1>3, <1>4, <1>5, <1>6 DEF OfSource, WorkerExists
<1>11. LoadsUnderWay' = LoadsUnderWay
  BY <1>2, <1>3, <1>4, <1>6 DEF LoadsUnderWay, LoadEvents
<1> QED BY <1>1, <1>7, <1>8, <1>9, <1>10, <1>11, WorkerKeepsFlags DEF Rest, InferenceSide

\* The inference thread.
LEMMA InferenceStepKeepsRest == ASSUME IInv, InferenceStep PROVE Rest'
<1>1. UNCHANGED <<cameraFields, guiPc, app>> /\ InferenceThread
  BY DEF InferenceStep
<1> QED BY <1>1, QuietWorkKeepsRest, TakingKeepsRest, AnsweringKeepsRest, DetectingKeepsRest
        DEF InferenceThread

-----------------------------------------------------------------------------
(* The invariant. *)

\* The signals, in the order they were posted.
LEMMA DispatchKeepsRest == ASSUME IInv, Dispatch PROVE Rest'
<1> DEFINE e == Head(guiQueue)
<1>1. CASE IsCameraEvent(e)
  <2>1. e.session \in Nat
    BY <1>1 DEF IsCameraEvent, Camera!CameraEventType
  <2>2. \/ OnCameraStarted(e.session) \/ OnCameraFrame(e.session)
        \/ OnCameraStopped(e.session) \/ OnCameraFailed(e.session)
    BY <1>1 DEF Dispatch
  <2> HIDE DEF e
  <2> QED BY <2>1, <2>2, StartedKeepsRest, FrameKeepsRest, StoppedKeepsRest, FailedKeepsRest
<1>2. CASE ~ IsCameraEvent(e)
  <2>1. \/ OnModelLoaded(e.load) \/ OnLoadFailed(e.load)
        \/ OnInferenceFailed(e.frame) \/ OnDetection(e)
    BY <1>2 DEF Dispatch
  <2> HIDE DEF e
  <2> QED BY <2>1, LoadedKeepsRest, LoadFailedKeepsRest, InferenceFailedKeepsRest,
             DetectionKeepsRest
<1> QED BY <1>1, <1>2

\* Nothing happens.
LEMMA StutterKeepsRest == ASSUME IInv, UNCHANGED appVars PROVE Rest'
<1>1. AppTypeOK /\ InferenceSide /\ Flags
  BY Before
<1>2. /\ UNCHANGED <<guiQueue, inbox, inferencePc, job, detector, loadedGeneration>>
      /\ UNCHANGED <<cameraFields, guiPc, app>>
  BY DEF appVars, inferenceWorkerVars
<1>3. FieldsOK(app')
  BY <1>1, <1>2 DEF AppTypeOK
<1>4. AppTypeOK'
  BY <1>1, <1>2, <1>3 DEF AppTypeOK
<1>5. InferenceSide'
  BY <1>1, <1>2 DEF InferenceSide, Working, OfLastLoad, OfSource, Loaded, WindowOpen, WorkerExists
<1>6. LoadsUnderWay' = LoadsUnderWay
  BY <1>2 DEF LoadsUnderWay
<1> QED BY <1>1, <1>2, <1>4, <1>5, <1>6, WorkerKeepsFlags DEF Rest

\* Every step.
LEMMA StepKeepsIInv == ASSUME IInv, [AppNext]_appVars PROVE IInv'
<1>1. Rest'
  <2>1. CASE Commands
    BY <2>1, LoadModelKeepsRest, RefreshKeepsRest, PlainCommandKeepsRest, StartCameraKeepsRest,
       ShutdownKeepsRest DEF Commands
  <2>2. CASE Dispatch
    BY <2>2, DispatchKeepsRest
  <2>3. CASE \E timer \in {"open", "stop"} : Timeout(timer)
    BY <2>3, TimeoutKeepsRest
  <2>4. CASE ShuttingDown \/ CameraThreadEnds
    BY <2>4, ClosingKeepsRest, StopInferenceKeepsRest DEF ShuttingDown
  <2>5. CASE CameraStep
    BY <2>5, CameraStepKeepsRest
  <2>6. CASE InferenceStep
    BY <2>6, InferenceStepKeepsRest
  <2>7. CASE Terminated \/ UNCHANGED appVars
    BY <2>7, StutterKeepsRest DEF Terminated
  <2> QED BY <2>1, <2>2, <2>3, <2>4, <2>5, <2>6, <2>7 DEF AppNext
<1>2. CameraPart!IInv'
  BY CameraKeepsIInv
<1> QED BY <1>1, <1>2 DEF Rest, IInv

\* After initialize() the camera is where the protocol has it ...
LEMMA InitMaps == AppInit => CameraPart!ProtocolInit
<1> SUFFICES ASSUME AppInit PROVE CameraPart!ProtocolInit
  OBVIOUS
<1>1. /\ guiQueue = <<>> /\ CameraWorkerInit /\ Camera!ControllerInit /\ guiPc = "loop"
  BY DEF AppInit
<1>2. KeepIn(guiQueue, Camera!CameraEventType) = <<>>
  BY <1>1, KeepInEmpty
<1> QED BY <1>1, <1>2 DEF CameraPart!ProtocolInit, CameraPart!CameraWorkerInit,
       CameraPart!ControllerInit, CameraPart!IdleSession, CameraPart!SessionState,
       CameraPart!NoReply, CameraWorkerInit, Camera!ControllerInit, Camera!IdleSession,
       Camera!SessionState, NoReply

\* ... and the invariant holds.
LEMMA InitIInv == AppInit => IInv
<1> SUFFICES ASSUME AppInit PROVE IInv
  OBVIOUS
<1>1. PICK load, image, camera, listed \in BOOLEAN :
         LET source == One(load) + One(image)
             box == WithSource(EmptyInbox, source)
         IN  /\ guiQueue = <<>>
             /\ CameraWorkerInit
             /\ InferenceWorkerInit({"waiting", "exited"}, IF load THEN WithLoad(box) ELSE box)
             /\ Camera!ControllerInit
             /\ guiPc = "loop"
             /\ ~(image /\ camera) /\ (camera => listed)
             /\ app = [modelState |-> IF load THEN "Loading" ELSE "Error",
                       sourceGeneration |-> source, cameraSource |-> 0,
                       currentImage |-> image, packet |-> NoPacket,
                       afterCameraStop |-> "None", pendingModelLoad |-> FALSE,
                       refreshActive |-> FALSE, refreshRestartCamera |-> FALSE,
                       modelLoading |-> load, camerasListed |-> listed,
                       initialCamera |-> camera, submitted |-> 0, usedDestroyed |-> FALSE]
  BY Zenon DEF AppInit
<1>2. /\ guiQueue = <<>> /\ CameraWorkerInit /\ Camera!ControllerInit /\ guiPc = "loop"
  BY <1>1
<1> DEFINE source == One(load) + One(image)
           box == WithSource(EmptyInbox, source)
<1>3. source \in Nat /\ box \in InboxType
  <2>1. source \in Nat
    BY DEF One
  <2>2. EmptyInbox \in InboxType
    BY DEF EmptyInbox, Inbox, InboxType, FrameType, NoFrame, NoLoad
  <2> HIDE DEF source
  <2> QED BY <2>1, <2>2, Boxes
<1>4. /\ box.desired = 0 /\ box.source = source /\ box.load = NoLoad /\ box.frame = NoFrame
      /\ ~ box.stopping
  BY DEF WithSource, EmptyInbox, Inbox
<1>5. /\ app.modelState = (IF load THEN "Loading" ELSE "Error") /\ app.modelLoading = load
      /\ app.sourceGeneration = source /\ app.packet = NoPacket
      /\ app.afterCameraStop = "None" /\ ~ app.pendingModelLoad /\ ~ app.refreshActive
      /\ FieldsOK(app)
  <2> HIDE DEF source
  <2>1. DOMAIN app = AppFields
    BY <1>1 DEF AppFields, source
  <2> QED BY <1>1, <1>3, <2>1 DEF FieldsOK, source
<1>6. /\ inbox \in InboxType /\ ~ inbox.stopping /\ inbox.source = source /\ inbox.frame = NoFrame
      /\ inbox.load \in {NoLoad, inbox.desired} /\ (inbox.load # NoLoad <=> load)
      /\ inferencePc \in {"waiting", "exited"} /\ job = NoJob /\ detector = FALSE /\ loadedGeneration = 0
  <2>1. inbox = IF load THEN WithLoad(box) ELSE box
    BY <1>1 DEF InferenceWorkerInit
  <2>2. /\ WithLoad(box) \in InboxType /\ ~ WithLoad(box).stopping
        /\ WithLoad(box).source = source /\ WithLoad(box).frame = NoFrame
        /\ WithLoad(box).load = WithLoad(box).desired /\ WithLoad(box).load # NoLoad
    <3> HIDE DEF box, source
    <3>1. WithLoad(box) \in InboxType
      BY <1>3, Boxes
    <3> QED BY <1>3, <1>4, <3>1 DEF WithLoad, Inbox, NoLoad
  <2> HIDE DEF box, source
  <2>3. inferencePc \in {"waiting", "exited"} /\ job = NoJob /\ detector = FALSE /\ loadedGeneration = 0
    BY <1>1 DEF InferenceWorkerInit
  <2> QED BY <1>3, <1>4, <2>1, <2>2, <2>3
<1> HIDE DEF box, source
<1>7. NoJob \in JobType /\ NoJob.load = NoLoad /\ NoJob.frame = NoFrame
  BY DEF NoJob, Job, JobType, FrameType, NoFrame, NoLoad
<1>8. AppTypeOK
  <2>1. guiQueue \in Seq(Camera!CameraEventType \cup InferenceEventType)
    BY <1>2
  <2> QED BY <1>5, <1>6, <1>7, <2>1, Zenon DEF AppTypeOK, InferencePcs
<1>9. KeepIn(guiQueue, Camera!CameraEventType) = <<>> /\ KeepIn(guiQueue, LoadAnswers) = <<>>
      /\ ToSet(guiQueue) = {}
  BY <1>2, KeepInEmpty, ToSetEmpty
<1>10. CameraPart!IInv
  <2>1. CameraPart!ProtocolInit
    BY InitMaps
  <2>2. MaxSessions \in Nat
    BY AppBounds
  <2> QED BY <2>1, <2>2, MaxGuiEventsAssumption, CameraPart!InitIInv
<1>11. InferenceSide
  BY <1>5, <1>6, <1>7, <1>9 DEF InferenceSide, Working, OfLastLoad, OfSource, NoLoad
<1>12. /\ session.state = "Idle" /\ sequence = 0 /\ ~ releasePending
  BY <1>2 DEF Camera!ControllerInit, Camera!IdleSession, Camera!SessionState
<1>13. LoadsUnderWay = One(load)
  <2>1. Len(<<>>) = 0
    OBVIOUS
  <2> QED BY <1>6, <1>7, <1>9, <2>1 DEF LoadsUnderWay, One
<1>14. Flags
  BY <1>5, <1>12, <1>13
     DEF Flags, LoadingIsTrue, Continuations, CameraServed, NothingBeforeFirst, CameraWanted, One
<1> QED BY <1>8, <1>10, <1>11, <1>14 DEF IInv

\* The inductive invariant.
LEMMA Inductive == AppSpec => []IInv
<1>1. IInv /\ [AppNext]_appVars => IInv'
  BY StepKeepsIInv
<1> QED BY <1>1, InitIInv, PTL DEF AppSpec

\* The instance of the protocol that AppController names and the one with the
\* proofs have the same initial states ...
LEMMA SameInit == CameraPart!ProtocolInit <=> Protocol!ProtocolInit
BY DEF CameraPart!ProtocolInit, CameraPart!CameraWorkerInit, CameraPart!NoReply,
       CameraPart!ControllerInit, CameraPart!IdleSession, CameraPart!SessionState,
       Protocol!ProtocolInit, Protocol!CameraWorkerInit, Protocol!NoReply,
       Protocol!ControllerInit, Protocol!IdleSession, Protocol!SessionState

\* Their steps ...
LEMMA SameNext == CameraPart!ProtocolNext <=> Protocol!ProtocolNext
BY DEF CameraPart!ProtocolNext, CameraPart!StartCamera, CameraPart!Dispatching,
       CameraPart!BeginCameraStart, CameraPart!CanBeginOpening, CameraPart!BeginOpening,
       CameraPart!SessionState, CameraPart!Send, CameraPart!Request,
       CameraPart!workerRest, CameraPart!StopCamera, CameraPart!BeginCameraStop,
       CameraPart!CanBeginStopping, CameraPart!BeginStopping, CameraPart!Dispatch,
       CameraPart!OnCameraStarted, CameraPart!Handle, CameraPart!Deliver,
       CameraPart!CameraEvent, CameraPart!Sender, CameraPart!AcceptStarted,
       CameraPart!CanAcknowledgeStarted, CameraPart!Accepts,
       CameraPart!AcknowledgeStarted, CameraPart!MarkCameraWorkerResponsive,
       CameraPart!IgnoreStarted, CameraPart!controllerVars, CameraPart!OnCameraFrame,
       CameraPart!OnCameraStopped, CameraPart!RecoverLate, CameraPart!Late,
       CameraPart!AcceptStopped, CameraPart!StoppedAccepted,
       CameraPart!CanAcknowledgeStopped, CameraPart!AcknowledgeStopped,
       CameraPart!IdleSession, CameraPart!AcceptStoppedAndRestart,
       CameraPart!IgnoreStopped, CameraPart!OnCameraFailed, CameraPart!AcceptFailed,
       CameraPart!CanFail, CameraPart!Fail, CameraPart!IgnoreFailed, CameraPart!Timeout,
       CameraPart!TimeoutFires, CameraPart!Shutdown, CameraPart!LastSession,
       CameraPart!ShuttingDown, CameraPart!ShutdownStopped, CameraPart!cameraWorkerVars,
       CameraPart!CameraThreadJoined, CameraPart!InferenceJoined, CameraPart!Quit,
       CameraPart!CameraThreadEnds, CameraPart!Worker, CameraPart!CameraThread,
       CameraPart!TakeRequest, CameraPart!Start, CameraPart!NextRequest,
       CameraPart!Post, CameraPart!Requested, CameraPart!Stop, CameraPart!ReleaseThen,
       CameraPart!StopIgnored, CameraPart!OpenSucceeds, CameraPart!OpenFails,
       CameraPart!CaptureNext, CameraPart!ReadSucceeds, CameraPart!ReadFails,
       CameraPart!Released, CameraPart!NoReply, CameraPart!Terminated,
       CameraPart!protocolVars, Protocol!ProtocolNext, Protocol!StartCamera,
       Protocol!Dispatching, Protocol!BeginCameraStart, Protocol!CanBeginOpening,
       Protocol!BeginOpening, Protocol!SessionState, Protocol!Send, Protocol!Request,
       Protocol!workerRest, Protocol!StopCamera, Protocol!BeginCameraStop,
       Protocol!CanBeginStopping, Protocol!BeginStopping, Protocol!Dispatch,
       Protocol!OnCameraStarted, Protocol!Handle, Protocol!Deliver,
       Protocol!CameraEvent, Protocol!Sender, Protocol!AcceptStarted,
       Protocol!CanAcknowledgeStarted, Protocol!Accepts, Protocol!AcknowledgeStarted,
       Protocol!MarkCameraWorkerResponsive, Protocol!IgnoreStarted,
       Protocol!controllerVars, Protocol!OnCameraFrame, Protocol!OnCameraStopped,
       Protocol!RecoverLate, Protocol!Late, Protocol!AcceptStopped,
       Protocol!StoppedAccepted, Protocol!CanAcknowledgeStopped,
       Protocol!AcknowledgeStopped, Protocol!IdleSession,
       Protocol!AcceptStoppedAndRestart, Protocol!IgnoreStopped,
       Protocol!OnCameraFailed, Protocol!AcceptFailed, Protocol!CanFail, Protocol!Fail,
       Protocol!IgnoreFailed, Protocol!Timeout, Protocol!TimeoutFires,
       Protocol!Shutdown, Protocol!LastSession, Protocol!ShuttingDown,
       Protocol!ShutdownStopped, Protocol!cameraWorkerVars, Protocol!CameraThreadJoined,
       Protocol!InferenceJoined, Protocol!Quit, Protocol!CameraThreadEnds,
       Protocol!Worker, Protocol!CameraThread, Protocol!TakeRequest, Protocol!Start,
       Protocol!NextRequest, Protocol!Post, Protocol!Requested, Protocol!Stop,
       Protocol!ReleaseThen, Protocol!StopIgnored, Protocol!OpenSucceeds,
       Protocol!OpenFails, Protocol!CaptureNext, Protocol!ReadSucceeds,
       Protocol!ReadFails, Protocol!Released, Protocol!NoReply, Protocol!Terminated,
       Protocol!protocolVars

\* ... and their variables.
LEMMA SameState == UNCHANGED CameraPart!protocolVars <=> UNCHANGED Protocol!protocolVars
BY DEF CameraPart!protocolVars, CameraPart!cameraWorkerVars, CameraPart!controllerVars,
       Protocol!protocolVars, Protocol!cameraWorkerVars, Protocol!controllerVars

-----------------------------------------------------------------------------
(* The theorems. *)

\* Whatever the window, the models and the inference worker do, the controller and
\* the camera worker follow the camera protocol: its theorems are theorems of them.
THEOREM ProtocolImplemented == AppSpec => ImplementsProtocol
<1>1. AppInit => Protocol!ProtocolInit
  BY InitMaps, SameInit
<1>2. IInv /\ [AppNext]_appVars => [Protocol!ProtocolNext]_(Protocol!protocolVars)
  BY StepMaps, SameNext, SameState DEF ProtocolStep
<1> QED BY <1>1, <1>2, Inductive, PTL DEF AppSpec, ImplementsProtocol, Protocol!ProtocolSpec

\* What the camera protocol promises holds of the whole controller: the device is
\* never opened twice, it is released whenever a start would be accepted and when
\* its end is announced, and no session and no timer is lost.
THEOREM CameraPromisesKept ==
    AppSpec => [](/\ CameraPart!NoOverlap
                  /\ CameraPart!ReleasedWhenStartable
                  /\ CameraPart!AnnouncedMeansReleased
                  /\ CameraPart!WatchedWhileWaiting
                  /\ CameraPart!SessionAccountedFor)
<1> DEFINE Watched == CameraPart!WatchedWhileWaiting
           Accounted == CameraPart!AInv
<1>1. IInv => /\ CameraPart!NoOverlap
              /\ CameraPart!ReleasedWhenStartable
              /\ CameraPart!AnnouncedMeansReleased
  <2>1. IInv => CameraPart!IInv
    BY DEF IInv
  <2>2. CameraPart!IInv => CameraPart!AnnouncedMeansReleased
    BY DEF CameraPart!IInv
  <2> QED BY <2>1, <2>2, AppBounds, MaxGuiEventsAssumption,
             CameraPart!StartFindsFree, CameraPart!StartableFindsReleased
<1>2. AppInit => Watched /\ Accounted
  BY InitMaps, AppBounds, MaxGuiEventsAssumption, CameraPart!InitWatch, CameraPart!InitAInv
<1>3. IInv /\ IInv' /\ Watched /\ Accounted /\ [AppNext]_appVars => Watched' /\ Accounted'
  <2> SUFFICES ASSUME IInv, IInv', Watched, Accounted, [AppNext]_appVars
               PROVE  Watched' /\ Accounted'
    OBVIOUS
  <2>1. [CameraPart!ProtocolNext]_(CameraPart!protocolVars)
    BY StepMaps DEF ProtocolStep
  <2>2. CameraPart!IInv /\ CameraPart!IInv'
    BY DEF IInv
  <2> QED BY <2>1, <2>2, AppBounds, MaxGuiEventsAssumption,
             CameraPart!StepKeepsWatch, CameraPart!StepKeepsAInv
<1>4. Accounted => CameraPart!SessionAccountedFor
  BY DEF CameraPart!AInv
<1> QED BY <1>1, <1>2, <1>3, <1>4, Inductive, PTL DEF AppSpec

\* The window says "Loading" exactly while a load is under way or waits for the
\* camera, and a load that waits has its continuation.
THEOREM LoadingShownIsTrue == AppSpec => []LoadingIsTrue
BY Inductive, PTL DEF IInv, Flags

\* The camera opens and runs only with a model and for the current source, and
\* what is detected finds a detector.
THEOREM CameraAlwaysShown == AppSpec => []CameraIsShown
<1>1. IInv => CameraIsShown
  BY DEF IInv, InferenceSide, Working, Flags, CameraServed, CameraIsShown, CameraWanted
<1> QED BY <1>1, Inductive, PTL

\* The window never shows a detection of an earlier source or of another model
\* than the one requested last, and no frame of another source waits.
THEOREM OnlyCurrentShown == AppSpec => []AppShowsCurrent
<1>1. IInv => AppShowsCurrent
  BY DEF IInv, InferenceSide, OfSource, AppShowsCurrent
<1> QED BY <1>1, Inductive, PTL
=============================================================================
