# Verification of the Object Detection Framework

TLA+ models of this repository: its threads and their protocols, the life of the
desktop application, and the sequential core. With them come the TLC runs that
check them and TLAPS proofs about them. Every definition is translated from the source; `PROJECT.json`
maps each to its lines, lists the runs, the hazards, the faulty variants that
show each property can fail, and the theorems.

    tlc -workers 2 -config MCCameraProtocol.cfg MCCameraProtocol
    tlapm CameraProtocolProofs.tla

## 1. The system

The framework detects objects in images and camera frames. The core library is
sequential: a registry of model descriptions, a factory, a pipeline that holds
one adapter and one backend, preprocessing and post-processing. Concurrency
lives in the camera example and in the Qt desktop application. A desktop run
also has a before and an after: command line, model roots and settings.

| component | state | operations | talks to |
|---|---|---|---|
| `LatestFrameBuffer` | one-slot mailbox, closed flag, statistics | push, waitAndTake, close | capturing and consuming thread |
| camera example | two threads, stop flag | capture, detect, draw, stop | the buffer |
| `CameraWorker` (camera thread) | active session, capture device, timer, first-frame flag | start, stop, captureNext | posts opening/started/stopped/frame/failed to the GUI thread |
| `CameraSessionState` | Idle, Opening, Running, Stopping, Error; active session | its five transitions | used by the controller |
| `AppController` (GUI thread) | session, watchdogs, release pending, model state, generations, continuation after a stop, Refresh, class selection | the slots of the window, of both workers and of two timers; initialize, shutdown | everything in the desktop |
| `InferenceWorker` (own thread) | one pending load, one pending frame, generations, drop count; detector | requestLoad, submitFrame, invalidateSource, setOptions, stop; run | posts modelLoaded/detectionReady/failed to the GUI thread |
| `MainWindow`, `ClassFilterPanel` | enabled controls, combo boxes, check boxes, shown frame | setters; signals of buttons and boxes | the controller |
| bootstrap, command line, model root, settings | options, root, stored values | parse, discover, pick, initialise, load, save | the controller and the next start |
| `RuntimeCatalog`, `DetectorFactory` | registry, creators by name | loadRegistry, createLoadedDetector | the pipeline |
| `ModelRegistry`, model metadata | the models of a directory | loadDirectory, add, find | the catalog |
| `DetectorPipeline` | loaded model, generation | load, detect, unload, isCurrentResult | adapters, backend |
| ONNX Runtime backend | session, names, shapes | load, infer, unload | the pipeline |
| adapters, NMS, boxes | none | decode a tensor, suppress, filter, clip | the pipeline |
| preprocessing | none | resize, pad, sample; restore a box | the pipeline |
| benchmark | samples | warmup, measure, summarise, write | a detector; a thread that cancels |

The hard behaviours: the notifications of two condition variables; messages
between three threads through Qt event queues; native camera calls that may
never return, watchdogs that give them up, and answers that arrive after that;
generations that make loads, frames and detections stale; loads that fail
half-way; shutdown in the middle of any of it; what one run of the application
leaves to the next; and the arithmetic of pixels, ties and limits.
`PROJECT.json` lists them under "hazards" at the lines where they bite.

What makes each part correct: the buffer loses nothing uncounted and delivers
in order; the camera is never opened twice and no session is lost; the window
never waits for ever; what it shows belongs to the current source, model and
classes; everything ends when the window closes; a directory is registered
wholly or not at all; a loaded detector is one model with its own session;
detections are rows of the output, suppressed only for a better one; restoring
a box undoes the resizing; a restart shows what was closed.

## 2. The modules

| module | models |
|---|---|
| `NewestValue` | what a latest-value mailbox promises (abstract) |
| `LatestFrameBuffer` | the class, one operator per critical section or notification |
| `CameraDetection` | the example program around it; refines `NewestValue` |
| `Subsequences` | what a set keeps of a sequence (one kind of event in a queue, the class filter), the order of a stable sort, and sums |
| `GuiEventLoop` | the queue of events posted to the GUI thread (Qt, external) |
| `CameraWorker` | the camera thread: slots, capture timer, native calls as pairs of steps |
| `CameraSession` | `CameraSessionState` as operators |
| `CameraProtocol` | the controller's half of the session protocol, composed with `CameraWorker` |
| `InferenceWorker` | mailbox and thread of the inference worker |
| `InferenceProtocol` | the controller's half of loading, submitting and showing, composed with `InferenceWorker` |
| `AppController` | the whole controller between the user, the camera thread and the inference thread; implements `CameraProtocol` |
| `ClassSelection` | the class selection from the check boxes to the options of the worker, the boxes drawn and the settings |
| `CommandLine` | the loop over the arguments, log levels, the order of model roots |
| `Startup` | runs of the desktop one after the other: bootstrap, `initialize()`, combo boxes, cameras, settings; composes `CommandLine` |
| `ModelMetadata` | reading and validating one `model.json` |
| `ModelRegistry` | loading a directory file by file, adding one specification |
| `OnnxBackend` | load, unload and the checks of `infer` over session, names and shapes |
| `DetectorPipeline` | load, unload, detect and the stale-result check |
| `RuntimeCatalog` | registry, factory, pipeline and backend together |
| `Detections` | boxes, overlap, clipping, the class filter |
| `PostProcessing` | the four decoding loops, suppression, filter and limit |
| `Preprocess` | the geometry of resizing, the pixels read, and restoring a box |
| `Benchmark` | warmup, measurement, cancellation, statistics, the written file |
| `Profiles` | profiles as inputs, for the modules that run the registry |
| `MC*` | the modules TLC runs |
| `*Proofs` | theorems and proofs |

Conventions. A frame is its number; images, texts and, where nothing depends on
them, model names and boxes are left out. A call that takes a mutex is one step
up to the end of its critical section, its notification another. A handler of
the GUI thread is one step, except where it takes the inference worker's mutex
or blocks: there the steps in between are separate and interleave. A native
camera call (open, read, release) is a step that enters it and one that leaves
it. A signal to another thread is an event appended to that thread's queue; Qt
delivers queued events in order, also those whose sender was destroyed
meanwhile, until the application quits. Log messages, status texts and the
`opening` signal, which only changes a text, are left out. Operators named as
faulty variants are not part of any specification: each is a bug that the
property it belongs to must, and does, detect.

`AppController` composes `CameraWorker`, `CameraSession`, `InferenceWorker` and
the handlers of `CameraProtocol`. To these it adds what joins the two
protocols: a load that waits for the camera to stop, Refresh with its restart,
the retained image, the camera of the command line, source generations, the
inference failure that stops the camera, and shutdown. The fields that
`CameraProtocol` does not have are one record `app`; methods map a record of
the GUI thread's state to the next one, so that a handler reads as the calls it
makes. `updateControls()` of `MainWindow` gates the commands: `Command` and the
first conjuncts of each. Here a handler is one step also where it takes the
inference worker's mutex several times; `InferenceProtocol` checks those
interleavings. Whether enumeration succeeds, what it finds, and whether a model
loads or a frame fails are free choices. The file dialog is instantaneous: it
is modal, and nothing that may happen behind it starts a camera. An image that
cannot be read only changes a text.

Some guards of the code are defensive: with this worker no failure of a session
is ever stale without being late, no start meets an active session, and no
watchdog fires without a session. Those branches are modelled and never taken.

The sequential core. `DetectorPipeline` holds one mutex for the whole of every
call, so a call is a step; the calls that fail in the middle are actions of
their own, because what they leave behind differs. `loadDirectory` is a step
per file, because the staged map is what makes it all or nothing. A parsed
profile is a function from keys to typed values; thresholds are in percent and
a number from `FloatLimit` on stands for one that is no finite float. A graph
is what ONNX Runtime reports of a file. Decoding is a step per row and
suppression a step per candidate, on integer boxes; `NaN` is a number of its
own. In `Preprocess` positions are exact fractions; where a product lies
half-way, a float may have been rounded to either side before `std::round`, and
both results are admitted. The normalisation of pixels, the weights of the
interpolation and the softmax of a distribution are left out. Statistics are in
hundredths, so that the interpolated percentiles of the checked samples are
integers.

`Startup` and `ClassSelection` cut the desktop the other way: no camera session
and no thread is in them, but what a user does to the combo and check boxes,
what is stored, and the next start.

## 3. The runs

| run | question | bounds |
|---|---|---|
| `camera_detection` | buffer and example program, all interleavings, termination | 4 frames: a frame can be consumed, one dropped, one waiting and one on its way |
| `camera_protocol` | sessions with a driver that may hang; recovery and shutdown if it returns | 4 sessions, 4 waiting GUI events: a timed-out session, its successor, a restart and one more, with late answers of all |
| `inference_protocol` | loads, sources, frames and shutdown against the thread, including the race of its start; nothing stays out | 2 loads, 4 sources, 3 frames: a frame shown, one dropped, one shown after it; a stale load and a stale source |
| `app_controller` | what the window says and what `currentPacket_` holds, over everything that can happen; the controller implements `CameraProtocol`; Loading ends | 2 sessions, 2 loads, 4 sources, 2 frames, 2 waiting events: a restart by Refresh, a load that waits, a frame of an old source |
| `app_refresh` | finding: does an active Refresh always wait for something? | as `app_controller` |
| `app_shutdown` | finding: is the inference worker unused after its destruction? | as `app_controller` |
| `class_selection` | ids and boxes over loads, frames under way, cached results and restarts | models of one and two classes, 2 waiting detections |
| `startup` | what a start offers, and what a restart restores | two models, two backends, up to three cameras, five places for models; 14 command lines, good and bad |
| `runtime_catalog` | profiles, directories, creation, loads and results | directories of up to two profiles, every key missing, mistyped or out of range once; 5 model files; 2 registry calls, 2 successful loads of a detector |
| `post_processing` | decoding and suppression of the four formats | up to three rows with ties, overlaps and faults, limits 0, 1 and 3 |
| `preprocess` | geometry and sampling | images up to 5x5 and of side 40 in inputs up to 4x4 |
| `benchmark` | which calls are measured and what is made of them | 2 warmup and 4 measured calls, 3 latencies and an invalid one |

The larger inputs add nothing that these do not have: the code compares two
candidates, two profiles, two neighbouring pixels or two samples at a time, and
every comparison that can go either way does so here. `benchmark`,
`post_processing`, `preprocess` and `runtime_catalog` disable the deadlock
check, because what they model is a call that returns (or, in the last, whose
bounds are used up). Every other run checks it: a program that has ended
stutters in a `Terminated` step.

Fairness. `CameraDetection`: both threads are scheduled and a camera read
returns. `CameraProtocol`: the GUI thread runs its event loop and a running
timer expires; nothing is assumed of the camera thread, so that the properties
hold even if the driver hangs. `RecoveryEnds` alone says "if the driver
returns": its antecedent `DriverReturns` is weak fairness of native calls, and
strong fairness of posted requests, because the capture timer is single-shot
and restarted after each read, so that the Qt loop gets to the posted requests
between two timeouts. `InferenceProtocol`: both threads are scheduled, loading
a model and detecting in a frame end; `WorkIsDone` excepts the thread that read
its stop flag before it was initialised (`NeverRan`, see 5). `AppController`:
the GUI thread, the inference thread and the timers, and again nothing of the
camera thread: `LoadingEnds` holds even if the driver hangs, because the
watchdog gives a waiting load up; it too excepts the thread that never ran. What the user does is never fair. The
sequential models have no liveness property: they are loops over their input.

## 4. The proofs

Together the proof modules state and prove every safety property that a run
checks, invariants and action properties alike, and both refinements, for all
values of the constants that meet the named assumptions.

`CoreProofs` is about three modules. Of `CameraDetection` it proves for every
number of frames the type invariant, `FramesAccounted`, `NoLostWakeup`,
`DestroyedUnused`, `SlotIsNewest` and that the program refines `NewestValue`.
The inductive invariants are conjunctions of these.

Of `Preprocess` it proves `RatioKept` and `RestoreUndoesSampling` for every
image, every input specification and every rounding. The size of a resized axis
is a rounded quotient; multiplied out, rounding moves it by half a divisor at
most (`RoundedNear`), and the axis with the smaller ratio is a whole number that
does not move (`RoundedWhole`). The positions of an axis that are not padded are
an interval as long as the resized axis, for even and for odd padding
(`UnpaddedCount`). In the invariant `PreInv` the transform is of the request
(`TransformIsOf`) and the pixels sampled are those of the product of the two
intervals that lie before the cursor, row by row (`SampledUpTo`). Clamping keeps
the neighbours of a position in the image (`NeighboursInImage`), and restoring
is the inverse of the sampling position up to the clamping of both
(`RestoredAroundSource`). `RequestsAssumption` only gives the types of a call.

Of `Benchmark` it proves `FinishedIsMeasured` for all counts, latencies and
cancellations. The counters of the two loops are the numbers of calls and of
samples (`CallsCounted`), only the last call can be late, because the next look
at the flag ends the loop (`LateIsLast`), and a result is of the samples
(`ResultOfSamples`). That statistics are in order is about their operators: the
sorted list rises (`SortedRises`), a percentile lies between two neighbours of
it and rises with the percentage (`PercentileValue`, `PercentileGrows`), and the
mean between the least and the greatest sample by the sum of each prefix
(`SumBetween`). `ConfigurationsAssumption` says that counts are unsigned.

`CameraProtocolProofs` proves for every number of sessions and events the type
invariant, `NoOverlap`, `ReleasedWhenStartable`, `AnnouncedMeansReleased`,
`SessionsOpenInOrder`, `WatchedWhileWaiting` and `SessionAccountedFor`. Its
inductive invariant adds:
`Numbered` (no message is of a session that was never started), `Views` (what
the controller's state says of active session and pending release), `Ownership`
(the worker's session and its reply are the last session's or older),
`StartsWait` (at most one start waits, and nothing precedes it that would find
the device held) and `InOrder` (no stop of the last session waits before its
start). The key is that an end of the last session is posted only after the
release: the controller starts the next session when it sees such an end, and
the queue is in order. For `SessionAccountedFor` a second invariant says where
the end of a session that the controller still waits for is to come from. The
assumptions are the named ones on the constants. Its lemmas about single steps
are stated of states, so that the proofs about the controller can cite them.

`InferenceProtocolProofs` proves for every number of loads, sources and frames
every safety property of `InferenceProtocol`: the type invariant,
`LoadAccountedFor`, `ReadyIsLoaded`, `ShownIsCurrent`, `WorkerIsWoken` and the
action property `ShownGoesForward`. Its inductive invariant is the conjunction
of `OneLoad` (a load is in one place at most, while the window is open),
`Shape` (the position of the thread fits what it works on, a stopped mailbox is
empty), `OfLastLoad` (a load under way is the one requested last; "Ready", its
announcement and a waiting frame mean that its detector is there), `JobIsFresh`
and `ResultsAreFresh`. The last two carry the argument. A result names its
source, not its model; that it is of the current model follows because every
load begins with a new source, so no result of the source that is current now
can come from an earlier model. And a result `After` another has a greater
number, by more than the drop count has grown: this is kept for every pair of a
result shown, a result queued, the frame at work, the frame waiting and the
frame still to come, because each of these places hands on to the one before it
in that list. The bounds on loads, sources and frames are only conjuncts of
guards and no step of the proof uses them; `InferenceBounds` is not needed.

`SubsequencesProofs` holds the lemmas about `KeepIn`: what is kept of an empty
sequence, of one with an element more at its end or less at its front, its type
and length, that its elements are those that belong there (`MembersKept`), and
that a relation between earlier and later elements stays. The
functions behind `KeepIn` and `SumOf` are recursive. Their equations and these
lemmas come from a least-element argument instead of an induction theorem
(`LeastElement`, `UpTo`): the set of lengths for which a claim fails has no
least member. `SortedPlaces` is defined by rank: a place comes after as many
others as are before it. Ranks are distinct and below the length
(`PlacesBeforeGrow`, `PlacesBeforeReached`), so each is taken once, and the keys
rise along it (`SortedPlacesRise`). Suppression and statistics use the same
lemma.

`AppControllerProofs` proves about the whole controller, for every number of
sessions, loads, sources, frames and waiting events, that it implements
`CameraProtocol` (`ProtocolImplemented`: the initial states map to initial
states, and every step is a step of the protocol or a stutter), that what the
protocol promises therefore holds of the controller (`CameraPromisesKept`), and
`LoadingIsTrue`, `CameraIsShown` and `AppShowsCurrent`. The refinement maps the
queue to the camera events in it. The inductive invariant has three parts: the
invariant of the camera protocol under that mapping; `InferenceSide` (`Working`,
`OfLastLoad` and `OfSource`, which say of each place a load or a frame can be in
how it relates to the controller's generations); and `Flags`, which joins the
two: `Continuations` (what waits for the camera to stop is one thing, and no
load is under way during a Refresh), `CameraServed` (a camera that is wanted has
a ready model and the current source) and `NothingBeforeFirst` (the camera of
the command line). `CameraServed` says of a camera that still opens what
`CameraIsShown` says of one that runs, because `started` lets it run without
looking again. The two runs with findings do not contradict the theorems: a
Refresh that stays active and the use of the destroyed worker violate none of
these properties.

`DesktopProofs` is about the window. Of `ClassSelection` it proves `IdsInRange`
and `OnlySelectedShown` for any models, numbers of classes, waiting events and
restarts. Besides types the invariant says that one load is under way or
answered (`LoadsAnswered`), that check boxes, selection and options agree when
the model is ready (`InStep`) and that what is current was submitted for this
detector (`CurrentIsOfDetector`).

Of `Startup` it proves `WindowIsOfWorld` and the action property
`RestartRestores` for any command lines, roots, catalogs, builds and devices.
What the two lists of the window hold follows from the lemmas about `KeepIn`:
the backends listed are those the model supports and the build has
(`BackendsAreUsable`), and a camera that is listed has the place among all
devices that its index says, listed once (`EnumeratedDevices`). An entry that is
shown is one of those listed, and none only if none is (`OneOf`): so it is after
a catalog was set, a model was chosen or the devices were enumerated again. A
root that is used holds models, and is the one that was named or one that the
user picked (`RootIsNamed`). For a restart the invariant `StartupInv` says that
the window shown last was such a window too (`WindowOK`), and that if the stored
model is the one it showed, the rest that is stored is what it showed (`InStore`);
a start that fails stores no model, and so nothing is taken from it. Then each
choice of `initialize()` finds what it looks for (`SameIsShown`).
`WorldsAssumption` says that the ids of a catalog are distinct, as the keys of
the map they come from, and that backends, models and the devices that are
listed have names.

`RuntimeCatalogProofs` proves `LoadedAsDocumented`, `StaleResultRejected` and the
action property `AllOrNothing` for all directories, profiles, model files and
calls. The invariant says that every map of models, the staged one included,
holds validated specifications under their ids (`Legal`), what a half-read
directory has staged (`Reading`: as many models as files were read, so that no
file replaced another), and that a loaded model passed the checks of family,
profile and session together (`Passed`). `DirectoriesAssumption` only says that
directories are finite sequences.

`PostProcessingProofs` proves `NothingInvented` and `SuppressionIsRight` for
outputs of any number of rows and classes, and any limits. A candidate is the
row the loop was at and rows only rise, so no row is used twice
(`CandidatesOK`); what the loop has passed was well-formed, unless the limit
ended it (`LookedAt`); detections are among the candidates visited
(`DetectionsOK`). `Order` is the sorted order of the negated confidences; hence
a detection is never less confident than the candidate that is compared with it.
`RequestsAssumption` gives the types of a call and says that a row has a score
for each class and an accepted PicoDet tensor as many rows as its shape says.

Only model-checked is liveness under fairness (`ProgramEnds`, `WaitingEnds`,
`RecoveryEnds`, `WorkIsDone`, `LoadingEnds`), which is outside this prover's
reach, and with it `ENABLED`. What `ParseCommandLine` makes of each argument is a
fold that no theorem describes; none depends on it.

## 5. What was noticed

- Run `app_refresh`. A failed inference is reported before its generations are
  checked (`InferenceWorker.cpp:145`), and `onFailure` stops whatever session
  is opening or running (`AppController.cpp:636`). If a Refresh is restarting
  the camera, the stop it causes continues with nothing, the Refresh stays
  active, and with it the buttons stay disabled. In the trace the frame is the
  retained image, still being detected when the camera was started and
  refreshed.
- Run `app_shutdown`. Close the window while a load waits for the camera:
  `stopped` is posted during `shutdown()` and delivered after it, and
  `performModelLoad` uses `inference_` (`AppController.cpp:200`), which is null
  by then.
- The inference thread is started by the member declared first
  (`InferenceWorker.hpp:71`), before `mutex_`, `condition_` and `stopping_` are
  initialised. `InferenceProtocol` and `AppController` start from both
  outcomes; in one of them the thread ends at once, and a load then stays
  unanswered.
- An answer to a load that ends while the window closes is delivered after
  `shutdown()` and sets the model state to Ready again.

Differences between code and documents that the models follow the code in, and
that no run is made for:

- Tensors are given to ONNX Runtime by position (`onnxruntime_backend.cpp:178`),
  and shapes keep the order of the session (`:144`); `docs/En/architecture.md:74`
  speaks of binding by name. With several inputs in another order than the
  profile's, a load succeeds and every detection is refused.
- Detections are capped before they are filtered by class
  (`yolo26_adapter.cpp:50`, `picodet_adapter.cpp:89`), after
  `docs/En/architecture.md:80` the other way round.
- A cached result that is shown again was filtered by the selection of its own
  time (`AppController.cpp:564`), so a class that is selected later does not
  come back until the next result.
- Settings store the class selection with the model that is selected
  (`AppController.cpp:721`), which need not be the loaded one it is of; loading
  a model restores the selection stored at the start of the run
  (`AppController.cpp:575`). A start that fails stores empty settings (`:717`).
- Percentiles are interpolated (`statistics.cpp:14`), where `statistics.hpp:22`
  says nearest-rank; `model_load_ms` is always 0 (`performance_benchmark.cpp:136`); the
  stream of the result is flushed after it was tested (`:153`).
- The registry accepts `reg_max` up to 64, any positive stride and any
  auxiliary input (`model_registry.cpp:242`); the adapters refuse more.
- An output without rows has a zero dimension and is refused
  (`detector_pipeline.cpp:131`).
- With padding of half a pixel (`preprocess.cpp:126`) a column or row less is
  padded after the resized image than before it, and all samples are taken half
  a pixel late; restoring agrees with that.

## 6. Not modelled, and the plan

Not modelled: the JSON parser (text without state), the image viewport and the
pixel conversions (`QtImageBridge`, `opencv_bridge.cpp`), the image example
(straight-line calls of modelled parts), logging and `Status`, scripts, tests,
build files, the placeholder backends; and of modelled parts the layout of the
window, window geometry, tensor arithmetic, ONNX Runtime, Qt and Media
Foundation themselves.

Of modelled parts these are left out. `CameraWorker` refuses an invalid request
(`CameraWorker.cpp:22`) and ignores a timer when nothing is open (`:87`): the
controller sends no such request, and a session that ends stops the timer.
Devices change together with an enumeration; `IndexIsOfDevice` says nothing of a
camera that is plugged in or out between it and the open, which is by index.
`ShownIsCurrent` and `AppShowsCurrent` are about `currentPacket_`: the viewport
keeps its last picture when the source is invalidated, until the next is shown.

1. Done: buffer and example; camera protocol; inference protocol; the proofs
   of all three.
2. Done: `AppController`, both protocols composed; it implements
   `CameraProtocol`.
3. Done: pipeline, factory, catalog, backend, registry; post-processing,
   preprocessing, statistics; class selection, command line, starts and
   settings.
4. Done: the proofs of the controller and its refinement, of class selection,
   catalog, post-processing, preprocessing, benchmark, and of starts and
   settings.
