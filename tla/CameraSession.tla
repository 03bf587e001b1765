--------------------------- MODULE CameraSession ---------------------------
(***************************************************************************)
(* CameraSessionState: the controller's view of the camera.  A transition  *)
(* is a guard and a new value; a method of the class that returns false    *)
(* leaves the state alone.                                                 *)
(***************************************************************************)
EXTENDS Naturals

CameraStates == {"Idle", "Opening", "Running", "Stopping", "Error"}

SessionState(state, active) == [state |-> state, active |-> active]

IdleSession == SessionState("Idle", 0)

Accepts(cs, session) == session # 0 /\ session = cs.active

CanBeginOpening(cs, session) == session # 0 /\ cs.state \in {"Idle", "Error"}
BeginOpening(session) == SessionState("Opening", session)

CanAcknowledgeStarted(cs, session) == Accepts(cs, session) /\ cs.state = "Opening"
AcknowledgeStarted(cs) == SessionState("Running", cs.active)

CanBeginStopping(cs) == cs.state \in {"Opening", "Running"}
BeginStopping(cs) == SessionState("Stopping", cs.active)

CanAcknowledgeStopped(cs, session) == Accepts(cs, session) /\ cs.state = "Stopping"
AcknowledgeStopped == IdleSession

CanFail(cs, session) == Accepts(cs, session)
Fail == SessionState("Error", 0)
=============================================================================
