-------------------------- MODULE MCCameraProtocol --------------------------
EXTENDS CameraProtocol
=============================================================================
