------------------------- MODULE MCCameraDetection -------------------------
EXTENDS CameraDetection
=============================================================================
