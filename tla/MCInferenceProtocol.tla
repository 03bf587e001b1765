------------------------ MODULE MCInferenceProtocol ------------------------
EXTENDS InferenceProtocol
=============================================================================
