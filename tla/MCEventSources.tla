--------------------------- MODULE MCEventSources ---------------------------
EXTENDS EventSources
MCLoops == <<"l1", "l2">>
=============================================================================
