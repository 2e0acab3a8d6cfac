--------------------------- MODULE MCHookedCalls ---------------------------
EXTENDS HookedCalls
MCOverlaps == {{"read_buf"}, {"read_buf", "setsockopt"}, {"read_buf", "ioctlsocket"},
               {"setsockopt"}, {"connect", "ioctlsocket"}, {"connect", "setsockopt"}}
MCVectors == {<<1, 2>>}
=============================================================================
