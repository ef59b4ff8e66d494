---------------------------- MODULE MCLoadZoom ----------------------------
EXTENDS LoadZoom, TLC

\* Two processors with load5s_threshold = 2 and load1m_threshold = 1.
TwoProcessors == (1 :> 2) @@ (5 :> 4)

\* An uninitialised load5s.
AnyGarbage == {-7}

\* No node looks zoomed, or the one before the first, or all of them.
SomeZoomed == {{}, {2}, {0, 1, 2}}
=============================================================================
