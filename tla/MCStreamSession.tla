--------------------------- MODULE MCStreamSession ---------------------------
(* Instances of StreamSession for TLC.                                       *)
EXTENDS StreamSession, TLC

\* The control thread can raise from its own stage on, the input sender only
\* once the last stage has started it: the longest and the shortest window.
MCStartedIn ==
    [r \in StreamThreads |-> IF r = "input" THEN LastStage ELSE LastStage - 1]

\* Sessions are interchangeable: no definition orders or names them.
SessionSymmetry == Permutations(Sessions)
=============================================================================
