------------------------------ MODULE MCFanout ------------------------------
(* Model-checking instance of EventFanout: one topic, two sessions.        *)
EXTENDS EventFanout

CONSTANTS ta, s1, s2

\* Resume cursors: from the start, from the middle, and past the end of the
\* log (clamped by Subscribe).
MCCursors == {0, 1, 4}

=============================================================================
