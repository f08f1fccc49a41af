---------------------------- MODULE MCStopButton ----------------------------
\* Two symbols are enough for a run of more than two frames.
EXTENDS StopButton

\* Comments with lines of their own.
Apart == {[s \in Symbols |-> {}]}
=============================================================================
