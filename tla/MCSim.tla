------------------------------- MODULE MCSim -------------------------------
(* The simulator for model checking: the elements of its ring are frames.  *)
EXTENDS SimResponder

CONSTANT ZeroKey  \* the key of a frame of zeros

Frames == [id : 1 .. MaxFrames, key : Keys]
ZeroFrame == [id |-> 0, key |-> ZeroKey]
=============================================================================
