------------------------------ MODULE MCMonitor ------------------------------
(* Requests for the configuration runs: both data modes, both bus modes, and *)
(* one request for each way in which handle_can_config leaves early.         *)
EXTENDS Monitor, TLC

Ask(ch, dataMode, type, baud, mode) ==
  [ch |-> ch, intact |-> TRUE, dataMode |-> dataMode, type |-> type, baud |-> baud,
   mode |-> mode]

ConfigRequests ==
  {Ask(0, ALONG_MODE, 0, 250000, MODE_NORMAL),
   Ask(0, NORMAL_MODE, 0, 1000000, MODE_NORMAL),
   Ask(0, ALONG_MODE, 0, 1000001, 8),
   Ask(1, NORMAL_MODE, 1, 250000, MODE_LOOPBACK),
   Ask(1, 256, 0, 250000, MODE_LOOPBACK),
   Ask(2, ALONG_MODE, 0, 125000, MODE_NORMAL),
   [Ask(0, NORMAL_MODE, 0, 125000, MODE_NORMAL) EXCEPT !.intact = FALSE]}

TypeRequests ==
  {Ask(0, ALONG_MODE, 0, 500000, MODE_NORMAL), Ask(1, NORMAL_MODE, 0, 500000, MODE_NORMAL)}

\* Frames on the first channel; the reporting thread of the other finds none.
OneSender == [ch \in Channels |-> IF ch = 0 THEN 3 ELSE 0]

\* The clients of port 9009 run the same handler.
AnyClient == Permutations(Clients)
=============================================================================
