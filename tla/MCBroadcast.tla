----------------------------- MODULE MCBroadcast -----------------------------
(* Requests for the broadcast runs: every mode, disabled, and one request per *)
(* check of handle_broadcast_config that it must refuse.                      *)
EXTENDS Broadcast

Req(enable, mode, active, a, b, group, channel) ==
  [enable |-> enable, mode |-> mode, active |-> active, groupA |-> a, groupB |-> b,
   startGroup |-> group, startChannel |-> channel]

\* The wake and reset protocol of one channel: channels share only the gate and the configuration
WakeRequests ==
  {Req(1, SIMULTANEOUS, Channels, {}, {}, 0, 0),
   Req(0, 9, {}, {}, {}, 0, 0),
   Req(1, SIMULTANEOUS, {0, 7}, {}, {}, 0, 0)}

\* Every mask of the channels, every start, and starts and modes out of range
Masks == SUBSET Channels
ScheduleRequests ==
  {Req(1, SIMULTANEOUS, m, {}, {}, 0, 0) : m \in Masks}
    \cup {Req(1, POLLING, m, {}, {}, 0, s) : m \in Masks, s \in 0 .. NumChannels}
    \cup {Req(1, AB_ALTERNATE, {}, a, b, g, 0) : 
          a \in Masks, b \in {{}, {0, 1, 2}, Channels}, g \in 0 .. 2}
    \cup {Req(0, 0, Channels, {}, {}, 0, 0), Req(1, 4, Channels, {}, {}, 0, 0)}

\* The schedule depends on the configuration and the pulses alone, so its run leaves the
\* senders and the downloads out and has all six channels.
ScheduleSpec ==
  Init /\ [][\/ \E req \in ConfigRequests : Configure(req)
            \/ Pulse
            \/ OpenChannel(0)
            \/ CloseChannel(0)]_vars
=============================================================================
