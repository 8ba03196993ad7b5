---------------------------- MODULE ChannelConfig ----------------------------
(***************************************************************************)
(* Configuration of the CAN channels over port 9009 and the query of it.   *)
(* Every client of the port has a handler thread; handle_can_config makes  *)
(* ioctls that may fail and keeps a record of the settings in can_configs, *)
(* handle_can_info_query reports the record.  No lock is held across       *)
(* either, so the handlers of two clients interleave at every device call  *)
(* and every access of the record.                                         *)
(*                                                                         *)
(* handle_can_start_stop, the third writer of can_configs, touches only    *)
(* the state field: OpenChannel and CloseChannel of Broadcast.             *)
(***************************************************************************)
EXTENDS Integers, Sequences

CONSTANTS
  NumChannels,  \* AXICAN_MAX
  Clients,      \* clients of port 9009
  Requests,     \* the configuration requests they may send
  MaxRequests   \* bound: configurations and queries

Channels == 0 .. NumChannels - 1

NORMAL_MODE == 0
ALONG_MODE  == 1
INIT_MODE   == 2

MODE_NORMAL   == 2  \* ZMUAV_XCAN_MODE_NORMAL
MODE_LOOPBACK == 4  \* ZMUAV_XCAN_MODE_LOOPBACK

ConfigRequest ==
  [ch : Nat, intact : BOOLEAN, dataMode : Nat, type : Nat, baud : Nat, mode : Nat]

ASSUME ConfigAssumption ==
  /\ NumChannels \in Nat \ {0}
  /\ Requests \subseteq ConfigRequest
  /\ MaxRequests \in Nat

VARIABLES
  conf,      \* can_configs: recorded baud rate, mode and data mode (can_type)
  device,    \* external: the baud rate and mode the CAN device works with
  pc,        \* where the handler of a client is
  req,       \* the request it handles
  baudOk,    \* its baud_success
  modeOk,    \* its mode_success
  rows,      \* its rows of a query's reply, as far as they are filled in: the baud rates
  up,        \* data_upload_socket # -1
  \* History, which no guard reads:
  requests,  \* configurations and queries begun
  sound,     \* handlers that overlap no other on their channel and whose baud ioctl has not failed
  doubt,     \* channels whose record was last written by a handler that was not sound
  quiet      \* per query, the channels no handler has configured since it began

handlerVars == <<pc, req, baudOk, modeOk, rows>>
cfgGhosts == <<requests, sound, doubt, quiet>>
cfgVars == <<conf, device, handlerVars, up, cfgGhosts>>

NoRequest ==
  [ch |-> 0, intact |-> FALSE, dataMode |-> INIT_MODE, type |-> 0, baud |-> 0, mode |-> 0]

\* main configures every device and records it before it starts the listeners.
CfgInit ==
  /\ conf = [ch \in Channels |->
               [baud |-> 500000, mode |-> MODE_LOOPBACK, canType |-> INIT_MODE]]
  /\ device = [ch \in Channels |-> [baud |-> 500000, mode |-> MODE_LOOPBACK]]
  /\ pc = [c \in Clients |-> "idle"]
  /\ req = [c \in Clients |-> NoRequest]
  /\ baudOk = [c \in Clients |-> FALSE]
  /\ modeOk = [c \in Clients |-> FALSE]
  /\ rows = [c \in Clients |-> <<>>]
  /\ up = FALSE
  /\ requests = 0
  /\ sound = {}
  /\ doubt = {}
  /\ quiet = [c \in Clients |-> {}]

-----------------------------------------------------------------------------
(* handle_can_config                                                       *)

\* The handlers that configure a channel
Configuring(ch) ==
  {d \in Clients : pc[d] \in {"baud", "record", "mode", "respond"} /\ req[d].ch = ch}

\* The channel number, the head word and the checksum; anything else only raises an event.
Accepted(r) == r.ch < NumChannels /\ r.intact

\* Both cases of the switch ask for type 0; a request without it falls through them to the
\* default, which raises an event and sends no response.
Handled(r) == r.dataMode \in {ALONG_MODE, NORMAL_MODE} /\ r.type = 0

\* can_type has 8 of CAN_DATA_MODE's 16 bits, and is recorded before the switch looks at them.
ReceiveConfig(c, r) ==
  /\ pc[c] = "idle"
  /\ requests < MaxRequests
  /\ Accepted(r)
  /\ conf' = [conf EXCEPT ![r.ch].canType = r.dataMode % 256]
  /\ requests' = requests + 1
  /\ \/ /\ Handled(r)
        /\ pc' = [pc EXCEPT ![c] = "baud"]
        /\ req' = [req EXCEPT ![c] = r]
        /\ sound' = (IF Configuring(r.ch) = {} THEN sound \cup {c}
                                               ELSE sound \ (Configuring(r.ch) \cup {c}))
        /\ quiet' = [d \in Clients |-> quiet[d] \ {r.ch}]
     \/ /\ ~Handled(r)
        /\ UNCHANGED <<pc, req, sound, quiet>>
  /\ UNCHANGED <<device, baudOk, modeOk, rows, up, doubt>>

ValidBaud(baud) == baud > 0 /\ baud <= 1000000

\* axican_set_baud.  In ALONG_MODE a failure skips the record; in NORMAL_MODE it does not.
SetBaud(c, ok) ==
  LET r == req[c] IN
  /\ pc[c] = "baud"
  /\ \/ /\ ValidBaud(r.baud) /\ ok
        /\ device' = [device EXCEPT ![r.ch].baud = r.baud]
        /\ pc' = [pc EXCEPT ![c] = "record"]
        /\ UNCHANGED sound
     \/ /\ ValidBaud(r.baud) /\ ~ok
        /\ pc' = [pc EXCEPT ![c] = IF r.dataMode = NORMAL_MODE THEN "record" ELSE "mode"]
        /\ sound' = sound \ {c}
        /\ UNCHANGED device
     \/ /\ ~ValidBaud(r.baud)
        /\ pc' = [pc EXCEPT ![c] = "mode"]
        /\ UNCHANGED <<device, sound>>
  /\ UNCHANGED <<conf, req, baudOk, modeOk, rows, up, requests, doubt, quiet>>

\* Fault: the record keeps the old baud rate.
RecordNothing(c) ==
  /\ pc[c] = "record"
  /\ baudOk' = [baudOk EXCEPT ![c] = TRUE]
  /\ pc' = [pc EXCEPT ![c] = "mode"]
  /\ doubt' = IF c \in sound THEN doubt \ {req[c].ch} ELSE doubt \cup {req[c].ch}
  /\ UNCHANGED <<conf, device, req, modeOk, rows, up, requests, sound, quiet>>

RecordBaud(c) ==
  /\ pc[c] = "record"
  /\ conf' = [conf EXCEPT ![req[c].ch].baud = req[c].baud]
  /\ baudOk' = [baudOk EXCEPT ![c] = TRUE]
  /\ pc' = [pc EXCEPT ![c] = "mode"]
  /\ doubt' = IF c \in sound THEN doubt \ {req[c].ch} ELSE doubt \cup {req[c].ch}
  /\ UNCHANGED <<device, req, modeOk, rows, up, requests, sound, quiet>>

\* Fault: ALONG_MODE takes a failed ioctl for a success, as NORMAL_MODE does.
SetModeTrusting(c, ok) ==
  LET r == req[c]
      known == r.mode \in {MODE_NORMAL, MODE_LOOPBACK} IN
  /\ pc[c] = "mode"
  /\ device' = IF known /\ ok THEN [device EXCEPT ![r.ch].mode = r.mode] ELSE device
  /\ modeOk' = [modeOk EXCEPT ![c] = known]
  /\ pc' = [pc EXCEPT ![c] = "respond"]
  /\ UNCHANGED <<conf, req, baudOk, rows, up, cfgGhosts>>

\* axican_set_mode.  The record keeps the mode it had.  In NORMAL_MODE a failed ioctl is
\* reported as a success.
SetMode(c, ok) ==
  LET r == req[c]
      known == r.mode \in {MODE_NORMAL, MODE_LOOPBACK} IN
  /\ pc[c] = "mode"
  /\ device' = IF known /\ ok THEN [device EXCEPT ![r.ch].mode = r.mode] ELSE device
  /\ modeOk' = [modeOk EXCEPT ![c] = known /\ (ok \/ r.dataMode = NORMAL_MODE)]
  /\ pc' = [pc EXCEPT ![c] = "respond"]
  /\ UNCHANGED <<conf, req, baudOk, rows, up, cfgGhosts>>

\* status == 0 in the response
Succeeds(c) == baudOk[c] /\ modeOk[c]

\* send under data_upload_mutex: nothing is sent without a client of port 9010, and a send
\* that fails gives the client up.
Upload(sent) == up' = (up /\ sent)

\* send_can_config_response
Respond(c, sent) ==
  /\ pc[c] = "respond"
  /\ Upload(sent)
  /\ pc' = [pc EXCEPT ![c] = "idle"]
  /\ req' = [req EXCEPT ![c] = NoRequest]
  /\ baudOk' = [baudOk EXCEPT ![c] = FALSE]
  /\ modeOk' = [modeOk EXCEPT ![c] = FALSE]
  /\ sound' = sound \ {c}
  /\ UNCHANGED <<conf, device, rows, requests, doubt, quiet>>

-----------------------------------------------------------------------------
(* handle_can_info_query: one row per channel, then the reply on port 9010. *)

BeginQuery(c) ==
  /\ pc[c] = "idle"
  /\ requests < MaxRequests
  /\ pc' = [pc EXCEPT ![c] = "row"]
  /\ requests' = requests + 1
  /\ quiet' = [quiet EXCEPT ![c] = {ch \in Channels : Configuring(ch) = {}}]
  /\ UNCHANGED <<conf, device, req, baudOk, modeOk, rows, up, sound, doubt>>

\* Fault: every row is filled in from the first channel.
FillRowFromFirst(c) ==
  /\ pc[c] = "row"
  /\ rows' = [rows EXCEPT ![c] = Append(@, conf[0].baud)]
  /\ pc' = [pc EXCEPT ![c] = IF Len(rows[c]) + 1 = NumChannels THEN "answer" ELSE "row"]
  /\ UNCHANGED <<conf, device, req, baudOk, modeOk, up, cfgGhosts>>

FillRow(c) ==
  /\ pc[c] = "row"
  /\ rows' = [rows EXCEPT ![c] = Append(@, conf[Len(@)].baud)]
  /\ pc' = [pc EXCEPT ![c] = IF Len(rows[c]) + 1 = NumChannels THEN "answer" ELSE "row"]
  /\ UNCHANGED <<conf, device, req, baudOk, modeOk, up, cfgGhosts>>

\* send_can_info_response, and the acknowledgement on port 9009
Answer(c, sent) ==
  /\ pc[c] = "answer"
  /\ Upload(sent)
  /\ pc' = [pc EXCEPT ![c] = "idle"]
  /\ rows' = [rows EXCEPT ![c] = <<>>]
  /\ quiet' = [quiet EXCEPT ![c] = {}]
  /\ UNCHANGED <<conf, device, req, baudOk, modeOk, requests, sound, doubt>>

-----------------------------------------------------------------------------

\* A client of port 9010 is registered, or the socket is given up by its handler: ConnSlot.
ConnectUpload ==
  /\ ~up
  /\ up' = TRUE
  /\ UNCHANGED <<conf, device, handlerVars, cfgGhosts>>

DisconnectUpload ==
  /\ up
  /\ up' = FALSE
  /\ UNCHANGED <<conf, device, handlerVars, cfgGhosts>>

Handler(c) ==
  \/ \E r \in Requests : ReceiveConfig(c, r)
  \/ \E ok \in BOOLEAN : SetBaud(c, ok)
  \/ RecordBaud(c)
  \/ \E ok \in BOOLEAN : SetMode(c, ok)
  \/ \E sent \in BOOLEAN : Respond(c, sent)
  \/ BeginQuery(c)
  \/ FillRow(c)
  \/ \E sent \in BOOLEAN : Answer(c, sent)

CfgNext ==
  \/ \E c \in Clients : Handler(c)
  \/ ConnectUpload
  \/ DisconnectUpload

CfgSpec == CfgInit /\ [][CfgNext]_cfgVars

-----------------------------------------------------------------------------
(* What configuration and query promise.                                   *)

\* The recorded baud rate of a channel at rest is the one its device works with, unless the
\* record was last written by a configuration that overlapped another one of the channel or
\* whose ioctl failed in NORMAL_MODE; one configuration that ran alone and succeeded mends
\* it (handle_can_config, which takes no lock and records after the ioctl).
RecordMatchesDevice ==
  \A ch \in Channels \ doubt :
    Configuring(ch) = {} => conf[ch].baud = device[ch].baud

\* When a configuration in ALONG_MODE that overlapped no other reports success, the device
\* has the baud rate and the mode asked for (handle_can_config, status = 0).
SuccessIsReal ==
  \A c \in sound :
    pc[c] = "respond" /\ Succeeds(c) /\ req[c].dataMode = ALONG_MODE =>
      device[req[c].ch] = [baud |-> req[c].baud, mode |-> req[c].mode]

\* The reply of an information query gives every channel that no handler configured since
\* the query began its recorded baud rate, although the rows are read one after the other
\* without a lock; that is the rate the device works with unless the record was already in
\* doubt, as after a NORMAL_MODE configuration whose ioctl failed (handle_can_info_query).
QuietRowsAreTrue ==
  \A c \in Clients : \A ch \in quiet[c] :
    ch < Len(rows[c]) =>
      /\ rows[c][ch + 1] = conf[ch].baud
      /\ ch \notin doubt => rows[c][ch + 1] = device[ch].baud
=============================================================================
