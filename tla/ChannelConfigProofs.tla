------------------------- MODULE ChannelConfigProofs -------------------------
(***************************************************************************)
(* The record of the channels' settings against the devices, proved for    *)
(* every number of channels, clients and requests.                         *)
(***************************************************************************)
EXTENDS ChannelConfig, TLAPS

Steps == {"baud", "record", "mode", "respond"}

CfgTypeOK ==
  /\ conf \in [Channels -> [baud : Nat, mode : Nat, canType : Nat]]
  /\ device \in [Channels -> [baud : Nat, mode : Nat]]
  /\ pc \in [Clients -> {"idle", "row", "answer"} \cup Steps]
  /\ req \in [Clients -> ConfigRequest]
  /\ baudOk \in [Clients -> BOOLEAN]
  /\ modeOk \in [Clients -> BOOLEAN]
  /\ rows \in [Clients -> Seq(Nat)]
  /\ sound \subseteq Clients
  /\ doubt \subseteq Channels
  /\ quiet \in [Clients -> SUBSET Channels]

\* A handler at work has a channel; a sound one has it to itself.
OwnerInv ==
  /\ \A c \in Clients : pc[c] \in Steps => req[c].ch \in Channels
  /\ \A c \in sound : pc[c] \in Steps
  /\ \A c \in sound : \A d \in Clients :
       pc[d] \in Steps /\ req[d].ch = req[c].ch => d = c

\* What a sound handler has told the device is what the device works with.
ToldInv ==
  /\ \A c \in Clients : baudOk[c] => pc[c] \in {"mode", "respond"}
  /\ \A c \in sound :
       pc[c] = "record" \/ baudOk[c] => device[req[c].ch].baud = req[c].baud
  /\ \A c \in sound :
       pc[c] = "respond" /\ modeOk[c] /\ req[c].dataMode = ALONG_MODE =>
         device[req[c].ch].mode = req[c].mode

\* Record and device agree but for a channel in doubt and one about to be recorded.
RecordInv ==
  \A ch \in Channels \ doubt :
    conf[ch].baud = device[ch].baud
      \/ \E d \in Clients : pc[d] = "record" /\ req[d].ch = ch

\* The rows of a query, filled in from the first channel on; no handler is at work on a
\* channel it counts on.
QueryInv ==
  /\ \A c \in Clients : pc[c] \notin {"row", "answer"} => rows[c] = <<>> /\ quiet[c] = {}
  /\ \A c \in Clients : pc[c] = "row" => Len(rows[c]) < NumChannels
  /\ \A c \in Clients : \A ch \in quiet[c] :
       /\ \A d \in Clients : pc[d] \in Steps => req[d].ch # ch
       /\ ch < Len(rows[c]) => rows[c][ch + 1] = conf[ch].baud

CfgInv == CfgTypeOK /\ OwnerInv /\ ToldInv /\ RecordInv /\ QueryInv

\* The invariant holds when main starts the listeners.
LEMMA InitCfgInv == CfgInit => CfgInv
<1> SUFFICES ASSUME CfgInit PROVE CfgInv
  OBVIOUS
<1> USE DEF CfgInit
<1>1. CfgTypeOK
  BY ConfigAssumption DEF CfgTypeOK, NoRequest, ConfigRequest, MODE_LOOPBACK, INIT_MODE
<1>2. OwnerInv /\ RecordInv
  BY DEF OwnerInv, RecordInv, Steps
<1>3. ToldInv
  BY DEF ToldInv
<1>4. QueryInv
  BY DEF QueryInv
<1>. QED
  BY <1>1, <1>2, <1>3, <1>4 DEF CfgInv

\* handle_can_config takes a request: a handler that finds another on its channel ends the
\* soundness of both, and every query stops counting on the channel.
LEMMA ReceiveCfgInv ==
  ASSUME CfgInv, NEW c \in Clients, NEW r \in Requests, ReceiveConfig(c, r)
  PROVE  CfgInv'
<1> USE DEF CfgInv
<1>1. r \in ConfigRequest /\ r.ch \in Channels /\ r.dataMode % 256 \in Nat
  BY ConfigAssumption DEF ReceiveConfig, Accepted, ConfigRequest, Channels
<1>2. PICK t \in Nat :
        /\ pc[c] = "idle"
        /\ conf' = [conf EXCEPT ![r.ch].canType = t]
        /\ UNCHANGED <<device, baudOk, modeOk, rows, up, doubt>>
  BY <1>1 DEF ReceiveConfig
<1>3. \A ch \in Channels : conf'[ch].baud = conf[ch].baud
  BY <1>1, <1>2 DEF CfgTypeOK
<1>4. conf' \in [Channels -> [baud : Nat, mode : Nat, canType : Nat]]
  <2>1. conf \in [Channels -> [baud : Nat, mode : Nat, canType : Nat]]
    BY DEF CfgTypeOK
  <2>2. [conf[r.ch] EXCEPT !.canType = t] \in [baud : Nat, mode : Nat, canType : Nat]
    BY <1>1, <2>1
  <2>3. conf' = [conf EXCEPT ![r.ch] = [conf[r.ch] EXCEPT !.canType = t]]
    BY <1>2
  <2>. QED
    BY <2>1, <2>2, <2>3
<1>5. CASE UNCHANGED <<pc, req, sound, quiet>>
  <2>1. UNCHANGED <<device, baudOk, modeOk, rows, doubt>>
    BY <1>2
  <2>2. CfgTypeOK'
    BY <1>4, <1>5, <2>1 DEF CfgTypeOK
  <2>3. OwnerInv' /\ ToldInv'
    BY <1>5, <2>1 DEF OwnerInv, ToldInv
  <2>4. RecordInv'
    BY <1>3, <1>5, <2>1 DEF RecordInv
  <2>5. QueryInv'
    BY <1>3, <1>5, <2>1 DEF QueryInv, CfgTypeOK
  <2>. QED
    BY <2>2, <2>3, <2>4, <2>5
<1>6. CASE Handled(r)
  <2>1. /\ pc' = [pc EXCEPT ![c] = "baud"]
        /\ req' = [req EXCEPT ![c] = r]
        /\ sound' = (IF Configuring(r.ch) = {} THEN sound \cup {c}
                                               ELSE sound \ (Configuring(r.ch) \cup {c}))
        /\ quiet' = [d \in Clients |-> quiet[d] \ {r.ch}]
    BY <1>6 DEF ReceiveConfig
  <2>2. c \notin sound /\ ~baudOk[c]
    BY <1>2 DEF OwnerInv, ToldInv, Steps
  <2>3. \A d \in Clients : d # c => pc'[d] = pc[d] /\ req'[d] = req[d]
    BY <2>1 DEF CfgTypeOK
  <2>4. pc'[c] = "baud" /\ req'[c] = r
    BY <2>1 DEF CfgTypeOK
  <2>5. sound' \subseteq Clients /\ \A d \in sound' : d # c => d \in sound
    BY <2>1 DEF CfgTypeOK
  <2>6. CfgTypeOK'
    BY <1>1, <1>2, <1>4, <2>1, <2>5 DEF CfgTypeOK, Steps
  <2>7. \A d \in sound' : d # c => req[d].ch # r.ch
    BY <2>1, <2>5 DEF Configuring, OwnerInv, Steps
  <2>8. c \in sound' => \A d \in Clients : pc[d] \in Steps => req[d].ch # r.ch
    BY <2>1, <2>2 DEF Configuring, Steps
  <2>9. OwnerInv'
    <3>1. \A d \in Clients : pc'[d] \in Steps => req'[d].ch \in Channels
      BY <1>1, <2>3, <2>4 DEF OwnerInv
    <3>2. \A d \in sound' : pc'[d] \in Steps
      BY <2>3, <2>4, <2>5 DEF OwnerInv, Steps
    <3>3. ASSUME NEW d \in sound', NEW e \in Clients, pc'[e] \in Steps, req'[e].ch = req'[d].ch
          PROVE  e = d
      <4>1. CASE d = c
        BY <3>3, <4>1, <2>3, <2>4, <2>8
      <4>2. CASE d # c
        BY <3>3, <4>2, <2>3, <2>4, <2>5, <2>7 DEF OwnerInv
      <4>. QED
        BY <4>1, <4>2
    <3>. QED
      BY <3>1, <3>2, <3>3 DEF OwnerInv
  <2>10. ToldInv'
    <3>1. \A d \in Clients : baudOk'[d] => pc'[d] \in {"mode", "respond"}
      BY <1>2, <2>2, <2>3 DEF ToldInv
    <3>2. \A d \in sound' : d # c => pc'[d] = pc[d] /\ req'[d] = req[d] /\ d \in sound
      BY <2>3, <2>5
    <3>3. ~baudOk'[c] /\ pc'[c] = "baud"
      BY <1>2, <2>2, <2>4
    <3>. QED
      BY <1>2, <3>1, <3>2, <3>3 DEF ToldInv
  <2>11. RecordInv'
    BY <1>2, <1>3, <2>3, <2>4 DEF RecordInv
  <2>12. QueryInv'
    <3>1. \A d \in Clients : quiet'[d] = quiet[d] \ {r.ch}
      BY <2>1
    <3>2. \A d \in Clients : \A ch \in quiet'[d] : ch \in quiet[d] /\ ch # r.ch
      BY <3>1
    <3>3. rows[c] = <<>> /\ quiet[c] = {}
      BY <1>2 DEF QueryInv
    <3>4. \A d \in Clients : pc'[d] \notin {"row", "answer"} => rows'[d] = <<>> /\ quiet'[d] = {}
      BY <1>2, <2>3, <2>4, <3>1, <3>3 DEF QueryInv
    <3>5. \A d \in Clients : pc'[d] = "row" => Len(rows'[d]) < NumChannels
      BY <1>2, <2>3, <2>4 DEF QueryInv
    <3>6. ASSUME NEW d \in Clients, NEW ch \in quiet'[d]
          PROVE  /\ \A e \in Clients : pc'[e] \in Steps => req'[e].ch # ch
                 /\ ch < Len(rows'[d]) => rows'[d][ch + 1] = conf'[ch].baud
      <4>1. ch \in quiet[d] /\ ch # r.ch
        BY <3>2, <3>6
      <4>2. ch \in Channels
        BY <4>1 DEF CfgTypeOK
      <4>3. \A e \in Clients : pc'[e] \in Steps => req'[e].ch # ch
        BY <2>3, <2>4, <4>1 DEF QueryInv
      <4>4. ch < Len(rows[d]) => rows[d][ch + 1] = conf[ch].baud
        BY <4>1 DEF QueryInv
      <4>. QED
        BY <1>2, <1>3, <4>2, <4>3, <4>4
    <3>. QED
      BY <3>4, <3>5, <3>6 DEF QueryInv
  <2>. QED
    BY <2>6, <2>9, <2>10, <2>11, <2>12
<1>. QED
  BY <1>5, <1>6 DEF ReceiveConfig

\* The recorded baud rate of a channel changes only while a handler is at work on it, so
\* no query counts on the channel.
LEMMA QuietElsewhere ==
  ASSUME CfgInv, NEW c \in Clients, pc[c] \in Steps
  PROVE  \A d \in Clients : req[c].ch \notin quiet[d]
BY DEF CfgInv, QueryInv

\* The handlers but c: their soundness does not change when c moves on on its own channel.
LEMMA OtherSound ==
  ASSUME CfgInv, NEW c \in Clients, pc[c] \in Steps, NEW d \in sound, d # c
  PROVE  req[d].ch # req[c].ch
BY DEF CfgInv, OwnerInv, CfgTypeOK

\* The baud ioctl and its failure keep the invariant.
LEMMA SetBaudCfgInv ==
  ASSUME CfgInv, NEW c \in Clients, NEW ok \in BOOLEAN, SetBaud(c, ok)
  PROVE  CfgInv'
<1> USE DEF CfgInv
<1> DEFINE ch0 == req[c].ch
<1>1. /\ pc[c] = "baud"
      /\ UNCHANGED <<conf, req, baudOk, modeOk, rows, doubt, quiet>>
  BY DEF SetBaud
<1>2. ch0 \in Channels /\ req[c].baud \in Nat /\ req[c] \in ConfigRequest
  BY <1>1 DEF OwnerInv, CfgTypeOK, ConfigRequest, Steps
<1>3. PICK place \in {"record", "mode"} : pc' = [pc EXCEPT ![c] = place]
  BY DEF SetBaud
<1>4. \/ /\ device' = [device EXCEPT ![ch0].baud = req[c].baud]
         /\ place = "record" /\ sound' = sound
      \/ device' = device /\ sound' = sound \ {c}
      \/ device' = device /\ sound' = sound /\ place = "mode"
  BY <1>1, <1>3 DEF SetBaud, CfgTypeOK
<1>5. \A ch \in Channels : ch # ch0 => device'[ch] = device[ch]
  BY <1>2, <1>4 DEF CfgTypeOK
<1>6. device' \in [Channels -> [baud : Nat, mode : Nat]]
  <2>1. device \in [Channels -> [baud : Nat, mode : Nat]]
    BY DEF CfgTypeOK
  <2>2. [device[ch0] EXCEPT !.baud = req[c].baud] \in [baud : Nat, mode : Nat]
    BY <1>2, <2>1
  <2>3. device' = device \/ device' = [device EXCEPT ![ch0] = [device[ch0] EXCEPT !.baud = req[c].baud]]
    BY <1>4
  <2>. QED
    BY <2>1, <2>2, <2>3
<1>7. \A d \in Clients : d # c => pc'[d] = pc[d]
  BY <1>3 DEF CfgTypeOK
<1>8. pc'[c] = place /\ pc[c] \in Steps /\ place \in Steps /\ ~baudOk[c]
  BY <1>1, <1>3 DEF CfgTypeOK, Steps, ToldInv
<1>9. sound' \subseteq sound
  BY <1>4
<1>10. CfgTypeOK'
  BY <1>1, <1>3, <1>6, <1>8, <1>9 DEF CfgTypeOK
<1>11. \A d \in Clients : pc'[d] \in Steps <=> pc[d] \in Steps
  BY <1>7, <1>8
<1>12. OwnerInv'
  BY <1>1, <1>9, <1>11 DEF OwnerInv, CfgTypeOK
<1>13. ToldInv'
  <2>1. \A d \in Clients : baudOk'[d] => pc'[d] \in {"mode", "respond"}
    BY <1>1, <1>7, <1>8 DEF ToldInv
  <2>2. ASSUME NEW d \in sound', d # c
        PROVE  /\ pc'[d] = "record" \/ baudOk'[d] => device'[req'[d].ch].baud = req'[d].baud
               /\ pc'[d] = "respond" /\ modeOk'[d] /\ req'[d].dataMode = ALONG_MODE =>
                    device'[req'[d].ch].mode = req'[d].mode
    <3>1. d \in Clients /\ d \in sound /\ req[d].ch # ch0 /\ req[d].ch \in Channels
      BY <2>2, <1>8, <1>9, OtherSound DEF CfgTypeOK, OwnerInv
    <3>2. device'[req[d].ch] = device[req[d].ch]
      BY <3>1, <1>5
    <3>. QED
      BY <3>1, <3>2, <1>1, <1>7, <2>2 DEF ToldInv
  <2>3. c \in sound' /\ pc'[c] = "record" => device'[ch0].baud = req[c].baud
    BY <1>2, <1>4, <1>8 DEF CfgTypeOK
  <2>4. ~baudOk'[c] /\ pc'[c] # "respond"
    BY <1>1, <1>8
  <2>. QED
    BY <1>1, <2>1, <2>2, <2>3, <2>4 DEF ToldInv
<1>14. RecordInv'
  <2>1. SUFFICES ASSUME NEW ch \in Channels \ doubt,
                        ~ \E d \in Clients : pc'[d] = "record" /\ req[d].ch = ch
                 PROVE  conf[ch].baud = device'[ch].baud
    BY <1>1 DEF RecordInv
  <2>2. ~ \E d \in Clients : pc[d] = "record" /\ req[d].ch = ch
    BY <2>1, <1>1, <1>7
  <2>3. conf[ch].baud = device[ch].baud
    BY <2>2 DEF RecordInv
  <2>4. device'[ch] = device[ch]
    <3>1. CASE ch = ch0
      <4>1. place # "record"
        BY <2>1, <1>8, <3>1
      <4>. QED
        BY <4>1, <1>4
    <3>2. CASE ch # ch0
      BY <3>2, <1>5
    <3>. QED
      BY <3>1, <3>2
  <2>. QED
    BY <2>3, <2>4
<1>15. QueryInv'
  <2>1. pc[c] \notin {"row", "answer"} /\ pc'[c] \notin {"row", "answer"}
    BY <1>1, <1>8
  <2>. QED
    BY <1>1, <1>7, <1>11, <2>1 DEF QueryInv
<1>. QED
  BY <1>10, <1>12, <1>13, <1>14, <1>15

\* Writing the record keeps the invariant: a sound handler takes the channel out of doubt,
\* any other puts it in doubt.
LEMMA RecordBaudCfgInv ==
  ASSUME CfgInv, NEW c \in Clients, RecordBaud(c)
  PROVE  CfgInv'
<1> USE DEF CfgInv
<1> DEFINE ch0 == req[c].ch
<1>1. /\ pc[c] = "record"
      /\ pc' = [pc EXCEPT ![c] = "mode"]
      /\ conf' = [conf EXCEPT ![ch0].baud = req[c].baud]
      /\ baudOk' = [baudOk EXCEPT ![c] = TRUE]
      /\ doubt' = IF c \in sound THEN doubt \ {ch0} ELSE doubt \cup {ch0}
      /\ UNCHANGED <<device, req, modeOk, rows, sound, quiet>>
  BY DEF RecordBaud
<1>2. ch0 \in Channels /\ req[c].baud \in Nat /\ pc[c] \in Steps
  BY <1>1 DEF OwnerInv, CfgTypeOK, ConfigRequest, Steps
<1>3. \A ch \in Channels : conf'[ch].baud = IF ch = ch0 THEN req[c].baud ELSE conf[ch].baud
  BY <1>1, <1>2 DEF CfgTypeOK
<1>4. conf' \in [Channels -> [baud : Nat, mode : Nat, canType : Nat]]
  BY <1>1, <1>2 DEF CfgTypeOK
<1>5. pc'[c] = "mode" /\ \A d \in Clients : d # c => pc'[d] = pc[d]
  BY <1>1 DEF CfgTypeOK
<1>6. CfgTypeOK'
  BY <1>1, <1>2, <1>4 DEF CfgTypeOK, Steps
<1>7. \A d \in Clients : pc'[d] \in Steps <=> pc[d] \in Steps
  BY <1>2, <1>5 DEF Steps
<1>8. OwnerInv'
  BY <1>1, <1>7 DEF OwnerInv, CfgTypeOK
<1>9. ToldInv'
  <2>1. \A d \in Clients : d # c => baudOk'[d] = baudOk[d]
    BY <1>1 DEF CfgTypeOK
  <2>2. \A d \in Clients : baudOk'[d] => pc'[d] \in {"mode", "respond"}
    BY <1>5, <2>1 DEF ToldInv
  <2>3. c \in sound => device[ch0].baud = req[c].baud
    BY <1>1 DEF ToldInv
  <2>. QED
    BY <1>1, <1>5, <2>1, <2>2, <2>3 DEF ToldInv, CfgTypeOK
<1>10. RecordInv'
  <2>1. SUFFICES ASSUME NEW ch \in Channels \ doubt',
                        ~ \E d \in Clients : pc'[d] = "record" /\ req[d].ch = ch
                 PROVE  conf'[ch].baud = device[ch].baud
    BY <1>1 DEF RecordInv
  <2>2. CASE ch = ch0
    <3>1. c \in sound
      BY <1>1, <2>1, <2>2
    <3>. QED
      BY <1>1, <1>3, <2>2, <3>1 DEF ToldInv
  <2>3. CASE ch # ch0
    <3>1. ch \notin doubt
      BY <1>1, <2>1, <2>3
    <3>2. ~ \E d \in Clients : pc[d] = "record" /\ req[d].ch = ch
      BY <1>5, <2>1, <2>3
    <3>. QED
      BY <1>3, <2>3, <3>1, <3>2 DEF RecordInv
  <2>. QED
    BY <2>2, <2>3
<1>11. QueryInv'
  <2>1. \A d \in Clients : \A ch \in quiet[d] : conf'[ch].baud = conf[ch].baud
    BY <1>2, <1>3, QuietElsewhere DEF CfgTypeOK
  <2>2. pc[c] \notin {"row", "answer"} /\ pc'[c] \notin {"row", "answer"}
    BY <1>1, <1>5
  <2>. QED
    BY <1>1, <1>5, <1>7, <2>1, <2>2 DEF QueryInv
<1>. QED
  BY <1>6, <1>8, <1>9, <1>10, <1>11

\* The mode ioctl keeps the invariant: only NORMAL_MODE takes its failure for a success.
LEMMA SetModeCfgInv ==
  ASSUME CfgInv, NEW c \in Clients, NEW ok \in BOOLEAN, SetMode(c, ok)
  PROVE  CfgInv'
<1> USE DEF CfgInv
<1> DEFINE ch0 == req[c].ch
           known == req[c].mode \in {MODE_NORMAL, MODE_LOOPBACK}
<1>1. /\ pc[c] = "mode"
      /\ pc' = [pc EXCEPT ![c] = "respond"]
      /\ device' = IF known /\ ok THEN [device EXCEPT ![ch0].mode = req[c].mode] ELSE device
      /\ modeOk' = [modeOk EXCEPT ![c] = known /\ (ok \/ req[c].dataMode = NORMAL_MODE)]
      /\ UNCHANGED <<conf, req, baudOk, rows, sound, doubt, quiet>>
  BY DEF SetMode, cfgGhosts
<1>2. ch0 \in Channels /\ req[c].mode \in Nat /\ pc[c] \in Steps
  BY <1>1 DEF OwnerInv, CfgTypeOK, ConfigRequest, Steps
<1>3. /\ device' \in [Channels -> [baud : Nat, mode : Nat]]
      /\ \A ch \in Channels : device'[ch].baud = device[ch].baud
      /\ \A ch \in Channels : ch # ch0 => device'[ch] = device[ch]
  <2> HIDE DEF known
  <2>. QED
    BY <1>1, <1>2 DEF CfgTypeOK
<1>4. pc'[c] = "respond" /\ \A d \in Clients : d # c => pc'[d] = pc[d]
  BY <1>1 DEF CfgTypeOK
<1>5. modeOk' \in [Clients -> BOOLEAN]
  BY <1>1, Zenon DEF CfgTypeOK
<1>6. CfgTypeOK'
  BY <1>1, <1>3, <1>5 DEF CfgTypeOK, Steps
<1>7. \A d \in Clients : pc'[d] \in Steps <=> pc[d] \in Steps
  BY <1>2, <1>4 DEF Steps
<1>8. OwnerInv'
  BY <1>1, <1>7 DEF OwnerInv, CfgTypeOK
<1>9. ToldInv'
  <2>1. \A d \in Clients : baudOk'[d] => pc'[d] \in {"mode", "respond"}
    BY <1>1, <1>4 DEF ToldInv
  <2>2. \A d \in sound : d \in Clients /\ req[d].ch \in Channels
    BY DEF CfgTypeOK, OwnerInv
  <2>3. \A d \in sound :
          pc'[d] = "record" \/ baudOk[d] => device'[req[d].ch].baud = req[d].baud
    BY <1>1, <1>3, <1>4, <2>2 DEF ToldInv
  <2>4. ASSUME NEW d \in sound, d # c,
               pc'[d] = "respond", modeOk'[d], req[d].dataMode = ALONG_MODE
        PROVE  device'[req[d].ch].mode = req[d].mode
    <3>1. device'[req[d].ch] = device[req[d].ch]
      BY <1>2, <1>3, <2>2, <2>4, OtherSound
    <3>2. pc[d] = "respond" /\ modeOk[d]
      <4>1. modeOk'[d] = modeOk[d]
        BY <1>1, <2>2, <2>4, Zenon DEF CfgTypeOK
      <4>. QED
        BY <1>4, <2>2, <2>4, <4>1
    <3>. QED
      BY <2>4, <3>1, <3>2 DEF ToldInv
  <2>5. ASSUME modeOk'[c], req[c].dataMode = ALONG_MODE
        PROVE  device'[ch0].mode = req[c].mode
    <3>1. known /\ ok
      <4>1. known /\ (ok \/ req[c].dataMode = NORMAL_MODE)
        BY <1>1, <2>5, Zenon DEF CfgTypeOK
      <4>2. req[c].dataMode # NORMAL_MODE
        BY <2>5 DEF ALONG_MODE, NORMAL_MODE
      <4>. QED
        BY <4>1, <4>2
    <3>. QED
      BY <1>1, <1>2, <3>1 DEF CfgTypeOK
  <2>. QED
    BY <1>1, <2>1, <2>3, <2>4, <2>5 DEF ToldInv
<1>10. RecordInv'
  <2>1. \A d \in Clients : pc'[d] = "record" <=> pc[d] = "record"
    BY <1>1, <1>4
  <2>. QED
    BY <1>1, <1>3, <2>1 DEF RecordInv
<1>11. QueryInv'
  <2>1. pc[c] \notin {"row", "answer"} /\ pc'[c] \notin {"row", "answer"}
    BY <1>1, <1>4
  <2>. QED
    BY <1>1, <1>4, <1>7, <2>1 DEF QueryInv
<1>. QED
  BY <1>6, <1>8, <1>9, <1>10, <1>11

\* The response ends the handler's work and keeps the invariant.
LEMMA RespondCfgInv ==
  ASSUME CfgInv, NEW c \in Clients, NEW sent \in BOOLEAN, Respond(c, sent)
  PROVE  CfgInv'
<1> USE DEF CfgInv
<1>1. /\ pc[c] = "respond"
      /\ pc' = [pc EXCEPT ![c] = "idle"]
      /\ req' = [req EXCEPT ![c] = NoRequest]
      /\ baudOk' = [baudOk EXCEPT ![c] = FALSE]
      /\ modeOk' = [modeOk EXCEPT ![c] = FALSE]
      /\ sound' = sound \ {c}
      /\ UNCHANGED <<conf, device, rows, doubt, quiet>>
  BY DEF Respond
<1>2. pc'[c] = "idle" /\ ~baudOk'[c]
  BY <1>1 DEF CfgTypeOK
<1>3. \A d \in Clients : d # c =>
        pc'[d] = pc[d] /\ req'[d] = req[d] /\ baudOk'[d] = baudOk[d] /\ modeOk'[d] = modeOk[d]
  BY <1>1 DEF CfgTypeOK
<1>4. NoRequest \in ConfigRequest
  BY DEF NoRequest, ConfigRequest, INIT_MODE
<1>5. CfgTypeOK'
  BY <1>1, <1>4 DEF CfgTypeOK
<1>6. \A d \in sound' : d \in sound /\ d \in Clients /\ d # c
  BY <1>1 DEF CfgTypeOK
<1>7. OwnerInv'
  BY <1>2, <1>3, <1>6 DEF OwnerInv, Steps
<1>8. ToldInv'
  BY <1>1, <1>2, <1>3, <1>6 DEF ToldInv
<1>9. RecordInv'
  BY <1>1, <1>3 DEF RecordInv
<1>10. QueryInv'
  <2>1. rows[c] = <<>> /\ quiet[c] = {}
    BY <1>1 DEF QueryInv
  <2>. QED
    BY <1>1, <1>2, <1>3, <2>1 DEF QueryInv, Steps
<1>. QED
  BY <1>5, <1>7, <1>8, <1>9, <1>10

\* A query begins: it counts on the channels that are not being configured.
LEMMA BeginQueryCfgInv ==
  ASSUME CfgInv, NEW c \in Clients, BeginQuery(c)
  PROVE  CfgInv'
<1> USE DEF CfgInv
<1>1. /\ pc[c] = "idle"
      /\ pc' = [pc EXCEPT ![c] = "row"]
      /\ quiet' = [quiet EXCEPT ![c] = {ch \in Channels : Configuring(ch) = {}}]
      /\ UNCHANGED <<conf, device, req, baudOk, modeOk, rows, sound, doubt>>
  BY DEF BeginQuery
<1>2. pc'[c] = "row" /\ \A d \in Clients : d # c => pc'[d] = pc[d] /\ quiet'[d] = quiet[d]
  BY <1>1 DEF CfgTypeOK
<1>3. quiet'[c] = {ch \in Channels : Configuring(ch) = {}}
  BY <1>1 DEF CfgTypeOK
<1>4. CfgTypeOK'
  <2>1. quiet'[c] \in SUBSET Channels
    BY <1>3
  <2>. QED
    BY <1>1, <2>1 DEF CfgTypeOK
<1>5. \A d \in Clients : pc'[d] \in Steps <=> pc[d] \in Steps
  BY <1>1, <1>2 DEF Steps
<1>6. OwnerInv'
  BY <1>1, <1>5 DEF OwnerInv, CfgTypeOK
<1>7. ToldInv' /\ RecordInv'
  BY <1>1, <1>2 DEF ToldInv, RecordInv, CfgTypeOK
<1>8. QueryInv'
  <2>1. rows[c] = <<>>
    BY <1>1 DEF QueryInv
  <2>2. \A ch \in quiet'[c] : ch \in Channels /\
          \A d \in Clients : pc[d] \in Steps => req[d].ch # ch
    BY <1>3 DEF Configuring, Steps
  <2>3. \A d \in Clients : pc'[d] \notin {"row", "answer"} => rows'[d] = <<>> /\ quiet'[d] = {}
    BY <1>1, <1>2 DEF QueryInv
  <2>4. \A d \in Clients : pc'[d] = "row" => Len(rows'[d]) < NumChannels
    BY <1>1, <1>2, <2>1, ConfigAssumption DEF QueryInv
  <2>5. ASSUME NEW d \in Clients, NEW ch \in quiet'[d]
        PROVE  /\ \A e \in Clients : pc'[e] \in Steps => req'[e].ch # ch
               /\ ch < Len(rows'[d]) => rows'[d][ch + 1] = conf'[ch].baud
    <3>1. CASE d = c
      BY <1>1, <1>5, <2>1, <2>2, <3>1 DEF Channels
    <3>2. CASE d # c
      BY <1>1, <1>2, <1>5, <3>2 DEF QueryInv
    <3>. QED
      BY <3>1, <3>2
  <2>. QED
    BY <2>3, <2>4, <2>5 DEF QueryInv
<1>. QED
  BY <1>4, <1>6, <1>7, <1>8

\* A row is filled in from the record of its own channel.
LEMMA FillRowCfgInv ==
  ASSUME CfgInv, NEW c \in Clients, FillRow(c)
  PROVE  CfgInv'
<1> USE DEF CfgInv
<1> DEFINE n == Len(rows[c])
<1>1. /\ pc[c] = "row"
      /\ rows' = [rows EXCEPT ![c] = Append(rows[c], conf[n].baud)]
      /\ pc' = [pc EXCEPT ![c] = IF n + 1 = NumChannels THEN "answer" ELSE "row"]
      /\ UNCHANGED <<conf, device, req, baudOk, modeOk, sound, doubt, quiet>>
  BY DEF FillRow, cfgGhosts, CfgTypeOK
<1>2. rows[c] \in Seq(Nat) /\ n \in Nat /\ n < NumChannels /\ n \in Channels
  <2>1. rows[c] \in Seq(Nat)
    BY DEF CfgTypeOK
  <2>2. n < NumChannels
    BY <1>1 DEF QueryInv
  <2>3. NumChannels \in Nat
    BY ConfigAssumption
  <2>. QED
    BY <2>1, <2>2, <2>3 DEF Channels
<1>3. conf[n].baud \in Nat
  BY <1>2 DEF CfgTypeOK
<1>4. /\ \A d \in Clients : d # c => pc'[d] = pc[d] /\ rows'[d] = rows[d]
      /\ pc'[c] = IF n + 1 = NumChannels THEN "answer" ELSE "row"
      /\ rows'[c] = Append(rows[c], conf[n].baud)
  BY <1>1 DEF CfgTypeOK
<1>5. rows'[c] \in Seq(Nat) /\ Len(rows'[c]) = n + 1
  BY <1>2, <1>3, <1>4
<1>6. CfgTypeOK'
  BY <1>1, <1>5, <1>4 DEF CfgTypeOK
<1>7. \A d \in Clients : pc'[d] \in Steps <=> pc[d] \in Steps
  BY <1>1, <1>4 DEF Steps
<1>8. OwnerInv'
  BY <1>1, <1>7 DEF OwnerInv, CfgTypeOK
<1>9. ToldInv' /\ RecordInv'
  BY <1>1, <1>4 DEF ToldInv, RecordInv, CfgTypeOK
<1>10. QueryInv'
  <2>1. \A d \in Clients : pc'[d] \notin {"row", "answer"} => rows'[d] = <<>> /\ quiet'[d] = {}
    BY <1>1, <1>4 DEF QueryInv
  <2>2. \A d \in Clients : pc'[d] = "row" => Len(rows'[d]) < NumChannels
    BY <1>2, <1>4, <1>5, ConfigAssumption DEF QueryInv
  <2>3. ASSUME NEW ch \in quiet[c], ch < n + 1
        PROVE  rows'[c][ch + 1] = conf[ch].baud
    <3>1. ch \in Nat
      BY ConfigAssumption DEF CfgTypeOK, Channels
    <3>2. CASE ch < n
      <4>1. rows'[c][ch + 1] = rows[c][ch + 1]
        BY <1>2, <1>3, <1>4, <3>1, <3>2
      <4>. QED
        BY <3>2, <4>1 DEF QueryInv
    <3>3. CASE ch = n
      BY <1>2, <1>3, <1>4, <3>3
    <3>. QED
      BY <1>2, <2>3, <3>1, <3>2, <3>3
  <2>4. ASSUME NEW d \in Clients, NEW ch \in quiet'[d]
        PROVE  /\ \A e \in Clients : pc'[e] \in Steps => req'[e].ch # ch
               /\ ch < Len(rows'[d]) => rows'[d][ch + 1] = conf'[ch].baud
    <3>1. CASE d = c
      <4>1. ch \in quiet[c]
        BY <1>1, <3>1
      <4>2. \A e \in Clients : pc[e] \in Steps => req[e].ch # ch
        BY <4>1 DEF QueryInv
      <4>3. ch < Len(rows'[c]) => rows'[c][ch + 1] = conf[ch].baud
        BY <1>5, <2>3, <4>1
      <4>. QED
        BY <1>1, <1>7, <3>1, <4>2, <4>3
    <3>2. CASE d # c
      BY <1>1, <1>4, <1>7, <3>2 DEF QueryInv
    <3>. QED
      BY <3>1, <3>2
  <2>. QED
    BY <2>1, <2>2, <2>4 DEF QueryInv
<1>. QED
  BY <1>6, <1>8, <1>9, <1>10

\* The reply ends the query.
LEMMA AnswerCfgInv ==
  ASSUME CfgInv, NEW c \in Clients, NEW sent \in BOOLEAN, Answer(c, sent)
  PROVE  CfgInv'
<1> USE DEF CfgInv
<1>1. /\ pc[c] = "answer"
      /\ pc' = [pc EXCEPT ![c] = "idle"]
      /\ rows' = [rows EXCEPT ![c] = <<>>]
      /\ quiet' = [quiet EXCEPT ![c] = {}]
      /\ UNCHANGED <<conf, device, req, baudOk, modeOk, sound, doubt>>
  BY DEF Answer
<1>2. /\ pc'[c] = "idle" /\ rows'[c] = <<>> /\ quiet'[c] = {}
      /\ \A d \in Clients : d # c =>
           pc'[d] = pc[d] /\ rows'[d] = rows[d] /\ quiet'[d] = quiet[d]
  BY <1>1 DEF CfgTypeOK
<1>3. CfgTypeOK'
  BY <1>1 DEF CfgTypeOK
<1>4. \A d \in Clients : pc'[d] \in Steps <=> pc[d] \in Steps
  BY <1>1, <1>2 DEF Steps
<1>5. OwnerInv'
  BY <1>1, <1>4 DEF OwnerInv, CfgTypeOK
<1>6. ToldInv' /\ RecordInv'
  BY <1>1, <1>2 DEF ToldInv, RecordInv, CfgTypeOK
<1>7. QueryInv'
  BY <1>1, <1>2, <1>4 DEF QueryInv
<1>. QED
  BY <1>3, <1>5, <1>6, <1>7

\* Every step of every handler keeps the invariant; the upload socket is none of its
\* concern.
LEMMA StepCfgInv == CfgInv /\ [CfgNext]_cfgVars => CfgInv'
<1> SUFFICES ASSUME CfgInv, [CfgNext]_cfgVars PROVE CfgInv'
  OBVIOUS
<1>1. CASE UNCHANGED <<conf, device, handlerVars, cfgGhosts>>
  BY <1>1 DEF CfgInv, CfgTypeOK, OwnerInv, ToldInv, RecordInv, QueryInv, handlerVars, cfgGhosts
<1>2. ASSUME NEW c \in Clients, Handler(c) PROVE CfgInv'
  BY <1>2, ReceiveCfgInv, SetBaudCfgInv, RecordBaudCfgInv, SetModeCfgInv, RespondCfgInv,
     BeginQueryCfgInv, FillRowCfgInv, AnswerCfgInv DEF Handler
<1>3. CASE UNCHANGED cfgVars
  BY <1>1, <1>3 DEF cfgVars
<1>. QED
  BY <1>1, <1>2, <1>3 DEF CfgNext, ConnectUpload, DisconnectUpload

\* The invariant of configuration and query: it relates the record, the device and the place
\* of every handler (handle_can_config, handle_can_info_query).
THEOREM CfgInvariance == CfgSpec => []CfgInv
BY InitCfgInv, StepCfgInv, PTL DEF CfgSpec

\* What the invariant says of a channel at rest, of a success, and of a query's rows
LEMMA CfgInvImplies == CfgInv => RecordMatchesDevice /\ SuccessIsReal /\ QuietRowsAreTrue
<1> SUFFICES ASSUME CfgInv PROVE RecordMatchesDevice /\ SuccessIsReal /\ QuietRowsAreTrue
  OBVIOUS
<1> USE DEF CfgInv
<1>1. RecordMatchesDevice
  BY DEF RecordMatchesDevice, RecordInv, Configuring
<1>2. SuccessIsReal
  <2>1. SUFFICES ASSUME NEW c \in sound, pc[c] = "respond", Succeeds(c),
                        req[c].dataMode = ALONG_MODE
                 PROVE  device[req[c].ch] = [baud |-> req[c].baud, mode |-> req[c].mode]
    BY DEF SuccessIsReal
  <2>2. baudOk[c] /\ modeOk[c]
    BY <2>1 DEF Succeeds
  <2>3. device[req[c].ch].baud = req[c].baud /\ device[req[c].ch].mode = req[c].mode
    BY <2>1, <2>2 DEF ToldInv
  <2>4. device[req[c].ch] \in [baud : Nat, mode : Nat]
    BY <2>1 DEF OwnerInv, CfgTypeOK
  <2>. QED
    BY <2>3, <2>4
<1>3. QuietRowsAreTrue
  <2>1. SUFFICES ASSUME NEW c \in Clients, NEW ch \in quiet[c], ch < Len(rows[c])
                 PROVE  /\ rows[c][ch + 1] = conf[ch].baud
                        /\ ch \notin doubt => rows[c][ch + 1] = device[ch].baud
    BY DEF QuietRowsAreTrue
  <2>2. rows[c][ch + 1] = conf[ch].baud
    BY <2>1 DEF QueryInv
  <2>3. ch \in Channels /\ ~ \E d \in Clients : pc[d] = "record" /\ req[d].ch = ch
    BY <2>1 DEF QueryInv, CfgTypeOK, Steps
  <2>. QED
    BY <2>2, <2>3 DEF RecordInv
<1>. QED
  BY <1>1, <1>2, <1>3

\* Unless its record was last written by a configuration that overlapped another or whose
\* ioctl failed, a channel at rest works with the recorded baud rate: for any number of
\* clients that configure at the same time.
THEOREM RecordIsTrue == CfgSpec => []RecordMatchesDevice
BY CfgInvariance, CfgInvImplies, PTL

\* A configuration in ALONG_MODE that ran alone on its channel and reports success has set
\* the device.
THEOREM SuccessIsTrue == CfgSpec => []SuccessIsReal
BY CfgInvariance, CfgInvImplies, PTL

\* A query gives every channel left alone while it ran its recorded baud rate, which is the
\* device's unless the record was in doubt before.
THEOREM QueryIsTrue == CfgSpec => []QuietRowsAreTrue
BY CfgInvariance, CfgInvImplies, PTL
=============================================================================
