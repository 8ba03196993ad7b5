---------------------------- MODULE MonitorProofs ----------------------------
(***************************************************************************)
(* The monitor composed with the configuration: it implements the          *)
(* configuration alone, so that what is proved of the latter holds of the  *)
(* composition; and the order of the frames shown.                         *)
(***************************************************************************)
EXTENDS Monitor, ChannelConfigProofs, SequenceTheorems

UpType == up \in BOOLEAN

\* Whether port 9010 has a client is a truth value in every state.
LEMMA UpTypeStep == UpType /\ [MonNext]_allVars => UpType'
<1> SUFFICES ASSUME UpType, [MonNext]_allVars PROVE up' \in BOOLEAN
  BY DEF UpType
<1>1. CASE up' = up
  BY <1>1 DEF UpType
<1>2. CASE UNCHANGED allVars
  BY <1>1, <1>2 DEF allVars, cfgVars
<1>3. ASSUME NEW c \in Clients, Handler(c) PROVE up' \in BOOLEAN
  <2>1. ASSUME NEW sent \in BOOLEAN, Respond(c, sent) \/ Answer(c, sent) PROVE up' \in BOOLEAN
    BY <2>1 DEF Respond, Answer, Upload
  <2>2. ASSUME NEW r \in Requests, ReceiveConfig(c, r) PROVE up' = up
    BY <2>2 DEF ReceiveConfig
  <2>3. ASSUME NEW ok \in BOOLEAN, SetBaud(c, ok) \/ SetMode(c, ok) PROVE up' = up
    BY <2>3 DEF SetBaud, SetMode
  <2>4. CASE RecordBaud(c) \/ BeginQuery(c) \/ FillRow(c)
    BY <1>1, <2>4 DEF RecordBaud, BeginQuery, FillRow
  <2>. QED
    BY <1>1, <1>3, <2>1, <2>2, <2>3, <2>4 DEF Handler
<1>4. ASSUME NEW ch \in Channels,
             \/ DeviceSends(ch) \/ CountFrames(ch) \/ Fetch(ch) \/ SetType(ch)
             \/ \E ok \in BOOLEAN : ReadFrame(ch, ok)
      PROVE  up' = up
  BY <1>4 DEF DeviceSends, CountFrames, Fetch, SetType, ReadFrame, cfgVars
<1>5. ASSUME NEW ch \in Channels, NEW sent \in BOOLEAN, UploadFrame(ch, sent)
      PROVE  up' \in BOOLEAN
  BY <1>5 DEF UploadFrame, Upload
<1>. QED
  BY <1>1, <1>2, <1>3, <1>4, <1>5
     DEF MonNext, CfgNext, ConnectUpload, DisconnectUpload, Reporter

\* A step of the composition is one of the configuration, or leaves its state alone, or gives
\* the client of port 9010 up.
LEMMA MonStepIsCfgStep == UpType /\ [MonNext]_allVars => [CfgNext]_cfgVars
<1> SUFFICES ASSUME UpType, [MonNext]_allVars PROVE [CfgNext]_cfgVars
  OBVIOUS
<1>1. CASE CfgNext
  BY <1>1
<1>2. ASSUME NEW ch \in Channels, DeviceSends(ch) \/ CountFrames(ch) PROVE UNCHANGED cfgVars
  BY <1>2 DEF DeviceSends, CountFrames
<1>3. ASSUME NEW ch \in Channels, NEW ok \in BOOLEAN, ReadFrame(ch, ok) PROVE UNCHANGED cfgVars
  BY <1>3 DEF ReadFrame
<1>4. ASSUME NEW ch \in Channels, Reporter(ch) PROVE [CfgNext]_cfgVars
  <2>1. CASE Fetch(ch) \/ SetType(ch)
    BY <2>1 DEF Fetch, SetType
  <2>2. ASSUME NEW sent \in BOOLEAN, UploadFrame(ch, sent) PROVE [CfgNext]_cfgVars
    <3>1. UNCHANGED <<conf, device, handlerVars, cfgGhosts>> /\ up' = (up /\ sent)
      BY <2>2 DEF UploadFrame, Upload
    <3>2. CASE up /\ ~sent
      BY <3>1, <3>2 DEF CfgNext, DisconnectUpload
    <3>3. CASE ~up \/ sent
      BY <3>1, <3>3 DEF cfgVars, UpType
    <3>. QED
      BY <3>2, <3>3
  <2>. QED
    BY <1>4, <2>1, <2>2 DEF Reporter
<1>5. CASE UNCHANGED allVars
  BY <1>5 DEF allVars
<1>. QED
  BY <1>1, <1>2, <1>3, <1>4, <1>5 DEF MonNext

\* The threads that move and upload the frames never disturb what the handlers of port 9009
\* do: the composition implements the configuration.
THEOREM MonitorImplements == MonSpec => CfgSpec
<1>1. MonInit => CfgInit
  BY DEF MonInit
<1>2. CfgInit => UpType
  <2>1. CfgInit => up = FALSE
    BY DEF CfgInit
  <2>. QED
    BY <2>1 DEF UpType
<1>. QED
  BY <1>1, <1>2, UpTypeStep, MonStepIsCfgStep, PTL DEF MonSpec, CfgSpec

\* The promises of configuration and query hold with the monitor running.
THEOREM ConfigStaysTrue ==
  MonSpec => [](RecordMatchesDevice /\ SuccessIsReal /\ QuietRowsAreTrue)
BY MonitorImplements, CfgInvariance, CfgInvImplies, PTL
-----------------------------------------------------------------------------
(* The order of the frames that a channel shows.                           *)

Types == {NoType, 128, 130}

MonTypes ==
  /\ fifo \in [Channels -> Seq(Nat)] /\ ring \in [Channels -> Seq(Nat)]
  /\ batch \in [Channels -> Seq(Nat)]
  /\ toRead \in [Channels -> Nat] /\ produced \in [Channels -> Nat]
  /\ upPc \in [Channels -> {"fetch", "tag", "send"}]
  /\ dataType \in Types /\ wanted \in [Channels -> Types]
  /\ shown \in [Channels -> [frame : Nat, type : Types, wanted : Types]]

\* What is counted is there to be read, and what is to be sent there to be sent.
HandsInv ==
  \A ch \in Channels :
    /\ toRead[ch] <= Len(fifo[ch])
    /\ upPc[ch] = "send" => batch[ch] # <<>>

\* Numbers in order; all of s before all of t; all of s above low and at most high.
Rising(s) == \A i, j \in 1 .. Len(s) : i < j => s[i] < s[j]
Older(s, t) == \A i \in 1 .. Len(s), j \in 1 .. Len(t) : s[i] < t[j]
Within(s, low, high) == \A i \in 1 .. Len(s) : low < s[i] /\ s[i] <= high

Ordered(low, b, r, f, high) ==
  /\ Rising(b) /\ Rising(r) /\ Rising(f)
  /\ Older(b, r) /\ Older(b, f) /\ Older(r, f)
  /\ Within(b, low, high) /\ Within(r, low, high) /\ Within(f, low, high)
  /\ low <= high

\* The batch is older than the ring, the ring older than the device's FIFO, and all of
\* it younger than what the PC has seen.
OrderInv ==
  \A ch \in Channels : Ordered(shown[ch].frame, batch[ch], ring[ch], fifo[ch], produced[ch])

MonInv == MonTypes /\ HandsInv /\ OrderInv

\* A frame of a sequence of numbers is a number.
LEMMA NumbersInRange ==
  ASSUME NEW s \in Seq(Nat)
  PROVE  Len(s) \in Nat /\ \A i \in 1 .. Len(s) : s[i] \in Nat
OBVIOUS

\* The front of a sequence and what is left of it.
LEMMA FrontAndRest ==
  ASSUME NEW s \in Seq(Nat), s # <<>>
  PROVE  /\ Len(s) \in Nat \ {0}
         /\ Head(s) = s[1] /\ Head(s) \in Nat
         /\ Tail(s) \in Seq(Nat) /\ Len(Tail(s)) = Len(s) - 1
         /\ \A i \in 1 .. Len(Tail(s)) : Tail(s)[i] = s[i + 1]
OBVIOUS

\* A part of a sequence: every place of t shows a place of s, in the same order.
Part(t, s) ==
  \E d \in Nat : \A i \in 1 .. Len(t) : i + d \in 1 .. Len(s) /\ t[i] = s[i + d]

\* A part of a sequence keeps its order.
LEMMA PartInOrder ==
  ASSUME NEW s \in Seq(Nat), NEW t \in Seq(Nat), Part(t, s)
  PROVE  /\ Rising(s) => Rising(t)
         /\ \A u : (Older(s, u) => Older(t, u)) /\ (Older(u, s) => Older(u, t))
         /\ \A l, h : Within(s, l, h) => Within(t, l, h)
<1>1. PICK d \in Nat : \A i \in 1 .. Len(t) : i + d \in 1 .. Len(s) /\ t[i] = s[i + d]
  BY DEF Part
<1>2. Len(t) \in Nat
  OBVIOUS
<1>3. ASSUME Rising(s) PROVE Rising(t)
  <2>1. SUFFICES ASSUME NEW i \in 1 .. Len(t), NEW j \in 1 .. Len(t), i < j
                 PROVE  t[i] < t[j]
    BY DEF Rising
  <2>2. i + d < j + d
    BY <1>2, <2>1
  <2>3. s[i + d] < s[j + d]
    BY <1>1, <1>3, <2>2 DEF Rising
  <2>. QED
    BY <1>1, <2>3
<1>4. ASSUME NEW u PROVE (Older(s, u) => Older(t, u)) /\ (Older(u, s) => Older(u, t))
  BY <1>1 DEF Older
<1>5. ASSUME NEW l, NEW h, Within(s, l, h) PROVE Within(t, l, h)
  BY <1>1, <1>5 DEF Within
<1>. QED
  BY <1>3, <1>4, <1>5

\* What is left behind the front is a part, and the front comes before it.
LEMMA RestIsPart ==
  ASSUME NEW s \in Seq(Nat), s # <<>>
  PROVE  /\ Part(Tail(s), s)
         /\ Rising(s) => \A j \in 1 .. Len(Tail(s)) : Head(s) < Tail(s)[j]
         /\ \A l, h : Within(s, l, h) => l < Head(s) /\ Head(s) <= h
         /\ \A t : Older(s, t) => \A j \in 1 .. Len(t) : Head(s) < t[j]
         /\ \A t : Older(t, s) => \A j \in 1 .. Len(t) : t[j] < Head(s)
<1>1. /\ Len(s) \in Nat \ {0} /\ Head(s) = s[1] /\ Len(Tail(s)) = Len(s) - 1
      /\ \A i \in 1 .. Len(Tail(s)) : Tail(s)[i] = s[i + 1]
  BY FrontAndRest
<1>2. \A i \in 1 .. Len(Tail(s)) : i + 1 \in 1 .. Len(s) /\ 1 < i + 1
  BY <1>1
<1>3. Part(Tail(s), s)
  BY <1>1, <1>2 DEF Part
<1>4. 1 \in 1 .. Len(s)
  BY <1>1
<1>5. ASSUME Rising(s), NEW j \in 1 .. Len(Tail(s)) PROVE Head(s) < Tail(s)[j]
  BY <1>1, <1>2, <1>4, <1>5 DEF Rising
<1>6. \A l, h : Within(s, l, h) => l < Head(s) /\ Head(s) <= h
  BY <1>1, <1>4 DEF Within
<1>7. /\ \A t : Older(s, t) => \A j \in 1 .. Len(t) : Head(s) < t[j]
      /\ \A t : Older(t, s) => \A j \in 1 .. Len(t) : t[j] < Head(s)
  BY <1>1, <1>4 DEF Older
<1>. QED
  BY <1>3, <1>5, <1>6, <1>7

\* A sequence with a younger frame at its end keeps its order.
LEMMA AppendInOrder ==
  ASSUME NEW s \in Seq(Nat), NEW f \in Nat
  PROVE  /\ Rising(s) /\ (\A i \in 1 .. Len(s) : s[i] < f) => Rising(Append(s, f))
         /\ \A t : /\ Older(s, t) /\ (\A j \in 1 .. Len(t) : f < t[j])
                      => Older(Append(s, f), t)
                   /\ Older(t, s) /\ (\A j \in 1 .. Len(t) : t[j] < f)
                      => Older(t, Append(s, f))
         /\ \A l, h : Within(s, l, h) /\ l < f /\ f <= h => Within(Append(s, f), l, h)
<1>1. /\ Len(s) \in Nat /\ Len(Append(s, f)) = Len(s) + 1
      /\ \A i \in 1 .. Len(s) : Append(s, f)[i] = s[i]
      /\ Append(s, f)[Len(s) + 1] = f
  OBVIOUS
<1>2. \A i \in 1 .. Len(Append(s, f)) :
        \/ i \in 1 .. Len(s) /\ Append(s, f)[i] = s[i]
        \/ i = Len(s) + 1 /\ Append(s, f)[i] = f
  BY <1>1
<1>3. ASSUME Rising(s), \A i \in 1 .. Len(s) : s[i] < f PROVE Rising(Append(s, f))
  <2>1. SUFFICES ASSUME NEW i \in 1 .. Len(Append(s, f)), NEW j \in 1 .. Len(Append(s, f)), i < j
                 PROVE  Append(s, f)[i] < Append(s, f)[j]
    BY DEF Rising
  <2>2. i \in 1 .. Len(s) /\ Append(s, f)[i] = s[i]
    BY <1>1, <2>1
  <2>. QED
    BY <1>2, <1>3, <2>1, <2>2 DEF Rising
<1>4. ASSUME NEW t
      PROVE  /\ Older(s, t) /\ (\A j \in 1 .. Len(t) : f < t[j]) => Older(Append(s, f), t)
             /\ Older(t, s) /\ (\A j \in 1 .. Len(t) : t[j] < f) => Older(t, Append(s, f))
  BY <1>2 DEF Older
<1>5. ASSUME NEW l, NEW h, Within(s, l, h), l < f, f <= h PROVE Within(Append(s, f), l, h)
  BY <1>2, <1>5 DEF Within
<1>. QED
  BY <1>3, <1>4, <1>5

\* Nothing is out of order in an empty sequence.
LEMMA EmptyInOrder ==
  /\ Rising(<<>>)
  /\ \A t : Older(<<>>, t) /\ Older(t, <<>>)
  /\ \A l, h : Within(<<>>, l, h)
BY DEF Rising, Older, Within

\* The bus gives the device a frame with the next number (DeviceSends).
LEMMA OrderedSend ==
  ASSUME NEW b \in Seq(Nat), NEW r \in Seq(Nat), NEW f \in Seq(Nat),
         NEW l \in Nat, NEW h \in Nat, Ordered(l, b, r, f, h)
  PROVE  Ordered(l, b, r, Append(f, h + 1), h + 1)
<1>1. /\ Rising(b) /\ Rising(r) /\ Rising(f)
      /\ Older(b, r) /\ Older(b, f) /\ Older(r, f)
      /\ Within(b, l, h) /\ Within(r, l, h) /\ Within(f, l, h)
      /\ l <= h
  BY DEF Ordered
<1>2. ASSUME NEW s \in Seq(Nat), Within(s, l, h)
      PROVE  Within(s, l, h + 1) /\ \A i \in 1 .. Len(s) : s[i] < h + 1
  <2>1. ASSUME NEW i \in 1 .. Len(s)
        PROVE  l < s[i] /\ s[i] <= h + 1 /\ s[i] < h + 1
    <3>1. s[i] \in Nat /\ l < s[i] /\ s[i] <= h
      BY <1>2, NumbersInRange DEF Within
    <3>. QED
      BY <3>1
  <2>. QED
    BY <2>1 DEF Within
<1>3. Within(b, l, h + 1) /\ Within(r, l, h + 1) /\ Within(f, l, h + 1)
  BY <1>1, <1>2
<1>4. PICK g \in Nat : g = h + 1
  OBVIOUS
<1>5. l < g /\ g <= g /\ l <= g
  BY <1>1, <1>4
<1>6. Rising(Append(f, g))
  BY <1>1, <1>2, <1>4, AppendInOrder
<1>7. Older(b, Append(f, g)) /\ Older(r, Append(f, g))
  BY <1>1, <1>2, <1>4, AppendInOrder
<1>8. Within(Append(f, g), l, g)
  BY <1>3, <1>4, <1>5, AppendInOrder
<1>. QED
  BY <1>1, <1>3, <1>4, <1>5, <1>6, <1>7, <1>8 DEF Ordered

\* The oldest frame of the device's FIFO goes to the ring, or is lost to a full one
\* (axican_read_data_t).
LEMMA OrderedRead ==
  ASSUME NEW b \in Seq(Nat), NEW r \in Seq(Nat), NEW f \in Seq(Nat), f # <<>>,
         NEW l \in Nat, NEW h \in Nat, Ordered(l, b, r, f, h)
  PROVE  Ordered(l, b, r, Tail(f), h) /\ Ordered(l, b, Append(r, Head(f)), Tail(f), h)
<1>1. /\ Rising(b) /\ Rising(r) /\ Rising(f)
      /\ Older(b, r) /\ Older(b, f) /\ Older(r, f)
      /\ Within(b, l, h) /\ Within(r, l, h) /\ Within(f, l, h)
      /\ l <= h
  BY DEF Ordered
<1>2. Tail(f) \in Seq(Nat) /\ Head(f) \in Nat
  BY FrontAndRest
<1>3. Rising(Tail(f)) /\ Older(b, Tail(f)) /\ Older(r, Tail(f)) /\ Within(Tail(f), l, h)
  BY <1>1, <1>2, RestIsPart, PartInOrder
<1>4. /\ l < Head(f) /\ Head(f) <= h
      /\ \A i \in 1 .. Len(b) : b[i] < Head(f)
      /\ \A i \in 1 .. Len(r) : r[i] < Head(f)
      /\ \A i \in 1 .. Len(Tail(f)) : Head(f) < Tail(f)[i]
  BY <1>1, RestIsPart
<1>5. PICK g \in Nat : g = Head(f)
  BY <1>2
<1>6. Rising(Append(r, g))
  BY <1>1, <1>4, <1>5, AppendInOrder
<1>7. Older(b, Append(r, g)) /\ Older(Append(r, g), Tail(f))
  BY <1>1, <1>3, <1>4, <1>5, AppendInOrder
<1>8. Within(Append(r, g), l, h)
  BY <1>1, <1>4, <1>5, AppendInOrder
<1>. QED
  BY <1>1, <1>3, <1>5, <1>6, <1>7, <1>8 DEF Ordered

\* The first frames of the ring become the batch (Fetch).
LEMMA OrderedFetch ==
  ASSUME NEW b, NEW r \in Seq(Nat), NEW f \in Seq(Nat),
         NEW l \in Nat, NEW h \in Nat, Ordered(l, b, r, f, h), NEW n \in 0 .. Len(r)
  PROVE  /\ SubSeq(r, 1, n) \in Seq(Nat) /\ SubSeq(r, n + 1, Len(r)) \in Seq(Nat)
         /\ Ordered(l, SubSeq(r, 1, n), SubSeq(r, n + 1, Len(r)), f, h)
<1>1. /\ Rising(r) /\ Rising(f) /\ Older(r, f)
      /\ Within(r, l, h) /\ Within(f, l, h)
      /\ l <= h
  BY DEF Ordered
<1>2. Len(r) \in Nat /\ n \in Nat /\ n <= Len(r)
  OBVIOUS
<1>3. PICK s : s = SubSeq(r, 1, n)
  OBVIOUS
<1>4. PICK t : t = SubSeq(r, n + 1, Len(r))
  OBVIOUS
<1>5. s \in Seq(Nat) /\ Len(s) = n /\ \A i \in 1 .. n : i \in 1 .. Len(r) /\ s[i] = r[i]
  BY <1>2, <1>3, SubSeqProperties
<1>6. t \in Seq(Nat) /\ Len(t) = Len(r) - n
      /\ \A i \in 1 .. Len(r) - n : n + i \in 1 .. Len(r) /\ t[i] = r[n + i]
  BY <1>2, <1>4, SubSeqProperties
<1>7. Part(s, r)
  <2>1. \A i \in 1 .. Len(s) : i + 0 \in 1 .. Len(r) /\ s[i] = r[i + 0]
    BY <1>5
  <2>. QED
    BY <2>1 DEF Part
<1>8. Part(t, r)
  <2>1. \A i \in 1 .. Len(t) : i + n \in 1 .. Len(r) /\ t[i] = r[i + n]
    BY <1>2, <1>6
  <2>. QED
    BY <1>2, <2>1 DEF Part
<1>9. Rising(s) /\ Older(s, f) /\ Within(s, l, h)
  BY <1>1, <1>5, <1>7, PartInOrder
<1>10. Rising(t) /\ Older(t, f) /\ Within(t, l, h)
  BY <1>1, <1>6, <1>8, PartInOrder
<1>11. Older(s, t)
  <2>1. SUFFICES ASSUME NEW i \in 1 .. n, NEW j \in 1 .. Len(r) - n PROVE s[i] < t[j]
    BY <1>5, <1>6 DEF Older
  <2>2. i \in 1 .. Len(r) /\ n + j \in 1 .. Len(r) /\ i < n + j
    BY <1>2
  <2>. QED
    BY <1>1, <1>5, <1>6, <2>2 DEF Rising
<1>. QED
  BY <1>1, <1>3, <1>4, <1>5, <1>6, <1>9, <1>10, <1>11 DEF Ordered

\* The first frame of the batch is shown to the PC, or lost with its client
\* (send_can_transmit_response).
LEMMA OrderedUpload ==
  ASSUME NEW b \in Seq(Nat), b # <<>>, NEW r \in Seq(Nat), NEW f \in Seq(Nat),
         NEW l \in Nat, NEW h \in Nat, Ordered(l, b, r, f, h)
  PROVE  Ordered(l, Tail(b), r, f, h) /\ Ordered(Head(b), Tail(b), r, f, h)
<1>1. /\ Rising(b) /\ Rising(r) /\ Rising(f)
      /\ Older(b, r) /\ Older(b, f) /\ Older(r, f)
      /\ Within(b, l, h) /\ Within(r, l, h) /\ Within(f, l, h)
      /\ l <= h
  BY DEF Ordered
<1>2. Tail(b) \in Seq(Nat) /\ Head(b) \in Nat
  BY FrontAndRest
<1>3. Rising(Tail(b)) /\ Older(Tail(b), r) /\ Older(Tail(b), f) /\ Within(Tail(b), l, h)
  BY <1>1, <1>2, RestIsPart, PartInOrder
<1>4. /\ Head(b) <= h
      /\ \A i \in 1 .. Len(r) : Head(b) < r[i]
      /\ \A i \in 1 .. Len(f) : Head(b) < f[i]
      /\ \A i \in 1 .. Len(Tail(b)) : Head(b) < Tail(b)[i]
  BY <1>1, RestIsPart
<1>5. Within(Tail(b), Head(b), h) /\ Within(r, Head(b), h) /\ Within(f, Head(b), h)
  BY <1>1, <1>3, <1>4 DEF Within
<1>. QED
  BY <1>1, <1>3, <1>4, <1>5 DEF Ordered

\* The threads of one channel keep what they carry in order, and leave the others alone.
LEMMA StepMonInv ==
  ASSUME MonInv, [MonNext]_allVars
  PROVE  MonInv'
<1>1. /\ fifo \in [Channels -> Seq(Nat)] /\ ring \in [Channels -> Seq(Nat)]
      /\ batch \in [Channels -> Seq(Nat)]
      /\ toRead \in [Channels -> Nat] /\ produced \in [Channels -> Nat]
      /\ upPc \in [Channels -> {"fetch", "tag", "send"}]
      /\ dataType \in Types /\ wanted \in [Channels -> Types]
      /\ shown \in [Channels -> [frame : Nat, type : Types, wanted : Types]]
  BY DEF MonInv, MonTypes
<1>2. ASSUME NEW ch \in Channels
      PROVE  /\ fifo[ch] \in Seq(Nat) /\ ring[ch] \in Seq(Nat) /\ batch[ch] \in Seq(Nat)
             /\ toRead[ch] \in Nat /\ produced[ch] \in Nat /\ shown[ch].frame \in Nat
             /\ Len(fifo[ch]) \in Nat /\ Len(ring[ch]) \in Nat /\ Len(batch[ch]) \in Nat
             /\ toRead[ch] <= Len(fifo[ch])
             /\ upPc[ch] = "send" => batch[ch] # <<>>
             /\ Ordered(shown[ch].frame, batch[ch], ring[ch], fifo[ch], produced[ch])
  <2>1. fifo[ch] \in Seq(Nat) /\ ring[ch] \in Seq(Nat) /\ batch[ch] \in Seq(Nat)
    BY <1>1
  <2>2. shown[ch] \in [frame : Nat, type : Types, wanted : Types]
    BY <1>1
  <2>. QED
    BY <1>1, <2>1, <2>2 DEF MonInv, HandsInv, OrderInv
<1>3. CASE UNCHANGED monVars
  BY <1>3 DEF MonInv, MonTypes, HandsInv, OrderInv, monVars, Ordered, Rising, Older, Within
<1>4. ASSUME MonTypes',
             NEW ch \in Channels,
             toRead'[ch] <= Len(fifo'[ch]),
             upPc'[ch] = "send" => batch'[ch] # <<>>,
             Ordered(shown'[ch].frame, batch'[ch], ring'[ch], fifo'[ch], produced'[ch]),
             \A c \in Channels \ {ch} :
               /\ shown'[c] = shown[c] /\ batch'[c] = batch[c] /\ ring'[c] = ring[c]
               /\ fifo'[c] = fifo[c] /\ produced'[c] = produced[c]
               /\ toRead'[c] = toRead[c] /\ upPc'[c] = upPc[c]
      PROVE  MonInv'
  <2>1. \A c \in Channels :
          /\ toRead'[c] <= Len(fifo'[c])
          /\ upPc'[c] = "send" => batch'[c] # <<>>
          /\ Ordered(shown'[c].frame, batch'[c], ring'[c], fifo'[c], produced'[c])
    <3>1. SUFFICES ASSUME NEW c \in Channels, c # ch
                   PROVE  /\ toRead'[c] <= Len(fifo'[c])
                          /\ upPc'[c] = "send" => batch'[c] # <<>>
                          /\ Ordered(shown'[c].frame, batch'[c], ring'[c], fifo'[c], produced'[c])
      BY <1>4
    <3>. QED
      BY <1>2, <1>4, <3>1
  <2>2. HandsInv'
    BY <2>1 DEF HandsInv
  <2>3. OrderInv'
    BY <2>1 DEF OrderInv, Ordered, Rising, Older, Within
  <2>. QED
    BY <1>4, <2>2, <2>3 DEF MonInv
<1>5. ASSUME NEW ch \in Channels, DeviceSends(ch) PROVE MonInv'
  <2>1. /\ produced' = [produced EXCEPT ![ch] = @ + 1]
        /\ fifo' = [fifo EXCEPT ![ch] = Append(@, produced[ch] + 1)]
        /\ UNCHANGED <<toRead, ring, upPc, batch, dataType, wanted, shown>>
    BY <1>5 DEF DeviceSends
  <2>2. PICK g \in Nat : g = produced[ch] + 1
    BY <1>2
  <2>3. produced' \in [Channels -> Nat] /\ fifo' \in [Channels -> Seq(Nat)]
    <3>1. Append(fifo[ch], g) \in Seq(Nat)
      BY <1>2
    <3>. QED
      BY <1>1, <2>1, <2>2, <3>1
  <2>4. MonTypes'
    BY <1>1, <2>1, <2>3 DEF MonTypes
  <2>5. produced'[ch] = produced[ch] + 1 /\ fifo'[ch] = Append(fifo[ch], produced[ch] + 1)
    BY <1>1, <2>1
  <2>6. Ordered(shown'[ch].frame, batch'[ch], ring'[ch], fifo'[ch], produced'[ch])
    BY <1>2, <2>1, <2>5, OrderedSend
  <2>7. toRead'[ch] <= Len(fifo'[ch])
    <3>1. Len(Append(fifo[ch], g)) = Len(fifo[ch]) + 1
      BY <1>2
    <3>. QED
      BY <1>2, <2>1, <2>2, <2>5, <3>1
  <2>8. \A c \in Channels \ {ch} : produced'[c] = produced[c] /\ fifo'[c] = fifo[c]
    BY <1>1, <2>1
  <2>9. upPc'[ch] = "send" => batch'[ch] # <<>>
    BY <1>2, <2>1
  <2>. QED
    BY <1>4, <2>1, <2>4, <2>6, <2>7, <2>8, <2>9
<1>6. ASSUME NEW ch \in Channels, CountFrames(ch) PROVE MonInv'
  <2>1. /\ toRead' = [toRead EXCEPT ![ch] = Len(fifo[ch])]
        /\ UNCHANGED <<fifo, ring, upPc, batch, dataType, produced, wanted, shown>>
    BY <1>6 DEF CountFrames
  <2>2. toRead' \in [Channels -> Nat] /\ toRead'[ch] = Len(fifo[ch])
        /\ \A c \in Channels \ {ch} : toRead'[c] = toRead[c]
    BY <1>1, <1>2, <2>1
  <2>3. MonTypes'
    BY <1>1, <2>1, <2>2 DEF MonTypes
  <2>4. /\ toRead'[ch] <= Len(fifo'[ch])
        /\ upPc'[ch] = "send" => batch'[ch] # <<>>
        /\ Ordered(shown'[ch].frame, batch'[ch], ring'[ch], fifo'[ch], produced'[ch])
    BY <1>2, <2>1, <2>2
  <2>. QED
    BY <1>4, <2>1, <2>2, <2>3, <2>4
<1>7. ASSUME NEW ch \in Channels, NEW ok \in BOOLEAN, ReadFrame(ch, ok) PROVE MonInv'
  <2>1. toRead[ch] > 0 /\ UNCHANGED <<upPc, batch, dataType, produced, wanted, shown>>
    BY <1>7 DEF ReadFrame
  <2>2. CASE ok
    <3>1. /\ fifo' = [fifo EXCEPT ![ch] = Tail(@)]
          /\ ring' = [ring EXCEPT ![ch] = IF Len(@) < RingSize THEN Append(@, Head(fifo[ch]))
                                                                ELSE @]
          /\ toRead' = [toRead EXCEPT ![ch] = @ - 1]
      BY <1>7, <2>2 DEF ReadFrame
    <3>2. fifo[ch] # <<>>
      BY <1>2, <2>1
    <3>3. /\ Head(fifo[ch]) \in Nat /\ Tail(fifo[ch]) \in Seq(Nat)
          /\ Len(Tail(fifo[ch])) = Len(fifo[ch]) - 1
      BY <1>2, <3>2, FrontAndRest
    <3>4. PICK r : r = IF Len(ring[ch]) < RingSize THEN Append(ring[ch], Head(fifo[ch]))
                                                    ELSE ring[ch]
      OBVIOUS
    <3>5. r \in Seq(Nat)
      BY <1>2, <3>3, <3>4
    <3>6. /\ fifo'[ch] = Tail(fifo[ch]) /\ ring'[ch] = r /\ toRead'[ch] = toRead[ch] - 1
          /\ \A c \in Channels \ {ch} :
               fifo'[c] = fifo[c] /\ ring'[c] = ring[c] /\ toRead'[c] = toRead[c]
      BY <1>1, <3>1, <3>4
    <3>7. /\ fifo' \in [Channels -> Seq(Nat)] /\ ring' \in [Channels -> Seq(Nat)]
          /\ toRead' \in [Channels -> Nat]
      <4>1. toRead[ch] - 1 \in Nat
        BY <1>2, <2>1
      <4>. QED
        BY <1>1, <3>1, <3>3, <3>4, <3>5, <4>1
    <3>8. MonTypes'
      BY <1>1, <2>1, <3>7 DEF MonTypes
    <3>9. Ordered(shown'[ch].frame, batch'[ch], ring'[ch], fifo'[ch], produced'[ch])
      BY <1>2, <2>1, <3>2, <3>4, <3>6, OrderedRead
    <3>10. toRead'[ch] <= Len(fifo'[ch])
      BY <1>2, <3>3, <3>6
    <3>11. upPc'[ch] = "send" => batch'[ch] # <<>>
      BY <1>2, <2>1
    <3>. QED
      BY <1>4, <2>1, <3>6, <3>8, <3>9, <3>10, <3>11
  <2>3. CASE ~ok
    <3>1. toRead' = [toRead EXCEPT ![ch] = 0] /\ UNCHANGED <<fifo, ring>>
      BY <1>7, <2>3 DEF ReadFrame
    <3>2. toRead' \in [Channels -> Nat] /\ toRead'[ch] = 0
          /\ \A c \in Channels \ {ch} : toRead'[c] = toRead[c]
      BY <1>1, <3>1
    <3>3. MonTypes'
      BY <1>1, <2>1, <3>1, <3>2 DEF MonTypes
    <3>4. /\ toRead'[ch] <= Len(fifo'[ch])
          /\ upPc'[ch] = "send" => batch'[ch] # <<>>
          /\ Ordered(shown'[ch].frame, batch'[ch], ring'[ch], fifo'[ch], produced'[ch])
      BY <1>2, <2>1, <3>1, <3>2
    <3>. QED
      BY <1>4, <2>1, <3>1, <3>2, <3>3, <3>4
  <2>. QED
    BY <2>2, <2>3
<1>8. ASSUME NEW ch \in Channels, Fetch(ch) PROVE MonInv'
  <2>1. PICK n : n = IF Len(ring[ch]) < BatchSize THEN Len(ring[ch]) ELSE BatchSize
    OBVIOUS
  <2>2. n \in 0 .. Len(ring[ch])
    <3>1. BatchSize \in Nat
      BY MonitorAssumption
    <3>. QED
      BY <1>2, <2>1, <3>1
  <2>3. /\ batch' = [batch EXCEPT ![ch] = SubSeq(ring[ch], 1, n)]
        /\ ring' = [ring EXCEPT ![ch] = SubSeq(ring[ch], n + 1, Len(ring[ch]))]
        /\ upPc' = [upPc EXCEPT ![ch] = "tag"]
        /\ UNCHANGED <<fifo, toRead, dataType, produced, wanted, shown>>
    BY <1>8, <2>1 DEF Fetch
  <2>4. PICK b, r : b = SubSeq(ring[ch], 1, n) /\ r = SubSeq(ring[ch], n + 1, Len(ring[ch]))
    OBVIOUS
  <2>5. b \in Seq(Nat) /\ r \in Seq(Nat) /\ Ordered(shown[ch].frame, b, r, fifo[ch], produced[ch])
    BY <1>2, <2>2, <2>4, OrderedFetch
  <2>6. /\ batch'[ch] = b /\ ring'[ch] = r /\ upPc'[ch] = "tag"
        /\ \A c \in Channels \ {ch} :
             batch'[c] = batch[c] /\ ring'[c] = ring[c] /\ upPc'[c] = upPc[c]
    BY <1>1, <2>3, <2>4
  <2>7. /\ batch' \in [Channels -> Seq(Nat)] /\ ring' \in [Channels -> Seq(Nat)]
        /\ upPc' \in [Channels -> {"fetch", "tag", "send"}]
    BY <1>1, <2>3, <2>4, <2>5
  <2>8. MonTypes'
    BY <1>1, <2>3, <2>7 DEF MonTypes
  <2>9. Ordered(shown'[ch].frame, batch'[ch], ring'[ch], fifo'[ch], produced'[ch])
    BY <2>3, <2>5, <2>6
  <2>10. toRead'[ch] <= Len(fifo'[ch]) /\ (upPc'[ch] = "send" => batch'[ch] # <<>>)
    BY <1>2, <2>3, <2>6
  <2>. QED
    BY <1>4, <2>3, <2>6, <2>8, <2>9, <2>10
<1>9. ASSUME NEW ch \in Channels, SetType(ch) PROVE MonInv'
  <2>1. PICK t : t = TypeFor(conf[ch].canType)
    OBVIOUS
  <2>2. t \in Types
    BY <2>1 DEF TypeFor, Types
  <2>3. /\ dataType' = IF t = NoType THEN dataType ELSE t
        /\ wanted' = [wanted EXCEPT ![ch] = IF batch[ch] = <<>> THEN NoType ELSE t]
        /\ upPc' = [upPc EXCEPT ![ch] = IF batch[ch] = <<>> THEN "fetch" ELSE "send"]
        /\ UNCHANGED <<fifo, toRead, ring, batch, produced, shown>>
    BY <1>9, <2>1 DEF SetType
  <2>4. /\ dataType' \in Types /\ wanted' \in [Channels -> Types]
        /\ upPc' \in [Channels -> {"fetch", "tag", "send"}]
    <3>1. NoType \in Types
      BY DEF Types
    <3>. QED
      BY <1>1, <2>2, <2>3, <3>1
  <2>5. MonTypes'
    BY <1>1, <2>3, <2>4 DEF MonTypes
  <2>6. /\ upPc'[ch] = "send" => batch'[ch] # <<>>
        /\ \A c \in Channels \ {ch} : upPc'[c] = upPc[c]
    BY <1>1, <2>3
  <2>7. /\ toRead'[ch] <= Len(fifo'[ch])
        /\ Ordered(shown'[ch].frame, batch'[ch], ring'[ch], fifo'[ch], produced'[ch])
    BY <1>2, <2>3
  <2>. QED
    BY <1>4, <2>3, <2>5, <2>6, <2>7
<1>10. ASSUME NEW ch \in Channels, NEW sent \in BOOLEAN, UploadFrame(ch, sent) PROVE MonInv'
  <2>1. /\ upPc[ch] = "send"
        /\ shown' = IF up /\ sent
                    THEN [shown EXCEPT ![ch] =
                            [frame |-> Head(batch[ch]), type |-> dataType, wanted |-> wanted[ch]]]
                    ELSE shown
        /\ batch' = [batch EXCEPT ![ch] = Tail(@)]
        /\ upPc' = [upPc EXCEPT ![ch] = IF Len(batch[ch]) = 1 THEN "fetch" ELSE "send"]
        /\ wanted' = [wanted EXCEPT ![ch] = IF Len(batch[ch]) = 1 THEN NoType ELSE @]
        /\ UNCHANGED <<fifo, toRead, ring, dataType, produced>>
    BY <1>10 DEF UploadFrame
  <2>2. batch[ch] # <<>>
    BY <1>2, <2>1
  <2>3. /\ Head(batch[ch]) \in Nat /\ Tail(batch[ch]) \in Seq(Nat)
        /\ Len(Tail(batch[ch])) = Len(batch[ch]) - 1 /\ Len(batch[ch]) \in Nat \ {0}
    BY <1>2, <2>2, FrontAndRest
  <2>4. PICK w : w = [frame |-> Head(batch[ch]), type |-> dataType, wanted |-> wanted[ch]]
    OBVIOUS
  <2>5. /\ w \in [frame : Nat, type : Types, wanted : Types]
        /\ w.frame = Head(batch[ch])
    BY <1>1, <2>3, <2>4
  <2>6. shown' = [shown EXCEPT ![ch] = w] \/ shown' = shown
    BY <2>1, <2>4
  <2>7. /\ shown' \in [Channels -> [frame : Nat, type : Types, wanted : Types]]
        /\ shown'[ch].frame = Head(batch[ch]) \/ shown'[ch].frame = shown[ch].frame
        /\ \A c \in Channels \ {ch} : shown'[c] = shown[c]
    <3>1. CASE shown' = shown
      BY <1>1, <3>1
    <3>2. CASE shown' = [shown EXCEPT ![ch] = w]
      <4>1. shown'[ch] = w
        BY <1>1, <3>2
      <4>2. shown'[ch].frame = Head(batch[ch])
        BY <2>5, <4>1
      <4>. QED
        BY <1>1, <2>5, <3>2, <4>2
    <3>. QED
      BY <2>6, <3>1, <3>2
  <2>8. /\ batch'[ch] = Tail(batch[ch])
        /\ upPc'[ch] = IF Len(batch[ch]) = 1 THEN "fetch" ELSE "send"
        /\ \A c \in Channels \ {ch} : batch'[c] = batch[c] /\ upPc'[c] = upPc[c]
    BY <1>1, <2>1
  <2>9. /\ batch' \in [Channels -> Seq(Nat)]
        /\ upPc' \in [Channels -> {"fetch", "tag", "send"}]
        /\ wanted' \in [Channels -> Types]
    <3>1. NoType \in Types
      BY DEF Types
    <3>. QED
      BY <1>1, <2>1, <2>3, <3>1
  <2>10. MonTypes'
    BY <1>1, <2>1, <2>7, <2>9 DEF MonTypes
  <2>11. Ordered(shown'[ch].frame, batch'[ch], ring'[ch], fifo'[ch], produced'[ch])
    <3>1. /\ Ordered(shown[ch].frame, Tail(batch[ch]), ring[ch], fifo[ch], produced[ch])
          /\ Ordered(Head(batch[ch]), Tail(batch[ch]), ring[ch], fifo[ch], produced[ch])
      BY <1>2, <2>2, OrderedUpload
    <3>. QED
      BY <2>1, <2>7, <2>8, <3>1
  <2>12. upPc'[ch] = "send" => batch'[ch] # <<>>
    <3>1. ASSUME Len(batch[ch]) # 1 PROVE Len(Tail(batch[ch])) # 0
      BY <2>3, <3>1
    <3>2. Len(<<>>) = 0
      OBVIOUS
    <3>. QED
      BY <2>8, <3>1, <3>2
  <2>13. toRead'[ch] <= Len(fifo'[ch])
    BY <1>2, <2>1
  <2>. QED
    BY <1>4, <2>1, <2>7, <2>8, <2>10, <2>11, <2>12, <2>13
<1>11. CASE UNCHANGED allVars
  BY <1>3, <1>11 DEF allVars
<1>12. CASE MonNext
  BY <1>3, <1>5, <1>6, <1>7, <1>8, <1>9, <1>10, <1>12 DEF MonNext, Reporter
<1>. QED
  BY <1>11, <1>12

\* Pieces that are in order one by one and one after the other are in order together.
LEMMA JoinInOrder ==
  ASSUME NEW s \in Seq(Nat), NEW t \in Seq(Nat), Rising(s), Rising(t), Older(s, t)
  PROVE  /\ s \o t \in Seq(Nat) /\ Rising(s \o t)
         /\ \A u : Older(s, u) /\ Older(t, u) => Older(s \o t, u)
<1>1. /\ s \o t \in Seq(Nat) /\ Len(s \o t) = Len(s) + Len(t)
      /\ Len(s) \in Nat /\ Len(t) \in Nat
      /\ \A i \in 1 .. Len(s) + Len(t) :
           (s \o t)[i] = IF i <= Len(s) THEN s[i] ELSE t[i - Len(s)]
  BY ConcatProperties
<1>2. \A i \in 1 .. Len(s \o t) :
        \/ i \in 1 .. Len(s) /\ (s \o t)[i] = s[i]
        \/ ~(i <= Len(s)) /\ i - Len(s) \in 1 .. Len(t) /\ (s \o t)[i] = t[i - Len(s)]
  BY <1>1
<1>3. ASSUME NEW i \in 1 .. Len(s \o t), NEW j \in 1 .. Len(s \o t), i < j
      PROVE  (s \o t)[i] < (s \o t)[j]
  <2>1. CASE j \in 1 .. Len(s)
    <3>1. i \in 1 .. Len(s) /\ (s \o t)[i] = s[i] /\ (s \o t)[j] = s[j]
      BY <1>1, <1>3, <2>1
    <3>. QED
      BY <1>3, <2>1, <3>1 DEF Rising
  <2>2. CASE i \in 1 .. Len(s) /\ ~(j <= Len(s))
    <3>1. (s \o t)[i] = s[i] /\ j - Len(s) \in 1 .. Len(t) /\ (s \o t)[j] = t[j - Len(s)]
      BY <1>1, <1>3, <2>2
    <3>. QED
      BY <2>2, <3>1 DEF Older
  <2>3. CASE ~(i <= Len(s)) /\ ~(j <= Len(s))
    <3>1. /\ i - Len(s) \in 1 .. Len(t) /\ (s \o t)[i] = t[i - Len(s)]
          /\ j - Len(s) \in 1 .. Len(t) /\ (s \o t)[j] = t[j - Len(s)]
          /\ i - Len(s) < j - Len(s)
      BY <1>1, <1>3, <2>3
    <3>. QED
      BY <3>1 DEF Rising
  <2>. QED
    BY <1>1, <1>3, <2>1, <2>2, <2>3
<1>4. Rising(s \o t)
  BY <1>3 DEF Rising
<1>5. ASSUME NEW u, Older(s, u), Older(t, u) PROVE Older(s \o t, u)
  BY <1>2, <1>5 DEF Older
<1>. QED
  BY <1>1, <1>4, <1>5

\* The invariant gives the order that the PC relies on.
LEMMA MonInvInOrder ==
  ASSUME MonInv
  PROVE  MonitorInOrder
<1>1. SUFFICES ASSUME NEW ch \in Channels
               PROVE  Increasing(<<shown[ch].frame>> \o batch[ch] \o ring[ch] \o fifo[ch])
  BY DEF MonitorInOrder
<1>2. /\ fifo[ch] \in Seq(Nat) /\ ring[ch] \in Seq(Nat) /\ batch[ch] \in Seq(Nat)
      /\ shown[ch].frame \in Nat
  <2>1. shown[ch] \in [frame : Nat, type : Types, wanted : Types]
    BY DEF MonInv, MonTypes
  <2>. QED
    BY <2>1 DEF MonInv, MonTypes
<1>3. Ordered(shown[ch].frame, batch[ch], ring[ch], fifo[ch], produced[ch])
  BY DEF MonInv, OrderInv
<1>4. PICK p \in Nat : p = shown[ch].frame
  BY <1>2
<1>5. PICK q \in Seq(Nat) : q = <<p>> /\ Len(q) = 1 /\ q[1] = p
  <2>1. <<p>> \in Seq(Nat) /\ Len(<<p>>) = 1 /\ <<p>>[1] = p
    OBVIOUS
  <2>. QED
    BY <2>1
<1>6. \A i \in 1 .. Len(q) : i = 1 /\ q[i] = p
  BY <1>5
<1>7. Rising(q) /\ Older(q, batch[ch]) /\ Older(q, ring[ch]) /\ Older(q, fifo[ch])
  <2>1. Rising(q)
    BY <1>6 DEF Rising
  <2>2. Older(q, batch[ch]) /\ Older(q, ring[ch]) /\ Older(q, fifo[ch])
    BY <1>3, <1>4, <1>6 DEF Older, Ordered, Within
  <2>. QED
    BY <2>1, <2>2
<1>8. /\ Rising(batch[ch]) /\ Rising(ring[ch]) /\ Rising(fifo[ch])
      /\ Older(batch[ch], ring[ch]) /\ Older(batch[ch], fifo[ch]) /\ Older(ring[ch], fifo[ch])
  BY <1>3 DEF Ordered
<1>9. PICK s \in Seq(Nat) : /\ s = q \o batch[ch] /\ Rising(s)
                            /\ Older(s, ring[ch]) /\ Older(s, fifo[ch])
  BY <1>2, <1>7, <1>8, JoinInOrder
<1>10. PICK t \in Seq(Nat) : t = s \o ring[ch] /\ Rising(t) /\ Older(t, fifo[ch])
  BY <1>2, <1>8, <1>9, JoinInOrder
<1>11. PICK u \in Seq(Nat) : u = t \o fifo[ch] /\ Rising(u)
  BY <1>2, <1>8, <1>10, JoinInOrder
<1>12. ASSUME NEW i \in 1 .. Len(u) - 1 PROVE u[i] < u[i + 1]
  <2>1. i \in 1 .. Len(u) /\ i + 1 \in 1 .. Len(u) /\ i < i + 1
    OBVIOUS
  <2>. QED
    BY <1>11, <2>1 DEF Rising
<1>13. u = <<shown[ch].frame>> \o batch[ch] \o ring[ch] \o fifo[ch]
  BY <1>4, <1>5, <1>9, <1>10, <1>11
<1>. QED
  BY <1>12, <1>13 DEF Increasing

\* The PC sees the frames of a channel in the order in which they were sent and none
\* twice, for every number of channels and clients, every ring and every batch
\* (axican_read_data_t, axican_data_process_thread_1).
THEOREM MonitorOrder == MonSpec => []MonitorInOrder
<1>1. MonInit => MonInv
  <2> SUFFICES ASSUME MonInit PROVE MonInv
    OBVIOUS
  <2>1. /\ fifo = [ch \in Channels |-> <<>>] /\ ring = [ch \in Channels |-> <<>>]
        /\ batch = [ch \in Channels |-> <<>>] /\ toRead = [ch \in Channels |-> 0]
        /\ upPc = [ch \in Channels |-> "fetch"] /\ produced = [ch \in Channels |-> 0]
        /\ dataType = NoType /\ wanted = [ch \in Channels |-> NoType]
        /\ shown = [ch \in Channels |-> [frame |-> 0, type |-> NoType, wanted |-> NoType]]
    BY DEF MonInit
  <2>2. <<>> \in Seq(Nat) /\ Len(<<>>) = 0 /\ NoType \in Types
    BY DEF Types
  <2>3. MonTypes
    BY <2>1, <2>2 DEF MonTypes
  <2>4. HandsInv
    BY <2>1, <2>2 DEF HandsInv
  <2>5. \A ch \in Channels : Ordered(0, <<>>, <<>>, <<>>, 0)
    BY EmptyInOrder DEF Ordered
  <2>6. \A ch \in Channels : Ordered(shown[ch].frame, batch[ch], ring[ch], fifo[ch], produced[ch])
    BY <2>1, <2>5
  <2>. QED
    BY <2>3, <2>4, <2>6 DEF MonInv, OrderInv
<1>2. MonInv => MonitorInOrder
  BY MonInvInOrder
<1>3. MonInv /\ [MonNext]_allVars => MonInv'
  BY StepMonInv
<1>. QED
  BY <1>1, <1>2, <1>3, PTL DEF MonSpec
=============================================================================
