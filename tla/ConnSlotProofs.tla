--------------------------- MODULE ConnSlotProofs ---------------------------
(***************************************************************************)
(* The socket life of ConnSlot, proved for every number of ports,          *)
(* connections and descriptors.                                            *)
(***************************************************************************)
EXTENDS ConnSlot, TLAPS

\* Descriptors and connections belong to each other.
DescriptorInv ==
  /\ \A c \in Conns : pc[c] # "none" => sock[c] \in Fds /\ owner[sock[c]] = c
  /\ \A f \in Fds : owner[f] # NoConn => sock[owner[f]] = f /\ pc[owner[f]] # "none"

\* What is in a slot is the descriptor of the connection last put there, on that port, and
\* its handler has not yet withdrawn it.
SlotInv ==
  \A p \in Ports :
    /\ sending[p] => slot[p] # NoFd
    /\ slot[p] # NoFd =>
         /\ current[p] \in Conns
         /\ sock[current[p]] = slot[p]
         /\ port[current[p]] = p
         /\ Registered(current[p]) \/ pc[current[p]] = "leave"

\* download_process_mutex
ProcessInv ==
  /\ \A c \in Conns : process = c <=> pc[c] \in {"register", "check", "process"}
  /\ \A c \in Conns :
       pc[c] \in {"register", "received", "check", "process"} => port[c] \in Downloads
  /\ \A c \in Conns : pc[c] = "process" => current[port[c]] = c

IInv ==
  /\ TypeOK
  /\ DescriptorInv
  /\ SlotInv
  /\ ProcessInv
  /\ ReplacedAreDown

\* No connection and no descriptor is open at the start.
LEMMA InitIInv == Init => IInv
<1> SUFFICES ASSUME Init PROVE IInv
  OBVIOUS
<1> USE SlotAssumption DEF Init, Ports
<1>1. TypeOK
  BY DEF TypeOK
<1>2. DescriptorInv /\ SlotInv /\ ProcessInv /\ ReplacedAreDown
  BY DEF DescriptorInv, SlotInv, ProcessInv, ReplacedAreDown, Registered
<1>. QED
  BY <1>1, <1>2 DEF IInv

\* accept hands out a descriptor that nobody has.
LEMMA AcceptIInv ==
  ASSUME IInv, NEW c \in Conns, NEW p \in Ports, NEW fd \in Fds, Accept(c, p, fd)
  PROVE  IInv'
<1> USE SlotAssumption DEF IInv, Accept, Goto
<1>1. TypeOK'
  BY DEF TypeOK
<1>2. DescriptorInv'
  BY DEF TypeOK, DescriptorInv
<1>3. SlotInv'
  BY DEF TypeOK, SlotInv, Registered
<1>4. ProcessInv'
  BY DEF TypeOK, ProcessInv
<1>5. ReplacedAreDown'
  BY DEF TypeOK, ReplacedAreDown, Registered
<1>. QED
  BY <1>1, <1>2, <1>3, <1>4, <1>5

\* The peer changes only what the kernel holds.
LEMMA PeerIInv ==
  ASSUME IInv, NEW c \in Conns, PeerSends(c) \/ PeerEnds(c)
  PROVE  IInv'
<1> USE DEF IInv, PeerSends, PeerEnds, handlerVars
<1>1. TypeOK'
  BY DEF TypeOK
<1>2. DescriptorInv' /\ SlotInv' /\ ProcessInv' /\ ReplacedAreDown'
  BY DEF DescriptorInv, SlotInv, ProcessInv, ReplacedAreDown, Registered
<1>. QED
  BY <1>1, <1>2

\* The steps of a handler that touch neither the slot nor the descriptor.
LEMMA HandlerMoveIInv ==
  ASSUME IInv, NEW c \in Conns,
         \/ NoHandler(c) \/ LockProcess(c) \/ Receive(c) \/ ReceiveEnd(c)
         \/ CheckCurrent(c) \/ ProcessDone(c)
  PROVE  IInv'
<1> USE SlotAssumption DEF IInv, NoHandler, LockProcess, Receive, ReceiveEnd, CheckCurrent,
        ProcessDone, Goto, kernelVars
<1>1. TypeOK'
  BY DEF TypeOK
<1>2. DescriptorInv'
  BY DEF TypeOK, DescriptorInv
<1>3. SlotInv'
  BY DEF TypeOK, SlotInv, Registered
<1>4. ProcessInv'
  <2> USE DEF TypeOK, ProcessInv
  <2>1. CASE NoHandler(c)
    BY <2>1
  <2>2. CASE LockProcess(c)
    BY <2>2
  <2>3. CASE Receive(c)
    BY <2>3
  <2>4. CASE ReceiveEnd(c)
    BY <2>4
  <2>5. CASE CheckCurrent(c)
    <3>1. slot[port[c]] = sock[c] => current[port[c]] = c
      BY <2>5 DEF DescriptorInv, SlotInv, Registered
    <3>. QED
      BY <2>5, <3>1
  <2>6. CASE ProcessDone(c)
    BY <2>6
  <2>. QED
    BY <2>1, <2>2, <2>3, <2>4, <2>5, <2>6
<1>5. ReplacedAreDown'
  BY DEF TypeOK, ReplacedAreDown, Registered
<1>. QED
  BY <1>1, <1>2, <1>3, <1>4, <1>5

\* A new connection takes the slot and shuts down the one it finds there.
LEMMA RegisterIInv ==
  ASSUME IInv, NEW c \in Conns, RegisterUpload(c) \/ RegisterDownload(c)
  PROVE  IInv'
<1> USE SlotAssumption DEF IInv, RegisterUpload, RegisterDownload, Replace, Shutdown, Goto
<1>1. TypeOK'
  BY DEF TypeOK, Ports, DescriptorInv
<1>2. DescriptorInv'
  BY DEF TypeOK, DescriptorInv
<1>3. SlotInv'
  BY DEF TypeOK, SlotInv, Registered, DescriptorInv
<1>4. ProcessInv'
  BY DEF TypeOK, ProcessInv, Ports
<1>5. ReplacedAreDown'
  BY DEF TypeOK, ReplacedAreDown, Registered, DescriptorInv, SlotInv
<1>. QED
  BY <1>1, <1>2, <1>3, <1>4, <1>5

\* A handler withdraws its own descriptor from the slot and only its own.
LEMMA LeaveIInv ==
  ASSUME IInv, NEW c \in Conns, LeaveSlot(c)
  PROVE  IInv'
<1> USE SlotAssumption DEF IInv, LeaveSlot, Goto, kernelVars
<1>1. TypeOK'
  BY DEF TypeOK
<1>2. DescriptorInv'
  BY DEF TypeOK, DescriptorInv
<1>3. SlotInv'
  BY DEF TypeOK, SlotInv, Registered, DescriptorInv
<1>4. ProcessInv'
  BY DEF TypeOK, ProcessInv
<1>5. ReplacedAreDown'
  BY DEF TypeOK, ReplacedAreDown, Registered, DescriptorInv
<1>. QED
  BY <1>1, <1>2, <1>3, <1>4, <1>5

\* The descriptor a handler closes is in no slot.
LEMMA CloseIInv ==
  ASSUME IInv, NEW c \in Conns, Close(c)
  PROVE  IInv'
<1> USE SlotAssumption DEF IInv, Close, Goto
<1>1. TypeOK'
  BY DEF TypeOK
<1>2. DescriptorInv'
  BY DEF TypeOK, DescriptorInv
<1>3. SlotInv'
  BY DEF TypeOK, SlotInv, Registered
<1>4. ProcessInv'
  BY DEF TypeOK, ProcessInv
<1>5. ReplacedAreDown'
  BY DEF TypeOK, ReplacedAreDown, Registered
<1>. QED
  BY <1>1, <1>2, <1>3, <1>4, <1>5

\* A send that fails shuts the connection down and withdraws it from the slot.
LEMMA SendIInv ==
  ASSUME IInv, NEW p \in Ports, Sender(p)
  PROVE  IInv'
<1> USE SlotAssumption DEF IInv, Sender, BeginSend, SendDone, SendFailed, Shutdown, kernelVars,
        handlerVars
<1>1. TypeOK'
  <2>1. CASE BeginSend(p) \/ SendDone(p)
    BY <2>1 DEF TypeOK
  <2>2. CASE SendFailed(p)
    <3>1. slot[p] \in Fds
      BY <2>2 DEF TypeOK, SlotInv
    <3>2. down' \subseteq Conns
      BY <2>2, <3>1 DEF TypeOK
    <3>. QED
      BY <2>2, <3>2 DEF TypeOK
  <2>. QED
    BY <2>1, <2>2
<1>2. DescriptorInv'
  BY DEF TypeOK, DescriptorInv
<1>3. SlotInv'
  BY DEF TypeOK, SlotInv, Registered
<1>4. ProcessInv'
  BY DEF TypeOK, ProcessInv
<1>5. ReplacedAreDown'
  BY DEF TypeOK, ReplacedAreDown, Registered, DescriptorInv, SlotInv
<1>. QED
  BY <1>1, <1>2, <1>3, <1>4, <1>5

\* Every step preserves the invariant.
LEMMA StepIInv == IInv /\ [Next]_vars => IInv'
<1> SUFFICES ASSUME IInv, [Next]_vars PROVE IInv'
  OBVIOUS
<1>1. ASSUME NEW c \in Conns, NEW p \in Ports, NEW fd \in Fds, Accept(c, p, fd) PROVE IInv'
  BY <1>1, AcceptIInv
<1>2. ASSUME NEW c \in Conns, PeerSends(c) \/ PeerEnds(c) PROVE IInv'
  BY <1>2, PeerIInv
<1>3. ASSUME NEW c \in Conns, Handler(c) PROVE IInv'
  BY <1>3, HandlerMoveIInv, RegisterIInv, LeaveIInv, CloseIInv DEF Handler
<1>4. ASSUME NEW p \in Ports, Sender(p) PROVE IInv'
  BY <1>4, SendIInv
<1>5. CASE UNCHANGED vars
  BY <1>5 DEF IInv, vars, kernelVars, handlerVars, TypeOK, DescriptorInv, SlotInv, ProcessInv,
     ReplacedAreDown, Registered
<1>. QED
  BY <1>1, <1>2, <1>3, <1>4, <1>5 DEF Next

-----------------------------------------------------------------------------

\* IInv is an inductive invariant of the socket life.
THEOREM Invariance == Spec => []IInv
BY InitIInv, StepIInv, PTL DEF Spec

\* Type correctness of the sockets' state.
THEOREM TypeCorrect == Spec => []TypeOK
<1>1. IInv => TypeOK
  BY DEF IInv
<1>. QED
  BY <1>1, Invariance, PTL

\* A handler's descriptor names its own connection until the handler closes it: no close
\* hits a connection that reuses the number (the close at the end of the handlers).
THEOREM HandlersOwnDescriptors == Spec => []OwnDescriptor
<1>1. IInv => OwnDescriptor
  BY SlotAssumption DEF IInv, DescriptorInv, OwnDescriptor, TypeOK
<1>. QED
  BY <1>1, Invariance, PTL

\* Nobody sends to, or shuts down, a descriptor that was closed or reused (send_event and
\* the other senders).
THEOREM SlotsAreLive == Spec => []SlotNamesCurrent
<1>1. IInv => SlotNamesCurrent
  BY DEF IInv, DescriptorInv, SlotInv, SlotNamesCurrent, Registered
<1>. QED
  BY <1>1, Invariance, PTL

\* A connection that lost its slot was shut down (replacement and failed sends).
THEOREM ReplacedConnectionsAreDown == Spec => []ReplacedAreDown
<1>1. IInv => ReplacedAreDown
  BY DEF IInv
<1>. QED
  BY <1>1, Invariance, PTL

\* The download handlers are one producer (download_process_mutex).
THEOREM SingleProducer == Spec => []OneProducer
<1>1. IInv => OneProducer
  BY DEF IInv, ProcessInv, OneProducer
<1>. QED
  BY <1>1, Invariance, PTL
=============================================================================
