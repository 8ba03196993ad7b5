------------------------------ MODULE ConnSlot ------------------------------
(***************************************************************************)
(* The life of the sockets on ports 9010, 9011 (upload kind: the server    *)
(* only sends) and 9012 (download kind: batches of frames arrive).  Each   *)
(* port has one global socket, which a new connection replaces; each       *)
(* connection has a handler thread; any thread may send on the global      *)
(* socket.  The kernel hands out the lowest descriptors again, so a stale  *)
(* descriptor may name somebody else's connection.                         *)
(***************************************************************************)
EXTENDS Integers, FiniteSets

CONSTANTS
  Uploads,     \* ports with a slot whose input is discarded: 9010, 9011
  Downloads,   \* ports whose input is processed under download_process_mutex: 9012
  Conns,       \* connections (and their handler threads)
  Fds,         \* descriptor numbers
  MaxBatches,  \* bound: unread batches of a connection
  NoFd, NoConn

Ports == Uploads \cup Downloads

ASSUME SlotAssumption ==
  /\ Uploads \cap Downloads = {}
  /\ Ports # {}
  /\ NoFd \notin Fds
  /\ NoConn \notin Conns
  /\ MaxBatches \in Nat

VARIABLES
  slot,      \* data_upload_socket, event_socket, data_download_socket
  sending,   \* a thread holds the port's socket mutex in send()
  process,   \* the handler that holds download_process_mutex
  owner,     \* the kernel: which connection a descriptor names
  sock,      \* the handler's local sock
  port,      \* the port a connection was accepted on
  pc,        \* where the handler is
  inbuf,     \* batches the kernel holds for a connection
  down,      \* connections shut down by the server
  gone,      \* connections the peer has ended
  current    \* history: the connection that was last put in the slot

kernelVars == <<owner, inbuf, down, gone>>
handlerVars == <<sock, port, pc>>
vars == <<slot, sending, process, kernelVars, handlerVars, current>>

Init ==
  /\ slot = [p \in Ports |-> NoFd]
  /\ sending = [p \in Ports |-> FALSE]
  /\ process = NoConn
  /\ owner = [f \in Fds |-> NoConn]
  /\ sock = [c \in Conns |-> NoFd]
  /\ port = [c \in Conns |-> CHOOSE p \in Ports : TRUE]
  /\ pc = [c \in Conns |-> "none"]
  /\ inbuf = [c \in Conns |-> 0]
  /\ down = {}
  /\ gone = {}
  /\ current = [p \in Ports |-> NoConn]

Goto(c, place) == pc' = [pc EXCEPT ![c] = place]

\* Fault: the old connection is left to its peer.
ShutdownNothing(fd) == UNCHANGED down

\* shutdown(fd, SHUT_RDWR): it reaches whatever connection the descriptor names
Shutdown(fd) == down' = down \cup ({owner[fd]} \ {NoConn})

-----------------------------------------------------------------------------
(* The listening thread and the peer.                                      *)

Accept(c, p, fd) ==
  /\ pc[c] = "none" /\ owner[fd] = NoConn
  /\ owner' = [owner EXCEPT ![fd] = c]
  /\ sock' = [sock EXCEPT ![c] = fd]
  /\ port' = [port EXCEPT ![c] = p]
  /\ Goto(c, "accepted")
  /\ UNCHANGED <<slot, sending, process, inbuf, down, gone, current>>

PeerSends(c) ==
  /\ pc[c] # "none" /\ c \notin down \cup gone
  /\ inbuf[c] < MaxBatches
  /\ inbuf' = [inbuf EXCEPT ![c] = @ + 1]
  /\ UNCHANGED <<slot, sending, process, owner, handlerVars, down, gone, current>>

PeerEnds(c) ==
  /\ pc[c] # "none" /\ c \notin gone
  /\ gone' = gone \cup {c}
  /\ UNCHANGED <<slot, sending, process, owner, handlerVars, inbuf, down, current>>

-----------------------------------------------------------------------------
(* The handler threads: tcp_client_handler_9010, _9011 and _9012.          *)

\* pthread_create fails, or the calloc of the 9012 stream does: the socket is closed and
\* never registered.
NoHandler(c) ==
  /\ pc[c] = "accepted"
  /\ Goto(c, "close")
  /\ UNCHANGED <<slot, sending, process, kernelVars, sock, port, current>>

\* pthread_mutex_lock(&download_process_mutex), before registering and before a batch
LockProcess(c) ==
  /\ port[c] \in Downloads /\ process = NoConn
  /\ \/ pc[c] = "accepted" /\ Goto(c, "register")
     \/ pc[c] = "received" /\ Goto(c, "check")
  /\ process' = c
  /\ UNCHANGED <<slot, sending, kernelVars, sock, port, current>>

Replace(c) ==
  LET p == port[c] IN
  /\ ~sending[p]
  /\ IF slot[p] # NoFd THEN Shutdown(slot[p]) ELSE UNCHANGED down
  /\ slot' = [slot EXCEPT ![p] = sock[c]]
  /\ current' = [current EXCEPT ![p] = c]
  /\ Goto(c, "loop")
  /\ UNCHANGED <<sending, owner, sock, port, inbuf, gone>>

RegisterUpload(c) ==
  /\ pc[c] = "accepted" /\ port[c] \in Uploads
  /\ Replace(c)
  /\ UNCHANGED process

RegisterDownload(c) ==
  /\ pc[c] = "register"
  /\ Replace(c)
  /\ process' = NoConn

\* recv returns data, which the kernel may still hold after a shutdown.
Receive(c) ==
  /\ pc[c] = "loop" /\ inbuf[c] > 0
  /\ inbuf' = [inbuf EXCEPT ![c] = @ - 1]
  /\ Goto(c, IF port[c] \in Downloads THEN "received" ELSE "loop")
  /\ UNCHANGED <<slot, sending, process, owner, sock, port, down, gone, current>>

\* recv returns 0 or an error.
ReceiveEnd(c) ==
  /\ pc[c] = "loop"
  /\ c \in gone \/ (c \in down /\ inbuf[c] = 0)
  /\ Goto(c, "leave")
  /\ UNCHANGED <<slot, sending, process, kernelVars, sock, port, current>>

\* Fault: the batch is processed without asking whether the connection was replaced.
CheckNothing(c) ==
  /\ pc[c] = "check" /\ ~sending[port[c]]
  /\ Goto(c, "process") /\ UNCHANGED process
  /\ UNCHANGED <<slot, sending, kernelVars, sock, port, current>>

CheckCurrent(c) ==
  /\ pc[c] = "check" /\ ~sending[port[c]]
  /\ \/ slot[port[c]] = sock[c] /\ Goto(c, "process") /\ UNCHANGED process
     \/ slot[port[c]] # sock[c] /\ Goto(c, "leave") /\ process' = NoConn
  /\ UNCHANGED <<slot, sending, kernelVars, sock, port, current>>

\* process_download_data_batch returns.
ProcessDone(c) ==
  /\ pc[c] = "process"
  /\ process' = NoConn
  /\ Goto(c, "loop")
  /\ UNCHANGED <<slot, sending, kernelVars, sock, port, current>>

\* Fault: the slot is cleared whoever is in it.
LeaveAnySlot(c) ==
  /\ pc[c] = "leave" /\ ~sending[port[c]]
  /\ slot' = [slot EXCEPT ![port[c]] = NoFd]
  /\ Goto(c, "close")
  /\ UNCHANGED <<sending, process, kernelVars, sock, port, current>>

\* Fault: the slot is left as it is.
LeaveSlotAlone(c) ==
  /\ pc[c] = "leave" /\ ~sending[port[c]]
  /\ Goto(c, "close")
  /\ UNCHANGED <<slot, sending, process, kernelVars, sock, port, current>>

LeaveSlot(c) ==
  /\ pc[c] = "leave" /\ ~sending[port[c]]
  /\ slot' = [slot EXCEPT ![port[c]] = IF @ = sock[c] THEN NoFd ELSE @]
  /\ Goto(c, "close")
  /\ UNCHANGED <<sending, process, kernelVars, sock, port, current>>

\* The only close of a connection's socket
Close(c) ==
  /\ pc[c] = "close"
  /\ owner' = [owner EXCEPT ![sock[c]] = NoConn]
  /\ sock' = [sock EXCEPT ![c] = NoFd]
  /\ inbuf' = [inbuf EXCEPT ![c] = 0]
  /\ down' = down \ {c}
  /\ gone' = gone \ {c}
  /\ Goto(c, "none")
  /\ current' = [p \in Ports |-> IF current[p] = c THEN NoConn ELSE current[p]]
  /\ UNCHANGED <<slot, sending, process, port>>

-----------------------------------------------------------------------------
(* The senders: send_event, the responses, the buffer report.              *)

BeginSend(p) ==
  /\ ~sending[p] /\ slot[p] # NoFd
  /\ sending' = [sending EXCEPT ![p] = TRUE]
  /\ UNCHANGED <<slot, process, kernelVars, handlerVars, current>>

SendDone(p) ==
  /\ sending[p]
  /\ sending' = [sending EXCEPT ![p] = FALSE]
  /\ UNCHANGED <<slot, process, kernelVars, handlerVars, current>>

\* Fault: the failed sender closes the socket that its handler will close too.
SendFailedCloses(p) ==
  /\ sending[p]
  /\ sending' = [sending EXCEPT ![p] = FALSE]
  /\ owner' = [owner EXCEPT ![slot[p]] = NoConn]
  /\ slot' = [slot EXCEPT ![p] = NoFd]
  /\ UNCHANGED <<process, inbuf, down, gone, handlerVars, current>>

SendFailed(p) ==
  /\ sending[p]
  /\ sending' = [sending EXCEPT ![p] = FALSE]
  /\ Shutdown(slot[p])
  /\ slot' = [slot EXCEPT ![p] = NoFd]
  /\ UNCHANGED <<process, owner, inbuf, gone, handlerVars, current>>

-----------------------------------------------------------------------------

Handler(c) ==
  \/ NoHandler(c)
  \/ LockProcess(c)
  \/ RegisterUpload(c)
  \/ RegisterDownload(c)
  \/ Receive(c)
  \/ ReceiveEnd(c)
  \/ CheckCurrent(c)
  \/ ProcessDone(c)
  \/ LeaveSlot(c)
  \/ Close(c)

\* Any thread with something to report
Sender(p) ==
  \/ BeginSend(p)
  \/ SendDone(p)
  \/ SendFailed(p)

Next ==
  \/ \E c \in Conns, p \in Ports, fd \in Fds : Accept(c, p, fd)
  \/ \E c \in Conns : PeerSends(c)
  \/ \E c \in Conns : PeerEnds(c)
  \/ \E c \in Conns : Handler(c)
  \/ \E p \in Ports : Sender(p)

Spec == Init /\ [][Next]_vars

\* Every handler thread is scheduled, and one that waits for the socket mutex in order to
\* leave gets it in the end when the mutex is free again and again: senders give it back
\* after every packet.  Nothing is assumed of send() itself, which blocks for as long as
\* the peer does not read.
Fairness == \A c \in Conns : WF_vars(Handler(c)) /\ SF_vars(LeaveSlot(c))

FairSpec == Spec /\ Fairness

-----------------------------------------------------------------------------

TypeOK ==
  /\ slot \in [Ports -> Fds \cup {NoFd}]
  /\ sending \in [Ports -> BOOLEAN]
  /\ process \in Conns \cup {NoConn}
  /\ owner \in [Fds -> Conns \cup {NoConn}]
  /\ sock \in [Conns -> Fds \cup {NoFd}]
  /\ port \in [Conns -> Ports]
  /\ pc \in [Conns -> {"none", "accepted", "register", "loop", "received", "check",
                       "process", "leave", "close"}]
  /\ inbuf \in [Conns -> Nat]
  /\ down \subseteq Conns
  /\ gone \subseteq Conns
  /\ current \in [Ports -> Conns \cup {NoConn}]

Registered(c) == pc[c] \in {"loop", "received", "check", "process"}

\* Every handler's descriptor still names its own connection, so that its close never
\* hits a connection that reuses the number (the comment on socket life at line 155).
OwnDescriptor ==
  \A c \in Conns : pc[c] # "none" => sock[c] # NoFd /\ owner[sock[c]] = c

\* The global socket names the connection that was put there, open and not yet on its way
\* to its close: no sender writes to, or shuts down, a closed or a reused descriptor.
SlotNamesCurrent ==
  \A p \in Ports : slot[p] # NoFd =>
    /\ owner[slot[p]] = current[p]
    /\ Registered(current[p]) \/ pc[current[p]] = "leave"

\* A registered connection that is no longer in the slot was shut down, so its handler's
\* recv returns: no replaced connection lingers.
ReplacedAreDown ==
  \A c \in Conns : Registered(c) /\ slot[port[c]] # sock[c] => c \in down

\* A batch is processed only for a connection that has not been replaced, one at a time:
\* this is what makes the download handlers a single producer of the frame rings.
OneProducer ==
  \A c \in Conns : pc[c] = "process" =>
    /\ current[port[c]] = c
    /\ \A d \in Conns \ {c} : pc[d] # "process"

\* An upload connection that is no longer in the slot is closed in the end and its
\* descriptor freed: the shutdown ends its handler's recv.  Sends that come and go on the
\* port do not hold it up; only one that never returns, and so keeps the mutex which the
\* handler needs to leave, can (tcp_client_handler_9010 and _9011).
ReplacedUploadCloses ==
  \A c \in Conns :
    Registered(c) /\ port[c] \in Uploads /\ slot[port[c]] # sock[c]
      ~> pc[c] = "none" \/ []sending[port[c]]
=============================================================================
