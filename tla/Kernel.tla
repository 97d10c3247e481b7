-------------------------------- MODULE Kernel --------------------------------
(***************************************************************************)
(* What every server of this project runs on: the kernel's descriptor      *)
(* table, its side of TCP connections, poll(), and the clients at the      *)
(* other end.  A client is one connection of handle() in                   *)
(* src/client/src/handle.c: it writes a length and a message of that       *)
(* length, reads the answer and closes.                                    *)
(***************************************************************************)
EXTENDS Integers

CONSTANTS
    Conns,     \* client connections, each used for one message
    NoConn,    \* a descriptor that is not open
    Stdin,     \* what descriptor 0 refers to at start
    Fds,       \* descriptor numbers accept() may return, and 0
    Body,      \* recv() calls a message body takes
    Platform,  \* whose poll(): "linux" or "macos"
    Faults     \* which calls may fail, and which peers may misbehave

FaultKinds == {"abort", "reset", "accept", "sendmsg", "getpeername", "malloc", "stdin"}

ASSUME ConnsAssumption == NoConn \notin Conns /\ Stdin \notin Conns /\ NoConn # Stdin
ASSUME BodyAssumption == Body \in Nat \ {0}
ASSUME FdsAssumption == Fds \subseteq Nat /\ 0 \in Fds
ASSUME PlatformAssumption == Platform \in {"linux", "macos"} /\ Faults \subseteq FaultKinds

VARIABLES
    open,         \* the server's descriptor table
    stdin_hup,    \* descriptor 0 has been hung up
    backlog,      \* connections established and not accepted
    peer,         \* the other end of a connection, as the server's kernel knows it
    wrote, taken, \* pieces (header, then Body of them) written, and received
    reply         \* byte count the client was answered

kernelVars == <<open, stdin_hup, backlog>>
clientVars == <<peer, wrote, taken, reply>>

NoReply == -1

-----------------------------------------------------------------------------
(* A connection as the server sees it.  "fin": the client closed it; "rstdue": *)
(* it did and the server has written since, so a RST is on its way; "finrst":  *)
(* that RST has arrived; "rst": reset without a FIN.                           *)

HasData(k) == wrote[k] > taken[k]
IsReset(k) == peer[k] \in {"rst", "finrst"}
AtEof(k)   == ~HasData(k) /\ peer[k] \in {"fin", "rstdue", "finrst"}
RecvFails(k) == ~HasData(k) /\ peer[k] = "rst"

\* A peer that closed is POLLHUP on macOS; on Linux it is only readable until a RST comes.
HungUp(k) == IsReset(k) \/ (Platform = "macos" /\ peer[k] \in {"fin", "rstdue"})
Readable(k) == HasData(k) \/ peer[k] \in {"fin", "rstdue"}

\* What poll() reports for a pollfd with descriptor f, POLLIN requested or not.  A zeroed
\* pollfd is descriptor 0.
PollOf(f, in) ==
    IF f < 0 THEN "none"
    ELSE IF open[f] = NoConn THEN "nval"
    ELSE IF open[f] = Stdin THEN (IF stdin_hup THEN "hup" ELSE "none")
    ELSE IF HungUp(open[f]) THEN "hup"
    ELSE IF in /\ Readable(open[f]) THEN "in"
    ELSE "none"

LowestFreeFd(f) == open[f] = NoConn /\ \A g \in Fds : g < f => open[g] # NoConn

\* send() of an answer that is not refused: it reaches the client, or the closed peer answers
\* it with a RST.
Answer(k, n) ==
    \/ peer[k] = "open" /\ reply' = [reply EXCEPT ![k] = n] /\ UNCHANGED peer
    \/ peer[k] \in {"fin", "rstdue"} /\ peer' = [peer EXCEPT ![k] = "rstdue"] /\ UNCHANGED reply

-----------------------------------------------------------------------------
(* The clients and the network. *)

ClientConnect(k) ==
    /\ peer[k] = "none"
    /\ peer' = [peer EXCEPT ![k] = "open"]
    /\ backlog' = backlog \cup {k}
    /\ UNCHANGED <<open, stdin_hup, wrote, taken, reply>>

ClientWrite(k) ==
    /\ peer[k] = "open" /\ wrote[k] <= Body
    /\ wrote' = [wrote EXCEPT ![k] = @ + 1]
    /\ UNCHANGED <<kernelVars, peer, taken, reply>>

\* The answer has been read: close.
ClientClose(k) ==
    /\ peer[k] = "open" /\ wrote[k] > Body /\ reply[k] # NoReply
    /\ peer' = [peer EXCEPT ![k] = "fin"]
    /\ UNCHANGED <<kernelVars, wrote, taken, reply>>

\* A cancelled client thread: its process exits, with an unread answer or without.
ClientAbort(k) ==
    /\ "abort" \in Faults /\ peer[k] = "open"
    /\ peer' = [peer EXCEPT ![k] = IF reply[k] = NoReply THEN "fin" ELSE "rst"]
    /\ UNCHANGED <<kernelVars, wrote, taken, reply>>

\* The client's host goes away and answers with RST.
ClientReset(k) ==
    /\ "reset" \in Faults /\ peer[k] = "open"
    /\ peer' = [peer EXCEPT ![k] = "rst"]
    /\ UNCHANGED <<kernelVars, wrote, taken, reply>>

DeliverRst(k) ==
    /\ peer[k] = "rstdue"
    /\ peer' = [peer EXCEPT ![k] = "finrst"]
    /\ UNCHANGED <<kernelVars, wrote, taken, reply>>

\* The terminal, or the writer of the pipe, behind descriptor 0 goes away.
StdinHangup ==
    /\ "stdin" \in Faults /\ ~stdin_hup
    /\ stdin_hup' = TRUE
    /\ UNCHANGED <<open, backlog, clientVars>>

ClientStep(k) == ClientWrite(k) \/ ClientClose(k)

InitKernel ==
    /\ open = [f \in Fds |-> IF f = 0 THEN Stdin ELSE NoConn]
    /\ stdin_hup = FALSE /\ backlog = {}
    /\ peer = [k \in Conns |-> "none"]
    /\ wrote = [k \in Conns |-> 0] /\ taken = [k \in Conns |-> 0]
    /\ reply = [k \in Conns |-> NoReply]

KernelTypeOK ==
    /\ open \in [Fds -> Conns \cup {NoConn, Stdin}]
    /\ stdin_hup \in BOOLEAN
    /\ backlog \subseteq Conns
ClientTypeOK ==
    /\ peer \in [Conns -> {"none", "open", "fin", "rstdue", "rst", "finrst"}]
    /\ wrote \in [Conns -> 0 .. Body + 1]
    /\ taken \in [Conns -> 0 .. Body + 1]
    /\ reply \in [Conns -> {NoReply} \cup 0 .. Body]
=============================================================================
