------------------------------- MODULE LoadTest -------------------------------
(***************************************************************************)
(* A load test: the controller and its clients.  Each client process waits *)
(* for the controller's commands, starts threads that make requests of the *)
(* server, and on STOP cancels and joins them.  The threads share a log    *)
(* behind a mutex.                                                         *)
(*                                                                         *)
(* The server is outside: it may answer a thread, fail it, or neither.     *)
(***************************************************************************)
EXTENDS ClientController, FiniteSets

CONSTANTS
    Threads,    \* threads a client may have
    NoThread,
    Processors, \* those each client starts, one per processor it runs on
    Failing     \* bound: the clients whose calls may fail

ASSUME ThreadsAssumption == NoThread \notin Threads
ASSUME ProcessorsAssumption == Processors \in [Clients -> (SUBSET Threads) \ {{}}]

VARIABLES
    main,       \* where a client's main thread is
    nread,      \* messages of the controller it has read
    thread,     \* where each of its threads is
    cancelled,  \* pthread_cancel has been called for the thread
    log_lock    \* the thread that holds the client's log mutex

clientVars == <<main, nread, thread, cancelled, log_lock>>
vars == <<controllerVars, clientVars>>

\* The call is one that may fail in client c.
MayFail(c, call) == c \in Failing /\ call \in Faults

Goes(c, l) == main' = [main EXCEPT ![c] = l]
Created(c) == {t \in Threads : thread[c][t] # "none"}

-----------------------------------------------------------------------------
(* A client's main thread. *)

\* init_state: connect to the controller, then open the log, which may fail.
init_state(c) ==
    /\ main[c] = "init" /\ ~Ended
    /\ lobby' = lobby \cup {c}
    /\ \/ Goes(c, "poll") /\ UNCHANGED left
       \/ MayFail(c, "logger") /\ Goes(c, "exited") /\ left' = left \cup {c}
    /\ UNCHANGED <<ctlVars, sig_quit, typed, sent, nread, thread, cancelled, log_lock>>

\* The controller's end is closed: orderly, or with a RST if it never accepted the client.
AtEnd(c) == Ended /\ nread[c] = Len(sent[c])
NextMessage(c) == sent[c][nread[c] + 1]
HasMessage(c) == nread[c] < Len(sent[c])

\* Mutant: the command is read with the size of the two that follow each other.
ConsumedTwo(c) == nread[c] + 2
Consumed(c) == nread[c] + 1
Consumes(c) == nread' = [nread EXCEPT ![c] = Consumed(c)]

\* Mutant: a STOP is taken for the end of a test that may start again.
OnStopWait == "poll"
OnStop == "stop"

\* handle_controller, when poll() has something to report.
handle_controller(c) ==
    /\ main[c] = "poll"
    /\ IF HasMessage(c)
       THEN /\ Consumes(c)
            /\ Goes(c, CASE NextMessage(c) = "START" -> "data"
                         [] NextMessage(c) = "STOP"  -> OnStop
                         [] OTHER                    -> "stop")
       ELSE /\ AtEnd(c) /\ UNCHANGED nread
            /\ Goes(c, IF Has(c) THEN "spin" ELSE "stop")
    /\ UNCHANGED <<controllerVars, thread, cancelled, log_lock>>

\* poll() fails: the loop ends.
poll_controller_fails(c) ==
    /\ main[c] = "poll" /\ MayFail(c, "poll")
    /\ Goes(c, "stop")
    /\ UNCHANGED <<controllerVars, nread, thread, cancelled, log_lock>>

\* A DATA cut short: so much may be missing that the STOP after it completes the data.
Completes(c) == NextMessage(c) = "STOP" /\ sent[c][nread[c]] = "CUT"

\* read_data takes whatever comes next for the port, the address and the data.  At the end of
\* the stream read_fully asks again for ever.
read_data(c) ==
    /\ main[c] = "data"
    /\ IF HasMessage(c)
       THEN /\ Consumes(c)
            /\ \/ (NextMessage(c) = "DATA" \/ Completes(c)) /\ Goes(c, "create")
               \/ NextMessage(c) # "DATA" /\ UNCHANGED main
       ELSE AtEnd(c) /\ Goes(c, "spin") /\ UNCHANGED nread
    /\ UNCHANGED <<controllerVars, thread, cancelled, log_lock>>

\* Its malloc() fails, for the address or the data, as soon as the size of it has come: while the
\* controller is still writing the rest, or after.
BeingTold(c) == ctl = "send_data" /\ ToSend /\ accepted[next] = c
read_data_fails(c) ==
    /\ main[c] = "data" /\ MayFail(c, "malloc")
    /\ \/ HasMessage(c) /\ NextMessage(c) \in {"DATA", "CUT"} /\ Consumes(c)
       \/ BeingTold(c) /\ UNCHANGED nread
    /\ Goes(c, "stop")
    /\ UNCHANGED <<controllerVars, thread, cancelled, log_lock>>

\* One turn of create_threads; a thread that cannot be had stops those before it.
create_thread(c) ==
    /\ main[c] = "create"
    /\ \/ \E t \in Processors[c] \ Created(c) :
             /\ thread' = [thread EXCEPT ![c][t] = "request"]
             /\ Goes(c, IF Created(c) \cup {t} = Processors[c] THEN "poll" ELSE "create")
       \/ MayFail(c, "thread") /\ Goes(c, "stop") /\ UNCHANGED thread
    /\ UNCHANGED <<controllerVars, nread, cancelled, log_lock>>

\* Mutant: the loop is one short.
ToCancelButOne(c) == Created(c) \ {CHOOSE t \in Threads : TRUE}
ToCancel(c) == Created(c)

\* stop_threads: cancel all, then join all.
stop_threads_cancel(c) ==
    /\ main[c] = "stop"
    /\ cancelled' = [cancelled EXCEPT ![c] = ToCancel(c)]
    /\ Goes(c, "join")
    /\ UNCHANGED <<controllerVars, nread, thread, log_lock>>

\* The last join; the rest of destroy_state and the end of the process.
stop_threads_join(c) ==
    /\ main[c] = "join"
    /\ \A t \in Created(c) : thread[c][t] = "ended"
    /\ Goes(c, "exited")
    /\ left' = left \cup {c}
    /\ UNCHANGED <<ctlVars, sig_quit, typed, lobby, sent, nread, thread, cancelled, log_lock>>

MainStep(c) ==
    \/ init_state(c) \/ handle_controller(c) \/ poll_controller_fails(c)
    \/ read_data(c) \/ read_data_fails(c) \/ create_thread(c)
    \/ stop_threads_cancel(c) \/ stop_threads_join(c)

-----------------------------------------------------------------------------
(* handle() and do_log: a client's thread. *)

Moves(c, t, from, to) ==
    /\ thread[c][t] = from /\ main[c] # "exited"
    /\ thread' = [thread EXCEPT ![c][t] = to]
    /\ UNCHANGED <<controllerVars, main, nread, cancelled>>

\* A turn of the loop as far as the log: connect, write the request, read the answer, close.
\* A thread that finds no server sleeps and tries again.
request(c, t) == t \notin cancelled[c] /\ Moves(c, t, "request", "lock") /\ UNCHANGED log_lock

\* socket(), write() or read() fails: the thread returns.
request_fails(c, t) ==
    /\ "server" \in Faults /\ t \notin cancelled[c]
    /\ Moves(c, t, "request", "ended")
    /\ UNCHANGED log_lock

\* write() to a server that has closed: SIGPIPE, which ends the process and all its threads.
request_sigpipe(c, t) ==
    /\ "server" \in Faults /\ t \notin cancelled[c] /\ thread[c][t] = "request"
    /\ Goes(c, "exited")
    /\ left' = left \cup {c}
    /\ thread' = [thread EXCEPT ![c] = [u \in Threads |-> "ended"]]
    /\ log_lock' = [log_lock EXCEPT ![c] = NoThread]
    /\ UNCHANGED <<ctlVars, sig_quit, typed, lobby, sent, nread, cancelled>>

lock_log(c, t) ==
    /\ log_lock[c] = NoThread
    /\ log_lock' = [log_lock EXCEPT ![c] = t]
    /\ Moves(c, t, "lock", "log")

log_and_unlock(c, t) ==
    /\ Moves(c, t, "log", "request")
    /\ log_lock' = [log_lock EXCEPT ![c] = NoThread]

\* Cancellation is deferred to connect, sleep, read, write, close and testcancel, which a
\* cancelled thread does not pass, and where the C library says so to the write an fprintf may
\* lead to; waiting for a mutex is no such point.
CancelPoints == {"request"} \cup (IF "stdio" \in Faults THEN {"log"} ELSE {})

\* The cleanup handler frees the arguments.  It does not unlock.
cancel(c, t) ==
    /\ t \in cancelled[c]
    /\ \E l \in CancelPoints : Moves(c, t, l, "ended")
    /\ UNCHANGED log_lock

\* What a thread does without waiting for the server.
ThreadRuns(c, t) == lock_log(c, t) \/ log_and_unlock(c, t) \/ cancel(c, t)
ThreadStep(c, t) == request(c, t) \/ request_fails(c, t) \/ ThreadRuns(c, t)

-----------------------------------------------------------------------------
Init ==
    /\ InitController
    /\ main = [c \in Clients |-> "init"]
    /\ nread = [c \in Clients |-> 0]
    /\ thread = [c \in Clients |-> [t \in Threads |-> "none"]]
    /\ cancelled = [c \in Clients |-> {}]
    /\ log_lock = [c \in Clients |-> NoThread]

Controller == ControllerStep /\ UNCHANGED clientVars
User == (type_line \/ signal_handler) /\ UNCHANGED clientVars

\* Clients whose DATA still fills the controller's socket.
Full == {c \in Clients : HasMessage(c) /\ Len(sent[c]) = 2}
Interrupt == write_interrupted(Full) /\ UNCHANGED clientVars

Next ==
    \/ Controller \/ User \/ Interrupt
    \/ \E c \in Clients :
          MainStep(c) \/ \E t \in Threads : ThreadStep(c, t) \/ request_sigpipe(c, t)

\* Every process is scheduled, and in a client both its main thread and some thread that can run
\* without the server.  The server, the user and the clients not started yet owe nothing.
Fairness ==
    /\ WF_vars(Controller)
    /\ \A c \in Clients : /\ WF_vars(MainStep(c) /\ main[c] # "init")
                          /\ WF_vars(\E t \in Threads : ThreadRuns(c, t))

FairSpec == Init /\ [][Next]_vars /\ Fairness

-----------------------------------------------------------------------------
(* Properties. *)

\* Every variable has its type; no more is read than was sent.
TypeOK ==
    /\ ControllerTypeOK
    /\ main \in [Clients -> {"init", "poll", "data", "create", "stop", "join", "spin", "exited"}]
    /\ nread \in [Clients -> Nat] /\ \A c \in Clients : nread[c] <= Len(sent[c])
    /\ thread \in [Clients -> [Threads -> {"none", "request", "lock", "log", "ended"}]]
    /\ cancelled \in [Clients -> SUBSET Threads]
    /\ log_lock \in [Clients -> Threads \cup {NoThread}]

\* What SIGINT may leave of the whole script: a DATA cut short, a STOP lost, or both.
Abridged == {<<"START", "CUT", "STOP">>, <<"START", "DATA">>, <<"START", "CUT">>}

\* A controller that ends has told all the clients it accepted and that are there one script, those
\* accepted in the round of the start too: a client that leaves, and a write to it that fails, takes
\* nothing from the others, and a write that SIGINT cuts takes no more than DATA's end and STOP,
\* from that client only.
SameScript ==
    ctl = "exited" => \E s \in {<<>>, <<"START", "STOP">>, Script} :
        \A c \in Clients : Has(c) /\ c \notin left =>
            sent[c] = s \/ (s = Script /\ sig_quit /\ sent[c] \in Abridged)

\* The log mutex is left by a thread that was cancelled while it wrote the log.
LockAbandoned(c) == \E t \in cancelled[c] : log_lock[c] = t /\ thread[c][t] = "ended"

\* SIGINT ends the controller, unless it interrupts the very first poll(): then accept() or
\* read() may block on revents nobody set.
Heeded == sig_quit ~> Ended \/ AcceptBlocked \/ StdinBlocked

\* SIGINT took the client's STOP: it was never told to end.
StopLost(c) == sig_quit /\ Ended /\ sent[c] = <<"START", "DATA">>

\* A client that was told to start and what to send ends, when the controller's time is up:
\* whatever the server does, its threads can all be joined, unless one was cancelled in log()
\* and the others wait for its mutex.  Or its STOP was lost, or the controller killed.
TestEnds == \A c \in Clients :
    sent[c] = <<"START", "DATA">> ~>
        main[c] = "exited" \/ LockAbandoned(c) \/ StopLost(c) \/ ctl = "killed"

\* A client that spins on a closed connection was left so by a controller that did not get
\* through its script: the test was never started, a write to another client failed, or SIGINT cut
\* short what it was told.
SpinsOnlyUntold == \A c \in Clients : main[c] = "spin" => sent[c] # Script
=============================================================================
