---------------------------- MODULE LoadTestProofs ----------------------------
(***************************************************************************)
(* Proofs about LoadTest, for any number of clients and threads, any       *)
(* MAX_CONNS and every fault.                                              *)
(***************************************************************************)
EXTENDS LoadTest, SequenceTheorems, TLAPS

(***************************************************************************)
(* Types.  TypeOK is not inductive: accepted_fds stays within one past its *)
(* end because the accept that fills it up makes the loop end.             *)
(***************************************************************************)

RoomInv ==
    /\ ctl \in {"poll", "accept"} => Len(accepted) <= MaxConns
    /\ ctl = "stdin" /\ Len(accepted) > MaxConns => exit

TypeInv == TypeOK /\ RoomInv

Words == {"START", "DATA", "CUT", "STOP"}

LEMMA SendingIs ==
    /\ Sending = {"send_start", "send_data", "send_stop"}
    /\ Message["send_start"] = "START" /\ Message["send_data"] = "DATA"
    /\ Message["send_stop"] = "STOP"
BY DEF Sending, Message

LEMMA InitTypeInv == Init => TypeInv
<1> SUFFICES ASSUME Init PROVE TypeInv
  OBVIOUS
<1> USE DEF Init, InitController
<1>1. /\ accepted \in Seq(Clients) /\ Len(accepted) = 0
      /\ \A c \in Clients : sent[c] \in Seq({"START", "DATA", "CUT", "STOP"}) /\ Len(sent[c]) = 0
  OBVIOUS
<1>2. sent \in [Clients -> Seq({"START", "DATA", "CUT", "STOP"})]
  BY <1>1
<1>3. next = 1 /\ \A c \in Clients : nread[c] = 0
  OBVIOUS
<1>4. /\ next \in 1 .. Len(accepted) + 1
      /\ nread \in [Clients -> Nat] /\ \A c \in Clients : nread[c] <= Len(sent[c])
  <2>1. nread \in [Clients -> Nat]
    OBVIOUS
  <2> HIDE DEF Init, InitController
  <2> QED
    BY <1>1, <1>3, <2>1
<1>5. ControllerTypeOK
  <2>1. Len(accepted) <= MaxConns + 1
    BY <1>1, ControllerAssumption
  <2> QED
    BY <1>1, <1>2, <1>4, <2>1, Zenon DEF ControllerTypeOK
<1>6. RoomInv
  BY <1>1, ControllerAssumption DEF RoomInv
<1>7. /\ main \in [Clients -> {"init", "poll", "data", "create", "stop", "join", "spin", "exited"}]
      /\ thread \in [Clients -> [Threads -> {"none", "request", "lock", "log", "ended"}]]
      /\ cancelled \in [Clients -> SUBSET Threads]
      /\ log_lock \in [Clients -> Threads \cup {NoThread}]
  OBVIOUS
<1> QED
  BY <1>5, <1>6, <1>4, <1>7 DEF TypeInv, TypeOK

LEMMA AppendFacts ==
    ASSUME NEW S, NEW s \in Seq(S), NEW e \in S
    PROVE  /\ Append(s, e) \in Seq(S) /\ Len(Append(s, e)) = Len(s) + 1 /\ Len(s) \in Nat
           /\ DOMAIN s = 1 .. Len(s) /\ DOMAIN Append(s, e) = 1 .. Len(s) + 1
           /\ \A i \in 1 .. Len(s) : Append(s, e)[i] = s[i] /\ s[i] \in S
           /\ Append(s, e)[Len(s) + 1] = e
OBVIOUS

\* What was sent stays sent.
SentGrows == \A c \in Clients :
    /\ Len(sent[c]) <= Len(sent'[c]) /\ Len(sent'[c]) \in Nat
    /\ \A i \in 1 .. Len(sent[c]) : sent'[c][i] = sent[c][i]

LEMMA SentSame == ASSUME TypeInv, UNCHANGED sent PROVE SentGrows
BY DEF SentGrows, TypeInv, TypeOK, ControllerTypeOK

LEMMA ControllerType == TypeInv /\ ControllerStep => ControllerTypeOK' /\ RoomInv' /\ SentGrows
<1> SUFFICES ASSUME TypeInv, ControllerStep PROVE ControllerTypeOK' /\ RoomInv' /\ SentGrows
  OBVIOUS
<1> USE DEF TypeInv, TypeOK, ControllerTypeOK, RoomInv
<1>0. /\ Len(accepted) \in Nat /\ MaxConns \in Nat \ {0}
      /\ \A c \in Clients : sent[c] \in Seq(Words) /\ Len(sent[c]) \in Nat
  BY ControllerAssumption DEF Words
<1>1. CASE poll_returns \/ poll_fails
  <2>1. /\ rev' \subseteq {"listen", "stdin"} /\ ctl' = "accept" /\ ctl = "poll" /\ exit' \in BOOLEAN
        /\ UNCHANGED <<started, accepted, next, failed, sig_quit, linkVars>> /\ typed' \in BOOLEAN
    BY <1>1 DEF poll_returns, poll_fails
  <2>2. ControllerTypeOK' /\ RoomInv'
    BY <2>1 DEF linkVars
  <2> QED
    BY <2>1, <2>2, SentSame DEF linkVars
<1>2. CASE handle_accept
  <2>1. /\ UNCHANGED <<started, next, failed, sig_quit, typed, sent, left>>
        /\ rev' \subseteq {"listen", "stdin"} /\ ctl' = "stdin" /\ ctl = "accept"
    BY <1>2 DEF handle_accept
  <2>2. CASE \E c \in lobby : /\ lobby' = lobby \ {c} /\ accepted' = Append(accepted, c)
                              /\ exit' = (Len(accepted) >= MaxConns)
    <3>1. PICK c \in lobby : /\ lobby' = lobby \ {c} /\ accepted' = Append(accepted, c)
                             /\ exit' = (Len(accepted) >= MaxConns)
      BY <2>2
    <3>2. accepted' \in Seq(Clients) /\ Len(accepted') = Len(accepted) + 1
      BY <3>1, AppendFacts
    <3>3. exit' \in BOOLEAN /\ lobby' \subseteq Clients
      BY <3>1
    <3>4. Len(accepted') <= MaxConns + 1 /\ next' \in 1 .. Len(accepted') + 1
      BY <1>0, <2>1, <3>2
    <3>5. Len(accepted') > MaxConns => Len(accepted) >= MaxConns
      BY <1>0, <3>2
    <3>6. RoomInv'
      BY <2>1, <3>1, <3>5
    <3> QED
      BY <2>1, <3>2, <3>3, <3>4, <3>6, SentSame
  <2>3. CASE UNCHANGED <<lobby, accepted>> /\ (exit' = exit \/ exit' = TRUE)
    <3>1. exit' \in BOOLEAN /\ Len(accepted) <= MaxConns
      BY <2>1, <2>3
    <3>2. RoomInv'
      BY <1>0, <2>1, <2>3, <3>1
    <3> QED
      BY <2>1, <2>3, <3>1, <3>2, SentSame
  <2> QED
    BY <1>2, <2>2, <2>3 DEF handle_accept
<1>3. CASE handle_stdin
  <2>1. /\ rev' = {} /\ next' = 1 /\ failed' = FALSE /\ typed' \in BOOLEAN
        /\ UNCHANGED <<exit, started, accepted, sig_quit, linkVars>>
        /\ ctl = "stdin" /\ ctl' \in {"send_start", "send_stop", "close", "poll"}
        /\ ctl' = "poll" => ~exit
    BY <1>3 DEF handle_stdin, LoopTest, LoopOver, Teardown
  <2>2. next' \in 1 .. Len(accepted') + 1
    BY <1>0, <2>1
  <2>3. RoomInv'
    BY <1>0, <2>1
  <2> QED
    BY <2>1, <2>2, <2>3, SentSame, SendingIs DEF linkVars
<1>4. CASE send_next
  <2> DEFINE d == accepted[next]
             m == Message[ctl]
  <2>1. /\ UNCHANGED <<rev, exit, started, accepted, sig_quit, typed, lobby, left>>
        /\ ctl \in Sending /\ ctl' \in {ctl, "killed"} /\ next' = next + 1 /\ next <= Len(accepted)
    BY <1>4 DEF send_next, ToSend
  <2>2. failed' \in BOOLEAN
    BY <1>4 DEF send_next
  <2>3. UNCHANGED sent \/ sent' = [sent EXCEPT ![d] = Append(@, m)]
    BY <1>4 DEF send_next
  <2>4. m \in Words
    BY <2>1, SendingIs DEF Words
  <2> HIDE DEF d, m
  <2>5. /\ \A c \in Clients : sent'[c] = sent[c] \/ sent'[c] = Append(sent[c], m)
        /\ DOMAIN sent' = Clients /\ sent' = [c \in Clients |-> sent'[c]]
    BY <2>3
  <2>6. ASSUME NEW c \in Clients
        PROVE  /\ sent'[c] \in Seq(Words) /\ Len(sent[c]) <= Len(sent'[c]) /\ Len(sent'[c]) \in Nat
               /\ \A i \in 1 .. Len(sent[c]) : sent'[c][i] = sent[c][i]
    <3> HIDE DEF TypeInv, TypeOK, ControllerTypeOK, RoomInv
    <3> DEFINE s == sent[c]
    <3>1. s \in Seq(Words) /\ Len(s) \in Nat /\ (sent'[c] = s \/ sent'[c] = Append(s, m))
      BY <1>0, <2>5
    <3> HIDE DEF s
    <3>2. /\ Append(s, m) \in Seq(Words) /\ Len(Append(s, m)) = Len(s) + 1
          /\ \A i \in 1 .. Len(s) : Append(s, m)[i] = s[i]
      BY <2>4, <3>1, AppendFacts
    <3>4. \A i \in 1 .. Len(s) : sent'[c][i] = s[i]
      BY <3>1, <3>2
    <3>3. sent'[c] \in Seq(Words) /\ (Len(sent'[c]) = Len(s) \/ Len(sent'[c]) = Len(s) + 1)
      BY <3>1, <3>2
    <3> QED
      BY <3>1, <3>3, <3>4 DEF s
  <2>7. sent' \in [Clients -> Seq(Words)]
    BY <2>5, <2>6
  <2>8. SentGrows
    BY <2>6 DEF SentGrows
  <2>9. next' \in 1 .. Len(accepted') + 1
    BY <1>0, <2>1
  <2>10. RoomInv'
    BY <2>1, SendingIs
  <2> QED
    BY <2>1, <2>2, <2>7, <2>8, <2>9, <2>10 DEF Words
<1>5. CASE send_done
  <2>1. /\ UNCHANGED <<rev, exit, accepted, sig_quit, typed, linkVars>>
        /\ started' \in BOOLEAN /\ next' = 1 /\ failed' = FALSE
        /\ ctl' \in {"close", "wait", "send_stop", "send_data"}
    BY <1>5 DEF send_done
  <2>2. next' \in 1 .. Len(accepted') + 1
    BY <1>0, <2>1
  <2>3. RoomInv'
    BY <2>1
  <2> QED
    BY <2>1, <2>2, <2>3, SentSame, SendingIs DEF linkVars
<1>6. CASE wait_duration \/ destroy_state
  <2>1. /\ UNCHANGED <<rev, exit, started, accepted, next, failed, sig_quit, typed, linkVars>>
        /\ ctl' \in {"send_stop", "close", "exited"}
    BY <1>6 DEF wait_duration, destroy_state, Teardown
  <2>2. RoomInv'
    BY <2>1
  <2> QED
    BY <2>1, <2>2, SentSame, SendingIs DEF linkVars
<1> QED
  BY <1>1, <1>2, <1>3, <1>4, <1>5, <1>6 DEF ControllerStep

\* What a client does leaves the controller its types.
LEMMA ClientFrame ==
    ASSUME TypeInv, UNCHANGED <<ctlVars, sig_quit, typed, sent>>,
           lobby' \subseteq Clients, left' \subseteq Clients
    PROVE  ControllerTypeOK' /\ RoomInv'
BY DEF ctlVars, TypeInv, TypeOK, ControllerTypeOK, RoomInv

\* The places of a client's main thread and of its other threads.
MainAt == {"init", "poll", "data", "create", "stop", "join", "spin", "exited"}
ThreadAt == {"none", "request", "lock", "log", "ended"}

LEMMA MainType ==
    ASSUME TypeInv, NEW c \in Clients, MainStep(c)
    PROVE  TypeInv'
<1> USE DEF TypeInv, TypeOK
<1>1. /\ UNCHANGED <<ctlVars, sig_quit, typed, sent, log_lock>>
      /\ lobby' \subseteq Clients /\ left' \subseteq Clients
  BY DEF MainStep, init_state, handle_controller, poll_controller_fails, read_data,
         read_data_fails, create_thread, stop_threads_cancel, stop_threads_join, controllerVars,
         linkVars, ControllerTypeOK
<1>2. \E l \in MainAt : main' = [main EXCEPT ![c] = l]
  <2>1. main' = main \/ \E l \in MainAt : Goes(c, l)
    BY DEF MainStep, init_state, handle_controller, poll_controller_fails, read_data,
           read_data_fails, create_thread, stop_threads_cancel, stop_threads_join, OnStop, MainAt
  <2>2. main[c] \in MainAt /\ main = [main EXCEPT ![c] = main[c]]
    BY DEF MainAt
  <2> QED
    BY <2>1, <2>2 DEF Goes
<1>3. main' \in [Clients -> MainAt]
  BY <1>2 DEF MainAt
<1>4. \/ UNCHANGED nread
      \/ HasMessage(c) /\ nread' = [nread EXCEPT ![c] = nread[c] + 1]
  BY DEF MainStep, init_state, handle_controller, poll_controller_fails, read_data,
         read_data_fails, create_thread, stop_threads_cancel, stop_threads_join, Consumes,
         Consumed
<1>5. \A d \in Clients : nread'[d] = nread[d] \/ (nread'[d] = nread[d] + 1 /\ HasMessage(d))
  BY <1>4
<1>6. \A d \in Clients : Len(sent[d]) \in Nat /\ nread[d] \in Nat /\ nread[d] <= Len(sent[d])
  BY DEF ControllerTypeOK
<1>7. nread' \in [Clients -> Nat] /\ \A d \in Clients : nread'[d] <= Len(sent'[d])
  <2>1. nread' \in [Clients -> Nat]
    BY <1>4
  <2>2. ASSUME NEW d \in Clients PROVE nread'[d] <= Len(sent[d])
    <3> HIDE DEF TypeInv, TypeOK
    <3>1. nread'[d] = nread[d] \/ (nread'[d] = nread[d] + 1 /\ nread[d] < Len(sent[d]))
      BY <1>5 DEF HasMessage
    <3> QED
      BY <1>6, <3>1
  <2> QED
    BY <1>1, <2>1, <2>2
<1>8. thread' \in [Clients -> [Threads -> ThreadAt]]
  <2>1. \/ UNCHANGED thread
        \/ \E t \in Threads : thread' = [thread EXCEPT ![c][t] = "request"]
    BY DEF MainStep, init_state, handle_controller, poll_controller_fails, read_data,
           read_data_fails, create_thread, stop_threads_cancel, stop_threads_join
  <2>2. ASSUME NEW t \in Threads, thread' = [thread EXCEPT ![c][t] = "request"]
        PROVE  thread' \in [Clients -> [Threads -> ThreadAt]]
    BY <2>2 DEF ThreadAt
  <2>3. thread \in [Clients -> [Threads -> ThreadAt]]
    BY DEF ThreadAt
  <2> QED
    BY <2>1, <2>2, <2>3
<1>9. cancelled' \in [Clients -> SUBSET Threads]
  <2>1. UNCHANGED cancelled \/ cancelled' = [cancelled EXCEPT ![c] = Created(c)]
    BY DEF MainStep, init_state, handle_controller, poll_controller_fails, read_data,
           read_data_fails, create_thread, stop_threads_cancel, stop_threads_join, ToCancel
  <2>2. Created(c) \subseteq Threads
    BY DEF Created
  <2> QED
    BY <2>1, <2>2
<1> QED
  BY <1>1, <1>3, <1>7, <1>8, <1>9, ClientFrame DEF MainAt, ThreadAt

LEMMA ThreadType ==
    ASSUME TypeInv, NEW c \in Clients, NEW t \in Threads, ThreadStep(c, t)
    PROVE  UNCHANGED <<controllerVars, main, nread, cancelled>> /\ TypeInv'
<1> USE DEF TypeInv, TypeOK
<1>1. UNCHANGED <<controllerVars, main, nread, cancelled>>
  BY DEF ThreadStep, ThreadRuns, request, request_fails, lock_log, log_and_unlock, cancel, Moves
<1>2. \E x \in Threads \cup {NoThread} : log_lock' = [log_lock EXCEPT ![c] = x]
  <2>1. log_lock[c] \in Threads \cup {NoThread} /\ log_lock = [log_lock EXCEPT ![c] = log_lock[c]]
    OBVIOUS
  <2> QED
    BY <2>1 DEF ThreadStep, ThreadRuns, request, request_fails, lock_log, log_and_unlock, cancel
<1>3. log_lock' \in [Clients -> Threads \cup {NoThread}]
  BY <1>2
<1>4. \E l \in ThreadAt : thread' = [thread EXCEPT ![c][t] = l]
  BY DEF ThreadStep, ThreadRuns, request, request_fails, lock_log, log_and_unlock, cancel, Moves,
         ThreadAt
<1>5. thread' \in [Clients -> [Threads -> ThreadAt]]
  BY <1>4 DEF ThreadAt
<1>6. ControllerTypeOK' /\ RoomInv'
  BY <1>1, ClientFrame DEF controllerVars, linkVars, ControllerTypeOK
<1>7. nread' \in [Clients -> Nat] /\ \A d \in Clients : nread'[d] <= Len(sent'[d])
  BY <1>1 DEF controllerVars, linkVars
<1> QED
  BY <1>1, <1>3, <1>5, <1>6, <1>7 DEF ThreadAt

\* A client's process that SIGPIPE ends leaves its types, and what it was told.
LEMMA SigpipeType ==
    ASSUME TypeInv, NEW c \in Clients, NEW t \in Threads, request_sigpipe(c, t)
    PROVE  /\ UNCHANGED <<ctlVars, sig_quit, lobby, sent, nread, cancelled>>
           /\ main' = [main EXCEPT ![c] = "exited"] /\ left' = left \cup {c}
           /\ thread' = [thread EXCEPT ![c] = [u \in Threads |-> "ended"]]
           /\ log_lock' = [log_lock EXCEPT ![c] = NoThread]
           /\ main[c] # "init" \/ thread[c][t] # "none"
           /\ TypeInv'
<1> USE DEF TypeInv, TypeOK
<1>1. /\ UNCHANGED <<ctlVars, sig_quit, typed, lobby, sent, nread, cancelled>>
      /\ main' = [main EXCEPT ![c] = "exited"] /\ left' = left \cup {c}
      /\ thread' = [thread EXCEPT ![c] = [u \in Threads |-> "ended"]]
      /\ log_lock' = [log_lock EXCEPT ![c] = NoThread]
      /\ thread[c][t] = "request"
  BY DEF request_sigpipe, Goes
<1>2. ControllerTypeOK' /\ RoomInv'
  BY <1>1, ClientFrame DEF ControllerTypeOK
<1>3. /\ main' \in [Clients -> MainAt] /\ thread' \in [Clients -> [Threads -> ThreadAt]]
      /\ log_lock' \in [Clients -> Threads \cup {NoThread}]
  BY <1>1 DEF MainAt, ThreadAt
<1>4. \A d \in Clients : nread'[d] <= Len(sent'[d])
  BY <1>1
<1>5. nread' \in [Clients -> Nat] /\ cancelled' \in [Clients -> SUBSET Threads]
  BY <1>1
<1> QED
  BY <1>1, <1>2, <1>3, <1>4, <1>5 DEF MainAt, ThreadAt

\* A write that SIGINT interrupts: the client gets a DATA cut short, or no STOP.
LEMMA InterruptFrame ==
    ASSUME TypeInv, Interrupt
    PROVE  /\ UNCHANGED <<ctl, accepted, started, lobby, left, clientVars>>
           /\ ctl \in {"send_data", "send_stop"}
           /\ next <= Len(accepted) /\ next' = next + 1 /\ sig_quit' = TRUE
           /\ accepted[next] \notin left
           /\ \/ ctl = "send_data" /\ sent' = [sent EXCEPT ![accepted[next]] = Append(@, "CUT")]
              \/ ctl = "send_stop" /\ Len(sent[accepted[next]]) = 2 /\ UNCHANGED sent
           /\ ControllerTypeOK' /\ RoomInv' /\ SentGrows
<1> USE DEF TypeInv, TypeOK, ControllerTypeOK, RoomInv
<1>1. /\ UNCHANGED <<ctl, rev, exit, started, accepted, typed, lobby, left, clientVars>>
      /\ next <= Len(accepted) /\ next' = next + 1 /\ sig_quit' = TRUE /\ failed' = TRUE
      /\ accepted[next] \notin left
      /\ \/ ctl = "send_data" /\ sent' = [sent EXCEPT ![accepted[next]] = Append(@, "CUT")]
         \/ ctl = "send_stop" /\ Len(sent[accepted[next]]) = 2 /\ UNCHANGED sent
  BY DEF Interrupt, write_interrupted, ToSend, Full
<1>2. Len(accepted) \in Nat /\ next' \in 1 .. Len(accepted') + 1
  BY <1>1
<1>3. /\ \A c \in Clients : sent'[c] = sent[c] \/ sent'[c] = Append(sent[c], "CUT")
      /\ DOMAIN sent' = Clients /\ sent' = [c \in Clients |-> sent'[c]]
  BY <1>1
<1>4. ASSUME NEW c \in Clients
      PROVE  /\ sent'[c] \in Seq(Words) /\ Len(sent[c]) <= Len(sent'[c]) /\ Len(sent'[c]) \in Nat
             /\ \A i \in 1 .. Len(sent[c]) : sent'[c][i] = sent[c][i]
  <2> HIDE DEF TypeInv, TypeOK, ControllerTypeOK, RoomInv
  <2> DEFINE s == sent[c]
  <2>1. s \in Seq(Words) /\ Len(s) \in Nat /\ (sent'[c] = s \/ sent'[c] = Append(s, "CUT"))
    BY <1>3 DEF TypeInv, TypeOK, ControllerTypeOK, Words
  <2> HIDE DEF s
  <2>2. "CUT" \in Words
    BY DEF Words
  <2>3. /\ Append(s, "CUT") \in Seq(Words) /\ Len(Append(s, "CUT")) = Len(s) + 1
        /\ \A i \in 1 .. Len(s) : Append(s, "CUT")[i] = s[i]
    BY <2>1, <2>2, AppendFacts
  <2>4. \A i \in 1 .. Len(s) : sent'[c][i] = s[i]
    BY <2>1, <2>3
  <2>5. sent'[c] \in Seq(Words) /\ (Len(sent'[c]) = Len(s) \/ Len(sent'[c]) = Len(s) + 1)
    BY <2>1, <2>3
  <2> QED
    BY <2>1, <2>4, <2>5 DEF s
<1>5. sent' \in [Clients -> Seq(Words)]
  BY <1>3, <1>4
<1>6. SentGrows
  BY <1>4 DEF SentGrows
<1>7. ControllerTypeOK'
  BY <1>1, <1>2, <1>5 DEF Words
<1>8. RoomInv'
  BY <1>1
<1> QED
  BY <1>1, <1>6, <1>7, <1>8

\* What a signal or a line of input may change.
LEMMA UserFrame ==
    ASSUME TypeInv, User
    PROVE  /\ UNCHANGED <<accepted, next, failed, started, linkVars, clientVars>>
           /\ ctl' = ctl \/ (ctl = "stdin" /\ ctl' = Teardown) \/ (ctl = "accept" /\ ctl' = "stdin")
           /\ ~Ended \/ ctl' = ctl
           /\ sig_quit => sig_quit'
           /\ ControllerTypeOK' /\ RoomInv'
<1> USE DEF TypeInv, TypeOK
<1>1. UNCHANGED <<accepted, next, failed, started, linkVars, clientVars>>
  BY DEF User, type_line, signal_handler, ctlVars
<1>2. /\ sig_quit' \in BOOLEAN /\ typed' \in BOOLEAN
      /\ ~Ended \/ ctl' = ctl
      /\ sig_quit => sig_quit'
  BY DEF User, type_line, signal_handler, ctlVars, ControllerTypeOK
<1>3. \/ UNCHANGED <<rev, exit, ctl>>
      \/ exit' = TRUE /\ rev' = rev \ {"listen"} /\ ctl = "accept" /\ ctl' = "stdin"
      \/ rev' = {} /\ ctl = "stdin" /\ ctl' = Teardown /\ UNCHANGED exit
  BY DEF User, type_line, signal_handler, AcceptBlocked, StdinBlocked, ctlVars
<1>4. exit' \in BOOLEAN /\ rev' \subseteq {"listen", "stdin"} /\ ctl' \in {ctl, "stdin", "send_stop", "close"}
  BY <1>3 DEF ControllerTypeOK, Teardown
<1>5. ControllerTypeOK'
  BY <1>1, <1>2, <1>4, SendingIs DEF ControllerTypeOK, linkVars
<1>6. RoomInv'
  BY <1>1, <1>3 DEF RoomInv, Teardown
<1> QED
  BY <1>1, <1>2, <1>3, <1>5, <1>6

LEMMA TypeStep == TypeInv /\ [Next]_vars => TypeInv'
<1> SUFFICES ASSUME TypeInv, [Next]_vars PROVE TypeInv'
  OBVIOUS
<1>1. CASE Controller \/ Interrupt
  <2>1. ControllerTypeOK' /\ RoomInv' /\ SentGrows /\ UNCHANGED clientVars
    BY <1>1, ControllerType, InterruptFrame DEF Controller
  <2>2. \A c \in Clients : nread'[c] <= Len(sent'[c])
    <3> SUFFICES ASSUME NEW c \in Clients PROVE nread'[c] <= Len(sent'[c])
      OBVIOUS
    <3>1. nread'[c] = nread[c] /\ nread[c] \in Nat /\ nread[c] <= Len(sent[c])
      BY <2>1 DEF clientVars, TypeInv, TypeOK
    <3>2. Len(sent[c]) <= Len(sent'[c]) /\ Len(sent'[c]) \in Nat /\ Len(sent[c]) \in Nat
      BY <2>1 DEF SentGrows, TypeInv, TypeOK, ControllerTypeOK
    <3> QED
      BY <3>1, <3>2
  <2> QED
    BY <2>1, <2>2 DEF clientVars, TypeInv, TypeOK
<1>2. CASE User
  BY <1>2, UserFrame DEF clientVars, linkVars, TypeInv, TypeOK
<1>3. ASSUME NEW c \in Clients, MainStep(c) PROVE TypeInv'
  BY <1>3, MainType
<1>4. ASSUME NEW c \in Clients, NEW t \in Threads, ThreadStep(c, t) PROVE TypeInv'
  BY <1>4, ThreadType
<1>5. ASSUME NEW c \in Clients, NEW t \in Threads, request_sigpipe(c, t) PROVE TypeInv'
  BY <1>5, SigpipeType
<1>6. CASE UNCHANGED vars
  <2>1. ControllerTypeOK' /\ RoomInv'
    BY <1>6, ClientFrame DEF vars, controllerVars, linkVars, TypeInv, TypeOK, ControllerTypeOK
  <2> QED
    BY <1>6, <2>1 DEF vars, clientVars, controllerVars, linkVars, TypeInv, TypeOK
<1> QED
  BY <1>1, <1>2, <1>3, <1>4, <1>5, <1>6 DEF Next

\* Every variable keeps its type, and accepted_fds is never written more than one past its end.
THEOREM LoadTypeCorrect == FairSpec => []TypeOK
<1>1. TypeInv => TypeOK
  BY DEF TypeInv
<1> QED
  BY <1>1, InitTypeInv, TypeStep, PTL DEF FairSpec

-----------------------------------------------------------------------------
(***************************************************************************)
(* What the clients are told.  The three loops go over accepted_fds in the *)
(* same order, and a client is there once: so before the loop's index they *)
(* have all been told one thing more than after it, whole unless SIGINT    *)
(* cut a write.                                                            *)
(***************************************************************************)

LinkInv ==
    /\ \A i, j \in DOMAIN accepted : accepted[i] = accepted[j] => i = j
    /\ \A c \in lobby : ~Has(c)
    /\ \A c \in Clients : c \in lobby \/ Has(c) => main[c] # "init"

\* The first n messages of a script that goes on with w after START; of the whole script DATA may
\* be cut short, and STOP be lost.
Told(s, n, w) ==
    /\ Len(s) = n \/ (n = 3 /\ Len(s) = 2)
    /\ n >= 1 => s[1] = "START"
    /\ n >= 2 => s[2] = w \/ (w = "DATA" /\ s[2] = "CUT")
    /\ Len(s) = 3 => s[3] = "STOP"

\* Neither happened.
Whole(s, n, w) == Len(s) = n /\ (n >= 2 => s[2] = w)

Spoken(n, w) == \A i \in DOMAIN accepted : accepted[i] \notin left =>
    /\ Told(sent[accepted[i]], IF i < next THEN n + 1 ELSE n, w)
    /\ sig_quit \/ Whole(sent[accepted[i]], IF i < next THEN n + 1 ELSE n, w)
AllTold(n, w) == \A i \in DOMAIN accepted : accepted[i] \notin left =>
    /\ Told(sent[accepted[i]], n, w)
    /\ sig_quit \/ Whole(sent[accepted[i]], n, w)

LoopInv ==
    /\ ctl \in {"poll", "accept", "stdin"} => ~started /\ \A c \in Clients : Len(sent[c]) = 0
    /\ ctl = "send_start" => Spoken(0, "DATA")
    /\ ctl = "send_data" => Spoken(1, "DATA")
    /\ ctl = "wait" => started /\ next = 1 /\ AllTold(2, "DATA")
    /\ ctl = "send_stop" => Spoken(1, "STOP") \/ Spoken(2, "DATA")
    /\ ctl \in {"close", "exited"} =>
          AllTold(0, "DATA") \/ AllTold(2, "STOP") \/ AllTold(3, "DATA")

FormInv == \A c \in Clients : \E n \in 0 .. 3, w \in {"DATA", "STOP"} :
    Told(sent[c], n, w) /\ (n = 3 => w = "DATA")

ScriptInv == LoopInv /\ FormInv

LEMMA ToldMore ==
    ASSUME NEW s \in Seq(Words), NEW n \in 0 .. 2, NEW w \in {"DATA", "STOP"}, Told(s, n, w),
           NEW m \in Words,
           \/ m = IF n = 0 THEN "START" ELSE IF n = 1 THEN w ELSE "STOP"
           \/ n = 1 /\ w = "DATA" /\ m = "CUT"
    PROVE  /\ Told(Append(s, m), n + 1, w)
           /\ m # "CUT" /\ Whole(s, n, w) => Whole(Append(s, m), n + 1, w)
<1>1. /\ Len(s) = n /\ Len(Append(s, m)) = n + 1 /\ \A i \in 1 .. n : Append(s, m)[i] = s[i]
      /\ Append(s, m)[n + 1] = m
  BY AppendFacts DEF Told
<1>2. CASE n = 0
  BY <1>1, <1>2 DEF Told, Whole
<1>3. CASE n = 1
  BY <1>1, <1>3 DEF Told, Whole
<1>4. CASE n = 2
  BY <1>1, <1>4 DEF Told, Whole
<1> QED
  BY <1>2, <1>3, <1>4

LEMMA ToldIs ==
    ASSUME NEW s \in Seq(Words), NEW n \in 0 .. 3, NEW w \in {"DATA", "STOP"}, Told(s, n, w),
           n = 3 => w = "DATA"
    PROVE  /\ Len(s) \in Nat /\ Len(s) <= 3
           /\ Len(s) >= 1 => s[1] = "START"
           /\ Len(s) >= 2 => s[2] \in {"DATA", "CUT", "STOP"}
           /\ Len(s) = 3 => s[3] = "STOP" /\ s[2] \in {"DATA", "CUT"}
<1> DEFINE k == Len(s)
           a == s[1]
           b == s[2]
           z == s[3]
<1>1. /\ k \in Nat /\ (k = n \/ (n = 3 /\ k = 2))
      /\ n >= 1 => a = "START"
      /\ n >= 2 => b = w \/ (w = "DATA" /\ b = "CUT")
      /\ k = 3 => z = "STOP"
  BY DEF Told
<1> HIDE DEF k, a, b, z
<1>2. /\ k <= 3 /\ (k >= 1 => a = "START")
      /\ k >= 2 => b \in {"DATA", "CUT", "STOP"}
      /\ k = 3 => z = "STOP" /\ b \in {"DATA", "CUT"}
  BY <1>1
<1> QED
  BY <1>1, <1>2 DEF k, a, b, z

LEMMA LoopKept ==
    ASSUME LoopInv, UNCHANGED <<ctl, next, accepted, sent, started>>, left \subseteq left',
           sig_quit => sig_quit'
    PROVE  LoopInv'
BY DEF LoopInv, Spoken, AllTold

LEMMA FormKept == ASSUME FormInv, UNCHANGED sent PROVE FormInv'
BY DEF FormInv

LEMMA AcceptedFacts ==
    ASSUME TypeInv
    PROVE  /\ DOMAIN accepted = 1 .. Len(accepted) /\ Len(accepted) \in Nat /\ next \in 1 .. Len(accepted) + 1
           /\ \A i \in DOMAIN accepted : accepted[i] \in Clients
           /\ \A c \in Clients : sent[c] \in Seq(Words)
BY DEF TypeInv, TypeOK, ControllerTypeOK, Words

\* Outside the three loops what was said stays.
LEMMA LoopOther ==
    ASSUME TypeInv, ScriptInv,
           poll_returns \/ poll_fails \/ handle_accept \/ handle_stdin \/ send_done \/ wait_duration
           \/ destroy_state \/ User
    PROVE  ScriptInv'
<1>1. UNCHANGED <<sent, left>> /\ FormInv' /\ (sig_quit => sig_quit')
  BY UserFrame, FormKept DEF poll_returns, poll_fails, handle_accept, handle_stdin, send_done,
     wait_duration, destroy_state, linkVars, ScriptInv
<1>2. CASE poll_returns \/ poll_fails \/ handle_accept
  BY <1>1, <1>2 DEF poll_returns, poll_fails, handle_accept, ScriptInv, LoopInv
<1>3. ASSUME ctl = "stdin", ctl' \in {"close", "send_start", "poll"}, next' = 1 \/ ctl' = "close",
             UNCHANGED <<started, accepted>>
      PROVE  LoopInv'
  <2>1. ~started /\ \A c \in Clients : Len(sent'[c]) = 0
    BY <1>1, <1>3 DEF ScriptInv, LoopInv
  <2>2. AllTold(0, "DATA")'
    BY <1>3, <2>1, AcceptedFacts DEF AllTold, Told, Whole
  <2>3. next' = 1 => Spoken(0, "DATA")'
    BY <1>3, <2>2, AcceptedFacts DEF AllTold, Spoken
  <2> QED
    BY <1>3, <2>1, <2>2, <2>3 DEF LoopInv
<1>4. CASE handle_stdin
  <2>1. ctl = "stdin" /\ next' = 1 /\ UNCHANGED <<started, accepted>>
    BY <1>4 DEF handle_stdin
  <2>2. ~started
    BY <2>1 DEF ScriptInv, LoopInv
  <2>3. ctl' \in {"close", "send_start", "poll"}
    BY <1>4, <2>2 DEF handle_stdin, LoopTest, Teardown
  <2> QED
    BY <1>1, <1>3, <2>1, <2>3 DEF ScriptInv
<1>5. CASE send_done
  <2>1. /\ UNCHANGED accepted /\ next' = 1 /\ started' = (ctl # "send_stop") /\ ctl \in Sending
        /\ \/ ctl = "send_stop" /\ ctl' = "close"
           \/ ctl # "send_stop" /\ ctl' = "send_stop"
           \/ ctl = "send_start" /\ ctl' = "send_data"
           \/ ctl = "send_data" /\ ctl' = "wait"
    BY <1>5 DEF send_done
  <2>2. \A i \in DOMAIN accepted : i < next
    BY <1>5, AcceptedFacts DEF send_done, ToSend
  <2>3. ASSUME NEW n \in Nat, NEW w, Spoken(n, w) PROVE AllTold(n + 1, w)'
    BY <1>1, <2>1, <2>2, <2>3 DEF Spoken, AllTold
  <2>4. ASSUME NEW n \in Nat, NEW w, AllTold(n, w)' PROVE Spoken(n, w)'
    BY <2>1, <2>4, AcceptedFacts DEF Spoken, AllTold
  <2>5. ASSUME NEW n \in {0, 1}, AllTold(n, "DATA")' PROVE AllTold(n, "STOP")'
    BY <2>5 DEF AllTold, Told, Whole
  <2>6. CASE ctl = "send_start"
    <3>1. AllTold(1, "DATA")'
      BY <2>3, <2>6 DEF ScriptInv, LoopInv
    <3>2. Spoken(1, "DATA")' /\ Spoken(1, "STOP")'
      BY <2>4, <2>5, <3>1
    <3>3. ctl' \in {"send_stop", "send_data"}
      BY <2>1, <2>6
    <3> QED
      BY <1>1, <3>2, <3>3 DEF ScriptInv, LoopInv
  <2>7. CASE ctl = "send_data"
    <3>1. AllTold(2, "DATA")'
      BY <2>3, <2>7 DEF ScriptInv, LoopInv
    <3>2. Spoken(2, "DATA")'
      BY <2>4, <3>1
    <3>3. ctl' \in {"send_stop", "wait"} /\ started'
      BY <2>1, <2>7
    <3> QED
      BY <1>1, <2>1, <3>1, <3>2, <3>3 DEF ScriptInv, LoopInv
  <2>8. CASE ctl = "send_stop"
    <3>1. AllTold(2, "STOP")' \/ AllTold(3, "DATA")'
      <4>1. CASE Spoken(1, "STOP")
        <5>1. AllTold(1 + 1, "STOP")'
          BY <2>3, <4>1
        <5> QED
          BY <5>1
      <4>2. CASE Spoken(2, "DATA")
        <5>1. AllTold(2 + 1, "DATA")'
          BY <2>3, <4>2
        <5> QED
          BY <5>1
      <4>3. Spoken(1, "STOP") \/ Spoken(2, "DATA")
        BY <2>8 DEF ScriptInv, LoopInv
      <4> QED
        BY <4>1, <4>2, <4>3
    <3>2. ctl' = "close"
      BY <2>1, <2>8
    <3> QED
      BY <1>1, <3>1, <3>2 DEF ScriptInv, LoopInv
  <2> QED
    BY <1>1, <2>1, <2>6, <2>7, <2>8, SendingIs DEF ScriptInv
<1>6. CASE wait_duration
  <2>1. ctl = "wait" /\ ctl' = Teardown /\ UNCHANGED <<started, accepted, next>>
    BY <1>6 DEF wait_duration
  <2>2. started /\ next' = 1 /\ AllTold(2, "DATA")'
    BY <1>1, <2>1 DEF ScriptInv, LoopInv, AllTold
  <2>3. Spoken(2, "DATA")' /\ ctl' = "send_stop"
    BY <2>1, <2>2, AcceptedFacts DEF Spoken, AllTold, Teardown
  <2> QED
    BY <1>1, <2>3 DEF ScriptInv, LoopInv
<1>7. CASE destroy_state
  <2>1. ctl = "close" /\ ctl' = "exited" /\ UNCHANGED accepted
    BY <1>7 DEF destroy_state
  <2>2. \A n, w : AllTold(n, w) => AllTold(n, w)'
    BY <1>1, <2>1 DEF AllTold
  <2> QED
    BY <1>1, <2>1, <2>2 DEF ScriptInv, LoopInv
<1>8. CASE User
  <2>1. /\ UNCHANGED <<accepted, next, started>>
        /\ ctl' = ctl \/ (ctl = "stdin" /\ ctl' = Teardown) \/ (ctl = "accept" /\ ctl' = "stdin")
    BY <1>8, UserFrame
  <2>2. CASE ctl' = ctl
    BY <1>1, <2>1, <2>2, LoopKept DEF ScriptInv
  <2>3. CASE ctl = "stdin" /\ ctl' = Teardown
    BY <1>1, <1>3, <2>1, <2>3 DEF Teardown, ScriptInv, LoopInv
  <2>4. CASE ctl = "accept" /\ ctl' = "stdin"
    BY <1>1, <2>1, <2>4 DEF ScriptInv, LoopInv
  <2> QED
    BY <1>1, <2>1, <2>2, <2>3, <2>4 DEF ScriptInv
<1> QED
  BY <1>1, <1>2, <1>4, <1>5, <1>6, <1>7, <1>8 DEF ScriptInv

\* A turn of a loop tells the next client, if it is there, one message more, and no other client.
LEMMA SpokenMore ==
    ASSUME TypeInv, LinkInv, UNCHANGED <<accepted, left>>, sig_quit => sig_quit',
           next <= Len(accepted), next' = next + 1,
           \A c \in Clients : c # accepted[next] => sent'[c] = sent[c],
           NEW n \in 0 .. 2, NEW w, Spoken(n, w),
           accepted[next] \notin left =>
               /\ Told(sent'[accepted[next]], n + 1, w)
               /\ sig_quit' \/ Whole(sent'[accepted[next]], n + 1, w)
    PROVE  Spoken(n, w)'
<1>1. next \in DOMAIN accepted /\ next \in Nat
  BY AcceptedFacts
<1>2. ASSUME NEW i \in DOMAIN accepted, accepted[i] \notin left
      PROVE  /\ Told(sent'[accepted[i]], IF i < next + 1 THEN n + 1 ELSE n, w)
             /\ sig_quit' \/ Whole(sent'[accepted[i]], IF i < next + 1 THEN n + 1 ELSE n, w)
  <2>1. CASE i = next
    BY <1>1, <1>2, <2>1
  <2>2. CASE i # next
    <3>1. sent'[accepted[i]] = sent[accepted[i]]
      BY <1>1, <2>2, AcceptedFacts DEF LinkInv
    <3>2. i < next + 1 <=> i < next
      BY <1>1, <2>2, AcceptedFacts
    <3>3. /\ Told(sent[accepted[i]], IF i < next THEN n + 1 ELSE n, w)
          /\ sig_quit \/ Whole(sent[accepted[i]], IF i < next THEN n + 1 ELSE n, w)
      BY <1>2 DEF Spoken
    <3> QED
      BY <3>1, <3>2, <3>3
  <2> QED
    BY <2>1, <2>2
<1> QED
  BY <1>2 DEF Spoken

\* A turn of a loop tells one client the message that is next for it, or what SIGINT leaves of it.
LEMMA LoopTurn == TypeInv /\ LinkInv /\ ScriptInv /\ (send_next \/ Interrupt) => ScriptInv'
<1> SUFFICES ASSUME TypeInv, LinkInv, ScriptInv, send_next \/ Interrupt PROVE ScriptInv'
  OBVIOUS
<1> DEFINE d == accepted[next]
           m == Message[ctl]
<1>1. /\ UNCHANGED <<accepted, left>> /\ next' = next + 1 /\ ctl' \in {ctl, "killed"}
      /\ ctl \in {"send_start", "send_data", "send_stop"} /\ next <= Len(accepted)
      /\ sig_quit => sig_quit'
  <2>1. CASE send_next
    BY <2>1, SendingIs DEF send_next, ToSend
  <2>2. CASE Interrupt
    BY <2>2, InterruptFrame
  <2> QED
    BY <2>1, <2>2
<1>2. next \in DOMAIN accepted /\ d \in Clients /\ next \in Nat
  BY <1>1, AcceptedFacts
<1>3. d \in left =>
          /\ UNCHANGED sent
          /\ ctl' \in {ctl, "killed"}
  BY <1>1, InterruptFrame DEF send_next
<1>4. d \notin left =>
          /\ ctl' = ctl
          /\ \/ sent' = [sent EXCEPT ![d] = Append(@, m)]
             \/ sig_quit' /\ ctl = "send_data" /\ sent' = [sent EXCEPT ![d] = Append(@, "CUT")]
             \/ sig_quit' /\ ctl = "send_stop" /\ Len(sent[d]) = 2 /\ UNCHANGED sent
  BY InterruptFrame DEF send_next
<1>5. /\ \A c \in Clients : c # d => sent'[c] = sent[c]
      /\ d \notin left =>
            \/ sent'[d] = Append(sent[d], m)
            \/ sig_quit' /\ ctl = "send_data" /\ sent'[d] = Append(sent[d], "CUT")
            \/ sig_quit' /\ ctl = "send_stop" /\ Len(sent[d]) = 2 /\ sent'[d] = sent[d]
  BY <1>2, <1>3, <1>4 DEF TypeInv, TypeOK, ControllerTypeOK
<1>6. m \in Words /\ m # "CUT" /\ "CUT" \in Words
  BY <1>1, SendingIs DEF Words
<1>7. PICK n \in 0 .. 2, w \in {"DATA", "STOP"} :
         /\ Spoken(n, w) /\ m = IF n = 0 THEN "START" ELSE IF n = 1 THEN w ELSE "STOP"
         /\ n = 2 => w = "DATA"
         /\ ctl = "send_start" => n = 0 /\ w = "DATA"
         /\ ctl = "send_data" => n = 1 /\ w = "DATA"
         /\ ctl = "send_stop" => (n = 1 /\ w = "STOP") \/ (n = 2 /\ w = "DATA")
  <2>1. CASE ctl = "send_start"
    <3>1. Spoken(0, "DATA") /\ m = "START" /\ 0 \in 0 .. 2
      BY <2>1, SendingIs DEF ScriptInv, LoopInv
    <3> QED
      BY <2>1, <3>1
  <2>2. CASE ctl = "send_data"
    <3>1. Spoken(1, "DATA") /\ m = "DATA" /\ 1 \in 0 .. 2
      BY <2>2, SendingIs DEF ScriptInv, LoopInv
    <3> QED
      BY <2>2, <3>1
  <2>3. CASE ctl = "send_stop"
    <3>1. (Spoken(1, "STOP") \/ Spoken(2, "DATA")) /\ m = "STOP" /\ 1 \in 0 .. 2 /\ 2 \in 0 .. 2
      BY <2>3, SendingIs DEF ScriptInv, LoopInv
    <3> QED
      BY <2>3, <3>1
  <2> QED
    BY <1>1, <2>1, <2>2, <2>3
<1> HIDE DEF d, m
<1>8. d \notin left =>
          /\ Told(sent'[d], n + 1, w)
          /\ sig_quit' \/ Whole(sent'[d], n + 1, w)
  <2> SUFFICES ASSUME d \notin left
               PROVE  Told(sent'[d], n + 1, w) /\ (sig_quit' \/ Whole(sent'[d], n + 1, w))
    OBVIOUS
  <2>1. /\ Told(sent[d], n, w) /\ (sig_quit \/ Whole(sent[d], n, w))
        /\ sent[d] \in Seq(Words)
    BY <1>2, <1>7, AcceptedFacts DEF Spoken, d
  <2>2. CASE sent'[d] = Append(sent[d], m)
    BY <1>1, <1>6, <1>7, <2>1, <2>2, ToldMore
  <2>3. CASE sig_quit' /\ ctl = "send_data" /\ sent'[d] = Append(sent[d], "CUT")
    BY <1>6, <1>7, <2>1, <2>3, ToldMore
  <2>4. CASE sig_quit' /\ ctl = "send_stop" /\ Len(sent[d]) = 2 /\ sent'[d] = sent[d]
    <3>1. n = 2 /\ w = "DATA"
      BY <1>7, <2>1, <2>4 DEF Told
    <3> QED
      BY <2>1, <2>4, <3>1 DEF Told
  <2> QED
    BY <1>5, <2>2, <2>3, <2>4
<1>9. Spoken(n, w)'
  BY <1>1, <1>5, <1>7, <1>8, SpokenMore DEF d
<1>10. LoopInv'
  BY <1>1, <1>7, <1>9 DEF LoopInv
<1>11. FormInv'
  <2>1. n + 1 \in 0 .. 3 /\ (n + 1 = 3 => w = "DATA")
    BY <1>7
  <2>2. ASSUME NEW c \in Clients
        PROVE  \E j \in 0 .. 3, v \in {"DATA", "STOP"} : Told(sent'[c], j, v) /\ (j = 3 => v = "DATA")
    <3>1. CASE sent'[c] = sent[c]
      BY <3>1 DEF ScriptInv, FormInv
    <3>2. CASE c = d /\ d \notin left
      BY <1>8, <2>1, <3>2
    <3> QED
      BY <1>3, <1>5, <3>1, <3>2
  <2> QED
    BY <2>2 DEF FormInv
<1> QED
  BY <1>10, <1>11 DEF ScriptInv

-----------------------------------------------------------------------------
(***************************************************************************)
(* What the clients have read.  A client that has been sent the whole      *)
(* script still has its STOP to read wherever it might start to spin.  One *)
(* whose DATA was cut short takes STOP for data.                           *)
(***************************************************************************)

ReadOf(c) ==
    /\ main[c] = "init" => nread[c] = 0
    /\ main[c] = "poll" => \/ nread[c] = 0
                           \/ nread[c] = 2 /\ sent[c][2] = "DATA"
                           \/ nread[c] = 3 /\ sent[c][2] = "CUT"
    /\ main[c] = "data" => \/ nread[c] = 1
                           \/ nread[c] = 2 /\ sent[c][2] \in {"CUT", "STOP"}
                           \/ nread[c] = 3 /\ sent[c][2] = "CUT"
    /\ main[c] = "create" => \/ nread[c] = 2 /\ sent[c][2] = "DATA"
                             \/ nread[c] = 3 /\ sent[c][2] = "CUT"
    /\ main[c] = "spin" => Ended /\ (Len(sent[c]) # 3 \/ sent[c][2] = "CUT")

ReadInv == \A c \in Clients : ReadOf(c)

LEMMA LinkStep == TypeInv /\ LinkInv /\ [Next]_vars => LinkInv'
<1> SUFFICES ASSUME TypeInv, LinkInv, [Next]_vars PROVE LinkInv'
  OBVIOUS
<1>1. ASSUME UNCHANGED <<accepted, lobby>>, \A c \in Clients : main'[c] = "init" => main[c] = "init"
      PROVE  LinkInv'
  BY <1>1 DEF LinkInv, Has
<1>2. CASE handle_accept /\ UNCHANGED clientVars
  <2>1. CASE UNCHANGED <<accepted, lobby>>
    BY <1>1, <1>2, <2>1 DEF clientVars
  <2>2. ASSUME NEW d \in lobby, lobby' = lobby \ {d}, accepted' = Append(accepted, d)
        PROVE  LinkInv'
    <3>1. accepted \in Seq(Clients) /\ d \in Clients /\ ~Has(d)
      BY DEF TypeInv, TypeOK, ControllerTypeOK, LinkInv
    <3>2. /\ Len(accepted) \in Nat
          /\ DOMAIN accepted = 1 .. Len(accepted) /\ DOMAIN accepted' = 1 .. Len(accepted) + 1
          /\ \A i \in 1 .. Len(accepted) : accepted'[i] = accepted[i] /\ accepted[i] # d
          /\ accepted'[Len(accepted) + 1] = d
      BY <2>2, <3>1, AppendFacts DEF Has
    <3>3. \A i \in DOMAIN accepted' : i \in DOMAIN accepted \/ i = Len(accepted) + 1
      BY <3>2
    <3>4. \A i, j \in DOMAIN accepted' : accepted'[i] = accepted'[j] => i = j
      BY <3>2, <3>3 DEF LinkInv
    <3>5. \A c \in Clients : Has(c)' => Has(c) \/ c = d
      BY <3>2, <3>3 DEF Has
    <3>6. \A c \in Clients : main'[c] = main[c]
      BY <1>2 DEF clientVars
    <3>7. lobby \subseteq Clients
      BY DEF TypeInv, TypeOK, ControllerTypeOK
    <3> QED
      BY <2>2, <3>4, <3>5, <3>6, <3>7 DEF LinkInv
  <2> QED
    BY <1>2, <2>1, <2>2 DEF handle_accept
<1>3. CASE Controller /\ ~handle_accept
  <2>1. UNCHANGED <<accepted, lobby>>
    BY <1>3 DEF Controller, ControllerStep, poll_returns, poll_fails, handle_stdin, send_next,
                send_done, wait_duration, destroy_state, linkVars
  <2> QED
    BY <1>1, <1>3, <2>1 DEF Controller, clientVars
<1>4. CASE User \/ Interrupt
  BY <1>1, <1>4, UserFrame, InterruptFrame DEF linkVars, clientVars
<1>5. ASSUME NEW c \in Clients, init_state(c) PROVE LinkInv'
  <2>1. main[c] = "init" /\ lobby' = lobby \cup {c} /\ UNCHANGED accepted
    BY <1>5 DEF init_state, ctlVars
  <2>2. main'[c] # "init" /\ \A d \in Clients : d # c => main'[d] = main[d]
    BY <1>5 DEF init_state, Goes, TypeInv, TypeOK
  <2>3. ~Has(c)
    BY <2>1 DEF LinkInv
  <2> QED
    BY <2>1, <2>2, <2>3 DEF LinkInv, Has
<1>6. ASSUME NEW c \in Clients, MainStep(c), ~init_state(c) PROVE LinkInv'
  <2>1. UNCHANGED <<accepted, lobby>>
    BY <1>6 DEF MainStep, handle_controller, poll_controller_fails, read_data, read_data_fails,
                create_thread, stop_threads_cancel, stop_threads_join, controllerVars, ctlVars,
                linkVars
  <2>2. main[c] # "init" /\ \A d \in Clients : d # c => main'[d] = main[d]
    BY <1>6 DEF MainStep, handle_controller, poll_controller_fails, read_data, read_data_fails,
                create_thread, stop_threads_cancel, stop_threads_join, Goes, TypeInv, TypeOK
  <2>3. main'[c] # "init"
    BY <1>6 DEF MainStep, handle_controller, poll_controller_fails, read_data, read_data_fails,
                create_thread, stop_threads_cancel, stop_threads_join, Goes, OnStop, TypeInv,
                TypeOK
  <2> QED
    BY <1>1, <2>1, <2>2, <2>3
<1>7. ASSUME NEW c \in Clients, NEW t \in Threads, ThreadStep(c, t) PROVE LinkInv'
  BY <1>1, <1>7, ThreadType DEF controllerVars, ctlVars, linkVars
<1>8. ASSUME NEW c \in Clients, NEW t \in Threads, request_sigpipe(c, t) PROVE LinkInv'
  <2>1. UNCHANGED <<accepted, lobby>> /\ main' = [main EXCEPT ![c] = "exited"]
    BY <1>8, SigpipeType DEF ctlVars
  <2>2. \A d \in Clients : main'[d] = "init" => main[d] = "init"
    BY <2>1 DEF TypeInv, TypeOK
  <2> QED
    BY <1>1, <2>1, <2>2
<1>9. CASE UNCHANGED vars
  BY <1>1, <1>9 DEF vars, clientVars, controllerVars, ctlVars, linkVars
<1> QED
  BY <1>2, <1>3, <1>4, <1>5, <1>6, <1>7, <1>8, <1>9 DEF Next, Controller

LEMMA ScriptStep == TypeInv /\ LinkInv /\ ScriptInv /\ [Next]_vars => ScriptInv'
<1> SUFFICES ASSUME TypeInv, LinkInv, ScriptInv, [Next]_vars PROVE ScriptInv'
  OBVIOUS
<1>1. CASE Controller \/ User \/ Interrupt
  BY <1>1, LoopOther, LoopTurn DEF Controller, ControllerStep
<1>2. ASSUME UNCHANGED <<ctl, next, accepted, sent, started, sig_quit>>, left \subseteq left'
      PROVE  ScriptInv'
  BY <1>2, LoopKept, FormKept DEF ScriptInv
<1>3. ASSUME NEW c \in Clients, MainStep(c) PROVE ScriptInv'
  BY <1>2, <1>3 DEF MainStep, init_state, handle_controller, poll_controller_fails, read_data,
                    read_data_fails, create_thread, stop_threads_cancel, stop_threads_join,
                    controllerVars, ctlVars, linkVars
<1>4. ASSUME NEW c \in Clients, NEW t \in Threads, ThreadStep(c, t) \/ request_sigpipe(c, t)
      PROVE  ScriptInv'
  BY <1>2, <1>4, ThreadType, SigpipeType DEF controllerVars, ctlVars, linkVars
<1>5. CASE UNCHANGED vars
  BY <1>2, <1>5 DEF vars, controllerVars, ctlVars, linkVars
<1> QED
  BY <1>1, <1>3, <1>4, <1>5 DEF Next

\* A client's own step over the messages it was sent.
LEMMA ReadMain ==
    ASSUME TypeInv, FormInv, ReadInv, NEW c \in Clients, MainStep(c)
    PROVE  ReadInv'
<1>1. UNCHANGED <<sent, ctl>>
  BY DEF MainStep, init_state, handle_controller, poll_controller_fails, read_data,
         read_data_fails, create_thread, stop_threads_cancel, stop_threads_join, controllerVars,
         ctlVars, linkVars
<1>2. \A d \in Clients : d # c => main'[d] = main[d] /\ nread'[d] = nread[d]
  BY DEF MainStep, init_state, handle_controller, poll_controller_fails, read_data,
         read_data_fails, create_thread, stop_threads_cancel, stop_threads_join, Goes, Consumes,
         TypeInv, TypeOK
<1>3. PICK n \in 0 .. 3, w \in {"DATA", "STOP"} : Told(sent[c], n, w) /\ (n = 3 => w = "DATA")
  BY DEF FormInv
<1> DEFINE s == sent[c]
           k == nread[c]
<1>4. /\ s \in Seq(Words) /\ k \in Nat /\ k <= Len(s) /\ Len(s) <= 3
      /\ Len(s) >= 1 => s[1] = "START"
      /\ Len(s) >= 2 => s[2] \in {"DATA", "CUT", "STOP"}
      /\ Len(s) = 3 => s[3] = "STOP" /\ s[2] \in {"DATA", "CUT"}
  <2>1. s \in Seq(Words) /\ k \in Nat /\ k <= Len(s)
    BY DEF TypeInv, TypeOK, ControllerTypeOK, Words
  <2> HIDE DEF s, k
  <2>2. Told(s, n, w)
    BY <1>3 DEF s
  <2> QED
    BY <1>3, <2>1, <2>2, ToldIs
<1>5. ReadOf(c)
  BY DEF ReadInv
<1>6. ReadOf(c)' => ReadInv'
  BY <1>1, <1>2 DEF ReadInv, ReadOf, Ended
<1>7. s' = s /\ (Ended' <=> Ended)
  BY <1>1 DEF Ended
<1>8. ASSUME NEW l, Goes(c, l) PROVE main'[c] = l
  BY <1>8 DEF Goes, TypeInv, TypeOK
<1>9. Consumes(c) => nread'[c] = k + 1
  BY DEF Consumes, Consumed, TypeInv, TypeOK
<1>10. /\ HasMessage(c) <=> k < Len(s)
       /\ NextMessage(c) = s[k + 1]
       /\ AtEnd(c) => Ended /\ k = Len(s)
  BY DEF HasMessage, NextMessage, AtEnd
<1> HIDE DEF s, k
<1>11. k = 2 /\ k < Len(s) => Len(s) = 3 /\ k + 1 = 3
  <2> DEFINE l == Len(s)
  <2>1. l \in Nat /\ l <= 3
    BY <1>4
  <2> HIDE DEF l
  <2>2. k = 2 /\ k < l => l = 3 /\ k + 1 = 3
    BY <2>1
  <2> QED
    BY <2>2 DEF l
<1> USE <1>4
<1>12. CASE init_state(c)
  <2>1. main[c] = "init" /\ nread'[c] = k /\ main'[c] \in {"poll", "exited"}
    BY <1>8, <1>12 DEF init_state, k
  <2> QED
    BY <1>5, <1>6, <2>1 DEF ReadOf, k
<1>13. CASE handle_controller(c)
  <2>1. main[c] = "poll"
    BY <1>13 DEF handle_controller
  <2>2. CASE HasMessage(c)
    <3>1. k < Len(s) /\ nread'[c] = k + 1
      BY <1>9, <1>10, <1>13, <2>2 DEF handle_controller
    <3>2. k = 0 \/ (k = 2 /\ s[2] = "DATA")
      BY <1>5, <2>1, <3>1 DEF ReadOf, k, s
    <3>3. CASE k = 0
      <4>1. NextMessage(c) = "START"
        BY <1>10, <3>1, <3>3
      <4>2. main'[c] = "data" /\ nread'[c] = 1
        BY <1>8, <1>13, <2>2, <3>1, <3>3, <4>1 DEF handle_controller
      <4> QED
        BY <1>6, <4>2 DEF ReadOf
    <3>4. CASE k = 2
      <4>1. NextMessage(c) = "STOP"
        <5>1. k + 1 = 3 /\ Len(s) = 3
          BY <1>11, <3>1, <3>4
        <5> QED
          BY <1>10, <5>1
      <4>2. main'[c] = "stop"
        BY <1>8, <1>13, <2>2, <4>1 DEF handle_controller, OnStop
      <4> QED
        BY <1>6, <4>2 DEF ReadOf
    <3> QED
      BY <3>2, <3>3, <3>4
  <2>3. CASE ~HasMessage(c)
    <3>1. Ended /\ k = Len(s) /\ nread'[c] = k
      BY <1>10, <1>13, <2>3 DEF handle_controller, k
    <3>2. main'[c] \in {"spin", "stop"}
      BY <1>8, <1>13, <2>3 DEF handle_controller
    <3>3. Len(s) # 3 \/ s[2] = "CUT"
      BY <1>5, <2>1, <3>1 DEF ReadOf, k, s
    <3> QED
      BY <1>6, <1>7, <3>1, <3>2, <3>3 DEF ReadOf, s
  <2> QED
    BY <2>2, <2>3
<1>14. CASE read_data(c)
  <2>1. main[c] = "data"
    BY <1>14 DEF read_data
  <2>2. CASE HasMessage(c)
    <3>1. k < Len(s) /\ nread'[c] = k + 1
      BY <1>9, <1>10, <1>14, <2>2 DEF read_data
    <3>2. k = 1 \/ (k = 2 /\ s[2] = "CUT" /\ Len(s) = 3)
      <4>1. k = 1 \/ (k = 2 /\ s[2] \in {"CUT", "STOP"}) \/ k = 3
        BY <1>5, <2>1 DEF ReadOf, k, s
      <4>2. k = 2 => Len(s) = 3
        BY <1>11, <3>1
      <4> QED
        BY <3>1, <4>1, <4>2
    <3>3. \/ (NextMessage(c) = "DATA" \/ Completes(c)) /\ main'[c] = "create"
          \/ NextMessage(c) # "DATA" /\ main'[c] = main[c]
      BY <1>8, <1>14, <2>2 DEF read_data
    <3>4. CASE k = 1
      <4>1. NextMessage(c) = s[2] /\ s[2] \in {"DATA", "CUT", "STOP"} /\ ~Completes(c)
        BY <1>10, <3>1, <3>4 DEF Completes, s, k
      <4> QED
        BY <1>6, <1>7, <2>1, <3>1, <3>3, <3>4, <4>1 DEF ReadOf, s
    <3>5. CASE k = 2 /\ s[2] = "CUT" /\ Len(s) = 3
      BY <1>6, <1>7, <2>1, <3>1, <3>3, <3>5 DEF ReadOf, s
    <3> QED
      BY <3>2, <3>4, <3>5
  <2>3. CASE ~HasMessage(c)
    <3>1. Ended /\ k = Len(s) /\ main'[c] = "spin"
      BY <1>8, <1>10, <1>14, <2>3 DEF read_data
    <3>2. Len(s) # 3 \/ s[2] = "CUT"
      BY <1>5, <2>1, <3>1 DEF ReadOf, k, s
    <3> QED
      BY <1>6, <1>7, <3>1, <3>2 DEF ReadOf, s
  <2> QED
    BY <2>2, <2>3
<1>15. CASE create_thread(c)
  <2>1. main[c] = "create" /\ nread'[c] = k /\ main'[c] \in {"poll", "create", "stop"}
    BY <1>8, <1>15 DEF create_thread, k
  <2> QED
    BY <1>5, <1>6, <1>7, <2>1 DEF ReadOf, k, s
<1>16. CASE poll_controller_fails(c) \/ read_data_fails(c) \/ stop_threads_cancel(c)
            \/ stop_threads_join(c)
  <2>1. main'[c] \in {"stop", "join", "exited"}
    BY <1>8, <1>16
       DEF poll_controller_fails, read_data_fails, stop_threads_cancel, stop_threads_join
  <2> QED
    BY <1>6, <2>1 DEF ReadOf
<1> QED
  BY <1>12, <1>13, <1>14, <1>15, <1>16 DEF MainStep

LEMMA ReadStep == TypeInv /\ FormInv /\ ReadInv /\ [Next]_vars => ReadInv'
<1> SUFFICES ASSUME TypeInv, FormInv, ReadInv, [Next]_vars PROVE ReadInv'
  OBVIOUS
<1>1. CASE Controller \/ Interrupt
  <2>1. UNCHANGED <<main, nread>> /\ SentGrows /\ ~Ended
    BY <1>1, ControllerType, SendingIs, InterruptFrame
       DEF Controller, clientVars, ControllerStep, Ended, poll_returns, poll_fails, handle_accept,
           handle_stdin, send_next, send_done, wait_duration, destroy_state
  <2>2. \A c \in Clients : nread[c] >= 2 => sent'[c][2] = sent[c][2]
    <3> SUFFICES ASSUME NEW c \in Clients, nread[c] >= 2 PROVE sent'[c][2] = sent[c][2]
      OBVIOUS
    <3>1. 2 <= Len(sent[c]) /\ Len(sent[c]) \in Nat
      BY DEF TypeInv, TypeOK, ControllerTypeOK
    <3> QED
      BY <2>1, <3>1 DEF SentGrows
  <2> QED
    BY <2>1, <2>2 DEF ReadInv, ReadOf
<1>2. ASSUME UNCHANGED <<main, nread, sent>>, Ended => Ended' PROVE ReadInv'
  BY <1>2 DEF ReadInv, ReadOf
<1>3. CASE User
  BY <1>2, <1>3, UserFrame DEF clientVars, linkVars, Ended
<1>4. ASSUME NEW c \in Clients, MainStep(c) PROVE ReadInv'
  BY <1>4, ReadMain
<1>5. ASSUME NEW c \in Clients, NEW t \in Threads, ThreadStep(c, t) PROVE ReadInv'
  BY <1>2, <1>5, ThreadType DEF controllerVars, ctlVars, linkVars, Ended
<1>6. ASSUME NEW c \in Clients, NEW t \in Threads, request_sigpipe(c, t) PROVE ReadInv'
  <2>1. /\ UNCHANGED <<nread, sent, ctl>> /\ main'[c] = "exited"
        /\ \A d \in Clients : d # c => main'[d] = main[d]
    BY <1>6, SigpipeType DEF ctlVars, TypeInv, TypeOK
  <2> QED
    BY <2>1 DEF ReadInv, ReadOf, Ended
<1>7. CASE UNCHANGED vars
  BY <1>2, <1>7 DEF vars, clientVars, controllerVars, ctlVars, linkVars, Ended
<1> QED
  BY <1>1, <1>3, <1>4, <1>5, <1>6, <1>7 DEF Next

TestInv == TypeInv /\ LinkInv /\ ScriptInv /\ ReadInv

LEMMA TestInvariant == FairSpec => []TestInv
<1>1. Init => TestInv
  <2> SUFFICES ASSUME Init PROVE LinkInv /\ ScriptInv /\ ReadInv
    BY InitTypeInv DEF TestInv
  <2>1. /\ accepted = <<>> /\ lobby = {} /\ ctl = "poll" /\ started = FALSE
        /\ \A c \in Clients : sent[c] = <<>> /\ main[c] = "init" /\ nread[c] = 0
    BY DEF Init, InitController
  <2>2. DOMAIN accepted = {} /\ \A c \in Clients : Len(sent[c]) = 0
    BY <2>1
  <2>3. 0 \in 0 .. 3
    OBVIOUS
  <2>4. FormInv
    <3>1. \A c \in Clients : Told(sent[c], 0, "DATA")
      <4>1. ASSUME NEW s, Len(s) = 0 PROVE Told(s, 0, "DATA")
        BY <4>1 DEF Told
      <4> QED
        BY <2>2, <4>1
    <3> QED
      BY <2>3, <3>1 DEF FormInv
  <2>5. LinkInv /\ LoopInv /\ ReadInv
    BY <2>1, <2>2 DEF LinkInv, LoopInv, ReadInv, ReadOf, Has
  <2> QED
    BY <2>4, <2>5 DEF ScriptInv
<1>2. TestInv /\ [Next]_vars => TestInv'
  BY TypeStep, LinkStep, ScriptStep, ReadStep DEF TestInv, ScriptInv
<1> QED
  BY <1>1, <1>2, PTL DEF FairSpec

\* A controller that ends has told every client that is there one script, whatever failed; only what
\* SIGINT interrupts a client may have less of: the end of its DATA, or its STOP.
THEOREM SameScriptForAll == FairSpec => []SameScript
<1>1. TestInv => SameScript
  <2> SUFFICES ASSUME TestInv, ctl = "exited"
               PROVE  \E s \in {<<>>, <<"START", "STOP">>, Script} :
                          \A c \in Clients : Has(c) /\ c \notin left =>
                              sent[c] = s \/ (s = Script /\ sig_quit /\ sent[c] \in Abridged)
    BY DEF SameScript
  <2>1. ASSUME NEW c \in Clients, Has(c), c \notin left, NEW n, NEW w, AllTold(n, w)
        PROVE  /\ Told(sent[c], n, w) /\ (sig_quit \/ Whole(sent[c], n, w))
               /\ sent[c] \in Seq(Words)
    BY <2>1, AcceptedFacts DEF AllTold, Has, TestInv
  <2>2. CASE AllTold(0, "DATA")
    <3>1. \A c \in Clients : Has(c) /\ c \notin left => sent[c] = <<>>
      BY <2>1, <2>2, EmptySeq DEF Told
    <3> QED
      BY <3>1
  <2>3. CASE AllTold(2, "STOP")
    <3>1. ASSUME NEW c \in Clients, Has(c), c \notin left PROVE sent[c] = <<"START", "STOP">>
      <4> DEFINE s == sent[c]
      <4>1. s \in Seq(Words) /\ Told(s, 2, "STOP")
        BY <2>1, <2>3, <3>1
      <4> HIDE DEF s
      <4>2. s = <<"START", "STOP">>
        BY <4>1 DEF Told
      <4> QED
        BY <4>2 DEF s
    <3> QED
      BY <3>1
  <2>4. CASE AllTold(3, "DATA")
    <3>1. ASSUME NEW c \in Clients, Has(c), c \notin left
          PROVE  sent[c] = Script \/ (sig_quit /\ sent[c] \in Abridged)
      <4> DEFINE s == sent[c]
      <4>1. s \in Seq(Words) /\ Told(s, 3, "DATA") /\ (sig_quit \/ Whole(s, 3, "DATA"))
        BY <2>1, <2>4, <3>1
      <4> HIDE DEF s
      <4>2. CASE Len(s) = 3
        <5>1. s = <<"START", s[2], "STOP">> /\ s[2] \in {"DATA", "CUT"}
          BY <4>1, <4>2 DEF Told
        <5>2. s[2] = "CUT" => sig_quit
          BY <4>1 DEF Whole
        <5> QED
          BY <5>1, <5>2 DEF Script, Abridged, s
      <4>3. CASE Len(s) = 2
        <5>1. s = <<"START", s[2]>> /\ s[2] \in {"DATA", "CUT"} /\ sig_quit
          BY <4>1, <4>3 DEF Told, Whole
        <5> QED
          BY <5>1 DEF Abridged, s
      <4> QED
        BY <4>1, <4>2, <4>3 DEF Told
    <3> QED
      BY <3>1
  <2>5. AllTold(0, "DATA") \/ AllTold(2, "STOP") \/ AllTold(3, "DATA")
    BY DEF TestInv, ScriptInv, LoopInv
  <2> QED
    BY <2>2, <2>3, <2>4, <2>5
<1> QED
  BY <1>1, TestInvariant, PTL

\* A client that spins on a closed connection was not told the whole script.
THEOREM ToldClientsDoNotSpin == FairSpec => []SpinsOnlyUntold
<1>1. TestInv => SpinsOnlyUntold
  <2>1. Len(Script) = 3 /\ Script[2] = "DATA"
    BY DEF Script
  <2> QED
    BY <2>1 DEF TestInv, ReadInv, ReadOf, SpinsOnlyUntold
<1> QED
  BY <1>1, TestInvariant, PTL
-----------------------------------------------------------------------------
(***************************************************************************)
(* The log's mutex, and what the main thread's joins wait for.             *)
(***************************************************************************)

\* The mutex is held by the thread that writes the log, and by no other that is alive.
LockOf(c) ==
    \A t \in Threads :
        /\ thread[c][t] = "log" => log_lock[c] = t
        /\ log_lock[c] = t => \/ thread[c][t] = "log"
                              \/ "stdio" \in Faults /\ t \in cancelled[c] /\ thread[c][t] = "ended"

\* Every thread that was created is cancelled before the first is joined, and has ended when the
\* process does.
JoinOf(c) ==
    /\ main[c] \notin {"join", "exited"} => cancelled[c] = {}
    /\ main[c] = "join" => cancelled[c] = Created(c)
    /\ main[c] = "init" => \A t \in Threads : thread[c][t] = "none"
    /\ main[c] = "exited" => \A t \in Threads : thread[c][t] \in {"none", "ended"}

LockInv == \A c \in Clients : LockOf(c)
JoinInv == \A c \in Clients : JoinOf(c)

LEMMA MutexMain ==
    ASSUME TypeInv, LockInv, JoinInv, NEW c \in Clients, MainStep(c)
    PROVE  LockInv' /\ JoinInv'
<1>0. /\ main \in [Clients -> MainAt] /\ thread \in [Clients -> [Threads -> ThreadAt]]
      /\ cancelled \in [Clients -> SUBSET Threads] /\ LockOf(c) /\ JoinOf(c)
  BY DEF TypeInv, TypeOK, MainAt, ThreadAt, LockInv, JoinInv
<1>1. /\ UNCHANGED log_lock
      /\ \A d \in Clients : d # c => /\ main'[d] = main[d] /\ thread'[d] = thread[d]
                                     /\ cancelled'[d] = cancelled[d]
  BY <1>0 DEF MainStep, init_state, handle_controller, poll_controller_fails, read_data,
              read_data_fails, create_thread, stop_threads_cancel, stop_threads_join, Goes,
              controllerVars
<1>2. ASSUME NEW l, Goes(c, l) PROVE main'[c] = l
  BY <1>0, <1>2 DEF Goes
<1>3. LockOf(c)' /\ JoinOf(c)'
  <2>1. CASE init_state(c)
    <3>1. main[c] = "init" /\ UNCHANGED <<thread, cancelled>> /\ main'[c] \in {"poll", "exited"}
      BY <1>2, <2>1 DEF init_state
    <3> QED
      BY <1>0, <1>1, <3>1 DEF LockOf, JoinOf
  <2>2. CASE \/ handle_controller(c) \/ poll_controller_fails(c)
             \/ read_data(c) \/ read_data_fails(c)
    <3>1. main[c] \in {"poll", "data"} /\ UNCHANGED <<thread, cancelled>>
          /\ main'[c] \notin {"init", "join", "exited"}
      BY <1>2, <2>2 DEF handle_controller, poll_controller_fails, read_data, read_data_fails,
                        OnStop
    <3> QED
      BY <1>0, <1>1, <3>1 DEF LockOf, JoinOf
  <2>3. CASE create_thread(c)
    <3>1. main[c] = "create" /\ UNCHANGED cancelled /\ main'[c] \notin {"init", "join", "exited"}
      BY <1>2, <2>3 DEF create_thread
    <3>2. \/ UNCHANGED thread
          \/ \E t \in Threads : thread[c][t] = "none" /\ thread' = [thread EXCEPT ![c][t] = "request"]
      BY <1>0, <2>3 DEF create_thread, Created
    <3>3. cancelled[c] = {}
      BY <1>0, <3>1 DEF JoinOf
    <3> QED
      BY <1>0, <1>1, <3>1, <3>2, <3>3 DEF LockOf, JoinOf
  <2>4. CASE stop_threads_cancel(c)
    <3>1. main[c] = "stop" /\ main'[c] = "join" /\ UNCHANGED thread /\ cancelled'[c] = Created(c)
      BY <1>0, <1>2, <2>4 DEF stop_threads_cancel, ToCancel, Created
    <3>2. cancelled[c] = {}
      BY <1>0, <3>1 DEF JoinOf
    <3> QED
      BY <1>0, <1>1, <3>1, <3>2 DEF LockOf, JoinOf, Created
  <2>5. CASE stop_threads_join(c)
    <3>1. main[c] = "join" /\ main'[c] = "exited" /\ UNCHANGED <<thread, cancelled>>
          /\ \A t \in Created(c) : thread[c][t] = "ended"
      BY <1>2, <2>5 DEF stop_threads_join
    <3> QED
      BY <1>0, <1>1, <3>1 DEF LockOf, JoinOf, Created
  <2> QED
    BY <2>1, <2>2, <2>3, <2>4, <2>5 DEF MainStep
<1>4. ASSUME NEW d \in Clients PROVE LockOf(d)' /\ JoinOf(d)'
  <2>1. CASE d # c
    BY <1>1, <2>1 DEF LockInv, JoinInv, LockOf, JoinOf, Created
  <2> QED
    BY <1>3, <2>1
<1> QED
  BY <1>4 DEF LockInv, JoinInv

LEMMA MutexThread ==
    ASSUME TypeInv, LockInv, JoinInv, NEW c \in Clients, NEW t \in Threads, ThreadStep(c, t)
    PROVE  LockInv' /\ JoinInv'
<1> USE DEF TypeInv, TypeOK
<1>1. UNCHANGED <<main, cancelled>> /\ main[c] # "exited"
  BY ThreadType
  DEF ThreadStep, ThreadRuns, request, request_fails, lock_log, log_and_unlock, cancel, Moves
<1>2. PICK from, to \in ThreadAt \ {"none"} : thread[c][t] = from /\ thread' = [thread EXCEPT ![c][t] = to]
  BY DEF ThreadStep, ThreadRuns, request, request_fails, lock_log, log_and_unlock, cancel, Moves,
         ThreadAt, CancelPoints
<1>3. JoinInv'
  BY <1>1, <1>2 DEF JoinInv, JoinOf, Created, ThreadAt
<1>4. LockInv'
  <2>1. CASE lock_log(c, t)
    <3>1. /\ log_lock[c] = NoThread /\ log_lock' = [log_lock EXCEPT ![c] = t]
          /\ thread' = [thread EXCEPT ![c][t] = "log"]
      BY <2>1 DEF lock_log, Moves
    <3> QED
      BY <1>1, <3>1, ThreadsAssumption DEF LockInv, LockOf
  <2>2. CASE log_and_unlock(c, t)
    <3>1. /\ thread[c][t] = "log" /\ log_lock' = [log_lock EXCEPT ![c] = NoThread]
          /\ thread' = [thread EXCEPT ![c][t] = "request"]
      BY <2>2 DEF log_and_unlock, Moves
    <3> QED
      BY <1>1, <3>1, ThreadsAssumption DEF LockInv, LockOf
  <2>3. CASE request(c, t) \/ request_fails(c, t)
    <3>1. /\ thread[c][t] = "request" /\ UNCHANGED log_lock
          /\ \E l \in {"lock", "ended"} : thread' = [thread EXCEPT ![c][t] = l]
      BY <2>3 DEF request, request_fails, Moves
    <3> QED
      BY <1>1, <3>1 DEF LockInv, LockOf
  <2>4. CASE cancel(c, t)
    <3>1. /\ t \in cancelled[c] /\ UNCHANGED log_lock
          /\ thread' = [thread EXCEPT ![c][t] = "ended"]
          /\ thread[c][t] = "request" \/ (thread[c][t] = "log" /\ "stdio" \in Faults)
      BY <2>4 DEF cancel, Moves, CancelPoints
    <3> QED
      BY <1>1, <3>1 DEF LockInv, LockOf
  <2> QED
    BY <2>1, <2>2, <2>3, <2>4 DEF ThreadStep, ThreadRuns
<1> QED
  BY <1>3, <1>4

MutexInv == TypeInv /\ LockInv /\ JoinInv

LEMMA MutexInvariant == FairSpec => []MutexInv
<1>1. Init => MutexInv
  BY InitTypeInv, ThreadsAssumption DEF Init, MutexInv, LockInv, JoinInv, LockOf, JoinOf
<1>2. MutexInv /\ [Next]_vars => MutexInv'
  <2> SUFFICES ASSUME MutexInv, [Next]_vars PROVE LockInv' /\ JoinInv'
    BY TypeStep DEF MutexInv
  <2>1. ASSUME NEW c \in Clients, MainStep(c) PROVE LockInv' /\ JoinInv'
    BY <2>1, MutexMain DEF MutexInv
  <2>2. ASSUME NEW c \in Clients, NEW t \in Threads, ThreadStep(c, t) PROVE LockInv' /\ JoinInv'
    BY <2>2, MutexThread DEF MutexInv
  <2>3. ASSUME NEW c \in Clients, NEW t \in Threads, request_sigpipe(c, t)
        PROVE  LockInv' /\ JoinInv'
    <3>1. /\ UNCHANGED cancelled /\ main' = [main EXCEPT ![c] = "exited"]
          /\ thread' = [thread EXCEPT ![c] = [u \in Threads |-> "ended"]]
          /\ log_lock' = [log_lock EXCEPT ![c] = NoThread]
      BY <2>3, SigpipeType DEF MutexInv
    <3>2. ASSUME NEW d \in Clients PROVE LockOf(d)' /\ JoinOf(d)'
      <4>1. CASE d = c
        BY <3>1, <4>1, ThreadsAssumption DEF LockOf, JoinOf, MutexInv, TypeInv, TypeOK
      <4>2. CASE d # c
        <5>1. /\ main'[d] = main[d] /\ thread'[d] = thread[d] /\ cancelled'[d] = cancelled[d]
              /\ log_lock'[d] = log_lock[d]
          BY <3>1, <4>2 DEF MutexInv, TypeInv, TypeOK
        <5> QED
          BY <5>1 DEF MutexInv, LockInv, JoinInv, LockOf, JoinOf, Created
      <4> QED
        BY <4>1, <4>2
    <3> QED
      BY <3>2 DEF LockInv, JoinInv
  <2>4. CASE Controller \/ User \/ Interrupt \/ UNCHANGED vars
    <3>1. UNCHANGED <<main, thread, cancelled, log_lock>>
      BY <2>4 DEF Controller, User, Interrupt, vars, clientVars
    <3> QED
      BY <3>1 DEF MutexInv, LockInv, JoinInv, LockOf, JoinOf, Created
  <2> QED
    BY <2>1, <2>2, <2>3, <2>4 DEF Next
<1> QED
  BY <1>1, <1>2, PTL DEF FairSpec

\* At most one thread of a client writes its log, and the mutex is taken by one that does, unless it
\* was cancelled while it wrote, which needs a C library that makes a cancellation point of that.
LogIsExclusive ==
    \A c \in Clients :
        /\ \A t, u \in Threads : thread[c][t] = "log" /\ thread[c][u] = "log" => t = u
        /\ log_lock[c] # NoThread => \/ \E t \in Threads : log_lock[c] = t /\ thread[c][t] = "log"
                                     \/ LockAbandoned(c) /\ "stdio" \in Faults

\* For any number of threads: the log of a client is written by one at a time.
THEOREM LogMutex == FairSpec => []LogIsExclusive
<1>1. MutexInv => LogIsExclusive
  BY DEF MutexInv, TypeInv, TypeOK, LockInv, LockOf, LogIsExclusive, LockAbandoned
<1> QED
  BY <1>1, MutexInvariant, PTL

\* A thread that goes on whatever the server does: cancelled where cancellation acts, writing the
\* log, or at the mutex while it is free.
GoesOn(c, t) ==
    \/ thread[c][t] = "request" /\ t \in cancelled[c]
    \/ thread[c][t] = "lock" /\ log_lock[c] = NoThread
    \/ thread[c][t] = "log"

\* While the main thread joins, all its threads have ended or one of them goes on without the
\* server, unless the mutex has been abandoned; and a process that has exited left none running.
JoinsCanEnd ==
    \A c \in Clients :
        /\ main[c] = "join" =>
              \/ \A t \in Created(c) : thread[c][t] = "ended"
              \/ \E t \in Created(c) : GoesOn(c, t)
              \/ LockAbandoned(c)
        /\ main[c] = "exited" => \A t \in Created(c) : thread[c][t] = "ended"

\* The safety half of TestEnds, for any number of threads: the joins of stop_threads wait for the
\* server never, and for each other's mutex only when a cancelled thread has taken it along.
THEOREM NoThreadHoldsUpStop == FairSpec => []JoinsCanEnd
<1>1. MutexInv => JoinsCanEnd
  <2> SUFFICES ASSUME MutexInv, NEW c \in Clients
               PROVE  /\ main[c] = "join" =>
                            \/ \A t \in Created(c) : thread[c][t] = "ended"
                            \/ \E t \in Created(c) : GoesOn(c, t)
                            \/ LockAbandoned(c)
                      /\ main[c] = "exited" => \A t \in Created(c) : thread[c][t] = "ended"
    BY DEF JoinsCanEnd
  <2>1. main[c] = "exited" => \A t \in Created(c) : thread[c][t] = "ended"
    BY DEF MutexInv, JoinInv, JoinOf, Created
  <2>2. ASSUME main[c] = "join", NEW t \in Created(c), thread[c][t] # "ended"
        PROVE  (\E u \in Created(c) : GoesOn(c, u)) \/ LockAbandoned(c)
    <3>1. /\ t \in Threads /\ t \in cancelled[c] /\ thread[c][t] \in {"request", "lock", "log"}
          /\ log_lock[c] \in Threads \cup {NoThread}
      BY <2>2 DEF MutexInv, JoinInv, JoinOf, Created, TypeInv, TypeOK
    <3>2. CASE thread[c][t] # "lock" \/ log_lock[c] = NoThread
      BY <3>1, <3>2 DEF GoesOn
    <3>3. CASE log_lock[c] \in Threads
      <4>1. PICK u \in Threads : u = log_lock[c]
        BY <3>3
      <4>2. \/ thread[c][u] = "log"
            \/ u \in cancelled[c] /\ thread[c][u] = "ended"
        BY <4>1 DEF MutexInv, LockInv, LockOf
      <4> QED
        BY <4>1, <4>2 DEF GoesOn, Created, LockAbandoned
    <3> QED
      BY <3>1, <3>2, <3>3
  <2> QED
    BY <2>1, <2>2
<1> QED
  BY <1>1, MutexInvariant, PTL
=============================================================================
