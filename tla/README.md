# Formal models of the scalable server

TLA+ models of the servers in this repository, checked with TLC on small
instances and, where a proof is given, with TLAPS for every instance.  Every
definition is read off the C source; `PROJECT.json` (`map`) names the lines each
one stands for.

## The system

`core` loads one of three server libraries and drives it through
`initialize_server`, `run_server` and `close_server`.  A server accepts TCP
connections, receives on each a 32-bit length and a message of that length, logs
the transfer, and answers with the number of bytes it received.  `client`
processes, steered by `client-controller`, produce the load.

| component | state | operations | interacts with |
|---|---|---|---|
| process server: parent (`process_server.c`, `setup_teardown.c`) | `pollfds` (listening socket, pipe, client slots), `num_connections`, `GOGO_PROCESS` | poll, accept, dispatch, re-enable, remove, signal children, wait, close | children by domain socket, pipe, four semaphores and signals; clients by TCP; `core` by return codes |
| process server: children | the descriptor received and its number in the parent, `bytes_read`, `GOGO_PROCESS` | receive a descriptor, receive a message, inform the parent, log, answer | parent; each other through the semaphores and the log |
| process server: setup | pipe, named semaphores, socket pair, process ids | open, fork, listen, unlink | kernel objects that outlive a run |
| process server: log | one `FILE` buffer per process over one open file | header, one row per message | `log_sem` |
| poll server (`poll_server.c`) | local `pollfds`, `so->client_fd`, `num_connections`, `GOGO_POLL` | poll, accept, receive, answer, remove, close | clients; `core` |
| one-to-one server (`one_to_one.c`) | `listen_fd`, `client_fd`, the pipe it writes to itself, the `SIGINT` handler | open, accept, receive, log, answer, destroy | one client at a time; `core` |
| core (`core/src`) | core object, loaded library, `next_state`, exit status | set up, load, run the state machine, destroy | the library's three functions |
| client (`client/src`) | the controller's connection, thread ids and their number, log file and its mutex | read commands and data, start, cancel and join threads; each thread: connect, send, read the answer, log | a server; the controller |
| client controller (`client-controller/src`) | `listen_fd`, `accepted_fds`, `num_conns`, `started`, `sig_quit` | accept, read a line, send start, data and stop, wait, close | clients; its user |

What is hard here, and what would make each part right:

* **The hand-over of a connection** (process server).  The parent passes a
  descriptor to a child and negates the slot's `fd` so that `poll` ignores it;
  the child sends the *number* of the descriptor back through the pipe when it
  has the message, and only then logs and answers.  Everything rests on the
  number still meaning the same connection when it arrives, on no other child
  having the connection meanwhile, and on the semaphores letting exactly one
  message into each channel.
* **Blocking inside the loop.**  The parent waits for a semaphore inside its scan
  of the sockets; children wait for another one that only the parent's loop
  releases.
* **Counters at their limit.**  Both polling servers turn `POLLIN` on the
  listening socket off and on by comparing an unsigned counter with
  `MAX_CONNECTIONS`.
* **Kernel behaviour.**  What `poll` reports for a closed or reset peer differs
  between Linux and macOS; `send` to such a peer raises SIGPIPE; an empty slot is
  `fd` 0, standard input.
* **What outlives a run** (process server).  The four semaphores have fixed names and
  are opened with `O_CREAT` alone: a run finds those a crashed one left, shares those
  of a run beside it, and unlinks whatever has the names; children of a parent that
  died, or that gave its setup up, go on waiting on them.
* **Going down.**  A signal sets a flag between or during blocking calls, in one
  process or in all; children exit by error or by SIGPIPE at any step.
* **Messages of one server among several clients** (poll server, one-to-one): one
  client's fault or silence must not hurt the others, or is known to.
* **Command protocol, thread start and stop** (client, controller): all clients
  are told the same, whoever leaves, and what an interrupted write takes it takes from
  one client; every thread that was started can be joined.

The hazards, line by line, with the property that watches each, are `hazards` in
`PROJECT.json`.

## Modules

* `Kernel` - the descriptor table, the server's side of TCP connections, `poll`,
  `send`, and the clients.  A client is one connection of `handle()` in
  `client/src/handle.c`: connect, write the length and the body, read the answer,
  close; it may be cancelled between any two of those (`ClientAbort`), and its
  host may vanish (`ClientReset`).  `peer` follows the TCP state: `fin` after the
  client's close, `rstdue` once the server has written to it since, `finrst` when
  the RST has come back, `rst` for a reset without a close.  `HungUp` and
  `Readable` give `poll`'s answer per platform.
* `ProcessServer` (extends `Kernel`) - the parent, the children, their
  semaphores, domain socket and pipe, signals and teardown.  `ppc` and `cpc` are
  the places where a process can be: between two system calls that other
  processes can notice.  `fd`, `events`, `revents`, `listening` are the fields of
  `pollfds`; `open` is the parent's descriptor table, so that
  `accept` really reuses the lowest free number; `domain` holds pairs (number in
  the parent, connection), which is what an SCM_RIGHTS message and its payload
  amount to; `pipe` holds numbers.
* `ProcessRuns` - the process server as the operating system sees it: several runs of
  the program, one after another or side by side, from setup to the last `unlink`, with
  a process killed between any two calls and any call of setup failing.  `names` is what `sem_open`
  looks up; `value` is kept per name and creator, so that an unlinked semaphore lives on
  for those who have it open; `sems` is what a run has opened.  A message here is only a
  message: what the connections carry, and the parent's table, are `ProcessServer`'s.
  `log` counts the headers and rows that have reached the log file, `rows` the rows in
  the `FILE` buffer of each child.
* `PollServer` (extends `Kernel` and `Core`) - the poll server, from the core's setup
  to its exit, with its two arrays kept apart.  `pc` is the place in `run_server`, from
  "init" and "ready" before the loop, where a signal has no handler yet and kills, to
  "close", from which `destroy_poll_state` leaves.
* `Core` - the core's part of every run: setup, loading a library, `next_state`
  and the exit status.  A server's action that ends an API function with a result
  conjoins `Returns` of it.
* `OneToOneServer` (extends `Kernel` and `Core`) - the one-to-one server, from the
  core's setup to its exit.  `pc` is the place in `run_server`: it stops at every
  `select()`, `recv()` and `send()`, since a signal may come between any two.
  `self_pipe` counts bytes that nobody reads, so that it is also the number of
  signals handled.
* `ConnectionTable` - what the three servers promise: a connection is accepted once
  while there is room, is watched or lent, and is given up only while it is
  watched.  Only the process server lends; the one-to-one server has one place.
* `ClientController` - the controller of a load test: its loop of `poll`, `accept`
  and a line of input, and the loop over the clients that `send_start`,
  `send_data` and `send_stop` share.  `sent` is what each client's connection
  carries; the five fields `send_data` writes are one message.  `rev` starts with
  any value, as the uninitialised `revents` do.
* `LoadTest` (extends `ClientController`) - the controller with its client
  processes: `main` is a client's main thread, which reads commands and starts,
  cancels and joins its threads; `thread` and `log_lock` are those threads and the
  mutex of their log.  The servers' models have one connection of a thread in
  detail; here a request is one step that the server may never let happen.
* `MCProcessServer`, `MCProcessRuns`, `MCPollServer`, `MCOneToOneServer`, `MCLoadTest` -
  instances for TLC, the first three with their symmetry sets.
* `ProcessServerProofs`, `ProcessOutcomeProofs`, `ProcessTableProofs`,
  `ProcessRunsProofs`, `ProcessCountProofs`,
  `PollServerProofs`, `OneToOneProofs`, `LoadTestProofs` - the theorems.

Where several statements make one action, nothing in between is visible to
another process: `sem_wait`, `sendmsg`, `sem_post` and the caller's negation of
`fd` (a child can take the message only after `sem_post`, and never looks at
`fd`); `poll` with the `accept` or the pipe read it leads to (only the server
consumes from either); the loop test with the last step of the iteration before
(only the loop reads the flag).  What can be noticed stays apart: the `poll`
snapshot and each slot's handling, every `recv`, the log semaphore's wait and
post, the teardown's kill, each `waitpid`, and the closing.

`ProcessRuns` merges less, because a process can be killed between any two of its calls.
A wait that is granted, the call it guards, and the post that follows are three steps, each
a place of its own: `sendwait`, `send`, `sent` and, after a `read` of the pipe, `drained` in
the parent; `getwait`, `recv`, `room` (or `eof`, `failed`: `recvmsg` posts whatever it
returned), `pipewait`, `write`, `logwait`, `logging` in a child.  Only printing a row and
posting `log_sem` are one step: to be killed between them is to be killed before, for the
row is in a buffer that is lost and the semaphore is kept.  `waitpid` may return `EINTR`
for any child the parent still waits for, which is then in `given_up`.  The `kill` loop
of the teardown is one step; a parent killed during it may have signalled any of the
children (`Signalled`).  `socketpair()` failing counts as the fork failing, as it happens
in the same function with the same consequence; `getpeername` stands for any later call on
the connection that makes the child exit; a `SIGINT` that comes before the parent has its
handlers is a kill; signals to the whole group are `ProcessServer`'s.  Once a second run
has written the log file too, its content is no longer followed.

In the load test a write to a client that is there fails only when `SIGINT` interrupts it
while it blocks (`sigaction` without `SA_RESTART`), and blocks only when the client's data
fill the buffers.  `START` is two bytes into an empty buffer.  `DATA` is cut short: the
first signal makes `write` return what it took, and `write_fully` calls it again, so it is
the second that ends it (`"CUT"`).  `STOP` is lost if the client has not begun to read its
data (`Full`).  A client that gets a `STOP` after a `"CUT"` may take it for what the data lack,
or wait for the rest.  In a client, `poll()`, `malloc()` and `pthread_create()` may fail, and
a `SIGPIPE` of a thread that writes to a server that has closed ends the process.

`EINTR` is possible only where the code really blocks; a signal that comes just
before a blocking call only clears the flag.  SIGPIPE has its default action,
since nothing changes it.  A `recv` at the end of the stream leaves the length
variable unwritten: the `malloc` that follows may succeed or fail.

## Runs

Bounds: a message is a header and `Body` pieces (2 where a partial message
matters, else 1); `SizeMax` = 7 stands for the largest `size_t`, so that a
decrement of zero wraps as in the code; `Fds` has one number more than there are
slots, and 0.  Children and connections are interchangeable, and the runs without
liveness use that symmetry.  `MaxSignals` bounds the signals sent.  Deadlock is
not checked: a server that is done, or whose clients have all been served, stops.

| run | what it shows |
|---|---|
| `process_pool` | 2 children, 2 clients that may abort or be reset, 2 slots, Linux. The whole hand-over: no stale number, one reader per connection, the counter and the listening flag, answers of whole messages, one message per channel, slot life cycle, and that the server implements `ConnectionTable`. Two children and two connections are enough for two readers to meet, for a number to be overtaken by a close and an accept, and for the pipe and the domain socket to be contended. |
| `process_shutdown` | 1 child, 3 connections, 3 slots, macOS. Two signals, to the parent or to the whole group, at any step, with failing `accept`, `sendmsg`, `getpeername` and `malloc`: parent and children never wait for one another in a circle, and no more children outlive the parent than signals came after its loop had ended, while it signalled its children or waited for them; such a child has the teardown's `SIGINT` before it or has seen it. `late` counts those signals: the first, which ends the loop, pays for no orphan, and with two the orphan of an interrupted `waitpid` is reached. One child and three slots is the tightest case for the circle: with at most two more slots than live children there is none, and with a fourth slot TLC finds it. The code has 8 children and 5 connections, so it is out of reach until fewer than three children are left. |
| `process_runs` | 2 runs of 2 children each, `Budget` 4, of which a message takes 1, a further `SIGINT` to a parent 2, and a kill or a failing call 3, and a run that starts beside a live one 4: four messages, or two and an interrupted `waitpid`, or two such, or one and a kill or a failure, or a run beside. What the named semaphores still promise to the runs that share them, who is left behind, and what the log file holds. Two runs and two children are enough for a name to pass from a crashed run to the next, for an orphan of the one to take what the other posted, and for two runs to hold a mixture of old and new semaphores. What two failures do together, and what becomes of messages while two runs serve at once, is left to the proofs, which hold for any `Budget`. |
| `process_liveness` | Fair processes, 1 child, 3 clients, 2 slots, macOS: every client is answered, every lent slot comes back, every closed connection is removed, so that the client waiting in the backlog gets its slot. |
| `process_linux_closed` | (violation) on Linux a closed client is `POLLIN`: see findings. |
| `process_shutdown_hang` | (violation) a child that misses its signal hangs the teardown. |
| `process_stdin` | (violation) a hang-up of standard input corrupts the counter. |
| `poll_faults` | 3 clients, 2 slots, Linux, one signal, every fault, from setup to exit: the status is success only if a signal ended the loop with no client in the middle of its message, the two arrays agree until descriptor 0 is hung up, teardown leaves nothing open, `ConnectionTable` is implemented, types hold throughout. |
| `poll_liveness` | 3 clients, 2 slots, macOS, fair: every client is answered with its whole length, every closed one is removed. |
| `poll_linux_closed` | (violation) SIGPIPE kills the poll server on Linux. |
| `one_to_one` | 2 clients that may abort or be reset, 2 signals, 2 body pieces, Linux, failing setup and `accept`: no descriptor is lost from one client to the next, a `SIGINT` at any step ends the server whatever the clients do, and the exit status tells why it ended. Two clients are enough for one to wait while the other is served and for a descriptor number to be used again, two pieces for a signal in the middle of a message, two signals for one in the teardown that the first began. Descriptor 0 is free after the first turn, as in the code, and the first client gets it. |
| `load_test` | Controller, 2 clients, 2 threads each, `MaxConns` 2, every fault, any input and `SIGINT`: the clients that are there were told the same, but for what `SIGINT` cut off, a client spins only if the script was cut short, and one that was told to test ends, unless a thread dies with the log's mutex. Two clients let one leave while the other is written to, in either order, and two threads let one hold the mutex while the other waits. One of the two (`Failing`) has two processors and may see any call fail; the other has one and works (`Processors`), which keeps the run small; failing calls in both clients at once are not reached. The connection past `MaxConns`, which overwrites `num_conns`, takes a third client and is not reached. |

Findings, in full in `PROJECT.json`: on Linux both polling servers take a client
that closed for one that has data, answer it, and are hit by SIGPIPE when the
RST comes (the comments say `POLLERR` would be set); a child that is signalled
between its loop test and `sem_wait` never exits and the parent waits for it for
ever (the header says the children close and the parent then does); empty slots
poll standard input, and a hang-up there is counted as a client's.

`process_runs` states what survives rather than that nothing goes wrong, because TLC
reaches all of this: an orphan of a crashed or abandoned run takes a token of
`domain_read` that the next run posted, finds no message and dies; for each such orphan
`domain_write` allows one message more; a child that
dies of SIGPIPE, or a parent killed after it has read the pipe, keeps its semaphore and
later runs inherit it taken; a message whose sender was killed before the post is never
announced; a receiver killed before its post leaves no room for another; a run that
overlaps another's unlinking opens some old and some new semaphores; the header is in the
log once for each process that ends by itself.  `MessagesAnnounced` and `LocksConserved`
say exactly how much is lost in each case.

### Fairness

`FairSpec` asks weak fairness of each process (the operating system schedules
every runnable process), of delivering a signal that has been sent, of a RST on
its way, and of a connected client: it goes on writing its message and closes
once it has been answered, which is what `handle()` does.  It asks nothing of
faults, of signals being sent, or of clients connecting.  Weak fairness
of `ParentStep` as a whole is enough because the parent is one thread; each
child has its own, and nothing assumes that a semaphore is fair among the
children: the liveness run has one child, and with more the progress of a
particular one is not claimed.

In `OneToOneServer` only the server is owed a turn, and `Stops` holds with no more
than that; `Served` names the clients' fairness as its premise.  In `LoadTest` the
controller and each client's main thread are scheduled, and in each client some
thread that can go on without the server; the server, the user, and clients that
have not been started owe nothing, and neither is the mutex fair.

Mutants (`PROJECT.json`): for every property of a passing run, an alternative
form of one definition, written just before it, under which the run fails.

## What is proved

For any sets of children, connections and descriptors, any `MaxConnections` of at
least 1 below `SizeMax`, any message length, any faults and either platform.  The
assumptions are those the modules state: `ConnsAssumption`, `BodyAssumption`,
`FdsAssumption`, `PlatformAssumption` (`Kernel`), `ChildrenAssumption` and
`LimitsAssumption` (each server), `RunsAssumption` and `BudgetAssumption`
(`ProcessRuns`), `ControllerAssumption`, `ThreadsAssumption` and `ProcessorsAssumption`
(the load test).
A theorem that needs more says so in its statement: some are about clients that close
only once they are answered (`Polite`, as `client` does unless a thread is cancelled), on
macOS where the code depends on its `poll`, or about a pool that nobody disturbs.  Every
invariant and every action property that a passing run checks has a theorem.

### Process server

`NoStaleToken` is not inductive, and neither is `TypeOK`.  The
invariant is built in layers, each resting on those before it (1-6 in
`ProcessServerProofs`, 7-9 in `ProcessOutcomeProofs`):

1. `TypeInv` - `TypeOK`, plus: outside the scan no slot has `revents`, a slot the
   scan will act on is enabled, and a child at work has a connection.
   (`TypeCorrect`)
2. `BufInv` - one unit between the domain socket's two semaphores, counting a
   parent that took one and left; the pipe is empty or its semaphore is taken.
   (`SemaphoresGuardBuffers`)
3. `SlotInv` - a used slot holds an open connection, no two the same descriptor,
   no two descriptors the same connection, descriptor 0 is standard input.
4. `ConnCount` - the counter is the number of used slots. (`ConnectionsCounted`)
5. `TokenInv` - `NoStaleToken`, and the form of it that outlives the parent: no
   connection on its way to two readers. (`TokensNeverStale`, `OneReader`)
6. `ReadyInv` - a slot the scan will dispatch, and a connection in the domain
   socket or with a child that has not read its length, has data or has been left
   by its client. (`HeadersReady`)
7. `MessageInv` - `WatchedWhole`, a slot the parent watches has a connection of which
   nothing or a whole message has been taken, and `LentAccounted`, a connection a child
   has is taken as far as the child's `bytes_read` says.  A connection is used for
   several messages, by several children, so the second needs the first.
   (`RepliesWhole`)
8. `OrphanInv` - each child that was given up in the parent's `waitpid`, and a signal the
   parent has pending while it signals or waits, were paid for by a signal sent after the
   loop had ended (`late`); and once the parent has signalled its children, each that lives
   has the signal pending or its flag cleared. (`OrphansNeedSignals`)
9. `PresentAll` - for `Polite` clients on macOS: `ClientsInv`, a client that has not been
   answered is there, and what has been taken of its message is of this request;
   `HandedInv`, a connection that the scan will dispatch, that is in the domain socket or
   with a child, is of a client that waits; `PresentInv`, so it is as long as standard
   input has not hung up. (`ChildrenServeThePresent`)

`PoolStaysWhole` is the other side of the finding of run `process_linux_closed`.  There a
client that closes once it is answered can cost the server a child: on Linux the
connection is only `POLLIN`, a child answers it, and that draws the RST by which a later
child is killed.  On macOS it is `POLLHUP`, and from 8 and 9 follows that, with no fault and
no signal, no process is ever killed and all the children live while the parent polls,
for any number of clients.

`ProcessImplementsTable` shows from 1-5 that every step is one of `ConnectionTable` or a
stutter, as long as standard input is not hung up; with that fault the counter is
decremented for a slot that is empty and the abstract table has no such step.

`NobodyWaitsInACircle` counts slots.  In a circle the parent waits to send, the domain
socket's only message is waiting for a child, and each live child waits for the pipe that
holds another's number: the connections of the live children, of the message, of the
number in the pipe and of the one being sent are all different by 5, and each has a slot.
So the live children inject into the slots less three, and there is no circle while there
are at most two more slots than live children.

`SlotsLiveInOrder` proves the action property `SlotLifecycle` from 1-4.  The step
that matters is `p_read_pipe_reenable_fd`: by 5 the number read belongs to one
disabled slot, which by 3 is the only one, so that accepting and closing other
connections between the child's write and the parent's read cannot redirect it.

### Runs of the process server

`LocksAreConserved` says that each of the two semaphores is of value 1 or has one holder,
whichever runs share it: the number in a pipe, the child that has yet to write it, or the
parent that has read it and not posted.  The proof follows for each semaphore, known by
the run that created it, who has it open, and needs that a handle always refers to a
semaphore that was created with the value `sem_open` gives.  A dead process stays a holder,
so the invariant is exact wherever a process is killed.  `NamesLeftOnlyByFailure` and
`OrphansAreAccountedFor` rest on an invariant that ties the place of a parent to what it has
done: past `reap` it has no child left that it did not give up, past `unlink` at `i` it has
removed the first `i` names, and from the teardown's `kill` on each child that lives has its
signal pending or its flag cleared.  `KillsOnlyOwnChildren` rests on the teardown being reached
only with the parent struct, which is allocated after the last fork.

`ProcessCountProofs` proves the two that count.  `MessagesAnnounced` equates a sum over
runs (`Total`, the messages in their domain sockets) with a semaphore's value, and the
prover has no induction over a set.  It needs none: `Total(f, S)` is the cardinality of the
set `Units(f, S)` of pairs, one for each unit of each member, so that one unit more or less
of one member is one element more or less of a set (`TotalMore`, `TotalSame`,
`TotalJoined`), as long as the set is finite.  That is `CountInv`: finitely many runs have started, and
each message that waits, is being handled or has its row was paid from `Budget`.
`Announced` then states the two equations for each semaphore by the run that created it,
whose users are the runs that have it open (`EveryMessageAnnounced`).  `LogAddsUp` follows
the log file of a run that is alone in it, in which a process's rows appear when it exits.

`UndisturbedRunsApart` says when the two theorems above have nothing to say of two runs at
once: if every event but a message costs more than there is to spend (`Undisturbed`) - no
kill, no refused call, no further signal to a parent that tears down, no run started beside
another - each run has only semaphores of
its own, at most one message in its socket, no child that outlives its parent, none that
finds its socket empty, and no name is left when it ends (`CleanInv`).  So it takes one
of those events for what the runs of `ProcessRuns` are about.  The theorem is about other
constants than `MCProcessRuns` has; TLC agreed on an instance with two runs, two children
and those costs.

### Poll server

`TypeInv` is `TypeOK` with: only the scan sees `revents`, a slot
with input holds an open connection whose descriptor no hung-up slot shares (else
removing the one would close the other's), and a message being received is short
of its last piece.  (`PollTypeCorrect`)  `TableInv` is `ArrayInv` (a used slot holds an open
descriptor above 0, no two the same; an open connection is in a slot or the server
is closing down) with `TwoArraysOneTable`.  The two need each other: `accept`
takes the first empty slot, and that there is one follows from the counter; the
counter stays the number of used slots because `accept` overwrites none.
(`ArraysAgree`, `TeardownComplete`)
`PollImplementsTable` shows with it that every step is one of `ConnectionTable` or
a stutter; that no more are kept than there are slots follows because the slots
in use map onto the connections kept.

`PollRepliesWhole` needs no table.  The server receives one message to its end before it
looks at another client, so `WholeInv` says: of the one it is receiving, `bytes_read`
pieces are taken, and of every other open connection nothing or a message taken whole
and answered (`Settled`).  It holds also after standard input has hung up and the table is
damaged.

For `Polite` clients on macOS, `WaitingInv` adds that a client without an answer has not
closed, that none has one before its message is taken, and that the scan finds input only
of those without one, until standard input hangs up.  So the server answers only clients
that are there (`PollAnswersThePresent`), and with no fault and no signal nothing kills it
(`PollClosedClientsHarmless`): the property that run `poll_linux_closed` finds violated on
Linux, proved for the other platform and any number of clients.

`PollSuccessBetweenMessages` adds `StatusInv` to it: `CallInv`, which API function the
core calls at each `pc`, and `WellInv`, that once `close_server` is called with no error
before it, or has returned to a core that exits with success, a signal has come and
everybody still connected is settled.  The loop is left to `CLOSE_SERVER` only from its
test or from a `poll` that a signal interrupts, where by `WholeInv` nobody is being
received from; a signal that interrupts a `recv` leaves it with an error.

### One-to-one server

For any `Conns`, `Fds` with 0 in it, `Body`, `MaxSignals`,
faults and platform.  `ClientInv` says at most one descriptor is open beside
standard input, the one `client_fd` names, and none between two clients, so that
accepting loses none (`OneImplementsTable`).  `MessageInv` says that `bytes_read` is
short of the message while it is received and all of it when it is answered, from
which `ReplyInv`, the form of `ReplyOnlyWhole` that is inductive, follows
(`OneReplyWhole`).  `CoreInv` says what the core calls first, and `StatusInv` what
each way into teardown implies: a termination was a signal, an error a refused
setup, a refused `accept` or a reset client (`StatusTold`).

`OneSurvivesItsClients` compares it with the other two.  Clients that close only when they
are answered never kill the one-to-one server, on either platform, and leave `accept` as
the only call that can end it with an error: it takes the end of a client's stream for the
end of the client, where the other two go by `POLLHUP`.  `ServedInv` says who is
there and how much of the served client's message is taken, so that the answer never
goes to one that has left.

### Load test

For any number of clients and threads and any `MaxConns`, stated for `FairSpec`.
`LinkInv` says that each client is accepted at most once and that the descriptors in
`accepted_fds` are those clients.  `LoopInv` is about the three sending loops: the clients
before the loop's index have been told one command more than those after it, and the script
so far is the same; unless `SIGINT` has come it is told whole (`Whole`), and after it what a
client has may lack the end of `DATA` and the `STOP` (`Told`).  Hence `SameScriptForAll`: whoever
leaves, and whichever write to one who left fails, the others were told one script, and only
those whose write was interrupted have less.  `FormInv` says which scripts there are - start, data, stop, each
once, or cut - and `ReadInv` where a client is in its own: with these, a client that was told the
whole script still has the `STOP` to read while its main thread is in the loop
(`ToldClientsDoNotSpin`).  `MutexInv` is about a client's threads and their log: `LockInv`,
the mutex is taken exactly while one thread writes (`LogMutex`), or for good by one that was
cancelled while it wrote, which needs a C library whose `stdio` calls are cancellation
points; `JoinInv`, once `stop_threads` joins, every thread it
created has been cancelled.  `NoThreadHoldsUpStop` follows: while a main
thread joins, some thread can go on without the server, or the mutex was abandoned.  It
is what `TestEnds` needs besides fairness.  `LoadTypeCorrect` is `TypeOK`, with an index that never passes
the array except for the one write that the code makes before it compares.

## What is only model-checked

* Liveness (`Served`, `Reenabled`, `Freed`, `Stops`, `Heeded`, `TestEnds`): fairness and
  ENABLED are beyond the prover.
* The findings: a property that fails is shown by a counterexample.

## What is not modelled, and why

* The standalone client.  It runs the threads of the load test without the controller,
  so what is hard in it (threads, cancellation, the mutex of the log) is in `LoadTest`;
  what is left is a menu.  `LoadTest` is also as large as TLC can take in the time a run
  may have.
* Rows that are torn because a `FILE` buffer fills in the middle of one: a row here
  reaches the file whole, at its process's end.
* `pipe()` failing in the process server's setup, which leaves what a failed fork leaves.
* The size of the client's data buffer: `client` allocates it with the size in network
  byte order, and a body here is pieces, not bytes.
* A length that arrives in parts, and a connection aborted in the backlog before
  `accept` takes it, on which `accept` would block where the kernel drops it.
* What the controller finds past the end of `accepted_fds`: the connection that
  lands there is modelled, and writes to what follows are taken to fail.
* Addresses, timestamps, log formatting and messages on the terminal: no property
  depends on them.
* The receive buffers' memory: a body is pieces, not bytes.  The length is taken
  to be what the client announces, as `client` always sends it; other peers are
  not considered.
* The client's very first `poll()` failing, after which it reads `revents` that nobody has set.
* Option parsing, the CMake files and the libraries `dc_env`, `dc_application`,
  `mem_manager`.

## Plan

Done: the three servers, runs of the process server with their semaphores, the core with
the one-to-one and the poll server, the load test, and the proofs above.  Left, in this order:

1. `ProcessServer`'s loop composed with `Core` and the setup that `ProcessRuns` models.
2. `MessageRecv`: the length/body framing with short reads, over bounded inputs.
3. Proofs: the same counterparts under Linux's `poll` with clients that never close, and
   that an undisturbed run of `ProcessRuns` behaves as `ProcessServer`'s semaphores do.
