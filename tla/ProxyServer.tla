----------------------------- MODULE ProxyServer -----------------------------
(***************************************************************************)
(* The proxy mode: run_server (src/src/proxy/mod.rs), one                  *)
(* handle_connection per thread (src/src/proxy/handler.rs), and run_proxy  *)
(* (src/src/main.rs) that starts them and ends the process.                *)
(*                                                                         *)
(* One thread accepts.  It takes a permit from an atomic counter for each  *)
(* connection it gives to a thread of its own, and drops the connection    *)
(* when MAX_CONCURRENT_CONNECTIONS permits are out.  The thread of a       *)
(* connection reads one request, asks the upstream, answers the client,    *)
(* sends at most one event and gives back its IngestSender and its permit. *)
(* The process ends when the writer has ended, and the writer ends when    *)
(* the last IngestSender is gone; what the writer does in between is       *)
(* Ingest's.                                                               *)
(***************************************************************************)
EXTENDS Naturals, FiniteSets

CONSTANTS
  Connections,     \* the clients' connections
  MaxConnections,  \* MAX_CONCURRENT_CONNECTIONS (256 in the code)
  StartedAs        \* where main begins: "tui" with AppConfig.tui_enabled

ASSUME ProxyAssumption ==
  /\ IsFiniteSet(Connections)
  /\ MaxConnections \in Nat \ {0}
  /\ StartedAs \subseteq {"serving", "tui"}

VARIABLES
  running,   \* the AtomicBool that the signals clear
  server,    \* where run_server is
  main,      \* where run_proxy is
  active,    \* active_connections
  stage,     \* per connection: where its handler is
  answer,    \* per connection: what the client was sent
  event,     \* per connection: the event given to send_event
  reply,     \* history, per connection: what the upstream answered
  late       \* history: connections accepted after running was cleared

vars == <<running, server, main, active, stage, answer, event, reply, late>>
loopVars == <<running, server, main, late>>
exchangeVars == <<answer, event, reply>>

\* "panicked" is a run_server that unwound out of thread::spawn.
ServerStates == {"binding", "checking", "accepting", "returned", "panicked"}

\* "serving" is main in run_server, "tui" main in run_tui_app; "joining" is
\* main in ingest_handle.join(), its own IngestSender dropped.
MainStates == {"serving", "tui", "joiningProxy", "joining", "exited", "failed"}

\* Handlers that hold an IngestSender; "released" has dropped it and still
\* holds its permit.
InHandler == {"request", "connect", "badGateway", "forward", "reply",
              "deliver", "record", "leaving"}
Stages == InHandler \union
  {"unconnected", "backlog", "released", "done", "rejected", "reset"}

Answers == {"none", "400", "502", "upstream"}
Events == {"none", "502", "final", "100"}

\* What an answer of the upstream that was read whole can look like: a response,
\* or a response after 100 Continue.  Which answers are read whole, and which are
\* waited for in vain, is Exchange's.
Replies == {"final", "interim"}

Alive == main \notin {"exited", "failed"}
\* run_server runs in main; otherwise in a thread of its own.
Headless == main = "serving"
Listening == server \in {"checking", "accepting"}
Handling == {c \in Connections : stage[c] \in InHandler}
PermitHolders == {c \in Connections : stage[c] \in InHandler \union {"released"}}

\* fetch_update finds a permit to take.
PermitFreeOffByOne == active <= MaxConnections
PermitFree == active < MaxConnections

\* ConnectionPermit::drop.
PermitReturned == active - 1

\* The last IngestSender is gone: main's own, run_server's, every handler's.
HandlersNotWaited == main = "joining" /\ ~Listening
SenderKeptByMain == FALSE
SendersGone == main = "joining" /\ ~Listening /\ Handling = {}

\* Where the accept loop goes after a connection.
NextTurn == "checking"

\* What recording comes to once the client is served.
RecordForgotten(c) == "none"
RecordedStatus(c) == IF reply[c] = "interim" THEN "100" ELSE "final"

\* The stages once the listener's backlog is gone.
WithoutListener == [c \in Connections |->
  IF stage[c] = "backlog" THEN "reset" ELSE stage[c]]

Init ==
  /\ running = TRUE
  /\ server = "binding"
  /\ main \in StartedAs
  /\ active = 0
  /\ stage = [c \in Connections |-> "unconnected"]
  /\ answer = [c \in Connections |-> "none"]
  /\ event = [c \in Connections |-> "none"]
  /\ reply = [c \in Connections |-> "none"]
  /\ late = 0

-----------------------------------------------------------------------------
(* The outside: clients, the operator and the init system.                 *)

\* The kernel completes a handshake; the connection waits to be accepted.
Connect(c) ==
  /\ Alive
  /\ Listening
  /\ stage[c] = "unconnected"
  /\ stage' = [stage EXCEPT ![c] = "backlog"]
  /\ UNCHANGED <<loopVars, active, exchangeVars>>

\* SIGINT or SIGTERM.
Signal ==
  /\ Alive
  /\ running
  /\ running' = FALSE
  /\ UNCHANGED <<server, main, active, stage, exchangeVars, late>>

\* run_tui_app returns because the operator quits.
QuitTui ==
  /\ main = "tui"
  /\ main' = "joiningProxy"
  /\ running' = FALSE
  /\ UNCHANGED <<server, active, stage, exchangeVars, late>>

\* run_tui_app fails: main returns through `?` and joins nobody.  Here and below
\* the threads end with the process, each at the stage it was in.
TuiFails ==
  /\ main = "tui"
  /\ main' = "failed"
  /\ stage' = WithoutListener
  /\ UNCHANGED <<running, server, active, exchangeVars, late>>

-----------------------------------------------------------------------------
(* run_server.                                                             *)

\* bind and set_nonblocking succeed.
Bind ==
  /\ Alive
  /\ server = "binding"
  /\ server' = "checking"
  /\ UNCHANGED <<running, main, active, stage, exchangeVars, late>>

\* The endpoints are refused or bind fails.  Headless, run_proxy returns the
\* error at once; under the TUI the thread ends and nobody looks.
BindFails ==
  /\ Alive
  /\ server = "binding"
  /\ server' = "returned"
  /\ main' = IF Headless THEN "failed" ELSE main
  /\ UNCHANGED <<running, active, stage, exchangeVars, late>>

\* while running.load(..), and the end of the loop: the listener is closed,
\* and headless main goes on to drop its sender.
CheckRunning ==
  /\ Alive
  /\ server = "checking"
  /\ \/ /\ running
        /\ server' = "accepting"
        /\ UNCHANGED <<main, stage>>
     \/ /\ ~running
        /\ server' = "returned"
        /\ main' = IF Headless THEN "joining" ELSE main
        /\ stage' = WithoutListener
  /\ UNCHANGED <<running, active, exchangeVars, late>>

\* accept returns a connection and a permit is free: it gets a thread.
Accept(c) ==
  /\ Alive
  /\ server = "accepting"
  /\ stage[c] = "backlog"
  /\ PermitFree
  /\ active' = active + 1
  /\ stage' = [stage EXCEPT ![c] = "request"]
  /\ server' = NextTurn
  /\ late' = IF running THEN late ELSE late + 1
  /\ UNCHANGED <<running, main, exchangeVars>>

\* No permit is free: the stream is dropped.
Reject(c) ==
  /\ Alive
  /\ server = "accepting"
  /\ stage[c] = "backlog"
  /\ ~PermitFree
  /\ stage' = [stage EXCEPT ![c] = "rejected"]
  /\ server' = NextTurn
  /\ UNCHANGED <<running, main, active, exchangeVars, late>>

\* thread::spawn panics after the permit was counted.  Headless, the panic
\* ends main; under the TUI it ends the proxy thread.
SpawnFails(c) ==
  /\ Alive
  /\ server = "accepting"
  /\ stage[c] = "backlog"
  /\ PermitFree
  /\ active' = active + 1
  /\ server' = "panicked"
  /\ stage' = WithoutListener
  /\ main' = IF Headless THEN "failed" ELSE main
  /\ UNCHANGED <<running, exchangeVars, late>>

\* WouldBlock or an error of accept: sleep and look again.
AcceptNothing ==
  /\ Alive
  /\ server = "accepting"
  /\ server' = "checking"
  /\ UNCHANGED <<running, main, active, stage, exchangeVars, late>>

-----------------------------------------------------------------------------
(* handle_connection, one thread per connection.                           *)

Goes(c, from, to) ==
  /\ Alive
  /\ stage[c] = from
  /\ stage' = [stage EXCEPT ![c] = to]
  /\ UNCHANGED <<loopVars, active>>

\* The headers do not come, or do not parse: return without a word.
RequestUnreadable(c) ==
  /\ Goes(c, "request", "leaving")
  /\ UNCHANGED exchangeVars

\* The body is short, too long or badly chunked: 400.
RequestRefused(c) ==
  /\ Goes(c, "request", "leaving")
  /\ answer' = [answer EXCEPT ![c] = "400"]
  /\ UNCHANGED <<event, reply>>

RequestRead(c) ==
  /\ Goes(c, "request", "connect")
  /\ UNCHANGED exchangeVars

UpstreamConnected(c) ==
  /\ Goes(c, "connect", "forward")
  /\ UNCHANGED exchangeVars

\* The upstream refuses: the event is sent first, the 502 after it.
UpstreamRefused(c) ==
  /\ Goes(c, "connect", "badGateway")
  /\ event' = [event EXCEPT ![c] = "502"]
  /\ UNCHANGED <<answer, reply>>

AnswerBadGateway(c) ==
  /\ Goes(c, "badGateway", "leaving")
  /\ answer' = [answer EXCEPT ![c] = "502"]
  /\ UNCHANGED <<event, reply>>

Forwarded(c) ==
  /\ Goes(c, "forward", "reply")
  /\ UNCHANGED exchangeVars

ForwardFails(c) ==
  /\ Goes(c, "forward", "leaving")
  /\ UNCHANGED exchangeVars

\* The upstream closes early, is silent for 30 seconds, or sends what does
\* not parse or is too long.
ReplyUnreadable(c) ==
  /\ Goes(c, "reply", "leaving")
  /\ UNCHANGED exchangeVars

\* A reply r was read.  read_headers stops at the first empty line: after
\* 100 Continue everything up to the end is taken for the body.
ReplyRead(c, r) ==
  /\ Goes(c, "reply", "deliver")
  /\ reply' = [reply EXCEPT ![c] = r]
  /\ UNCHANGED <<answer, event>>

\* The client's own failure to read is ignored.
Deliver(c) ==
  /\ Goes(c, "deliver", "record")
  /\ answer' = [answer EXCEPT ![c] = "upstream"]
  /\ UNCHANGED <<event, reply>>

RecordAndReadOn(c) ==
  /\ Goes(c, "record", "request")
  /\ event' = [event EXCEPT ![c] = RecordedStatus(c)]
  /\ UNCHANGED <<answer, reply>>

Record(c) ==
  /\ Goes(c, "record", "leaving")
  /\ event' = [event EXCEPT ![c] = RecordedStatus(c)]
  /\ UNCHANGED <<answer, reply>>

\* handle_connection returns and drops its IngestSender ...
DropSender(c) ==
  /\ Goes(c, "leaving", "released")
  /\ UNCHANGED exchangeVars

\* ... and the thread's closure drops the permit after it.
DropPermit(c) ==
  /\ Alive
  /\ stage[c] = "released"
  /\ stage' = [stage EXCEPT ![c] = "done"]
  /\ active' = PermitReturned
  /\ UNCHANGED <<loopVars, exchangeVars>>

-----------------------------------------------------------------------------
(* run_proxy.                                                              *)

\* Under the TUI main joins the proxy thread, then drops its sender.
JoinProxy ==
  /\ main = "joiningProxy"
  /\ server \in {"returned", "panicked"}
  /\ main' = "joining"
  /\ UNCHANGED <<running, server, active, stage, exchangeVars, late>>

\* The writer has ended, for want of a sender, and main returns.
Exit ==
  /\ SendersGone
  /\ main' = "exited"
  /\ UNCHANGED <<running, server, active, stage, exchangeVars, late>>

ServerStep ==
  \/ Bind
  \/ BindFails
  \/ CheckRunning
  \/ AcceptNothing
  \/ \E c \in Connections : Accept(c) \/ Reject(c) \/ SpawnFails(c)

HandlerStep(c) ==
  \/ RequestUnreadable(c)
  \/ RequestRefused(c)
  \/ RequestRead(c)
  \/ UpstreamConnected(c)
  \/ UpstreamRefused(c)
  \/ AnswerBadGateway(c)
  \/ Forwarded(c)
  \/ ForwardFails(c)
  \/ ReplyUnreadable(c)
  \/ \E r \in Replies : ReplyRead(c, r)
  \/ Deliver(c)
  \/ Record(c)
  \/ DropSender(c)
  \/ DropPermit(c)

MainStep == JoinProxy \/ Exit

Outside ==
  \/ \E c \in Connections : Connect(c)
  \/ Signal
  \/ QuitTui
  \/ TuiFails

Next ==
  \/ Outside
  \/ ServerStep
  \/ \E c \in Connections : HandlerStep(c)
  \/ MainStep

Spec == Init /\ [][Next]_vars

\* Threads are scheduled, reads and writes of a socket return (30 seconds at
\* the latest, connect when the kernel gives up), the writer ends.  Clients,
\* signals and the operator owe nothing.
FairSpec ==
  /\ Spec
  /\ WF_vars(ServerStep)
  /\ \A c \in Connections : WF_vars(HandlerStep(c))
  /\ WF_vars(MainStep)

-----------------------------------------------------------------------------
(* Correctness.                                                            *)

\* Every variable keeps its type; a client has an answer and an event only
\* if its connection was accepted.
TypeOK ==
  /\ running \in BOOLEAN
  /\ server \in ServerStates
  /\ main \in MainStates
  /\ active \in Nat
  /\ stage \in [Connections -> Stages]
  /\ answer \in [Connections -> Answers]
  /\ event \in [Connections -> Events]
  /\ reply \in [Connections -> Replies \union {"none"}]
  /\ late \in Nat

\* While the process lives the counter is the number of threads that hold a
\* permit, one more after a spawn that panicked, and never above the limit:
\* no exit path of handle_connection leaks a permit or returns it twice.
PermitsConserved ==
  Alive =>
    /\ active = Cardinality(PermitHolders) + (IF server = "panicked" THEN 1 ELSE 0)
    /\ active <= MaxConnections

\* A connection is turned away only while the limit's worth of connections
\* are being handled, however often the permits went round.
RejectsOnlyWhenFull ==
  [][\A c \in Connections :
       stage[c] # "rejected" /\ stage'[c] = "rejected"
         => Cardinality(PermitHolders) = MaxConnections]_vars

\* After the shutdown flag is cleared at most one more connection is taken,
\* the one whose accept was already under way.
StopsAccepting == late <= 1

\* At the end of its handler a connection has an event exactly if the client
\* was answered by the upstream or told 502; a 400 or a silent close leaves
\* none.
Settled(c) ==
  \/ answer[c] = "upstream" /\ event[c] \in {"final", "100"}
  \/ answer[c] = "502" /\ event[c] = "502"
  \/ answer[c] \in {"none", "400"} /\ event[c] = "none"

RecordedIfAnswered ==
  \A c \in Connections :
    stage[c] \in {"leaving", "released", "done"} => Settled(c)

\* An orderly exit cuts no request short: when main has returned every
\* connection was turned away, or its handler had come to its end, the client
\* answered and the event sent.
Ended == {"unconnected", "rejected", "reset", "released", "done"}

DrainsInFlight ==
  main = "exited" => \A c \in Connections : stage[c] \in Ended /\ Settled(c)

\* No connection keeps its permit for ever: every accepted connection gives it
\* back, or the process ends.
PermitsComeBack == \A c \in Connections : []<>(~Alive \/ c \notin PermitHolders)

\* Headless, or once the operator has quit the TUI, the process ends after the
\* flag is cleared: no join waits for ever, on the proxy thread or on a handler.
StopEndsProcess == ~running /\ main # "tui" ~> ~Alive
=============================================================================
