----------------------------- MODULE SniffCommand -----------------------------
(***************************************************************************)
(* The process of `reqlens sniff`: the Sniff arm of main (src/src/main.rs) *)
(* and run_sniffer (src/src/sniff/mod.rs), composed with the writer thread *)
(* of Ingest.                                                              *)
(*                                                                         *)
(* Headless, main is the thread that captures; with --tui it starts one,   *)
(* looks after 50 ms whether it is still there and opens the dashboard.    *)
(* The capture hands segments to the engine and sends the events that come *)
(* back.  In the end main joins the capture and then the writer, or        *)
(* returns an error, and a process whose main returns is gone with all its *)
(* threads.                                                                *)
(*                                                                         *)
(* Of the engine only the number of requests in its queues is kept:        *)
(* SniffEngine says which they are.                                        *)
(***************************************************************************)
EXTENDS Ingest

CONSTANTS
  Modes,        \* subset of {"headless", "tui"}: is --tui given
  MaxRequests   \* bound of the model: requests the capture shows

ASSUME SniffCommandAssumption ==
  /\ {"main", "sniffer"} \subseteq Handles
  /\ Modes \subseteq {"headless", "tui"}
  /\ MaxRequests \in Nat

VARIABLES
  mode,      \* is the dashboard on
  running,   \* the AtomicBool that the signals clear
  main,      \* where main is
  verdict,   \* what main will return, or has returned when it has ended
  sniffer,   \* where run_sniffer is
  result,    \* what run_sniffer returned
  waiting,   \* requests in the engine without a response
  inHand,    \* events process or expire_idle returned, not yet sent
  observed,  \* history: requests the engine parsed
  late       \* history: segments processed after running was cleared

mainVars == <<main, verdict>>
snifferVars == <<sniffer, result, waiting, inHand, observed, late>>
commandVars == <<mode, running, mainVars, snifferVars>>
allVars == <<vars, commandVars>>

MainStates ==
  {"starting", "capturing", "watching", "tui", "joiningSniffer", "joiningWriter",
   "returning", "ended"}
SnifferStates ==
  {"unborn", "opening", "checking", "receiving", "reporting", "cleaning",
   "expiring", "finished"}

Alive == main # "ended"

CommandInit ==
  /\ Init
  /\ handles = {"main"}
  /\ mode \in Modes
  /\ running = TRUE
  /\ main = "starting"
  /\ verdict = "ok"
  /\ sniffer = "unborn"
  /\ result = "none"
  /\ waiting = 0
  /\ inHand = 0
  /\ observed = 0
  /\ late = 0

-----------------------------------------------------------------------------
(* run_sniffer.                                                            *)

\* The thread moves on, and the rest of the process does not.
Moves(from, to) ==
  /\ Alive
  /\ sniffer = from
  /\ sniffer' = to
  /\ UNCHANGED <<mode, running, mainVars>>

\* A sender is dropped with its owner.
EverySenderGone(h) ==
  /\ handles' = {}
  /\ UNCHANGED <<produced, refused, queue, writer, buffer, staged, rows, historyVars>>
Leaves(h) == DropSender(h)

\* run_sniffer returns, or panics: its engine and its sender are dropped.
Finishes(from, outcome) ==
  /\ Moves(from, "finished")
  /\ Leaves("sniffer")
  /\ result' = outcome
  /\ UNCHANGED <<waiting, inHand, observed, late>>

OpenSocket ==
  /\ Moves("opening", "checking")
  /\ UNCHANGED <<vars, result, waiting, inHand, observed, late>>

\* No permission, no such interface, the filter is not accepted.
OpenSocketFails == Finishes("opening", "error")

\* while running.load(..)
KeepCapturing ==
  /\ running
  /\ Moves("checking", "receiving")
  /\ UNCHANGED <<vars, result, waiting, inHand, observed, late>>

StopCapturing == ~running /\ Finishes("checking", "ok")

\* Timeout, EINTR, or a frame that is not a segment of the port.
ReceiveNothing ==
  /\ Moves("receiving", "cleaning")
  /\ UNCHANGED <<vars, result, waiting, inHand, observed, late>>

\* process: the segment completes requests, responses or ends a connection;
\* the events it returns are sent one after the other.
ProcessSegment ==
  /\ Moves("receiving", "reporting")
  /\ \E new \in 0..(MaxRequests - observed) : \E answered \in 0..(waiting + new) :
       /\ observed' = observed + new
       /\ waiting' = waiting + new - answered
       /\ inHand' = answered
  /\ late' = IF running THEN late ELSE late + 1
  /\ UNCHANGED <<vars, result>>

ReceiveFails == Finishes("receiving", "error")
SnifferPanics == Finishes("receiving", "panic")

\* expire_idle, once a second.
ExpireIdle ==
  /\ Moves("cleaning", "expiring")
  /\ \E expired \in 1..waiting :
       /\ waiting' = waiting - expired
       /\ inHand' = expired
  /\ UNCHANGED <<vars, result, observed, late>>

\* Where the loop goes when there is nothing to expire.
NextTurn == "checking"
TurnEnds ==
  /\ Moves("cleaning", NextTurn)
  /\ UNCHANGED <<vars, result, waiting, inHand, observed, late>>

\* send_event, for each of the events in hand.
Reporting == sniffer \in {"reporting", "expiring"}
Report ==
  /\ Alive
  /\ Reporting
  /\ inHand > 0
  /\ SendEvent("sniffer")
  /\ inHand' = inHand - 1
  /\ UNCHANGED <<mode, running, mainVars, sniffer, result, waiting, observed, late>>

\* The loop over the events ends.
ReportedUnlessStopped == inHand = 0 \/ ~running
Reported == inHand = 0
ReportEnds ==
  /\ Reported
  /\ inHand' = 0
  /\ Moves(sniffer, IF sniffer = "reporting" THEN "cleaning" ELSE NextTurn)
  /\ Reporting
  /\ UNCHANGED <<vars, result, waiting, observed, late>>

-----------------------------------------------------------------------------
(* main.                                                                   *)

MainMoves(from, to) ==
  /\ main = from
  /\ main' = to
  /\ UNCHANGED <<mode, snifferVars>>

\* drop(ingest_sender), or main's return through `?`.
KeepsSender == UNCHANGED vars
DropsSender == Leaves("main")

\* Two ways to the end: the writer is joined; or main returns at once.
GoesToJoin(from, value) ==
  /\ MainMoves(from, "joiningWriter")
  /\ verdict' = value
  /\ DropsSender
ReturnsError(from) ==
  /\ MainMoves(from, "returning")
  /\ verdict' = "error"
  /\ DropsSender

\* register_shutdown_signals fails, after the writer was started.
RegisterFails == ReturnsError("starting") /\ UNCHANGED running

StartCapture ==
  /\ main = "starting"
  /\ main' = IF mode = "tui" THEN "watching" ELSE "capturing"
  /\ sniffer' = "opening"
  /\ CloneSender("sniffer")
  /\ UNCHANGED <<mode, running, verdict, result, waiting, inHand, observed, late>>

\* Headless: run_sniffer(..)? in main.
ResultIgnored(r) == r # "none"
Succeeded(r) == r = "ok"
CaptureEnds ==
  /\ sniffer = "finished"
  /\ IF Succeeded(result) THEN GoesToJoin("capturing", "ok") ELSE ReturnsError("capturing")
  /\ UNCHANGED running

\* 50 ms later: a capture that is gone is an error, and the writer is joined
\* unless the thread panicked.
OpenDashboard ==
  /\ sniffer # "finished"
  /\ MainMoves("watching", "tui")
  /\ UNCHANGED <<vars, running, verdict>>
StartupFails ==
  /\ sniffer = "finished"
  /\ IF result = "panic"
     THEN ReturnsError("watching") /\ UNCHANGED running
     ELSE GoesToJoin("watching", "error") /\ running' = FALSE

\* run_tui_app returns, because the operator quits or with an error.
LeaveDashboard ==
  /\ MainMoves("tui", "joiningSniffer")
  /\ running' = FALSE
  /\ verdict' \in {"ok", "error"}
  /\ UNCHANGED vars

\* sniff_handle.join(), then tui_result? and sniff_result?
JoinSniffer ==
  /\ sniffer = "finished"
  /\ IF verdict = "ok" /\ Succeeded(result)
     THEN GoesToJoin("joiningSniffer", "ok") ELSE ReturnsError("joiningSniffer")
  /\ UNCHANGED running

\* ingest_handle.join() returns, and main.
NotWaited == TRUE
WriterEnded == writer = "stopped"
JoinWriter ==
  /\ WriterEnded
  /\ MainMoves("joiningWriter", "ended")
  /\ UNCHANGED <<vars, running, verdict>>

\* The process of a main that has returned ends, whatever its threads do.
ProcessEnds ==
  /\ MainMoves("returning", "ended")
  /\ IF writer = "stopped" THEN UNCHANGED vars ELSE Crash
  /\ UNCHANGED <<running, verdict>>

-----------------------------------------------------------------------------
(* The rest.                                                               *)

\* SIGINT or SIGTERM once the handlers are registered.
Signal ==
  /\ Alive
  /\ main # "starting"
  /\ running
  /\ running' = FALSE
  /\ UNCHANGED <<vars, mode, mainVars, snifferVars>>

\* SIGKILL, the OOM killer.
Killed ==
  /\ Alive
  /\ Crash
  /\ main' = "ended"
  /\ verdict' = "killed"
  /\ UNCHANGED <<mode, running, snifferVars>>

Write == Alive /\ WriterStep /\ UNCHANGED commandVars

SnifferStep ==
  \/ OpenSocket \/ OpenSocketFails
  \/ KeepCapturing \/ StopCapturing
  \/ ReceiveNothing \/ ProcessSegment \/ ReceiveFails \/ SnifferPanics
  \/ ExpireIdle \/ TurnEnds
  \/ Report \/ ReportEnds

MainStep ==
  \/ RegisterFails \/ StartCapture
  \/ CaptureEnds
  \/ OpenDashboard \/ StartupFails
  \/ JoinSniffer
  \/ JoinWriter \/ ProcessEnds

CommandNext ==
  \/ SnifferStep
  \/ MainStep
  \/ Write
  \/ LeaveDashboard
  \/ Signal
  \/ Killed

CommandSpec == CommandInit /\ [][CommandNext]_allVars

\* Threads are scheduled; receive returns after its timeout of 250 ms.  The
\* operator owes nothing.
FairCommandSpec ==
  /\ CommandSpec
  /\ WF_allVars(SnifferStep) /\ WF_allVars(MainStep) /\ WF_allVars(Write)

-----------------------------------------------------------------------------
(* Properties.                                                             *)

\* Types; and a sender is alive only while its owner may use it.
CommandTypeOK ==
  /\ TypeOK
  /\ mode \in Modes
  /\ running \in BOOLEAN
  /\ main \in MainStates
  /\ verdict \in {"ok", "error", "killed"}
  /\ sniffer \in SnifferStates
  /\ result \in {"none", "ok", "error", "panic"}
  /\ waiting \in 0..MaxRequests
  /\ inHand \in 0..MaxRequests
  /\ observed \in 0..MaxRequests
  /\ late \in Nat
  /\ "sniffer" \in handles => sniffer \notin {"unborn", "finished"}
  /\ "main" \in handles => main \notin {"joiningWriter", "returning", "ended"}

\* The pipeline under this command is the one of Ingest: what is proved of it
\* for any use of its senders holds of this one.
ImplementsIngest == Spec

\* A command that ends without an error has everything the channel accepted in
\* the table, but for a database that failed; docs/ARCHITECTURE.md: the writer
\* empties the queue before the process ends.
CleanEndStoresAll ==
  main = "ended" /\ verdict = "ok" /\ streak = 0 /\ crashes = 0
    => EventsIn(rows) \union refused = 1..produced

\* A request the engine parsed is reported once, or still waits when the capture
\* stops: a stop does not drop the events in hand.
RequestsReported ==
  /\ result # "panic" => observed = produced + inHand + waiting
  /\ result = "ok" => inHand = 0

\* At most one segment is processed after the flag is cleared.
CaptureStops == late <= 1

\* Liveness: headless, and with the dashboard once it is left, the process ends
\* after a signal; no join waits for ever.
StopEndsCommand == ~running /\ main \notin {"watching", "tui"} ~> main = "ended"

\* Liveness: a headless capture that cannot go on ends the process with an
\* error, for Restart=on-failure.
FailureIsReported ==
  mode = "headless" /\ result \in {"error", "panic"}
    ~> main = "ended" /\ verdict # "ok"
=============================================================================
