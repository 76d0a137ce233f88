------------------------------ MODULE EventLog ------------------------------
(***************************************************************************)
(* What the ingest pipeline of ReqLens promises to the code that calls     *)
(* send_event and to the code that reads the requests table: an at-most-   *)
(* once, lossy, append-only log.  Calls of send_event are numbered 1, 2,   *)
(* 3, ... in the order the channel serialises them, so a number names an   *)
(* event.  An event is refused on the spot or accepted; an accepted event  *)
(* waits, and is later logged together with all the events accepted before *)
(* it, or forgotten.                                                       *)
(***************************************************************************)
EXTENDS Naturals, Sequences

VARIABLES
  published,  \* how many calls of send_event were made
  waiting,    \* accepted events that are not in the log yet, oldest first
  log,        \* the events in the requests table, in the order of their ids
  lost        \* the events refused or forgotten

logVars == <<published, waiting, log, lost>>

Init ==
  /\ published = 0
  /\ waiting = <<>>
  /\ log = <<>>
  /\ lost = {}

Accept ==
  /\ published' = published + 1
  /\ waiting' = Append(waiting, published + 1)
  /\ UNCHANGED <<log, lost>>

Refuse ==
  /\ published' = published + 1
  /\ lost' = lost \union {published + 1}
  /\ UNCHANGED <<waiting, log>>

\* The k oldest waiting events enter the log in one step.
Persist(k) ==
  /\ log' = log \o SubSeq(waiting, 1, k)
  /\ waiting' = SubSeq(waiting, k + 1, Len(waiting))
  /\ UNCHANGED <<published, lost>>

\* The process ends, or the writer gives up: what waits is gone.
Forget ==
  /\ waiting # <<>>
  /\ lost' = lost \union {waiting[i] : i \in 1..Len(waiting)}
  /\ waiting' = <<>>
  /\ UNCHANGED <<published, log>>

Next ==
  \/ Accept
  \/ Refuse
  \/ \E k \in 1..Len(waiting) : Persist(k)
  \/ Forget

Spec == Init /\ [][Next]_logVars
=============================================================================
