-------------------------- MODULE ProxyServerProofs --------------------------
(***************************************************************************)
(* Proofs about ProxyServer, for any finite set of connections and any     *)
(* limit, headless and under the TUI.  The inductive invariant IInv says   *)
(* what each stage of a handler has already answered and recorded, and     *)
(* that the accept loop cannot be past its check twice once the shutdown   *)
(* flag is cleared.                                                        *)
(***************************************************************************)
EXTENDS ProxyServer, FiniteSetTheorems, TLAPS

\* What a connection was answered and what was recorded, by stage.
ExchangeInv ==
  \A c \in Connections :
    /\ stage[c] \in {"unconnected", "backlog", "rejected", "reset", "request",
                     "connect", "forward", "reply", "deliver"}
         => answer[c] = "none" /\ event[c] = "none"
    /\ stage[c] = "badGateway" => answer[c] = "none" /\ event[c] = "502"
    /\ stage[c] = "record" => answer[c] = "upstream" /\ event[c] = "none"
    /\ stage[c] \in {"leaving", "released", "done"} => Settled(c)

\* Connections wait to be accepted only while the process lives and listens.
BacklogInv == \A c \in Connections : stage[c] = "backlog" => Alive /\ Listening

\* The flag is still set, or the loop has at most one accept ahead of it.
LateInv ==
  late # 0 => late = 1 /\ ~running /\ server \notin {"binding", "accepting"}

IInv ==
  /\ TypeOK
  /\ PermitsConserved
  /\ ExchangeInv
  /\ BacklogInv
  /\ DrainsInFlight
  /\ LateInv

-----------------------------------------------------------------------------
(* Permits.                                                                *)

\* The permit holders are a finite set with a natural number of elements.
LEMMA HoldersFinite ==
  /\ IsFiniteSet(PermitHolders)
  /\ Cardinality(PermitHolders) \in Nat
<1>1. PermitHolders \subseteq Connections
  BY DEF PermitHolders
<1>2. QED
  BY <1>1, ProxyAssumption, FS_Subset, FS_CardinalityType

\* A thread more.
LEMMA HolderAdded ==
  ASSUME TypeOK, NEW c \in Connections, stage[c] = "backlog",
         stage' = [stage EXCEPT ![c] = "request"]
  PROVE  Cardinality(PermitHolders') = Cardinality(PermitHolders) + 1
<1>1. c \notin PermitHolders
  BY DEF PermitHolders, InHandler
<1>2. PermitHolders' = PermitHolders \union {c}
  BY DEF PermitHolders, InHandler, TypeOK
<1>3. QED
  BY <1>1, <1>2, HoldersFinite, FS_AddElement

\* A thread less.
LEMMA HolderRemoved ==
  ASSUME TypeOK, NEW c \in Connections, stage[c] = "released",
         stage' = [stage EXCEPT ![c] = "done"]
  PROVE  /\ Cardinality(PermitHolders') = Cardinality(PermitHolders) - 1
         /\ Cardinality(PermitHolders) >= 1
<1>1. c \in PermitHolders
  BY DEF PermitHolders, InHandler
<1>2. PermitHolders' = PermitHolders \ {c}
  BY DEF PermitHolders, InHandler, TypeOK
<1>3. Cardinality(PermitHolders') = Cardinality(PermitHolders) - 1
  BY <1>1, <1>2, HoldersFinite, FS_RemoveElement
<1>4. Cardinality(PermitHolders') \in Nat
  <2>1. IsFiniteSet(PermitHolders')
    BY <1>2, HoldersFinite, FS_Subset
  <2>2. QED
    BY <2>1, FS_CardinalityType
<1>5. QED
  BY <1>3, <1>4, HoldersFinite

\* A step of a handler that keeps its permit.
LEMMA SameHolders ==
  ASSUME TypeOK, NEW c \in Connections, NEW to \in InHandler \union {"released"},
         stage[c] \in InHandler, stage' = [stage EXCEPT ![c] = to]
  PROVE  PermitHolders' = PermitHolders
BY DEF PermitHolders, TypeOK

\* Closing the listener touches no thread.
LEMMA ListenerHolders ==
  ASSUME TypeOK, stage' = WithoutListener
  PROVE  PermitHolders' = PermitHolders
BY DEF PermitHolders, WithoutListener, InHandler, TypeOK

-----------------------------------------------------------------------------
(* The invariant.                                                          *)

\* The server starts in the invariant.
LEMMA InvInit == Init => IInv
<1>1. SUFFICES ASSUME Init PROVE IInv
  OBVIOUS
<1>2. TypeOK
  BY <1>1, ProxyAssumption
  DEF Init, TypeOK, ServerStates, MainStates, Stages, Answers, Events
<1>3. PermitsConserved
  <2>1. PermitHolders = {}
    BY <1>1 DEF Init, PermitHolders, InHandler
  <2>2. QED
    BY <1>1, <2>1, FS_EmptySet, ProxyAssumption DEF Init, PermitsConserved
<1>4. ExchangeInv /\ BacklogInv /\ DrainsInFlight /\ LateInv
  BY <1>1, ProxyAssumption
  DEF Init, ExchangeInv, BacklogInv, DrainsInFlight, LateInv
<1>5. QED
  BY <1>2, <1>3, <1>4 DEF IInv

\* A step of a handler from one stage to a later one in which it holds its
\* permit, with the answer and the event that belong to that stage.
LEMMA HandlerMoves ==
  ASSUME IInv, NEW c \in Connections,
         NEW from \in InHandler, NEW to \in InHandler \union {"released"},
         Goes(c, from, to),
         answer' \in [Connections -> Answers],
         event' \in [Connections -> Events],
         reply' \in [Connections -> Replies \union {"none"}],
         \A d \in Connections \ {c} : answer'[d] = answer[d] /\ event'[d] = event[d],
         to \in {"connect", "forward", "reply", "deliver"}
           => answer'[c] = "none" /\ event'[c] = "none",
         to = "badGateway" => answer'[c] = "none" /\ event'[c] = "502",
         to = "record" => answer'[c] = "upstream" /\ event'[c] = "none",
         to \in {"leaving", "released"} => Settled(c)',
         to # "request"
  PROVE  IInv'
<1>1. /\ Alive /\ stage[c] = from /\ stage' = [stage EXCEPT ![c] = to]
      /\ UNCHANGED <<running, server, main, late, active>>
  BY DEF Goes, loopVars
<1>2. TypeOK /\ PermitsConserved /\ ExchangeInv /\ BacklogInv /\ DrainsInFlight /\ LateInv
  BY DEF IInv
<1>3. TypeOK'
  BY <1>1, <1>2 DEF TypeOK, Stages
<1>4. PermitsConserved'
  <2>1. PermitHolders' = PermitHolders
    BY <1>1, <1>2, SameHolders
  <2>2. QED
    BY <1>1, <1>2, <2>1 DEF PermitsConserved, Alive
<1>5. ExchangeInv'
  BY <1>1, <1>2 DEF ExchangeInv, Settled, TypeOK, InHandler
<1>6. BacklogInv' /\ DrainsInFlight' /\ LateInv'
  BY <1>1, <1>2 DEF BacklogInv, DrainsInFlight, LateInv, Listening, Alive, InHandler, TypeOK
<1>7. QED
  BY <1>3, <1>4, <1>5, <1>6 DEF IInv

\* Every step of a handler preserves the invariant.
LEMMA HandlerStepInv ==
  ASSUME IInv, NEW c \in Connections, HandlerStep(c)
  PROVE  IInv'
<1> USE DEF exchangeVars, InHandler
<1>t. /\ TypeOK /\ PermitsConserved /\ ExchangeInv
      /\ BacklogInv /\ DrainsInFlight /\ LateInv
      /\ answer \in [Connections -> Answers]
      /\ event \in [Connections -> Events]
      /\ reply \in [Connections -> Replies \union {"none"}]
  BY DEF IInv, TypeOK
<1>1. CASE \/ RequestUnreadable(c) \/ ForwardFails(c) \/ ReplyUnreadable(c)
  <2>1. /\ Goes(c, stage[c], "leaving") /\ UNCHANGED exchangeVars
        /\ stage[c] \in {"request", "forward", "reply"}
    BY <1>1 DEF RequestUnreadable, ForwardFails, ReplyUnreadable, Goes
  <2>2. Settled(c)'
    BY <1>t, <2>1 DEF ExchangeInv, Settled
  <2>3. QED
    BY <1>t, <2>1, <2>2, HandlerMoves
<1>2. CASE RequestRefused(c)
  <2>1. /\ Goes(c, "request", "leaving") /\ UNCHANGED <<event, reply>>
        /\ answer' = [answer EXCEPT ![c] = "400"] /\ stage[c] = "request"
    BY <1>2 DEF RequestRefused, Goes
  <2>2. Settled(c)'
    BY <1>t, <2>1 DEF ExchangeInv, Settled
  <2>3. answer' \in [Connections -> Answers]
    BY <1>t, <2>1 DEF Answers
  <2>4. QED
    BY <1>t, <2>1, <2>2, <2>3, HandlerMoves
<1>3. CASE RequestRead(c) \/ UpstreamConnected(c) \/ Forwarded(c)
  <2>1. PICK to \in {"connect", "forward", "reply"} :
          /\ Goes(c, stage[c], to) /\ UNCHANGED exchangeVars
          /\ stage[c] \in {"request", "connect", "forward"}
    BY <1>3 DEF RequestRead, UpstreamConnected, Forwarded, Goes
  <2>2. answer'[c] = "none" /\ event'[c] = "none"
    BY <1>t, <2>1 DEF ExchangeInv
  <2>3. QED
    BY <1>t, <2>1, <2>2, HandlerMoves
<1>4. CASE UpstreamRefused(c)
  <2>1. /\ Goes(c, "connect", "badGateway") /\ UNCHANGED <<answer, reply>>
        /\ event' = [event EXCEPT ![c] = "502"] /\ stage[c] = "connect"
    BY <1>4 DEF UpstreamRefused, Goes
  <2>2. answer'[c] = "none" /\ event'[c] = "502"
    BY <1>t, <2>1 DEF ExchangeInv
  <2>3. event' \in [Connections -> Events]
    BY <1>t, <2>1 DEF Events
  <2>4. QED
    BY <1>t, <2>1, <2>2, <2>3, HandlerMoves
<1>5. CASE AnswerBadGateway(c)
  <2>1. /\ Goes(c, "badGateway", "leaving") /\ UNCHANGED <<event, reply>>
        /\ answer' = [answer EXCEPT ![c] = "502"] /\ stage[c] = "badGateway"
    BY <1>5 DEF AnswerBadGateway, Goes
  <2>2. Settled(c)'
    BY <1>t, <2>1 DEF ExchangeInv, Settled
  <2>3. answer' \in [Connections -> Answers]
    BY <1>t, <2>1 DEF Answers
  <2>4. QED
    BY <1>t, <2>1, <2>2, <2>3, HandlerMoves
<1>6. ASSUME NEW r \in Replies, ReplyRead(c, r) PROVE IInv'
  <2>1. PICK to \in {"deliver", "leaving"} :
          /\ Goes(c, "reply", to) /\ UNCHANGED <<answer, event>>
          /\ reply' = [reply EXCEPT ![c] = r] /\ stage[c] = "reply"
    BY <1>6 DEF ReplyRead, Goes
  <2>2. answer'[c] = "none" /\ event'[c] = "none" /\ Settled(c)'
    BY <1>t, <2>1 DEF ExchangeInv, Settled
  <2>3. reply' \in [Connections -> Replies \union {"none"}]
    BY <1>t, <2>1
  <2>4. QED
    BY <1>t, <2>1, <2>2, <2>3, HandlerMoves
<1>7. CASE Deliver(c)
  <2>1. /\ Goes(c, "deliver", "record") /\ UNCHANGED <<event, reply>>
        /\ answer' = [answer EXCEPT ![c] = "upstream"] /\ stage[c] = "deliver"
    BY <1>7 DEF Deliver, Goes
  <2>2. answer'[c] = "upstream" /\ event'[c] = "none"
    BY <1>t, <2>1 DEF ExchangeInv
  <2>3. answer' \in [Connections -> Answers]
    BY <1>t, <2>1 DEF Answers
  <2>4. QED
    BY <1>t, <2>1, <2>2, <2>3, HandlerMoves
<1>8. CASE Record(c)
  <2>1. /\ Goes(c, "record", "leaving") /\ UNCHANGED <<answer, reply>>
        /\ event' = [event EXCEPT ![c] = RecordedStatus(c)] /\ stage[c] = "record"
    BY <1>8 DEF Record, Goes
  <2>2. RecordedStatus(c) \in {"final", "100"}
    BY DEF RecordedStatus
  <2>3. Settled(c)'
    BY <1>t, <2>1, <2>2 DEF ExchangeInv, Settled
  <2>4. event' \in [Connections -> Events]
    BY <1>t, <2>1, <2>2 DEF Events
  <2>5. QED
    BY <1>t, <2>1, <2>3, <2>4, HandlerMoves
<1>9. CASE DropSender(c)
  <2>1. /\ Goes(c, "leaving", "released") /\ UNCHANGED exchangeVars
        /\ stage[c] = "leaving"
    BY <1>9 DEF DropSender, Goes
  <2>2. Settled(c)'
    BY <1>t, <2>1 DEF ExchangeInv, Settled
  <2>3. QED
    BY <1>t, <2>1, <2>2, HandlerMoves
<1>10. CASE DropPermit(c)
  <2>1. /\ Alive /\ stage[c] = "released"
        /\ stage' = [stage EXCEPT ![c] = "done"] /\ active' = active - 1
        /\ UNCHANGED <<running, server, main, late, answer, event, reply>>
    BY <1>10 DEF DropPermit, PermitReturned, loopVars
  <2>2. /\ Cardinality(PermitHolders') = Cardinality(PermitHolders) - 1
        /\ Cardinality(PermitHolders) >= 1
    BY <1>t, <2>1, HolderRemoved
  <2>3. /\ active \in Nat /\ Cardinality(PermitHolders) \in Nat
        /\ MaxConnections \in Nat
    BY <1>t, HoldersFinite, ProxyAssumption DEF TypeOK
  <2>4. TypeOK'
    BY <1>t, <2>1, <2>2, <2>3 DEF TypeOK, PermitsConserved, Stages
  <2>5. PermitsConserved'
    BY <1>t, <2>1, <2>2, <2>3 DEF PermitsConserved, Alive
  <2>6. ExchangeInv'
    BY <1>t, <2>1 DEF ExchangeInv, Settled, TypeOK
  <2>7. BacklogInv' /\ DrainsInFlight' /\ LateInv'
    BY <1>t, <2>1 DEF BacklogInv, DrainsInFlight, LateInv, Listening, Alive, TypeOK
  <2>8. QED
    BY <2>4, <2>5, <2>6, <2>7 DEF IInv
<1>11. QED
  BY <1>1, <1>2, <1>3, <1>4, <1>5, <1>6, <1>7, <1>8, <1>9, <1>10 DEF HandlerStep

\* Every step of the accept loop preserves the invariant.
LEMMA ServerStepInv ==
  ASSUME IInv, ServerStep
  PROVE  IInv'
<1> USE DEF exchangeVars
<1>t. /\ TypeOK /\ PermitsConserved /\ ExchangeInv
      /\ BacklogInv /\ DrainsInFlight /\ LateInv
      /\ active \in Nat /\ Cardinality(PermitHolders) \in Nat
      /\ MaxConnections \in Nat /\ late \in Nat
  BY HoldersFinite, ProxyAssumption DEF IInv, TypeOK
<1>1. CASE Bind \/ BindFails \/ AcceptNothing
  <2>1. /\ Alive /\ server \in {"binding", "accepting"}
        /\ server' \in {"checking", "returned"} /\ main' \in {main, "failed"}
        /\ server = "binding" \/ (server' = "checking" /\ main' = main)
        /\ UNCHANGED <<running, active, stage, answer, event, reply, late>>
    BY <1>1 DEF Bind, BindFails, AcceptNothing
  <2>2. PermitHolders' = PermitHolders
    BY <2>1 DEF PermitHolders
  <2>3. TypeOK'
    BY <1>t, <2>1 DEF TypeOK, ServerStates, MainStates
  <2>4. PermitsConserved'
    BY <1>t, <2>1, <2>2 DEF PermitsConserved
  <2>5. ExchangeInv' /\ DrainsInFlight' /\ LateInv'
    BY <1>t, <2>1 DEF ExchangeInv, Settled, DrainsInFlight, LateInv, Alive
  <2>6. BacklogInv'
    BY <1>t, <2>1 DEF BacklogInv, Listening, Alive
  <2>7. QED
    BY <2>3, <2>4, <2>5, <2>6 DEF IInv
<1>2. CASE CheckRunning /\ running
  <2>1. /\ Alive /\ server = "checking" /\ server' = "accepting" /\ late = 0
        /\ UNCHANGED <<running, main, active, stage, answer, event, reply, late>>
    BY <1>t, <1>2 DEF CheckRunning, LateInv
  <2>2. PermitHolders' = PermitHolders
    BY <2>1 DEF PermitHolders
  <2>3. TypeOK'
    BY <1>t, <2>1 DEF TypeOK, ServerStates
  <2>4. PermitsConserved'
    BY <1>t, <2>1, <2>2 DEF PermitsConserved, Alive
  <2>5. ExchangeInv' /\ BacklogInv' /\ DrainsInFlight' /\ LateInv'
    BY <1>t, <2>1 DEF ExchangeInv, Settled, BacklogInv, DrainsInFlight, LateInv,
                      Listening, Alive
  <2>6. QED
    BY <2>3, <2>4, <2>5 DEF IInv
<1>3. CASE CheckRunning /\ ~running
  <2>1. /\ Alive /\ server = "checking" /\ server' = "returned"
        /\ stage' = WithoutListener /\ main' \in {main, "joining"}
        /\ UNCHANGED <<running, active, answer, event, reply, late>>
    BY <1>3 DEF CheckRunning
  <2>2. PermitHolders' = PermitHolders
    BY <1>t, <2>1, ListenerHolders
  <2>3. TypeOK'
    BY <1>t, <2>1 DEF TypeOK, ServerStates, MainStates, WithoutListener, Stages
  <2>4. PermitsConserved'
    BY <1>t, <2>1, <2>2 DEF PermitsConserved, Alive
  <2>5. ExchangeInv'
    BY <1>t, <2>1 DEF ExchangeInv, Settled, WithoutListener
  <2>6. BacklogInv' /\ DrainsInFlight' /\ LateInv'
    BY <1>t, <2>1 DEF BacklogInv, DrainsInFlight, LateInv, Listening, Alive, WithoutListener
  <2>7. QED
    BY <2>3, <2>4, <2>5, <2>6 DEF IInv
<1>4. ASSUME NEW c \in Connections, Accept(c) PROVE IInv'
  <2>1. /\ Alive /\ server = "accepting" /\ stage[c] = "backlog"
        /\ active < MaxConnections /\ active' = active + 1
        /\ stage' = [stage EXCEPT ![c] = "request"] /\ server' = "checking"
        /\ UNCHANGED <<running, main, answer, event, reply>>
    BY <1>4 DEF Accept, PermitFree, NextTurn
  <2>2. late = 0 /\ late' \in {0, 1} /\ (late' # 0 => ~running)
    BY <1>t, <1>4, <2>1 DEF Accept, LateInv
  <2>3. Cardinality(PermitHolders') = Cardinality(PermitHolders) + 1
    BY <1>t, <2>1, HolderAdded
  <2>4. TypeOK'
    BY <1>t, <2>1, <2>2 DEF TypeOK, ServerStates, Stages, InHandler
  <2>5. PermitsConserved'
    BY <1>t, <2>1, <2>3 DEF PermitsConserved, Alive
  <2>6. ExchangeInv'
    BY <1>t, <2>1 DEF ExchangeInv, Settled, TypeOK
  <2>7. BacklogInv' /\ DrainsInFlight' /\ LateInv'
    BY <1>t, <2>1, <2>2 DEF BacklogInv, DrainsInFlight, LateInv, Listening, Alive, TypeOK
  <2>8. QED
    BY <2>4, <2>5, <2>6, <2>7 DEF IInv
<1>5. ASSUME NEW c \in Connections, Reject(c) PROVE IInv'
  <2>1. /\ Alive /\ server = "accepting" /\ stage[c] = "backlog"
        /\ stage' = [stage EXCEPT ![c] = "rejected"] /\ server' = "checking"
        /\ UNCHANGED <<running, main, active, answer, event, reply, late>>
    BY <1>5 DEF Reject, NextTurn
  <2>2. PermitHolders' = PermitHolders
    BY <1>t, <2>1 DEF PermitHolders, InHandler, TypeOK
  <2>3. TypeOK'
    BY <1>t, <2>1 DEF TypeOK, ServerStates, Stages
  <2>4. PermitsConserved'
    BY <1>t, <2>1, <2>2 DEF PermitsConserved, Alive
  <2>5. ExchangeInv'
    BY <1>t, <2>1 DEF ExchangeInv, Settled, TypeOK
  <2>6. BacklogInv' /\ DrainsInFlight' /\ LateInv'
    BY <1>t, <2>1 DEF BacklogInv, DrainsInFlight, LateInv, Listening, Alive, TypeOK
  <2>7. QED
    BY <2>3, <2>4, <2>5, <2>6 DEF IInv
<1>6. ASSUME NEW c \in Connections, SpawnFails(c) PROVE IInv'
  <2>1. /\ Alive /\ server = "accepting" /\ stage[c] = "backlog"
        /\ active < MaxConnections /\ active' = active + 1
        /\ server' = "panicked" /\ late = 0
        /\ UNCHANGED <<running, answer, event, reply, late>>
    BY <1>t, <1>6 DEF SpawnFails, PermitFree, LateInv
  <2>2. stage' = WithoutListener /\ main' = IF Headless THEN "failed" ELSE main
    BY <1>6 DEF SpawnFails
  <2>3. PermitHolders' = PermitHolders
    BY <1>t, <2>2, ListenerHolders
  <2>4. TypeOK'
    BY <1>t, <2>1, <2>2
    DEF TypeOK, ServerStates, MainStates, WithoutListener, Stages
  <2>5. PermitsConserved'
    BY <1>t, <2>1, <2>2, <2>3 DEF PermitsConserved, Alive
  <2>6. ExchangeInv'
    BY <1>t, <2>1, <2>2 DEF ExchangeInv, Settled, WithoutListener
  <2>7. BacklogInv' /\ DrainsInFlight' /\ LateInv'
    BY <1>t, <2>1, <2>2
    DEF BacklogInv, DrainsInFlight, LateInv, Alive, WithoutListener
  <2>8. QED
    BY <2>4, <2>5, <2>6, <2>7 DEF IInv
<1>7. QED
  BY <1>1, <1>2, <1>3, <1>4, <1>5, <1>6 DEF ServerStep, CheckRunning

\* So does every step of a client, of the operator and of main.
LEMMA OutsideInv ==
  ASSUME IInv, Outside \/ MainStep
  PROVE  IInv'
<1> USE DEF exchangeVars
<1>t. TypeOK /\ PermitsConserved /\ ExchangeInv /\ BacklogInv /\ DrainsInFlight /\ LateInv
  BY DEF IInv
<1>1. ASSUME NEW c \in Connections, Connect(c) PROVE IInv'
  <2>1. /\ Alive /\ Listening /\ stage[c] = "unconnected"
        /\ stage' = [stage EXCEPT ![c] = "backlog"]
        /\ UNCHANGED <<running, server, main, late, active, answer, event, reply>>
    BY <1>1 DEF Connect, loopVars
  <2>2. PermitHolders' = PermitHolders
    BY <1>t, <2>1 DEF PermitHolders, InHandler, TypeOK
  <2>3. TypeOK'
    BY <1>t, <2>1 DEF TypeOK, Stages
  <2>4. PermitsConserved'
    BY <1>t, <2>1, <2>2 DEF PermitsConserved, Alive
  <2>5. ExchangeInv'
    BY <1>t, <2>1 DEF ExchangeInv, Settled, TypeOK
  <2>6. BacklogInv'
    BY <1>t, <2>1 DEF BacklogInv, Listening, Alive, TypeOK
  <2>7. DrainsInFlight' /\ LateInv'
    BY <1>t, <2>1 DEF DrainsInFlight, LateInv, Alive
  <2>8. QED
    BY <2>3, <2>4, <2>5, <2>6, <2>7 DEF IInv
<1>2. CASE Signal \/ QuitTui \/ JoinProxy
  <2>1. /\ Alive /\ Alive' /\ running' \in {running, FALSE}
        /\ main' \in MainStates
        /\ UNCHANGED <<server, active, stage, answer, event, reply, late>>
    BY <1>t, <1>2 DEF Signal, QuitTui, JoinProxy, Alive, MainStates, TypeOK
  <2>2. PermitHolders' = PermitHolders
    BY <2>1 DEF PermitHolders
  <2>3. TypeOK'
    BY <1>t, <2>1 DEF TypeOK
  <2>4. PermitsConserved'
    BY <1>t, <2>1, <2>2 DEF PermitsConserved
  <2>5. ExchangeInv' /\ BacklogInv' /\ DrainsInFlight'
    BY <1>t, <2>1 DEF ExchangeInv, Settled, BacklogInv, DrainsInFlight, Listening, Alive
  <2>6. LateInv'
    BY <1>t, <2>1 DEF LateInv
  <2>7. QED
    BY <2>3, <2>4, <2>5, <2>6 DEF IInv
<1>3. CASE TuiFails
  <2>1. /\ main' = "failed" /\ stage' = WithoutListener
        /\ UNCHANGED <<running, server, active, answer, event, reply, late>>
    BY <1>3 DEF TuiFails
  <2>2. TypeOK'
    BY <1>t, <2>1 DEF TypeOK, MainStates, WithoutListener, Stages
  <2>3. PermitsConserved' /\ DrainsInFlight' /\ LateInv'
    BY <1>t, <2>1 DEF PermitsConserved, DrainsInFlight, LateInv, Alive
  <2>4. ExchangeInv' /\ BacklogInv'
    BY <1>t, <2>1 DEF ExchangeInv, BacklogInv, Settled, WithoutListener
  <2>5. QED
    BY <2>2, <2>3, <2>4 DEF IInv
<1>4. CASE Exit
  <2>1. /\ main = "joining" /\ ~Listening /\ Handling = {} /\ main' = "exited"
        /\ UNCHANGED <<running, server, active, stage, answer, event, reply, late>>
    BY <1>4 DEF Exit, SendersGone
  <2>2. TypeOK'
    BY <1>t, <2>1 DEF TypeOK, MainStates
  <2>3. PermitsConserved' /\ LateInv'
    BY <1>t, <2>1 DEF PermitsConserved, LateInv, Alive
  <2>4. ExchangeInv' /\ BacklogInv'
    BY <1>t, <2>1 DEF ExchangeInv, BacklogInv, Settled
  <2>5. ASSUME NEW c \in Connections PROVE stage[c] \in Ended /\ Settled(c)
    <3>1. stage[c] \in Ended
      BY <1>t, <2>1 DEF Handling, BacklogInv, TypeOK, Stages, Ended
    <3>2. Settled(c)
      BY <1>t, <3>1 DEF ExchangeInv, Settled, Ended
    <3>3. QED
      BY <3>1, <3>2
  <2>6. DrainsInFlight'
    BY <2>1, <2>5 DEF DrainsInFlight, Settled
  <2>7. QED
    BY <2>2, <2>3, <2>4, <2>6 DEF IInv
<1>5. QED
  BY <1>1, <1>2, <1>3, <1>4 DEF Outside, MainStep

\* A step that changes nothing changes no part of the invariant.
LEMMA StutterInv ==
  ASSUME IInv, UNCHANGED vars
  PROVE  IInv'
<1>1. PermitHolders' = PermitHolders
  BY DEF vars, PermitHolders
<1>2. QED
  BY <1>1 DEF vars, IInv, TypeOK, PermitsConserved, ExchangeInv, Settled,
              BacklogInv, DrainsInFlight, LateInv, Listening, Alive

\* The inductive invariant holds throughout.
THEOREM Invariant == Spec => []IInv
<1>1. Init => IInv
  BY InvInit
<1>2. IInv /\ [Next]_vars => IInv'
  BY HandlerStepInv, ServerStepInv, OutsideInv, StutterInv DEF Next
<1>3. QED
  BY <1>1, <1>2, PTL DEF Spec

-----------------------------------------------------------------------------
(* The properties the runs check.                                          *)

\* Type correctness of the proxy server.
THEOREM TypeCorrect == Spec => []TypeOK
<1>1. IInv => TypeOK
  BY DEF IInv
<1>2. QED
  BY <1>1, Invariant, PTL

\* active_connections counts the threads that hold a permit, up to the limit.
THEOREM Permits == Spec => []PermitsConserved
<1>1. IInv => PermitsConserved
  BY DEF IInv
<1>2. QED
  BY <1>1, Invariant, PTL

\* The shutdown flag lets at most one more connection in.
THEOREM Stopping == Spec => []StopsAccepting
<1>1. IInv => StopsAccepting
  BY DEF IInv, LateInv, StopsAccepting
<1>2. QED
  BY <1>1, Invariant, PTL

\* A handler that ended recorded what it answered.
THEOREM Recording == Spec => []RecordedIfAnswered
<1>1. IInv => RecordedIfAnswered
  BY DEF IInv, ExchangeInv, RecordedIfAnswered
<1>2. QED
  BY <1>1, Invariant, PTL

\* When main returns in good order every connection that was taken ran to the end
\* of its handler, answered and recorded.
THEOREM Draining == Spec => []DrainsInFlight
<1>1. IInv => DrainsInFlight
  BY DEF IInv
<1>2. QED
  BY <1>1, Invariant, PTL

\* Connections are turned away only at the limit.
THEOREM Rejecting == Spec => RejectsOnlyWhenFull
<1>1. IInv /\ [Next]_vars =>
        \A c \in Connections :
          stage[c] # "rejected" /\ stage'[c] = "rejected"
            => Cardinality(PermitHolders) = MaxConnections
  <2>1. SUFFICES ASSUME IInv, [Next]_vars, NEW c \in Connections,
                        stage[c] # "rejected", stage'[c] = "rejected"
                 PROVE  Cardinality(PermitHolders) = MaxConnections
    OBVIOUS
  <2>2. stage \in [Connections -> Stages]
    BY <2>1 DEF IInv, TypeOK
  <2>3. ASSUME NEW d \in Connections, HandlerStep(d) PROVE FALSE
    <3>1. PICK to \in InHandler \union {"released", "done"} :
            stage' = [stage EXCEPT ![d] = to]
      BY <2>3 DEF HandlerStep, Goes, InHandler, RequestUnreadable, RequestRefused,
                  RequestRead, UpstreamConnected, UpstreamRefused, AnswerBadGateway,
                  Forwarded, ForwardFails, ReplyUnreadable, ReplyRead, Deliver,
                  Record, DropSender, DropPermit
    <3>2. QED
      BY <2>1, <2>2, <3>1 DEF InHandler
  <2>4. PICK d \in Connections : Reject(d)
    BY <2>1, <2>2, <2>3
       DEF Next, Outside, ServerStep, MainStep, Connect, Signal, QuitTui, TuiFails,
           Bind, BindFails, CheckRunning, Accept, SpawnFails, AcceptNothing,
           JoinProxy, Exit, WithoutListener, vars
  <2>5. server = "accepting" /\ Alive /\ ~(active < MaxConnections)
    BY <2>4 DEF Reject, PermitFree
  <2>6. QED
    BY <2>1, <2>5, HoldersFinite, ProxyAssumption DEF IInv, TypeOK, PermitsConserved
<1>2. QED
  BY <1>1, Invariant, PTL DEF Spec, RejectsOnlyWhenFull
=============================================================================
