----------------------------- MODULE AgentProofs -----------------------------
(***************************************************************************)
(* What surrounds a call: the session with the Live API, the remote agent   *)
(* that the dispatcher of the voice module talks to, and what a call leaves *)
(* behind.  For every number of messages, calls, lines and requests.        *)
(***************************************************************************)
EXTENDS GeminiSession, CallArtifacts, RemoteAgent, FiniteSetTheorems,
        WellFoundedInduction, TLAPS

---------------------------------------------------------------------------
(* The session with the Live API *)

(***************************************************************************)
(* Tool calls are counted by their places in the sequence of events: a part  *)
(* without tool calls moves the places and adds none.                       *)
(***************************************************************************)
Kinds == {"transcript", "interrupted", "output-audio", "decision", "end-call",
          "turn-complete", "session-expiring", "error"}
ToolPlaces(s) == {i \in DOMAIN s : ToolEvent(s[i])}
WithoutTools(s) == s \in Seq(Kinds) /\ ToolPlaces(s) = {}
Endless(s) == \A i \in DOMAIN s : ~Ends(s[i])

LEMMA OneEvent ==
  ASSUME NEW event \in Kinds, ~ToolEvent(event), NEW kinds
  PROVE  WithoutTools(If(event, kinds))
<1>1. WithoutTools(<<>>)
  BY DEF WithoutTools, ToolPlaces
<1>2. <<event>> \in Seq(Kinds) /\ DOMAIN <<event>> = {1} /\ <<event>>[1] = event
  OBVIOUS
<1>3. WithoutTools(<<event>>)
  BY <1>2 DEF WithoutTools, ToolPlaces
<1> QED BY <1>1, <1>3 DEF If

LEMMA OneEventEndless ==
  ASSUME NEW event \in Kinds, ~Ends(event), NEW kinds
  PROVE  If(event, kinds) \in Seq(Kinds) /\ Endless(If(event, kinds))
<1>1. <<>> \in Seq(Kinds) /\ Endless(<<>>)
  BY DEF Endless
<1>2. <<event>> \in Seq(Kinds) /\ DOMAIN <<event>> = {1} /\ <<event>>[1] = event
  OBVIOUS
<1>3. Endless(<<event>>)
  BY <1>2 DEF Endless
<1> QED BY <1>1, <1>2, <1>3 DEF If

LEMMA SizeOfInterval ==
  ASSUME NEW a \in Nat, NEW n \in Nat
  PROVE  Cardinality((a + 1) .. (a + n)) = n
<1>1. a + 1 \in Int /\ a + n \in Int
  OBVIOUS
<1>2. Cardinality((a + 1) .. (a + n)) = IF a + 1 > a + n THEN 0 ELSE (a + n) - (a + 1) + 1
  BY <1>1, FS_Interval
<1> QED BY <1>2

LEMMA QuietHead ==
  ASSUME NEW p, WithoutTools(p), NEW s \in Seq(Kinds), WithoutTools(s)
  PROVE  WithoutTools(p \o s)
BY DEF WithoutTools, ToolPlaces

LEMMA QuietTail ==
  ASSUME NEW s \in Seq(Kinds), NEW r, WithoutTools(r)
  PROVE  s \o r \in Seq(Kinds) /\ ToolPlaces(s \o r) = ToolPlaces(s)
BY DEF WithoutTools, ToolPlaces

LEMMA ToolsBetween ==
  ASSUME NEW p, WithoutTools(p), NEW tools \in Seq(Kinds),
         \A i \in DOMAIN tools : ToolEvent(tools[i])
  PROVE  /\ p \o tools \in Seq(Kinds)
         /\ ToolPlaces(p \o tools) = (Len(p) + 1) .. (Len(p) + Len(tools))
BY DEF WithoutTools, ToolPlaces

LEMMA EndlessJoined ==
  ASSUME NEW a \in Seq(Kinds), NEW b \in Seq(Kinds), Endless(a), Endless(b)
  PROVE  a \o b \in Seq(Kinds) /\ Endless(a \o b)
BY DEF Endless

LEMMA ToolNames ==
  ASSUME NEW m \in Message
  PROVE  LET tools == [i \in DOMAIN m.calls |-> EventOf(m.calls[i])]
         IN  /\ tools \in Seq(Kinds) /\ Len(tools) = Len(m.calls)
             /\ \A i \in DOMAIN tools : ToolEvent(tools[i])
             /\ Len(m.calls) \in 0 .. 2
<1> DEFINE tools == [i \in DOMAIN m.calls |-> EventOf(m.calls[i])]
<1>0. \/ m.calls = <<>> \/ m.calls = <<"report_decision">>
      \/ m.calls = <<"end_call", "report_decision">>
  BY DEF Message
<1>1. m.calls \in Seq({"report_decision", "end_call"}) /\ Len(m.calls) \in 0 .. 2
  <2>1. CASE m.calls = <<>>
    BY <2>1
  <2>2. CASE m.calls = <<"report_decision">>
    BY <2>2
  <2>3. CASE m.calls = <<"end_call", "report_decision">>
    BY <2>3
  <2> QED BY <1>0, <2>1, <2>2, <2>3
<1>2. \A i \in DOMAIN m.calls : EventOf(m.calls[i]) \in Kinds /\ ToolEvent(EventOf(m.calls[i]))
  BY DEF EventOf, ToolEvent, Kinds
<1>3. DOMAIN m.calls = 1 .. Len(m.calls)
  BY <1>1
<1> QED BY <1>1, <1>2, <1>3

(* normalizeLiveMessage keeps every tool call of a message, and only those. *)
LEMMA ToolsKept ==
  ASSUME NEW m \in Message
  PROVE  Acknowledged(Events(m)) = Len(m.calls)
<1> DEFINE tools == [i \in DOMAIN m.calls |-> EventOf(m.calls[i])]
           head == If("transcript", m.content) \o If("interrupted", m.content) \o If("output-audio", m.content)
           turn == If("turn-complete", m.rest)
           expiring == If("session-expiring", m.rest)
           error == If("error", m.rest)
<1>1. WithoutTools(If("transcript", m.content)) /\ WithoutTools(If("interrupted", m.content))
        /\ WithoutTools(If("output-audio", m.content)) /\ WithoutTools(turn) /\ WithoutTools(expiring) /\ WithoutTools(error)
  BY OneEvent DEF ToolEvent, Kinds
<1>2. WithoutTools(If("transcript", m.content) \o If("interrupted", m.content))
  BY <1>1, QuietHead DEF WithoutTools
<1>3. WithoutTools(head)
  BY <1>1, <1>2, QuietHead DEF WithoutTools
<1>4. tools \in Seq(Kinds) /\ (\A i \in DOMAIN tools : ToolEvent(tools[i]))
        /\ Len(tools) = Len(m.calls) /\ Len(m.calls) \in Nat
  <2>1. Len(m.calls) \in 0 .. 2 => Len(m.calls) \in Nat
    OBVIOUS
  <2> QED BY <2>1, ToolNames
<1>5. Events(m) = head \o tools \o turn \o expiring \o error
  BY DEF Events
<1> HIDE DEF head, tools, turn, expiring, error
<1>6. head \o tools \in Seq(Kinds)
        /\ ToolPlaces(head \o tools) = (Len(head) + 1) .. (Len(head) + Len(tools))
  BY <1>3, <1>4, ToolsBetween
<1>7. head \o tools \o turn \in Seq(Kinds) /\ ToolPlaces(head \o tools \o turn) = ToolPlaces(head \o tools)
  BY <1>1, <1>6, QuietTail
<1>8. head \o tools \o turn \o expiring \in Seq(Kinds)
        /\ ToolPlaces(head \o tools \o turn \o expiring) = ToolPlaces(head \o tools)
  BY <1>1, <1>7, QuietTail
<1>9. ToolPlaces(Events(m)) = ToolPlaces(head \o tools)
  BY <1>1, <1>5, <1>7, <1>8, QuietTail
<1>10. Len(head) \in Nat
  BY <1>3 DEF WithoutTools
<1>11. Cardinality((Len(head) + 1) .. (Len(head) + Len(m.calls))) = Len(m.calls)
  BY <1>4, <1>10, SizeOfInterval
<1> QED BY <1>4, <1>6, <1>9, <1>11 DEF Acknowledged, ToolPlaces

(* A message without an error event does not end the call. *)
LEMMA NoErrorNoEnd ==
  ASSUME NEW m \in Message, "error" \notin m.rest
  PROVE  Endless(Events(m))
<1> DEFINE tools == [i \in DOMAIN m.calls |-> EventOf(m.calls[i])]
           E(s) == s \in Seq(Kinds) /\ Endless(s)
<1>1. \A event \in Kinds : \A kinds : ~Ends(event) => E(If(event, kinds))
  BY OneEventEndless
<1>2. E(If("error", m.rest))
  BY DEF If, Endless, Ends, Kinds
<1>3. E(tools)
  <2>1. tools \in Seq(Kinds) /\ \A i \in DOMAIN tools : ToolEvent(tools[i])
    BY ToolNames
  <2> QED BY <2>1 DEF Endless, Ends, ToolEvent
<1>4. \A a, b : E(a) /\ E(b) => E(a \o b)
  BY EndlessJoined
<1>5. /\ E(If("transcript", m.content)) /\ E(If("interrupted", m.content))
      /\ E(If("output-audio", m.content)) /\ E(If("turn-complete", m.rest))
      /\ E(If("session-expiring", m.rest))
  BY <1>1 DEF Ends, Kinds
<1> HIDE DEF tools, E
<1>6. E(If("transcript", m.content) \o If("interrupted", m.content) \o If("output-audio", m.content))
  BY <1>4, <1>5
<1>7. E(If("transcript", m.content) \o If("interrupted", m.content) \o If("output-audio", m.content)
          \o tools \o If("turn-complete", m.rest))
  BY <1>3, <1>4, <1>5, <1>6
<1>8. E(Events(m))
  BY <1>2, <1>4, <1>5, <1>7 DEF Events, tools
<1> QED BY <1>8 DEF E

---------------------------------------------------------------------------
(***************************************************************************)
(* What holds between the socket, the promise of connect and the worker.    *)
(* The worker listens exactly from the end of connect to the end of its     *)
(* call; a setup that is settled early settles connect with it.             *)
(***************************************************************************)
SessionTypes ==
  /\ link \in {"none", "opening", "open", "failing", "closing", "down"}
  /\ connecting \in {"no", "socket", "setup", "done", "failed"}
  /\ setup \in {"no", "resolved", "rejected"}
  /\ closed \in BOOLEAN /\ listening \in BOOLEAN /\ late \in BOOLEAN
  /\ owner \in {"calling", "over"}

Counts == messages \in 0 .. MaxMessages /\ asked \in 0 .. 2 * messages /\ acks \in 0 .. asked

SessionStages ==
  /\ connecting = "no" <=> link = "none"
  /\ connecting = "socket" <=> link = "opening"
  /\ connecting = "setup" => link = "open"
  /\ connecting \in {"no", "socket", "setup"} => setup = "no"
  /\ connecting = "failed" /\ setup # "rejected" => link \in {"closing", "down"}
  /\ link = "failing" => setup = "rejected" /\ connecting = "failed"

WorkerInv ==
  /\ listening <=> connecting = "done" /\ owner = "calling"
  /\ closed => connecting = "done" /\ owner = "over"
  /\ setup # "resolved" => acks = asked

SessionInv == SessionTypes /\ Counts /\ SessionStages /\ WorkerInv /\ SessionAccountedFor

LEMMA InitialSession == GeminiInit => SessionInv
<1> SUFFICES ASSUME GeminiInit PROVE SessionInv
  OBVIOUS
<1>1. Counts
  BY GeminiAssumption DEF GeminiInit, Counts
<1> QED BY <1>1 DEF GeminiInit, SessionInv, SessionTypes, SessionStages, WorkerInv, SessionAccountedFor

(* What a failing socket tells the worker ends the call of a worker that listens. *)
LEMMA GiveFailure ==
  ASSUME SessionInv, NEW event \in {"error", "closed"}, NEW fatal \in BOOLEAN, Give(<<event>>, fatal)
  PROVE  /\ late' = late /\ acks' = acks
         /\ owner' = IF listening \/ fatal THEN "over" ELSE owner
         /\ closed' = (closed \/ listening)
         /\ listening' = FALSE
<1>1. DOMAIN <<event>> = {1} /\ <<event>>[1] = event
  OBVIOUS
<1>2. Ends(event) /\ ~ToolEvent(event)
  BY DEF Ends, ToolEvent
<1>3. Acknowledged(<<event>>) = 0
  <2>1. {i \in DOMAIN <<event>> : ToolEvent(<<event>>[i])} = {}
    BY <1>1, <1>2
  <2> QED BY <2>1, FS_EmptySet DEF Acknowledged
<1>4. \E i \in DOMAIN <<event>> : Ends(<<event>>[i])
  BY <1>1, <1>2
<1>5. acks \in Nat /\ ~(closed /\ listening) /\ listening \in BOOLEAN
  BY GeminiAssumption DEF SessionInv, SessionTypes, Counts, WorkerInv
<1> QED BY <1>3, <1>4, <1>5 DEF Give, StillListening, SessionInv, SessionTypes

LEMMA FailureKeepsInv ==
  ASSUME SessionInv, NEW event \in {"error", "closed"}, NEW after,
         Fails(event, after),
         \/ link = "opening" /\ after = "failing"
         \/ link = "open" /\ after = "open"
         \/ link \in {"opening", "open", "failing", "closing"} /\ after = "down"
  PROVE  SessionInv'
<1> DEFINE waits == setup = "no" /\ connecting \in {"socket", "setup"}
<1>1. Give(<<event>>, waits) /\ waits \in BOOLEAN
  BY DEF Fails
<1>2. /\ late' = late /\ acks' = acks
      /\ owner' = IF listening \/ waits THEN "over" ELSE owner
      /\ closed' = (closed \/ listening)
      /\ listening' = FALSE
  BY <1>1, GiveFailure
<1>3. Counts'
  BY <1>2 DEF Fails, SessionInv, Counts
<1>4. SessionTypes'
  BY <1>2 DEF Fails, SessionInv, SessionTypes, AfterFailedSetup, Closing
<1>5. SessionStages'
  BY <1>2 DEF Fails, SessionInv, SessionTypes, SessionStages, WorkerInv, SessionAccountedFor, AfterFailedSetup, Closing
<1>6. WorkerInv'
  BY <1>2 DEF Fails, SessionInv, SessionTypes, SessionStages, WorkerInv
<1>7. SessionAccountedFor'
  BY <1>2 DEF Fails, SessionInv, SessionTypes, SessionStages, WorkerInv, SessionAccountedFor, AfterFailedSetup, Closing
<1> QED BY <1>3, <1>4, <1>5, <1>6, <1>7 DEF SessionInv

(* Every tool call of a message is counted, and answered unless the message ends the call. *)
LEMMA MessageKeepsInv ==
  ASSUME SessionInv, NEW m \in Message, Receive(m)
  PROVE  SessionInv'
<1> DEFINE n == Len(m.calls)
           over == listening /\ \E i \in DOMAIN Events(m) : Ends(Events(m)[i])
<1>1. n \in 0 .. 2 /\ Acknowledged(Events(m)) = n
  BY ToolNames, ToolsKept
<1>2. setup = "resolved" \/ n = 0
  <2>1. [m EXCEPT !.rest = {}] = Nothing => m.calls = <<>>
    BY DEF Message, Nothing
  <2>2. m.calls = <<>> => n = 0
    OBVIOUS
  <2> QED BY <2>1, <2>2 DEF Receive
<1>3. ~(closed /\ listening) /\ listening \in BOOLEAN /\ closed \in BOOLEAN /\ late \in BOOLEAN
  BY DEF SessionInv, SessionTypes, WorkerInv
<1>4. /\ late' = late
      /\ acks' = IF listening THEN acks + n ELSE acks
      /\ owner' = IF over THEN "over" ELSE owner
      /\ closed' = (closed \/ over)
      /\ listening' = (listening /\ ~over)
  <2>1. acks \in Nat
    BY GeminiAssumption DEF SessionInv, Counts
  <2>2. Give(Events(m), FALSE)
    BY DEF Receive
  <2>3. ~(closed /\ listening /\ Events(m) # <<>>)
    BY <1>3
  <2>4. late' = late /\ acks' = IF listening THEN acks + n ELSE acks
    <3>1. acks + 0 = acks
      BY <2>1
    <3> QED BY <1>1, <1>3, <2>2, <2>3, <3>1 DEF Give
  <2> QED BY <1>3, <2>2, <2>4 DEF Give, StillListening
<1>5. over \in BOOLEAN /\ (over => listening)
  OBVIOUS
<1>6. /\ messages' = messages + 1 /\ asked' = asked + n /\ messages < MaxMessages
      /\ link \in {"open", "closing"} /\ connecting' = connecting /\ setup' = setup
      /\ link' = IF closed' THEN Closing(link) ELSE link
  BY DEF Receive
<1> HIDE DEF n, over
<1>7. Counts'
  BY <1>1, <1>4, <1>6, GeminiAssumption DEF SessionInv, Counts
<1>8. SessionTypes'
  BY <1>3, <1>4, <1>5, <1>6 DEF SessionInv, SessionTypes, Closing
<1>9. SessionStages'
  BY <1>4, <1>5, <1>6 DEF SessionInv, SessionStages, WorkerInv, Closing
<1>10. WorkerInv'
  <2>1. acks \in Int /\ asked \in Int /\ n \in Int
    BY <1>1, GeminiAssumption DEF SessionInv, Counts
  <2> QED BY <1>2, <1>4, <1>5, <1>6, <2>1 DEF SessionInv, SessionTypes, SessionStages, WorkerInv
<1>11. SessionAccountedFor'
  <2>1. acks \in Int /\ asked \in Int /\ n \in Int
    BY <1>1, GeminiAssumption DEF SessionInv, Counts
  <2> QED BY <1>4, <1>5, <1>6, <2>1
          DEF SessionInv, SessionTypes, SessionStages, WorkerInv, SessionAccountedFor, Closing
<1> QED BY <1>7, <1>8, <1>9, <1>10, <1>11 DEF SessionInv

LEMMA NextKeepsSession == SessionInv /\ [GeminiNext]_geminiVars => SessionInv'
<1> SUFFICES ASSUME SessionInv, [GeminiNext]_geminiVars PROVE SessionInv'
  OBVIOUS
<1> USE DEF SessionInv, SessionTypes, Counts, SessionStages, WorkerInv, SessionAccountedFor, toolVars
<1>1. CASE Connect
  BY <1>1 DEF Connect
<1>2. CASE SocketOpens
  BY <1>2 DEF SocketOpens
<1>3. CASE SetupEnds
  BY <1>3 DEF SetupEnds, TakesOver, Closing
<1>4. CASE OnError
  <2>1. CASE link = "opening" /\ Fails("error", "failing")
    BY <2>1, FailureKeepsInv
  <2>2. CASE link = "open" /\ Fails("error", "open")
    BY <2>2, FailureKeepsInv
  <2> QED BY <1>4, <2>1, <2>2 DEF OnError
<1>5. CASE OnClose
  BY <1>5, FailureKeepsInv DEF OnClose
<1>6. CASE SetupTimesOut
  BY <1>6 DEF SetupTimesOut, AfterFailedSetup, Closing
<1>7. CASE CallOver
  BY <1>7 DEF CallOver, StillListening, Closing
<1>8. CASE \E m \in Message : Receive(m)
  BY <1>8, MessageKeepsInv
<1>9. CASE UNCHANGED geminiVars
  BY <1>9 DEF geminiVars
<1> QED BY <1>1, <1>2, <1>3, <1>4, <1>5, <1>6, <1>7, <1>8, <1>9 DEF GeminiNext

(* However connect, the setup and the call end, in whatever order and after  *)
(* any number of messages, no session stays open that nobody uses, the worker *)
(* hears nothing after it closed its session and learns of every loss, and it *)
(* answers every tool call while it listens.                                *)
THEOREM SessionsAreAccountedFor == GeminiSpec => []SessionAccountedFor
<1>1. SessionInv => SessionAccountedFor
  BY DEF SessionInv
<1> QED BY <1>1, InitialSession, NextKeepsSession, PTL DEF GeminiSpec

---------------------------------------------------------------------------
(* The remote agent *)

(* The pass names a call whenever it is about to write one; an order that    *)
(* nobody settled by hand moves only together with its call.                *)
AgentInv ==
  /\ AgentTypeOK
  /\ pass.at \in {"claiming", "sending", "returning"} => pass.call \in Queue
  /\ \A c \in Queue : settled[c] \in {"none", "confirmed", "cancelled"}
  /\ \A c \in Queue : settled[c] = "none" /\ orderRow[c] # "pending" =>
                          callRow[c].status # "pending"
  /\ AgentWordKept

LEMMA InitialAgent == AgentInit => AgentInv
<1> SUFFICES ASSUME AgentInit PROVE AgentInv
  OBVIOUS
<1>1. Cardinality(Fragments) \in Nat
  BY RemoteAgentAssumption, FS_CardinalityType
<1>2. AgentTypeOK
  BY <1>1 DEF AgentInit, AgentTypeOK, CallRow, OrderStatus, PassAt
<1>3. AgentWordKept
  BY DEF AgentInit, AgentWordKept, FragmentsKept, AgentDecidesWhatIsOpen
<1> QED BY <1>2, <1>3 DEF AgentInit, AgentInv

(* The queue has an oldest call. *)
LEMMA OldestOfQueue ==
  ASSUME NEW S \in SUBSET Queue, S # {}
  PROVE  (CHOOSE c \in S : \A d \in S : c <= d) \in S
<1>1. S \subseteq Nat /\ S # {}
  BY RemoteAgentAssumption
<1>2. PICK c \in S : \A d \in S : ~(<<d, c>> \in OpToRel(<, Nat))
  BY <1>1, WFMin, NatLessThanWellFounded
<1>3. \A d \in S : ~(d < c)
  <2> SUFFICES ASSUME NEW d \in S, d < c PROVE FALSE
    OBVIOUS
  <2>1. c \in Nat /\ d \in Nat
    BY <1>1
  <2>2. <<d, c>> \in Nat \X Nat
    BY <2>1
  <2>3. <<d, c>> \in OpToRel(<, Nat)
    BY <2>2 DEF OpToRel
  <2> QED BY <1>2, <2>3
<1>4. \A d \in S : c <= d
  BY <1>1, <1>3
<1> QED BY <1>4

(* A row of the calls table that keeps what was kept and moves as its order does. *)
LEMMA RowWriteKeepsInv ==
  ASSUME AgentInv, NEW c \in Queue, NEW row \in CallRow,
         row.stale => row.dispatched, row.status = callRow[c].status,
         callRow[c].parts \subseteq row.parts,
         callRow' = [callRow EXCEPT ![c] = row],
         UNCHANGED <<orderRow, settled, kept>>
  PROVE  /\ callRow' \in [Queue -> CallRow]
         /\ \A d \in Queue : callRow'[d].stale => callRow'[d].dispatched
         /\ \A d \in Queue : settled'[d] = "none" /\ orderRow'[d] # "pending" =>
                                 callRow'[d].status # "pending"
         /\ AgentWordKept'
<1>1. callRow' \in [Queue -> CallRow]
  BY DEF AgentInv, AgentTypeOK
<1>2. \A d \in Queue :
    /\ callRow'[d].status = callRow[d].status
    /\ callRow[d].parts \subseteq callRow'[d].parts
    /\ callRow'[d].stale => callRow'[d].dispatched
  BY DEF AgentInv, AgentTypeOK
<1>3. kept \subseteq Queue \X Fragments
  BY DEF AgentInv, AgentTypeOK
<1> QED BY <1>1, <1>2, <1>3 DEF AgentInv, AgentWordKept, FragmentsKept, AgentDecidesWhatIsOpen

(* expireStale closes rows of several orders at once: they were pending, and *)
(* so is each order that the merchant left alone.                           *)
LEMMA ExpiryKeepsInv == AgentInv /\ ExpireStale => AgentInv'
<1> SUFFICES ASSUME AgentInv, ExpireStale PROVE AgentInv'
  OBVIOUS
<1>1. \A c \in Queue : callRow[c] \in CallRow
  BY DEF AgentInv, AgentTypeOK
<1>2. \A c \in Queue : [callRow[c] EXCEPT !.status = "no_answer"] \in CallRow
  BY <1>1 DEF CallRow
<1>3. callRow' \in [Queue -> CallRow]
  BY <1>1, <1>2 DEF ExpireStale
<1>4. \A c \in Queue :
    /\ callRow'[c].parts = callRow[c].parts
    /\ callRow'[c].stale = callRow[c].stale
    /\ callRow'[c].dispatched = callRow[c].dispatched
    /\ \/ callRow'[c].status = callRow[c].status
       \/ callRow[c].status = "pending" /\ callRow'[c].status = "no_answer"
  BY <1>1, <1>2 DEF ExpireStale, InFlight, CallRow
<1>5. AgentTypeOK'
  BY <1>3, <1>4 DEF AgentInv, AgentTypeOK, ExpireStale, PassGoes, PassAt
<1>6. AgentWordKept'
  BY <1>4 DEF AgentInv, AgentTypeOK, ExpireStale, AgentWordKept, FragmentsKept, AgentDecidesWhatIsOpen
<1> QED BY <1>4, <1>5, <1>6 DEF AgentInv, ExpireStale, PassGoes

(* A result closes a call that is still open, and its order with it. *)
LEMMA ResultKeepsInv ==
  ASSUME AgentInv, NEW p \in posted, ApplyResult(p)
  PROVE  AgentInv'
<1>1. p \in Post /\ p.call \in Queue /\ p.result \in Outcomes
  BY DEF AgentInv, AgentTypeOK, Post, ApplyResult
<1> DEFINE called == p.call
<1>2. posted' \subseteq Post
  BY DEF ApplyResult, Done, AgentInv, AgentTypeOK
<1>3. CASE ~StillOpen(called)
  BY <1>2, <1>3 DEF ApplyResult, AgentInv, AgentTypeOK, AgentWordKept, FragmentsKept, AgentDecidesWhatIsOpen
<1>4. CASE StillOpen(called)
  <2>1. AsOutcome(p.result) \in {"confirmed", "failed", "no_answer"}
        /\ (AsOutcome(p.result) = "confirmed" <=> p.result = "confirmed")
        /\ (AsOutcome(p.result) = "failed" <=> p.result = "cancelled")
    BY <1>1 DEF AsOutcome, Outcomes
  <2>2. OrderAfter(called, p.result) \in OrderStatus
        /\ (orderRow[called] = "pending" =>
              /\ OrderAfter(called, p.result) = "confirmed" <=> p.result = "confirmed"
              /\ OrderAfter(called, p.result) = "cancelled" <=> p.result = "cancelled")
        /\ (orderRow[called] # "pending" => OrderAfter(called, p.result) = orderRow[called])
    BY <1>1 DEF OrderAfter, Outcomes, OrderStatus, AgentInv, AgentTypeOK
  <2>3. callRow' = [callRow EXCEPT ![called].status = AsOutcome(p.result)]
        /\ orderRow' = [orderRow EXCEPT ![called] = OrderAfter(called, p.result)]
    BY <1>4 DEF ApplyResult
  <2> HIDE DEF called
  <2>4. called \in Queue
    BY <1>1 DEF called
  <2>5. [callRow[called] EXCEPT !.status = AsOutcome(p.result)] \in CallRow
    BY <2>1, <2>4 DEF AgentInv, AgentTypeOK, CallRow
  <2>6. callRow' \in [Queue -> CallRow] /\ orderRow' \in [Queue -> OrderStatus]
    BY <2>2, <2>3, <2>4, <2>5 DEF AgentInv, AgentTypeOK
  <2>7. \A d \in Queue :
      /\ callRow'[d].parts = callRow[d].parts
      /\ callRow'[d].stale = callRow[d].stale
      /\ callRow'[d].dispatched = callRow[d].dispatched
      /\ d # called => callRow'[d] = callRow[d] /\ orderRow'[d] = orderRow[d]
    BY <2>3, <2>4 DEF AgentInv, AgentTypeOK, CallRow
  <2>8. callRow'[called].status = AsOutcome(p.result) /\ orderRow'[called] = OrderAfter(called, p.result)
    BY <2>3, <2>4 DEF AgentInv, AgentTypeOK, CallRow
  <2>9. callRow[called].status = "pending"
    BY <1>4 DEF StillOpen
  <2>10. settled' = settled /\ pass' = pass /\ agent' = agent /\ kept' = kept
    BY DEF ApplyResult
  <2>11. AgentTypeOK'
    BY <1>2, <2>6, <2>7, <2>10 DEF AgentInv, AgentTypeOK
  <2>12. FragmentsKept'
    BY <2>7, <2>10 DEF AgentInv, AgentTypeOK, AgentWordKept, FragmentsKept
  <2>13. \A d \in Queue : settled'[d] = "none" /\ orderRow'[d] # "pending" => callRow'[d].status # "pending"
    BY <2>1, <2>4, <2>7, <2>8, <2>10 DEF AgentInv
  <2>14. AgentDecidesWhatIsOpen'
    BY <2>1, <2>2, <2>4, <2>7, <2>8, <2>9, <2>10 DEF AgentInv, AgentWordKept, AgentDecidesWhatIsOpen
  <2> QED BY <2>10, <2>11, <2>12, <2>13, <2>14 DEF AgentInv, AgentWordKept
<1> QED BY <1>3, <1>4

(* The agent posts a fragment or a result of the call it plays. *)
LEMMA PostIsPost ==
  ASSUME AgentTypeOK, agent.call # NoCall,
         NEW fragment \in Fragments \cup {NoFragment}, NEW result \in Outcomes \cup {NoResult},
         Posts(fragment, result)
  PROVE  posted' \subseteq Post
<1>1. agent.call \in Queue
  BY DEF AgentTypeOK, NoCall
<1>2. [call |-> agent.call, fragment |-> fragment, result |-> result,
       found |-> FALSE, read |-> {}] \in Post
  BY <1>1 DEF Post
<1> QED BY <1>2 DEF Posts, AgentTypeOK

(* Neither the conversation nor a look at the tables writes a row. *)
LEMMA TalkKeepsInv ==
  ASSUME AgentInv, UNCHANGED <<callRow, orderRow, settled, kept>>, AgentTypeOK',
         pass'.at \in {"claiming", "sending", "returning"} => pass'.call \in Queue
  PROVE  AgentInv'
BY DEF AgentInv, AgentWordKept, FragmentsKept, AgentDecidesWhatIsOpen

(* The pass of the dispatcher *)
LEMMA PassKeepsInv ==
  ASSUME AgentInv, CountInFlight \/ ChooseCall \/ Claim \/ Send \/ ReturnToQueue
  PROVE  AgentInv'
<1> USE DEF PassGoes, PassAt
<1>0. /\ NoCall \in Queue \cup {NoCall} /\ 0 \in 0 .. Cardinality(Fragments)
      /\ pass \in [at : PassAt, call : Queue \cup {NoCall}]
  BY RemoteAgentAssumption, FS_CardinalityType DEF AgentInv, AgentTypeOK
<1>1. CASE CountInFlight
  BY <1>0, <1>1, TalkKeepsInv DEF CountInFlight, AgentInv, AgentTypeOK
<1>2. CASE ChooseCall
  <2>1. PICK open \in SUBSET Queue :
      LET queued == {c \in open : Claimable(c) /\ orderRow[c] = "pending"}
      IN  IF queued = {} THEN PassGoes("idle", NoCall)
          ELSE PassGoes("claiming", CHOOSE c \in queued : \A d \in queued : c <= d)
    BY <1>2 DEF ChooseCall
  <2> DEFINE queued == {c \in open : Claimable(c) /\ orderRow[c] = "pending"}
             first == CHOOSE c \in queued : \A d \in queued : c <= d
  <2>2. queued # {} => first \in Queue
    <3>1. queued \in SUBSET Queue
      OBVIOUS
    <3> HIDE DEF queued
    <3>2. queued # {} => first \in queued
      BY <3>1, OldestOfQueue
    <3> QED BY <3>1, <3>2
  <2>3. IF queued = {} THEN PassGoes("idle", NoCall) ELSE PassGoes("claiming", first)
    BY <2>1
  <2> HIDE DEF queued, first
  <2>4. /\ pass' \in [at : PassAt, call : Queue \cup {NoCall}]
        /\ pass'.at \in {"claiming", "sending", "returning"} => pass'.call \in Queue
    BY <1>0, <2>2, <2>3
  <2> QED BY <1>2, <2>4, TalkKeepsInv DEF ChooseCall, AgentInv, AgentTypeOK
<1>3. CASE Send
  BY <1>0, <1>3, TalkKeepsInv DEF Send, AgentInv, AgentTypeOK
<1>4. CASE Claim
  <2>1. CASE ~Claimable(pass.call)
    BY <1>0, <1>4, <2>1, TalkKeepsInv DEF Claim, AgentInv, AgentTypeOK
  <2>2. CASE Claimable(pass.call)
    <3> DEFINE row == [callRow[pass.call] EXCEPT !.dispatched = TRUE]
    <3>1. pass.call \in Queue
      BY <1>4 DEF Claim, AgentInv
    <3>2. callRow[pass.call] \in CallRow
      BY <3>1 DEF AgentInv, AgentTypeOK
    <3>3. row \in CallRow /\ row.dispatched /\ row.status = callRow[pass.call].status
          /\ row.parts = callRow[pass.call].parts
      BY <3>2 DEF CallRow
    <3>4. callRow' = [callRow EXCEPT ![pass.call] = row]
      BY <1>4, <2>2, <3>1 DEF Claim, AgentInv, AgentTypeOK
    <3>5. UNCHANGED <<orderRow, settled, agent, posted, kept>>
      BY <1>4 DEF Claim
    <3>6. pass' = [at |-> "sending", call |-> pass.call]
      BY <1>4, <2>2 DEF Claim
    <3> HIDE DEF row
    <3> QED BY <3>1, <3>3, <3>4, <3>5, <3>6, RowWriteKeepsInv DEF AgentInv, AgentTypeOK
  <2> QED BY <2>1, <2>2
<1>5. CASE ReturnToQueue
  <2> DEFINE old == callRow[pass.call]
             row == IF old.status = "pending" THEN QueuedAgain(old) ELSE old
  <2>1. pass.call \in Queue
    BY <1>5 DEF ReturnToQueue, AgentInv
  <2>2. old \in CallRow /\ (old.stale => old.dispatched)
    BY <2>1 DEF AgentInv, AgentTypeOK
  <2>3. row \in CallRow /\ (row.stale => row.dispatched)
        /\ row.status = old.status /\ row.parts = old.parts
    BY <2>2 DEF CallRow, QueuedAgain
  <2>4. callRow' = [callRow EXCEPT ![pass.call] = row]
    BY <1>5, <2>1 DEF ReturnToQueue, AgentInv, AgentTypeOK
  <2>5. UNCHANGED <<orderRow, settled, agent, posted, kept>> /\ pass' = [at |-> "idle", call |-> NoCall]
    BY <1>5 DEF ReturnToQueue
  <2> HIDE DEF row
  <2> QED BY <1>0, <2>1, <2>3, <2>4, <2>5, RowWriteKeepsInv DEF AgentInv, AgentTypeOK
<1> QED BY <1>1, <1>2, <1>3, <1>4, <1>5

(* The agent's side of the conversation *)
LEMMA AgentKeepsInv ==
  ASSUME AgentInv, Speak \/ HangUp \/ AgentStops
  PROVE  AgentInv'
<1>0. 0 \in 0 .. Cardinality(Fragments) /\ Cardinality(Fragments) \in Nat
  BY RemoteAgentAssumption, FS_CardinalityType
<1>1. CASE Speak
  <2>1. agent.said \in Nat /\ agent.said < Cardinality(Fragments) /\ agent.call \in Queue
    BY <1>1 DEF Speak, AgentInv, AgentTypeOK, NoCall
  <2>2. agent.said + 1 \in Fragments /\ agent.said + 1 \in 0 .. Cardinality(Fragments)
    BY <1>0, <2>1, RemoteAgentAssumption
  <2>3. posted' \subseteq Post
    BY <1>1, <2>2, PostIsPost DEF Speak, AgentInv
  <2>4. agent' \in [call : Queue \cup {NoCall}, said : 0 .. Cardinality(Fragments)]
    BY <1>1, <2>1, <2>2 DEF Speak, AgentInv, AgentTypeOK
  <2> QED BY <1>1, <2>3, <2>4, TalkKeepsInv DEF Speak, AgentInv, AgentTypeOK
<1>2. CASE HangUp
  <2>1. PICK outcome \in {DecideOutcome(a) : a \in Answers} : Posts(NoFragment, outcome)
    BY <1>2 DEF HangUp
  <2>2. outcome \in Outcomes
    BY DEF DecideOutcome, Outcomes
  <2>3. posted' \subseteq Post
    BY <1>2, <2>1, <2>2, PostIsPost DEF HangUp, AgentInv
  <2> QED BY <1>0, <1>2, <2>3, TalkKeepsInv DEF HangUp, AgentInv, AgentTypeOK
<1>3. CASE AgentStops
  BY <1>0, <1>3, TalkKeepsInv DEF AgentStops, AgentInv, AgentTypeOK
<1> QED BY <1>1, <1>2, <1>3

(* A fragment is added under the lock to what the row holds by then. *)
LEMMA TranscriptKeepsInv ==
  ASSUME AgentInv, NEW p \in posted, FindCall(p) \/ AppendFragment(p)
  PROVE  AgentInv'
<1>1. p \in Post /\ p.call \in Queue /\ p.fragment \in Fragments \cup {NoFragment}
  BY DEF AgentInv, AgentTypeOK, Post
<1>2. CASE FindCall(p)
  <2>1. callRow[p.call].parts \subseteq Fragments
    BY <1>1 DEF AgentInv, AgentTypeOK, CallRow
  <2>2. [p EXCEPT !.found = TRUE, !.read = callRow[p.call].parts] \in Post
    BY <1>1, <2>1 DEF Post
  <2>3. posted' \subseteq Post
    BY <1>2, <2>2 DEF FindCall, Done, AgentInv, AgentTypeOK
  <2> QED BY <1>2, <2>3, TalkKeepsInv DEF FindCall, AgentInv, AgentTypeOK
<1>3. CASE AppendFragment(p)
  <2> DEFINE old == callRow[p.call]
             row == [old EXCEPT !.parts = WithFragment(p)]
  <2>1. p.fragment \in Fragments /\ posted' \subseteq Post
    BY <1>1, <1>3 DEF AppendFragment, Done, AgentInv, AgentTypeOK
  <2>2. old \in CallRow /\ (old.stale => old.dispatched)
    BY <1>1 DEF AgentInv, AgentTypeOK
  <2>3. row \in CallRow /\ row.stale = old.stale /\ row.dispatched = old.dispatched
        /\ row.status = old.status /\ row.parts = old.parts \cup {p.fragment}
    BY <2>1, <2>2 DEF CallRow, WithFragment
  <2>4. callRow' = [callRow EXCEPT ![p.call] = row]
    BY <1>1, <1>3 DEF AppendFragment, AgentInv, AgentTypeOK
  <2>5. orderRow' = orderRow /\ settled' = settled /\ pass' = pass /\ agent' = agent
        /\ kept' = kept \cup {<<p.call, p.fragment>>}
    BY <1>3 DEF AppendFragment
  <2> HIDE DEF row
  <2>6. callRow' \in [Queue -> CallRow]
    BY <2>3, <2>4 DEF AgentInv, AgentTypeOK
  <2>7. \A d \in Queue :
      /\ callRow'[d].status = callRow[d].status
      /\ callRow[d].parts \subseteq callRow'[d].parts
      /\ callRow'[d].stale => callRow'[d].dispatched
    BY <1>1, <2>2, <2>3, <2>4 DEF AgentInv, AgentTypeOK
  <2>8. p.fragment \in callRow'[p.call].parts
    BY <1>1, <2>3, <2>4 DEF AgentInv, AgentTypeOK
  <2>9. kept' \subseteq Queue \X Fragments
    BY <1>1, <2>1, <2>5 DEF AgentInv, AgentTypeOK
  <2>10. AgentTypeOK'
    BY <2>1, <2>5, <2>6, <2>7, <2>9 DEF AgentInv, AgentTypeOK
  <2>11. FragmentsKept'
    <3> SUFFICES ASSUME NEW cf \in kept' PROVE cf[2] \in callRow'[cf[1]].parts
      BY DEF FragmentsKept
    <3>1. CASE cf \in kept
      <4>1. cf[1] \in Queue /\ cf[2] \in callRow[cf[1]].parts
        BY <3>1 DEF AgentInv, AgentTypeOK, AgentWordKept, FragmentsKept
      <4> QED BY <4>1, <2>7
    <3>2. CASE cf = <<p.call, p.fragment>>
      BY <3>2, <2>8
    <3> QED BY <3>1, <3>2, <2>5
  <2>12. AgentDecidesWhatIsOpen'
    BY <2>5, <2>7 DEF AgentInv, AgentWordKept, AgentDecidesWhatIsOpen
  <2> QED BY <2>5, <2>7, <2>10, <2>11, <2>12 DEF AgentInv, AgentWordKept
<1> QED BY <1>2, <1>3

(* The merchant may settle any order; the clock only marks a call that is in flight. *)
LEMMA OthersKeepInv ==
  ASSUME AgentInv, NEW c \in Queue, SettleOrder(c) \/ GrowsStale(c)
  PROVE  AgentInv'
<1>1. CASE SettleOrder(c)
  <2>1. PICK s \in {"confirmed", "cancelled"} :
          orderRow' = [orderRow EXCEPT ![c] = s] /\ settled' = [settled EXCEPT ![c] = s]
    BY <1>1 DEF SettleOrder
  <2>2. UNCHANGED <<callRow, pass, agent, posted, kept>>
    BY <1>1 DEF SettleOrder
  <2>3. AgentTypeOK'
    BY <2>1, <2>2 DEF AgentInv, AgentTypeOK, OrderStatus
  <2>4. \A d \in Queue :
      /\ d # c => orderRow'[d] = orderRow[d] /\ settled'[d] = settled[d]
      /\ d = c => orderRow'[d] = s /\ settled'[d] = s
    BY <2>1 DEF AgentInv, AgentTypeOK
  <2> QED BY <2>2, <2>3, <2>4 DEF AgentInv, AgentWordKept, FragmentsKept, AgentDecidesWhatIsOpen
<1>2. CASE GrowsStale(c)
  <2> DEFINE row == [callRow[c] EXCEPT !.stale = TRUE]
  <2>1. callRow[c] \in CallRow /\ callRow[c].dispatched
    BY <1>2 DEF GrowsStale, InFlight, AgentInv, AgentTypeOK
  <2>2. row \in CallRow /\ row.dispatched /\ row.status = callRow[c].status /\ row.parts = callRow[c].parts
    BY <2>1 DEF CallRow
  <2>3. callRow' = [callRow EXCEPT ![c] = row] /\ UNCHANGED <<orderRow, settled, pass, agent, posted, kept>>
    BY <1>2 DEF GrowsStale, AgentInv, AgentTypeOK
  <2> HIDE DEF row
  <2> QED BY <2>2, <2>3, RowWriteKeepsInv DEF AgentInv, AgentTypeOK
<1> QED BY <1>1, <1>2

LEMMA NextKeepsAgent == AgentInv /\ [AgentNext]_agentVars => AgentInv'
<1> SUFFICES ASSUME AgentInv, [AgentNext]_agentVars PROVE AgentInv'
  OBVIOUS
<1>1. CASE UNCHANGED agentVars
  BY <1>1 DEF agentVars, AgentInv, AgentTypeOK, AgentWordKept, FragmentsKept, AgentDecidesWhatIsOpen
<1>2. CASE ExpireStale
  BY <1>2, ExpiryKeepsInv
<1>3. CASE CountInFlight \/ ChooseCall \/ Claim \/ Send \/ ReturnToQueue
  BY <1>3, PassKeepsInv
<1>4. CASE Speak \/ HangUp \/ AgentStops
  BY <1>4, AgentKeepsInv
<1>5. CASE \E p \in posted : FindCall(p) \/ AppendFragment(p) \/ ApplyResult(p)
  BY <1>5, TranscriptKeepsInv, ResultKeepsInv
<1>6. CASE \E c \in Queue : SettleOrder(c) \/ GrowsStale(c)
  BY <1>6, OthersKeepInv
<1> QED BY <1>1, <1>2, <1>3, <1>4, <1>5, <1>6 DEF AgentNext

LEMMA AgentInvHolds == AgentSpec => []AgentInv
BY InitialAgent, NextKeepsAgent, PTL DEF AgentSpec

(***************************************************************************)
(* The agent's word is kept, for any number of calls, fragments and          *)
(* callbacks under way: a fragment answered with a 200 stays in the row,     *)
(* since it is added under the row's lock, and an order is confirmed or       *)
(* cancelled exactly when the result that closed its call said so, unless    *)
(* the merchant settled it.                                                 *)
(***************************************************************************)
THEOREM AgentWordHolds == AgentSpec => []AgentWordKept
<1>1. AgentInv => AgentWordKept
  BY DEF AgentInv
<1> QED BY <1>1, AgentInvHolds, PTL

(* Each write of a call's status or of its dispatch asks for a pending row. *)
LEMMA FinishedRowStays ==
  ASSUME AgentInv, [AgentNext]_agentVars, NEW c \in Queue, callRow[c].status # "pending"
  PROVE  callRow'[c].status = callRow[c].status /\ callRow'[c].dispatched = callRow[c].dispatched
<1>1. callRow \in [Queue -> CallRow] /\ callRow[c] \in CallRow
  BY DEF AgentInv, AgentTypeOK
<1>2. CASE UNCHANGED callRow
  BY <1>2
<1>3. CASE ExpireStale
  BY <1>1, <1>3 DEF ExpireStale, InFlight
<1>4. CASE Claim
  BY <1>1, <1>4 DEF Claim, Claimable
<1>5. CASE ReturnToQueue
  <2>1. pass.call # c => callRow'[c] = callRow[c]
    BY <1>1, <1>5 DEF ReturnToQueue
  <2>2. pass.call = c => callRow'[c] = callRow[c]
    BY <1>1, <1>5 DEF ReturnToQueue
  <2> QED BY <2>1, <2>2
<1>6. CASE \E p \in posted : AppendFragment(p)
  BY <1>1, <1>6 DEF AppendFragment, CallRow
<1>7. CASE \E p \in posted : ApplyResult(p)
  BY <1>1, <1>7 DEF ApplyResult, StillOpen
<1>8. CASE \E d \in Queue : GrowsStale(d)
  BY <1>1, <1>8 DEF GrowsStale, InFlight
<1>9. CASE CountInFlight \/ ChooseCall \/ Send \/ Speak \/ HangUp \/ AgentStops
           \/ (\E p \in posted : FindCall(p)) \/ (\E d \in Queue : SettleOrder(d)) \/ UNCHANGED agentVars
  BY <1>2, <1>9
     DEF CountInFlight, ChooseCall, Send, Speak, HangUp, AgentStops, FindCall, SettleOrder, agentVars
<1> QED BY <1>3, <1>4, <1>5, <1>6, <1>7, <1>8, <1>9 DEF AgentNext

(***************************************************************************)
(* A finished call never changes again, neither by the expiry of the         *)
(* dispatcher, by a queue it returns to after a lost answer, nor by a result. *)
(***************************************************************************)
THEOREM FinishedCallHolds == AgentSpec => FinishedCallStays
<1>1. AgentInv /\ [AgentNext]_agentVars =>
        [\A c \in Queue : callRow[c].status # "pending" =>
           /\ callRow'[c].status = callRow[c].status
           /\ callRow'[c].dispatched = callRow[c].dispatched]_agentVars
  BY FinishedRowStays
<1> QED BY <1>1, AgentInvHolds, PTL DEF AgentSpec, FinishedCallStays

---------------------------------------------------------------------------
(* What a call leaves behind *)

(***************************************************************************)
(* A line whose request was never beside another one has that request alone  *)
(* under way (Alone); what a request read is right but for lines that met     *)
(* another request (ReadsKnown); and a line that the transcript lacks either  *)
(* met one, or has its own request past the save (LacksOnlyItsOwn).          *)
(***************************************************************************)
Alone == \A p \in posts : p.line \notin overlapped => posts = {p}

ReadsKnown ==
  task # Deleted =>
    \A p \in posts : p.at = "read" =>
      \A n \in Sequences : entries[n] \notin overlapped => p.read[n] = entries[n]

LacksOnlyItsOwn ==
  \A n \in Sequences : entries[n] \notin overlapped =>
    \/ transcript[n] = entries[n]
    \/ \E p \in posts : p.line = entries[n] /\ p.at \in {"saved", "read"}

DeletedIsEmpty ==
  task = Deleted => \A n \in Sequences : entries[n] = NoLine /\ transcript[n] = NoLine

RequestsKnowTheirTask ==
  /\ \A p \in posts : p.at # "sent" => p.task \in Tasks
  /\ \A u \in uploads : u.at = "stored" => u.speaker \in objects
  /\ worker.phase # "gone" => worker.task \in Tasks

ArtifactsInv ==
  /\ ArtifactsTypeOK /\ RequestsKnowTheirTask /\ DeletedIsEmpty
  /\ Alone /\ ReadsKnown /\ LacksOnlyItsOwn /\ UploadedIsStored

LEMMA InitialArtifacts == ArtifactsInit => ArtifactsInv
<1> SUFFICES ASSUME ArtifactsInit PROVE ArtifactsInv
  OBVIOUS
<1>1. ArtifactsTypeOK
  BY ArtifactsAssumption DEF ArtifactsInit, ArtifactsTypeOK, Transcripts, Worker, NoRow, NoTaskYet
<1> QED BY <1>1 DEF ArtifactsInit, ArtifactsInv, RequestsKnowTheirTask, DeletedIsEmpty, Alone,
                    ReadsKnown, LacksOnlyItsOwn, UploadedIsStored, NoTaskYet, Deleted

(* The two halves of the state: the lines and their requests, the files and theirs. *)
LinesInv ==
  /\ entries \in Transcripts /\ transcript \in Transcripts
  /\ posts \subseteq LinePosts /\ overlapped \subseteq Lines
  /\ \A p \in posts : p.at # "sent" => p.task \in Tasks
  /\ DeletedIsEmpty /\ Alone /\ ReadsKnown /\ LacksOnlyItsOwn

FilesInv ==
  /\ recording \in [Speakers -> RecordingRow \cup {NoRow}] /\ objects \subseteq Speakers
  /\ uploads \subseteq Uploads
  /\ \A u \in uploads : u.at = "stored" => u.speaker \in objects
  /\ UploadedIsStored

WorkerKnown ==
  /\ task \in Tasks \cup {NoTaskYet, Deleted} /\ worker \in Worker
  /\ worker.phase # "gone" => worker.task \in Tasks

LEMMA Halves ==
  /\ ArtifactsInv <=> LinesInv /\ FilesInv /\ WorkerKnown
  /\ ArtifactsInv' <=> LinesInv' /\ FilesInv' /\ WorkerKnown'
BY DEF ArtifactsInv, ArtifactsTypeOK, RequestsKnowTheirTask, LinesInv, FilesInv, WorkerKnown

LEMMA SameLines ==
  ASSUME LinesInv, UNCHANGED tranVars, (task # Deleted /\ task' # Deleted) \/ task' = task
  PROVE  LinesInv'
BY DEF LinesInv, tranVars, DeletedIsEmpty, Alone, ReadsKnown, LacksOnlyItsOwn

LEMMA SameFiles ==
  ASSUME FilesInv, UNCHANGED recVars
  PROVE  FilesInv'
BY DEF FilesInv, recVars, UploadedIsStored

(* A request for a line is added to those under way. *)
LEMMA SentKeepsLines ==
  ASSUME LinesInv, NEW t \in Tasks \cup {NoTaskYet}, NEW line \in Lines, Sent(t, line),
         UNCHANGED <<task, entries, transcript>>
  PROVE  LinesInv'
<1> DEFINE new == [task |-> t, line |-> line, at |-> "sent", read |-> <<>>]
<1>1. new \in LinePosts /\ new.at = "sent" /\ new.line = line
  BY DEF LinePosts
<1>2. posts' = posts \cup {new}
      /\ overlapped' = overlapped \cup (IF posts = {} THEN {} ELSE {line} \cup {p.line : p \in posts})
  BY DEF Sent
<1> HIDE DEF new
<1>3. posts' \subseteq LinePosts /\ overlapped' \subseteq Lines /\ overlapped \subseteq overlapped'
  <2>1. \A p \in posts : p.line \in Lines
    BY DEF LinesInv, LinePosts
  <2> QED BY <1>1, <1>2, <2>1 DEF LinesInv
<1>4. Alone'
  <2>1. CASE posts = {}
    BY <1>2, <2>1 DEF Alone
  <2>2. CASE posts # {}
    <3>1. \A p \in posts' : p.line \in overlapped'
      BY <1>1, <1>2, <2>2
    <3> QED BY <3>1 DEF Alone
  <2> QED BY <2>1, <2>2
<1>5. ReadsKnown'
  BY <1>1, <1>2, <1>3 DEF LinesInv, ReadsKnown
<1>6. LacksOnlyItsOwn'
  BY <1>2, <1>3 DEF LinesInv, LacksOnlyItsOwn
<1> QED BY <1>1, <1>2, <1>3, <1>4, <1>5, <1>6 DEF LinesInv, DeletedIsEmpty

(* A request ends, or goes one stage further with the same line. *)
LEMMA MoveKeepsAlone ==
  ASSUME LinesInv, NEW p \in posts, overlapped' = overlapped,
         posts' = posts \ {p} \/ \E q \in LinePosts : q.line = p.line /\ Move(p, q)
  PROVE  Alone'
<1>1. CASE posts' = posts \ {p}
  BY <1>1 DEF LinesInv, Alone
<1>2. CASE \E q \in LinePosts : q.line = p.line /\ Move(p, q)
  <2>1. PICK q \in LinePosts : q.line = p.line /\ posts' = (posts \ {p}) \cup {q}
    BY <1>2 DEF Move
  <2> SUFFICES ASSUME NEW r \in posts', r.line \notin overlapped PROVE posts' = {r}
    BY DEF Alone
  <2>2. CASE r = q
    <3>1. posts = {p}
      BY <2>1, <2>2 DEF LinesInv, Alone
    <3> QED BY <2>1, <2>2, <3>1
  <2>3. CASE r # q
    <3>1. r \in posts /\ r # p
      BY <2>1, <2>3
    <3>2. posts = {r}
      BY <3>1 DEF LinesInv, Alone
    <3> QED BY <3>1, <3>2
  <2> QED BY <2>2, <2>3
<1> QED BY <1>1, <1>2

LEMMA LookUpKeepsLines ==
  ASSUME LinesInv, WorkerKnown, NEW p \in posts, LookUpLine(p)
  PROVE  LinesInv'
<1>1. p \in LinePosts /\ p.at = "sent"
      /\ overlapped' = overlapped /\ entries' = entries /\ transcript' = transcript /\ task' = task
  BY DEF LookUpLine, LinesInv
<1>2. CASE FindsCall(p.task)
  <2> DEFINE q == [p EXCEPT !.at = "found"]
  <2>1. q \in LinePosts /\ q.line = p.line /\ q.at = "found" /\ q.task \in Tasks
    BY <1>1, <1>2 DEF LinePosts, FindsCall
  <2>2. posts' = (posts \ {p}) \cup {q}
    BY <1>2 DEF LookUpLine, Move
  <2> HIDE DEF q
  <2>3. Alone'
    BY <1>1, <2>1, <2>2, MoveKeepsAlone DEF Move
  <2>4. ReadsKnown' /\ LacksOnlyItsOwn'
    BY <1>1, <2>1, <2>2 DEF LinesInv, ReadsKnown, LacksOnlyItsOwn
  <2> QED BY <1>1, <2>1, <2>2, <2>3, <2>4 DEF LinesInv, DeletedIsEmpty
<1>3. CASE ~FindsCall(p.task)
  <2>1. posts' = posts \ {p}
    BY <1>3 DEF LookUpLine, Answered
  <2>2. Alone'
    BY <1>1, <2>1, MoveKeepsAlone
  <2>3. ReadsKnown' /\ LacksOnlyItsOwn'
    BY <1>1, <2>1 DEF LinesInv, ReadsKnown, LacksOnlyItsOwn
  <2> QED BY <1>1, <2>1, <2>2, <2>3 DEF LinesInv, DeletedIsEmpty
<1> QED BY <1>2, <1>3

(* A line that is not among those that met another request, and is stored while *)
(* some other request is under way, did meet one.                            *)
LEMMA SaveKeepsLines ==
  ASSUME LinesInv, WorkerKnown, NEW p \in posts, SaveLine(p)
  PROVE  LinesInv'
<1>1. p \in LinePosts /\ p.at = "found" /\ p.task \in Tasks /\ p.line \in Lines /\ Sequence(p) \in Sequences
      /\ overlapped' = overlapped /\ transcript' = transcript /\ task' = task
  BY DEF SaveLine, LinesInv, LinePosts, Sequence, Lines
<1>2. CASE task = Deleted
  <2>1. posts' = posts \ {p} /\ entries' = entries
    BY <1>2 DEF SaveLine, Answered
  <2>2. Alone'
    BY <1>1, <2>1, MoveKeepsAlone
  <2>3. ReadsKnown' /\ LacksOnlyItsOwn'
    BY <1>1, <2>1 DEF LinesInv, ReadsKnown, LacksOnlyItsOwn
  <2> QED BY <1>1, <2>1, <2>2, <2>3 DEF LinesInv, DeletedIsEmpty
<1>3. CASE task # Deleted
  <2> DEFINE q == [p EXCEPT !.at = "saved"]
  <2>1. q \in LinePosts /\ q.line = p.line /\ q.at = "saved" /\ q.task \in Tasks
    BY <1>1 DEF LinePosts
  <2>2. posts' = (posts \ {p}) \cup {q} /\ entries' = [entries EXCEPT ![Sequence(p)] = p.line]
    BY <1>3 DEF SaveLine, Move
  <2> HIDE DEF q
  <2>3. Alone'
    BY <1>1, <2>1, <2>2, MoveKeepsAlone DEF Move
  <2>4. entries' \in Transcripts
    BY <1>1, <2>2 DEF LinesInv, Transcripts
  <2>5. \A n \in Sequences :
      /\ n # Sequence(p) => entries'[n] = entries[n]
      /\ n = Sequence(p) => entries'[n] = p.line
    BY <1>1, <2>2 DEF LinesInv, Transcripts
  <2>6. ReadsKnown'
    <3> SUFFICES ASSUME NEW r \in posts', r.at = "read", NEW n \in Sequences,
                        entries'[n] \notin overlapped
                 PROVE  r.read[n] = entries'[n]
      BY <1>1 DEF ReadsKnown
    <3>1. r \in posts /\ r # p
      BY <1>1, <2>1, <2>2
    <3>2. p.line \in overlapped
      BY <3>1 DEF LinesInv, Alone
    <3>3. entries'[n] = entries[n]
      BY <2>5, <3>2
    <3> QED BY <1>1, <1>3, <3>1, <3>3 DEF LinesInv, ReadsKnown
  <2>7. LacksOnlyItsOwn'
    <3> SUFFICES ASSUME NEW n \in Sequences, entries'[n] \notin overlapped
                 PROVE  \/ transcript[n] = entries'[n]
                        \/ \E r \in posts' : r.line = entries'[n] /\ r.at \in {"saved", "read"}
      BY <1>1 DEF LacksOnlyItsOwn
    <3>1. CASE n = Sequence(p)
      BY <2>1, <2>2, <2>5, <3>1
    <3>2. CASE n # Sequence(p)
      BY <1>1, <2>1, <2>2, <2>5, <3>2 DEF LinesInv, LacksOnlyItsOwn
    <3> QED BY <3>1, <3>2
  <2> QED BY <1>1, <1>3, <2>1, <2>2, <2>3, <2>4, <2>6, <2>7 DEF LinesInv, DeletedIsEmpty
<1> QED BY <1>2, <1>3

LEMMA ReadKeepsLines ==
  ASSUME LinesInv, NEW p \in posts, ReadLines(p)
  PROVE  LinesInv'
<1>1. p \in LinePosts /\ p.at = "saved" /\ p.task \in Tasks
      /\ overlapped' = overlapped /\ entries' = entries /\ transcript' = transcript /\ task' = task
  BY DEF ReadLines, LinesInv
<1> DEFINE q == [p EXCEPT !.at = "read", !.read = entries]
<1>2. q \in LinePosts /\ q.line = p.line /\ q.at = "read" /\ q.read = entries /\ q.task \in Tasks
  <2>1. p.line \in Lines
    BY <1>1 DEF LinePosts
  <2>2. q \in [task : Tasks, line : Lines, at : {"read"}, read : Transcripts]
    BY <1>1, <2>1 DEF LinesInv, LinePosts
  <2>3. q \in LinePosts
    BY <2>2 DEF LinePosts
  <2> QED BY <1>1, <2>2, <2>3 DEF LinePosts
<1>3. posts' = (posts \ {p}) \cup {q}
  BY DEF ReadLines, Move
<1> HIDE DEF q
<1>4. Alone'
  BY <1>1, <1>2, <1>3, MoveKeepsAlone DEF Move
<1>5. ReadsKnown' /\ LacksOnlyItsOwn'
  BY <1>1, <1>2, <1>3 DEF LinesInv, ReadsKnown, LacksOnlyItsOwn
<1> QED BY <1>1, <1>2, <1>3, <1>4, <1>5 DEF LinesInv, DeletedIsEmpty

(* The whole transcript is replaced by what the request read, which is right  *)
(* for every line that met no other request.                                 *)
LEMMA WriteKeepsLines ==
  ASSUME LinesInv, NEW p \in posts, WriteTranscript(p)
  PROVE  LinesInv'
<1>1. p \in LinePosts /\ p.at = "read" /\ posts' = posts \ {p}
      /\ overlapped' = overlapped /\ entries' = entries /\ task' = task
  BY DEF WriteTranscript, Answered, LinesInv
<1>2. p.read \in Transcripts
  BY <1>1 DEF LinePosts
<1>3. transcript' = IF task = Deleted THEN transcript ELSE p.read
  BY DEF WriteTranscript, WholeTranscript
<1>4. transcript' \in Transcripts
  BY <1>2, <1>3 DEF LinesInv
<1>5. Alone'
  BY <1>1, MoveKeepsAlone
<1>6. ReadsKnown'
  BY <1>1 DEF LinesInv, ReadsKnown
<1>7. LacksOnlyItsOwn'
  BY <1>1, <1>3 DEF LinesInv, ReadsKnown, LacksOnlyItsOwn, DeletedIsEmpty
<1> QED BY <1>1, <1>3, <1>4, <1>5, <1>6, <1>7 DEF LinesInv, DeletedIsEmpty

(* The staff's line goes after those that are counted. *)
LEMMA StaffKeepsLines ==
  ASSUME LinesInv, WorkerKnown, StaffLine
  PROVE  LinesInv'
<1>1. Stored \subseteq 1 .. MaxLine /\ 1 \in Int /\ MaxLine \in Int
  BY ArtifactsAssumption DEF Stored, Sequences
<1>2. Cardinality(Stored) \in Nat
  <2>1. IsFiniteSet(1 .. MaxLine)
    BY <1>1, FS_Interval
  <2>2. IsFiniteSet(Stored)
    BY <1>1, <2>1, FS_Subset
  <2> QED BY <2>2, FS_CardinalityType
<1>3. Cardinality(Stored) + 1 \in Sequences
  BY <1>1, <1>2 DEF StaffLine, Sequences
<1>4. <<0, Cardinality(Stored) + 1>> \in Lines /\ task \in Tasks \cup {NoTaskYet}
  BY <1>3 DEF Lines, StaffLine, WorkerKnown
<1> QED BY <1>4, SentKeepsLines DEF StaffLine

(* The worker's own steps *)
LEMMA WorkerKeepsInv ==
  ASSUME ArtifactsInv, WorkerComesAndGoes \/ Say \/ \E s \in Speakers : RecordAudio(s)
  PROVE  ArtifactsInv'
<1>0. LinesInv /\ FilesInv /\ WorkerKnown
  BY Halves
<1>1. CASE Dispatch
  <2>1. PICK t \in Tasks : task' = t /\ task # Deleted
           /\ worker' = [task |-> t, said |-> 0, audio |-> {}, phase |-> "calling"]
    BY <1>1 DEF Dispatch
  <2>2. t # Deleted
    BY ArtifactsAssumption DEF Deleted
  <2>3. UNCHANGED <<tranVars, recVars>>
    BY <1>1 DEF Dispatch
  <2>4. WorkerKnown'
    BY <2>1, ArtifactsAssumption DEF WorkerKnown, Worker
  <2>5. LinesInv' /\ FilesInv'
    BY <1>0, <2>1, <2>2, <2>3, SameLines, SameFiles
  <2> QED BY <2>4, <2>5, Halves
<1>2. CASE CloseFiles
  <2>1. UNCHANGED tranVars /\ UNCHANGED recVars /\ task' = task
    BY <1>2 DEF CloseFiles
  <2>2. WorkerKnown'
    BY <1>0, <1>2 DEF CloseFiles, WorkerKnown, Worker
  <2>3. LinesInv' /\ FilesInv'
    BY <1>0, <2>1, SameLines, SameFiles
  <2> QED BY <2>2, <2>3, Halves
<1>3. CASE SendRecordings
  <2>1. UNCHANGED tranVars /\ recording' = recording /\ objects' = objects /\ task' = task
    BY <1>3 DEF SendRecordings
  <2>2. WorkerKnown'
    BY <1>0, <1>3 DEF SendRecordings, WorkerKnown, Worker
  <2>3. uploads' \subseteq Uploads /\ \A u \in uploads' : u.at = "stored" => u.speaker \in objects
    <3>1. worker.task \in Tasks /\ worker.audio \subseteq Speakers
      BY <1>0, <1>3 DEF SendRecordings, WorkerKnown, Worker
    <3>2. \A s \in Speakers : [task |-> worker.task, speaker |-> s, at |-> "sent"] \in Uploads
      BY <3>1 DEF Uploads
    <3>3. \A u \in uploads' :
        u \in uploads \/ \E s \in Speakers : u = [task |-> worker.task, speaker |-> s, at |-> "sent"]
      BY <1>3, <3>1 DEF SendRecordings
    <3> QED BY <1>0, <3>2, <3>3 DEF FilesInv
  <2>4. LinesInv' /\ FilesInv'
    BY <1>0, <2>1, <2>3, SameLines DEF FilesInv, UploadedIsStored
  <2> QED BY <2>2, <2>4, Halves
<1>4. CASE Say
  <2>1. worker.task \in Tasks /\ worker.said \in Nat /\ worker.said < MaxLine
    BY <1>0, <1>4, ArtifactsAssumption DEF Say, WorkerKnown, Worker
  <2>2. worker.said + 1 \in Sequences /\ worker.said + 1 \in 0 .. MaxLine
    BY <2>1, ArtifactsAssumption DEF Sequences
  <2>3. <<worker.task, worker.said + 1>> \in Lines
    BY <2>1, <2>2 DEF Lines
  <2>4. LinesInv'
    BY <1>0, <1>4, <2>1, <2>3, SentKeepsLines DEF Say
  <2>5. FilesInv' /\ WorkerKnown'
    BY <1>0, <1>4, <2>2, SameFiles DEF Say, WorkerKnown, Worker
  <2> QED BY <2>4, <2>5, Halves
<1>5. CASE \E s \in Speakers : RecordAudio(s)
  <2>1. UNCHANGED tranVars /\ UNCHANGED recVars /\ task' = task
    BY <1>5 DEF RecordAudio
  <2>2. WorkerKnown'
    BY <1>0, <1>5 DEF RecordAudio, WorkerKnown, Worker
  <2>3. LinesInv' /\ FilesInv'
    BY <1>0, <2>1, SameLines, SameFiles
  <2> QED BY <2>2, <2>3, Halves
<1> QED BY <1>1, <1>2, <1>3, <1>4, <1>5 DEF WorkerComesAndGoes

(* The requests for lines: the files and the worker stay. *)
LEMMA LinesKeepInv ==
  ASSUME ArtifactsInv, StaffLine \/ \E p \in posts : LineStep(p)
  PROVE  ArtifactsInv'
<1>0. LinesInv /\ FilesInv /\ WorkerKnown
  BY Halves
<1>1. LinesInv'
  BY <1>0, StaffKeepsLines, LookUpKeepsLines, SaveKeepsLines, ReadKeepsLines, WriteKeepsLines DEF LineStep
<1>2. UNCHANGED recVars /\ task' = task /\ worker' = worker
  BY DEF StaffLine, LineStep, LookUpLine, SaveLine, ReadLines, WriteTranscript
<1>3. FilesInv' /\ WorkerKnown'
  BY <1>0, <1>2, SameFiles DEF WorkerKnown
<1> QED BY <1>1, <1>3, Halves

(* A row says that a file is there only after it was put. *)
LEMMA FilesKeepInv ==
  ASSUME ArtifactsInv,
         \/ \E s \in Speakers : SaveAsset(s)
         \/ \E t \in Tasks, s \in Speakers : PostRecording(t, s)
         \/ \E u \in uploads : UploadStep(u) \/ PutFails(u)
  PROVE  ArtifactsInv'
<1>0. LinesInv /\ FilesInv /\ WorkerKnown
  BY Halves
<1> USE DEF FilesInv, UploadedIsStored
<1>1. CASE \E s \in Speakers : SaveAsset(s)
  <2>1. PICK s \in Speakers : SaveAsset(s)
    BY <1>1
  <2> DEFINE row == [uploaded |-> recording[s] # NoRow /\ recording[s].uploaded]
  <2>2. recording' = [recording EXCEPT ![s] = row] /\ objects' = objects /\ uploads' = uploads
    BY <1>0, <2>1 DEF SaveAsset
  <2>3. row \in RecordingRow /\ (row.uploaded => recording[s] # NoRow /\ recording[s].uploaded)
    BY <1>0 DEF RecordingRow
  <2> HIDE DEF row
  <2>4. FilesInv'
    BY <1>0, <2>2, <2>3
  <2>5. UNCHANGED tranVars /\ task' = task /\ worker' = worker
    BY <2>1 DEF SaveAsset
  <2> QED BY <1>0, <2>4, <2>5, SameLines, Halves DEF WorkerKnown
<1>2. CASE \E t \in Tasks, s \in Speakers : PostRecording(t, s)
  <2>1. PICK t \in Tasks, s \in Speakers : PostRecording(t, s)
    BY <1>2
  <2>2. [task |-> t, speaker |-> s, at |-> "sent"] \in Uploads
    BY DEF Uploads
  <2>3. FilesInv'
    BY <1>0, <2>1, <2>2 DEF PostRecording
  <2>4. UNCHANGED tranVars /\ task' = task /\ worker' = worker
    BY <2>1 DEF PostRecording
  <2> QED BY <1>0, <2>3, <2>4, SameLines, Halves DEF WorkerKnown
<1>3. CASE \E u \in uploads : UploadStep(u) \/ PutFails(u)
  <2>1. PICK u \in uploads : UploadStep(u) \/ PutFails(u)
    BY <1>3
  <2>2. u \in Uploads /\ u.speaker \in Speakers /\ uploads \ {u} \subseteq Uploads
    BY <1>0 DEF Uploads
  <2>3. \A at \in {"found", "stored"} :
      /\ [u EXCEPT !.at = at] \in Uploads
      /\ [u EXCEPT !.at = at].at = at
      /\ [u EXCEPT !.at = at].speaker = u.speaker
    BY <2>2 DEF Uploads
  <2>4. FilesInv'
    <3>1. CASE LookUpRecording(u)
      <4>1. recording' = recording /\ objects' = objects
            /\ (uploads' = uploads \ {u}
                \/ uploads' = (uploads \ {u}) \cup {[u EXCEPT !.at = "found"]})
        BY <3>1 DEF LookUpRecording, Stage, Ended
      <4> QED BY <1>0, <2>2, <2>3, <4>1
    <3>2. CASE PutRecording(u)
      <4>1. recording' = recording /\ objects' = objects \cup {u.speaker}
            /\ uploads' = (uploads \ {u}) \cup {[u EXCEPT !.at = "stored"]}
        BY <3>2 DEF PutRecording, Stage
      <4> QED BY <1>0, <2>2, <2>3, <4>1
    <3>3. CASE PutFails(u)
      BY <1>0, <3>3 DEF PutFails, AfterFailedPut, Ended
    <3>4. CASE UpsertRecording(u)
      <4> DEFINE row == [uploaded |-> TRUE]
      <4>1. row \in RecordingRow
        BY DEF RecordingRow
      <4>2. recording' \in [Speakers -> RecordingRow \cup {NoRow}]
        BY <1>0, <2>2, <3>4, <4>1 DEF UpsertRecording
      <4>3. objects' = objects /\ uploads' = uploads \ {u}
        BY <3>4 DEF UpsertRecording, Ended
      <4>4. \A s \in Speakers : s # u.speaker => recording'[s] = recording[s]
        BY <1>0, <2>2, <3>4 DEF UpsertRecording
      <4>5. u.speaker \in objects
        BY <1>0, <3>4 DEF UpsertRecording
      <4> QED BY <1>0, <4>2, <4>3, <4>4, <4>5
    <3> QED BY <2>1, <3>1, <3>2, <3>3, <3>4 DEF UploadStep
  <2>5. UNCHANGED tranVars /\ task' = task /\ worker' = worker
    BY <2>1 DEF UploadStep, LookUpRecording, PutRecording, UpsertRecording, PutFails
  <2> QED BY <1>0, <2>4, <2>5, SameLines, Halves DEF WorkerKnown
<1> QED BY <1>1, <1>2, <1>3

(* Deleting the order empties what its requests would write. *)
LEMMA DeleteKeepsInv == ArtifactsInv /\ DeleteCall => ArtifactsInv'
<1> SUFFICES ASSUME ArtifactsInv, DeleteCall PROVE ArtifactsInv'
  OBVIOUS
<1>0. LinesInv /\ FilesInv /\ WorkerKnown
  BY Halves
<1>1. /\ task' = Deleted /\ posts' = posts /\ overlapped' = overlapped
      /\ objects' = objects /\ uploads' = uploads /\ worker' = worker
      /\ entries' = [n \in Sequences |-> NoLine] /\ transcript' = [n \in Sequences |-> NoLine]
      /\ recording' = [s \in Speakers |-> NoRow]
  BY DEF DeleteCall
<1>2. LinesInv'
  BY <1>0, <1>1 DEF LinesInv, Transcripts, DeletedIsEmpty, Alone, ReadsKnown, LacksOnlyItsOwn
<1>3. FilesInv' /\ WorkerKnown'
  BY <1>0, <1>1 DEF FilesInv, UploadedIsStored, WorkerKnown
<1> QED BY <1>2, <1>3, Halves

LEMMA NextKeepsArtifacts ==
  ArtifactsInv /\ [TranscriptStep \/ RecordingStep]_artifactVars => ArtifactsInv'
<1> SUFFICES ASSUME ArtifactsInv, [TranscriptStep \/ RecordingStep]_artifactVars PROVE ArtifactsInv'
  OBVIOUS
<1>1. CASE UNCHANGED artifactVars
  <2>1. UNCHANGED tranVars /\ UNCHANGED recVars /\ task' = task /\ worker' = worker
    BY <1>1 DEF artifactVars, tranVars, recVars
  <2> QED BY <2>1, Halves, SameLines, SameFiles DEF WorkerKnown
<1>2. CASE TranscriptStep
  BY <1>2, WorkerKeepsInv, DeleteKeepsInv, LinesKeepInv DEF TranscriptStep
<1>3. CASE RecordingStep
  BY <1>3, WorkerKeepsInv, DeleteKeepsInv, FilesKeepInv DEF RecordingStep
<1> QED BY <1>1, <1>2, <1>3

LEMMA ArtifactsInvHolds == AllArtifactsSpec => []ArtifactsInv
BY InitialArtifacts, NextKeepsArtifacts, PTL DEF AllArtifactsSpec

(***************************************************************************)
(* Once no request of the call is under way, the readable transcript lacks a  *)
(* stored line only if the request of that line met another one: for any      *)
(* number of lines, tasks and requests that overlap, although each request    *)
(* replaces the whole transcript by what it read earlier.                    *)
(***************************************************************************)
THEOREM TranscriptWholeHolds == AllArtifactsSpec => []TranscriptLacksOnlyOverlapped
<1>1. ArtifactsInv => TranscriptLacksOnlyOverlapped
  BY DEF ArtifactsInv, LacksOnlyItsOwn, TranscriptLacksOnlyOverlapped
<1> QED BY <1>1, ArtifactsInvHolds, PTL

(***************************************************************************)
(* A recording listed as uploaded is in the object store, whatever uploads,  *)
(* listings and deletions of the call come in between.                      *)
(***************************************************************************)
THEOREM UploadedHolds == AllArtifactsSpec => []UploadedIsStored
<1>1. ArtifactsInv => UploadedIsStored
  BY DEF ArtifactsInv
<1> QED BY <1>1, ArtifactsInvHolds, PTL
=============================================================================
