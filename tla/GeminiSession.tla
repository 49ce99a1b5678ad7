--------------------------- MODULE GeminiSession ---------------------------
(***************************************************************************)
(* GeminiLiveSession: one session with the Gemini Live API, from connect to *)
(* close, with the voice worker that owns it (prepareGemini, fail, cleanup *)
(* of VoiceCallAgent).                                                      *)
(*                                                                          *)
(* connect waits first for the socket and then, for at most fifteen         *)
(* seconds, for the end of the setup; what settles either wait is a callback *)
(* of the socket.  A promise that is settled resumes its handler before the *)
(* next callback, so a continuation belongs to the step that settled it.    *)
(***************************************************************************)
EXTENDS Naturals, Sequences, FiniteSets

CONSTANT MaxMessages  \* bound: messages of the server

ASSUME GeminiAssumption == MaxMessages \in Nat

VARIABLES
  link,       \* the WebSocket to the Live API, below the SDK
  connecting, \* how far connect is
  setup,      \* the setup promise: "no" (pending), "resolved" or "rejected"
  closed,     \* the session object's closed flag
  listening,  \* the worker's handler is in the set of callbacks
  owner,      \* the voice worker: "calling", or "over" once the call has ended
  messages,   \* messages of the server so far
  asked,      \* tool calls of the server
  acks,       \* tool calls that were acknowledged
  late        \* history: an event reached the worker after it closed the session

toolVars == <<messages, asked, acks>>
geminiVars == <<link, connecting, setup, closed, listening, owner, toolVars, late>>

(* What normalizeLiveMessage looks at in a message of the server; the end of *)
(* the setup is a message of its own, and nothing is said before it.        *)
Message ==
  [content : SUBSET {"transcript", "interrupted", "output-audio"},
   calls : {<<>>, <<"report_decision">>, <<"end_call", "report_decision">>},
   rest : SUBSET {"turn-complete", "session-expiring", "error"}]
Nothing == [content |-> {}, calls |-> <<>>, rest |-> {}]

GeminiTypeOK ==
  /\ link \in {"none", "opening", "open", "failing", "closing", "down"}
  /\ connecting \in {"no", "socket", "setup", "done", "failed"}
  /\ setup \in {"no", "resolved", "rejected"}
  /\ closed \in BOOLEAN /\ listening \in BOOLEAN /\ late \in BOOLEAN
  /\ owner \in {"calling", "over"}
  /\ messages \in 0 .. MaxMessages /\ acks \in 0 .. 2 * MaxMessages /\ asked \in 0 .. 2 * MaxMessages

GeminiInit ==
  /\ link = "none" /\ connecting = "no" /\ setup = "no" /\ closed = FALSE /\ listening = FALSE
  /\ owner = "calling" /\ messages = 0 /\ asked = 0 /\ acks = 0 /\ late = FALSE

-----------------------------------------------------------------------------
(* What the worker is given *)

If(event, kinds) == IF event \in kinds THEN <<event>> ELSE <<>>
EventOf(tool) == IF tool = "report_decision" THEN "decision" ELSE "end-call"

(* normalizeLiveMessage: the events of a message, in its order. *)
Events(m) ==
  If("transcript", m.content) \o If("interrupted", m.content) \o If("output-audio", m.content)
    \o [i \in DOMAIN m.calls |-> EventOf(m.calls[i])]
    \o If("turn-complete", m.rest) \o If("session-expiring", m.rest) \o If("error", m.rest)

(* handleGeminiEvent: these end the call, and each is the last event of its callback. *)
Ends(event) == event \in {"error", "closed"}

(* Every tool call is acknowledged, also a second decision. *)
ToolEvent(event) == event \in {"decision", "end-call"}
Acknowledged(events) == Cardinality({i \in DOMAIN events : ToolEvent(events[i])})

(* Mutated form: close leaves the handler in the set. *)
KeepsListening(before) == before

(* GeminiLiveSession.close: is a handler in the set afterwards? *)
StillListening(before) == FALSE

(* A callback of the socket gives its events to the worker's handler, if there is one; *)
(* "fatal" if connect failed with it.                                       *)
Give(events, fatal) ==
  LET over == listening /\ \E i \in DOMAIN events : Ends(events[i])
  IN  /\ late' = (late \/ (closed /\ listening /\ events # <<>>))
      /\ acks' = acks + (IF listening /\ ~closed THEN Acknowledged(events) ELSE 0)
      /\ owner' = IF over \/ fatal THEN "over" ELSE owner
      /\ closed' = (closed \/ over)
      /\ listening' = IF over THEN StillListening(listening) ELSE listening

Closing(l) == IF l \in {"opening", "open", "failing"} THEN "closing" ELSE l

-----------------------------------------------------------------------------
(* connect *)

Connect ==
  /\ connecting = "no" /\ owner = "calling"
  /\ connecting' = "socket" /\ link' = "opening"
  /\ UNCHANGED <<setup, closed, listening, owner, toolVars, late>>

(* The SDK's connect resolves once the socket is open: the timer of the setup starts. *)
SocketOpens ==
  /\ link = "opening" /\ link' = "open"
  /\ connecting' = "setup"
  /\ UNCHANGED <<setup, closed, listening, owner, toolVars, late>>

(* connect returns: the worker listens, unless its call ended meanwhile. *)
TakesOver ==
  /\ connecting' = "done"
  /\ listening' = (owner = "calling")
  /\ closed' = (owner = "over")
  /\ link' = IF owner = "over" THEN Closing(link) ELSE link

(* onmessage, for the end of the setup: too late if connect has given up. *)
SetupEnds ==
  /\ link \in {"open", "closing"} /\ setup = "no"
  /\ setup' = "resolved"
  /\ IF connecting = "setup" THEN TakesOver ELSE UNCHANGED <<connecting, listening, closed, link>>
  /\ UNCHANGED <<owner, toolVars, late>>

(* onmessage, for every other message: a session that is closing may still receive. *)
Receive(m) ==
  /\ setup = "resolved" \/ [m EXCEPT !.rest = {}] = Nothing
  /\ link \in {"open", "closing"} /\ messages < MaxMessages
  /\ messages' = messages + 1 /\ asked' = asked + Len(m.calls)
  /\ Give(Events(m), FALSE)
  /\ link' = IF closed' THEN Closing(link) ELSE link
  /\ UNCHANGED <<connecting, setup>>

(* Mutated form: a setup that failed leaves the session as it is. *)
LeftOpen(l) == l

(* The catch of connect closes the session. *)
AfterFailedSetup(l) == Closing(l)

(* onerror and onclose: an event for the worker, and the end of a setup that waits. *)
Fails(event, after) ==
  LET waits == setup = "no" /\ connecting \in {"socket", "setup"}
  IN  /\ setup' = IF setup = "no" THEN "rejected" ELSE setup
      /\ connecting' = IF waits THEN "failed" ELSE connecting
      /\ Give(<<event>>, waits)
      /\ link' = IF waits /\ connecting = "setup" THEN AfterFailedSetup(after)
                 ELSE IF closed' THEN Closing(after) ELSE after
      /\ UNCHANGED <<messages, asked>>

OnError ==
  \/ link = "opening" /\ Fails("error", "failing")
  \/ link = "open" /\ Fails("error", "open")

OnClose == link \in {"opening", "open", "failing", "closing"} /\ Fails("closed", "down")

(* Fifteen seconds without the end of the setup. *)
SetupTimesOut ==
  /\ connecting = "setup"
  /\ connecting' = "failed" /\ link' = AfterFailedSetup(link)
  /\ owner' = "over"
  /\ UNCHANGED <<setup, closed, listening, toolVars, late>>

(* The call ends for a reason of its own: cleanup closes the session, if there is one. *)
CallOver ==
  /\ owner = "calling" /\ owner' = "over"
  /\ closed' = listening
  /\ listening' = IF listening THEN StillListening(listening) ELSE FALSE
  /\ link' = IF listening THEN Closing(link) ELSE link
  /\ UNCHANGED <<connecting, setup, toolVars, late>>

GeminiNext ==
  \/ Connect \/ SocketOpens \/ SetupEnds \/ OnError \/ OnClose \/ SetupTimesOut \/ CallOver
  \/ \E m \in Message : Receive(m)

GeminiSpec == GeminiInit /\ [][GeminiNext]_geminiVars

-----------------------------------------------------------------------------
(***************************************************************************)
(* Whatever ends connect or the call, in whatever order, no session stays   *)
(* open that nobody uses, nothing reaches the worker after it closed its   *)
(* session, a session that was lost is known to be lost, and the model has  *)
(* an answer to every tool call while the worker listens.                  *)
(***************************************************************************)
SessionAccountedFor ==
  /\ connecting \in {"done", "failed"} /\ owner = "over" => link \notin {"opening", "open"}
  /\ connecting = "failed" => owner = "over"
  /\ ~late
  /\ connecting = "done" /\ link = "down" => owner = "over"
  /\ connecting = "done" => setup = "resolved"
  /\ listening => acks = asked
=============================================================================
