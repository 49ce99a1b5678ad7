------------------------------ MODULE VoiceCall ------------------------------
(***************************************************************************)
(* One run of the voice worker: VoiceCallAgent with its media bridge and    *)
(* its Gemini session.  The call server, the media connection, the model    *)
(* ("Maria"), the customer, two timers and the artifact uploads all call    *)
(* into it, in any order; the first of them that ends the call starts the   *)
(* cleanup, which posts the one result and lets the process exit.           *)
(*                                                                          *)
(* A handler runs up to its await without interruption.  A handler that     *)
(* waits for the audio to drain is resumed before the next event, so every  *)
(* event but its continuation requires that none is about to resume.        *)
(***************************************************************************)
EXTENDS MediaBridge

VARIABLES
  stage,       \* how far the call server and the media connection are
  gemini,      \* the session: none, being connected, ready, or closed
  greeting,    \* none, started, introduced, complete
  out,         \* the bridge's output
  waiting,     \* a turn-complete handler waits for the output to drain
  resumed,     \* such a handler is about to continue
  owed,        \* Maria was prompted and has not completed her turn
  writing,     \* a transcript write is not answered yet
  decision,    \* the reported intent, or "none"
  endCall,     \* endCallRequested
  duration,    \* the call duration timer is armed
  silence,     \* the customer silence timer is armed
  ending,      \* finishPhase, or "no" as long as nothing ended the call
  cleanup,     \* how far cleanup is
  result       \* what was posted to the backend, or NoResult

bridgeVars == <<out, waiting, resumed>>
mariaVars == <<owed, decision, endCall>>
timerVars == <<duration, silence>>
endVars == <<ending, cleanup, result>>
vars == <<stage, gemini, greeting, bridgeVars, writing, mariaVars, timerVars, endVars>>

Intents == {"CONFIRMED", "CANCELLED", "UNCLEAR"}
NoResult == [disposition |-> "none", intent |-> "none"]

VoiceCallTypeOK ==
  /\ stage \in {"joining", "dialing", "ringing", "offering", "connected"}
  /\ gemini \in {"none", "connecting", "ready", "closed"}
  /\ greeting \in {"none", "started", "introduced", "complete"}
  /\ out \in Output
  /\ waiting \in BOOLEAN /\ resumed \in BOOLEAN
  /\ owed \in BOOLEAN /\ writing \in BOOLEAN
  /\ decision \in Intents \cup {"none"}
  /\ endCall \in BOOLEAN
  /\ duration \in BOOLEAN /\ silence \in BOOLEAN
  /\ ending \in {"no", "ended", "rejected", "error", "timeout"}
  /\ cleanup \in {"none", "saving", "posting", "done"}
  /\ result \in [disposition : {"completed", "no_answer", "error"},
                 intent : Intents \cup {"none"}] \cup {NoResult}

Init ==
  /\ stage = "joining"
  /\ gemini = "none" /\ greeting = "none"
  /\ out = Quiet /\ waiting = FALSE /\ resumed = FALSE
  /\ owed = FALSE /\ writing = FALSE
  /\ decision = "none" /\ endCall = FALSE
  /\ duration = FALSE /\ silence = FALSE
  /\ ending = "no" /\ cleanup = "none"
  /\ result = NoResult

closing == ending # "no"

(* An event loop turn may begin, and nothing ended the call yet. *)
Open == ~closing /\ ~resumed

-----------------------------------------------------------------------------
(***************************************************************************)
(* finish, and the part of cleanup before its first await: the timers are   *)
(* cleared, the peer is closed, and the bridge is stopped, which releases   *)
(* the handlers that waited for the audio; the session is closed.           *)
(***************************************************************************)
Finish(phase) ==
  /\ ending' = phase
  /\ cleanup' = "saving"
  /\ duration' = FALSE /\ silence' = FALSE
  /\ out' = Quiet /\ waiting' = FALSE
  /\ UNCHANGED result

CloseSession == gemini' = IF gemini = "ready" THEN "closed" ELSE gemini

(* The bridge resolved the promise of a waiting handler. *)
Release == resumed' = waiting

EndedBy(phase) == Finish(phase) /\ CloseSession /\ Release

-----------------------------------------------------------------------------
(* The call server: registration, dialling, and the call it announces. *)
Join ==
  /\ stage = "joining" /\ Open
  /\ stage' = "dialing"
  /\ UNCHANGED <<gemini, greeting, bridgeVars, writing, mariaVars, timerVars, endVars>>

(* call:outgoing: the session is prepared while the phone rings. *)
Outgoing ==
  /\ stage = "dialing" /\ Open
  /\ stage' = "ringing"
  /\ gemini' = "connecting"
  /\ UNCHANGED <<greeting, bridgeVars, writing, mariaVars, timerVars, endVars>>

(* call:accepted: beginMedia makes an offer. *)
Accepted ==
  /\ stage = "ringing" /\ Open
  /\ stage' = "offering"
  /\ UNCHANGED <<gemini, greeting, bridgeVars, writing, mariaVars, timerVars, endVars>>

(* The peer connection is up, for the first time or again. *)
MediaUp ==
  /\ stage \in {"offering", "connected"} /\ Open
  /\ stage' = "connected"
  /\ duration' = TRUE
  /\ greeting' = (IF greeting # "none" THEN greeting
                  ELSE IF gemini = "ready" THEN "introduced" ELSE "started")
  /\ owed' = (owed \/ (greeting = "none" /\ gemini = "ready"))
  /\ UNCHANGED <<gemini, bridgeVars, writing, decision, endCall, silence, endVars>>

(* Somebody hangs up, the phone rejects the call, the server goes away, the *)
(* adapter stops the worker; or a connection or the session fails.          *)
CallEnds ==
  /\ Open
  /\ \/ EndedBy("ended")
     \/ stage \in {"dialing", "ringing"} /\ EndedBy("rejected")
     \/ EndedBy("error")
  /\ UNCHANGED <<stage, greeting, writing, mariaVars>>

-----------------------------------------------------------------------------
(* What becomes of a session that was being connected. *)
Admit == IF closing THEN "closed" ELSE "ready"

(* geminiFactory resolves; a greeting that waited for it begins. *)
SessionReady ==
  /\ gemini = "connecting" /\ ~resumed
  /\ gemini' = Admit
  /\ LET introduces == greeting = "started" /\ ~closing
     IN  /\ greeting' = (IF introduces THEN "introduced" ELSE greeting)
         /\ owed' = (owed \/ introduces)
  /\ UNCHANGED <<stage, bridgeVars, writing, decision, endCall, timerVars, endVars>>

(* It rejects: the call fails, unless it is over. *)
SessionRefused ==
  /\ gemini = "connecting" /\ ~resumed
  /\ gemini' = "closed"
  /\ IF closing THEN UNCHANGED <<bridgeVars, timerVars, endVars>>
                ELSE Finish("error") /\ Release
  /\ UNCHANGED <<stage, greeting, writing, mariaVars>>

-----------------------------------------------------------------------------
(* Events of the session.  Maria is silent until she is introduced. *)
Speaking == gemini = "ready" /\ greeting \in {"introduced", "complete"} /\ Open

(* The bridge takes a step from `o`; its pump may release the handlers. *)
Pump(o, force) ==
  /\ out' = Pumped(o, force)
  /\ IF Releases(o, force)
       THEN waiting' = FALSE /\ Release
       ELSE UNCHANGED <<waiting, resumed>>

Audio(frames, rest) ==
  /\ Speaking /\ owed
  /\ frames > 0 \/ rest
  /\ out.queue + frames < MaxQueue
  /\ Pump(Enqueued(out, frames, rest), FALSE)
  /\ UNCHANGED <<stage, gemini, greeting, writing, mariaVars, timerVars, endVars>>

(* The customer spoke over her: what is queued is dropped. *)
Interrupted ==
  /\ Speaking /\ owed
  /\ out' = Quiet
  /\ waiting' = FALSE
  /\ Release
  /\ UNCHANGED <<stage, gemini, greeting, writing, mariaVars, timerVars, endVars>>

(* Mutated form: the intent is not checked against the list. *)
RawDecision(intent) == IF decision # "none" THEN decision ELSE intent

(* Mutated form: a later report replaces the first one. *)
LastDecision(intent) == IF intent \in Intents THEN intent ELSE "UNCLEAR"

(* The first report counts, and nonsense is unclear. *)
RecordedDecision(intent) ==
  IF decision # "none" THEN decision
  ELSE IF intent \in Intents THEN intent ELSE "UNCLEAR"

Decide(intent) ==
  /\ Speaking /\ owed
  /\ decision' = RecordedDecision(intent)
  /\ silence' = (silence /\ decision # "none")
  /\ UNCHANGED <<stage, gemini, greeting, bridgeVars, writing, owed, endCall, duration, endVars>>

(* end_call; its acknowledgement prompts one more turn. *)
EndCall ==
  /\ Speaking
  /\ endCall' = TRUE
  /\ owed' = TRUE
  /\ UNCHANGED <<stage, gemini, greeting, bridgeVars, writing, decision, timerVars, endVars>>

(* turn-complete: the rest is flushed, and the handler waits for the output to drain. *)
TurnComplete ==
  LET o == Pumped(Flushed(out), TRUE)
  IN  /\ Speaking /\ owed
      /\ owed' = FALSE
      /\ out' = o
      /\ waiting' = ~Drained(o)
      /\ resumed' = Drained(o)
      /\ UNCHANGED <<stage, gemini, greeting, writing, decision, endCall, timerVars, endVars>>

(* Mutated form: the watchdog is armed without looking whether the call is over. *)
WatchdogAnyway == greeting = "complete" /\ decision = "none"

(* The condition of resetCustomerSilenceTimer, once the greeting is complete. *)
Watchdog == ~closing /\ decision = "none"

(* The handler continues: the greeting was played, or the call is to be ended. *)
Resume ==
  /\ resumed
  /\ greeting' = "complete"
  /\ IF decision # "none" /\ endCall /\ ~closing
       THEN EndedBy("ended")
       ELSE /\ silence' = Watchdog
            /\ resumed' = FALSE
            /\ UNCHANGED <<gemini, out, waiting, duration, endVars>>
  /\ UNCHANGED <<stage, writing, mariaVars>>

(* A line of the transcript; the customer's own prompts Maria. *)
Transcript(byCustomer) ==
  /\ Speaking
  /\ byCustomer => greeting = "complete"
  /\ writing' = TRUE
  /\ silence' = (IF byCustomer THEN decision = "none" ELSE silence)
  /\ owed' = (owed \/ byCustomer)
  /\ UNCHANGED <<stage, gemini, greeting, bridgeVars, decision, endCall, duration, endVars>>

(* The write is answered, or it fails and the call with it. *)
TranscriptSaved ==
  /\ writing /\ ~resumed
  /\ writing' = FALSE
  /\ UNCHANGED <<stage, gemini, greeting, bridgeVars, mariaVars, timerVars, endVars>>

TranscriptLost ==
  /\ writing /\ ~resumed
  /\ writing' = FALSE
  /\ IF closing THEN UNCHANGED <<gemini, bridgeVars, timerVars, endVars>>
                ELSE EndedBy("error")
  /\ UNCHANGED <<stage, greeting, mariaVars>>

-----------------------------------------------------------------------------
(* The timers *)
PlayFrame ==
  /\ out.timer /\ ~resumed
  /\ Pump(Played(out), FALSE)
  /\ UNCHANGED <<stage, gemini, greeting, writing, mariaVars, timerVars, endVars>>

(* Mutated form: forceUnclear waits for the greeting, as the other timer does. *)
OverdueOnceGreeted == decision = "none" /\ greeting = "complete"

(* forceUnclear does nothing once there is a decision. *)
Overdue == decision = "none"

DurationFires ==
  /\ duration /\ Open
  /\ IF Overdue
       THEN /\ decision' = "UNCLEAR" /\ endCall' = TRUE
            /\ EndedBy("timeout")
            /\ UNCHANGED owed
       ELSE /\ duration' = FALSE
            /\ UNCHANGED <<gemini, bridgeVars, mariaVars, silence, endVars>>
  /\ UNCHANGED <<stage, greeting, writing>>

(* Maria is asked to speak to a silent customer, and the timer is set again. *)
SilenceFires ==
  /\ silence /\ Open
  /\ owed' = TRUE
  /\ UNCHANGED <<stage, gemini, greeting, bridgeVars, writing, decision, endCall, timerVars,
                 endVars>>

-----------------------------------------------------------------------------
(* The rest of cleanup. *)
Disposition ==
  CASE ending = "rejected" -> "no_answer"
    [] ending = "error" -> "error"
    [] OTHER -> "completed"

(* The audio files, the last transcript lines and the uploads are done. *)
Saved ==
  /\ cleanup = "saving" /\ ~resumed /\ ~writing
  /\ cleanup' = "posting"
  /\ result' = [disposition |-> Disposition, intent |-> decision]
  /\ UNCHANGED <<stage, gemini, greeting, bridgeVars, writing, mariaVars, timerVars, ending>>

(* sendResult returns, whatever the answer was. *)
Posted ==
  /\ cleanup = "posting" /\ ~resumed
  /\ cleanup' = "done"
  /\ UNCHANGED <<stage, gemini, greeting, bridgeVars, writing, mariaVars, timerVars, ending,
                 result>>

-----------------------------------------------------------------------------
SessionAnswers == SessionReady \/ SessionRefused

TranscriptAnswers == TranscriptSaved \/ TranscriptLost

Next ==
  \/ Join \/ Outgoing \/ Accepted \/ MediaUp \/ CallEnds
  \/ SessionAnswers \/ TranscriptAnswers
  \/ \E frames \in 0..MaxQueue, rest \in BOOLEAN : Audio(frames, rest)
  \/ \E intent \in Intents \cup {"nonsense"} : Decide(intent)
  \/ \E byCustomer \in BOOLEAN : Transcript(byCustomer)
  \/ Interrupted \/ EndCall \/ TurnComplete \/ Resume
  \/ PlayFrame \/ DurationFires \/ SilenceFires
  \/ Saved \/ Posted

Spec == Init /\ [][Next]_vars

(***************************************************************************)
(* Fairness of the worker: timers fire, promises that were resolved resume  *)
(* their handler, the Gemini SDK answers the connection, and requests are   *)
(* answered or fail.  A resumption takes no time, so the duration timer,    *)
(* which it only postpones, fires although handlers resume again and again. *)
(***************************************************************************)
WorkerFairness ==
  /\ WF_vars(Resume) /\ WF_vars(PlayFrame) /\ SF_vars(DurationFires)
  /\ WF_vars(SessionAnswers) /\ WF_vars(TranscriptAnswers)
  /\ WF_vars(Saved) /\ WF_vars(Posted)

(***************************************************************************)
(* Maria completes the turns she owes, ends a call that she has decided,    *)
(* and stops taking turns after that, as the acknowledgement of end_call    *)
(* asks her to ("Do not speak further").                                    *)
(***************************************************************************)
MariaFairness ==
  /\ WF_vars(TurnComplete)
  /\ SF_vars(decision # "none" /\ ~endCall /\ EndCall)
  /\ <>[][decision # "none" /\ endCall /\ ~owed => ~owed']_vars

WorkerSpec == Spec /\ WorkerFairness

-----------------------------------------------------------------------------
(***************************************************************************)
(* Once something ended the call, nothing is left that would keep the       *)
(* process and the adapter's handle alive: no timer, no session, no frame   *)
(* being played - although a session may still be connecting and a handler  *)
(* may continue after the end.                                              *)
(***************************************************************************)
NothingLeftRunning ==
  closing => /\ ~duration /\ ~silence
             /\ gemini # "ready"
             /\ ~out.timer /\ ~waiting

(***************************************************************************)
(* The decision that was recorded first is the one that is reported: a      *)
(* second report, the duration timer or the end of the call leave it.       *)
(***************************************************************************)
DecisionStays == [][decision # "none" => decision' = decision]_decision

(***************************************************************************)
(* The worker does not hang up on Maria's signal before her last turn is    *)
(* complete and was played to its last sample, or was interrupted.          *)
(***************************************************************************)
GoodbyeHeard ==
  [][ending = "no" /\ ending' = "ended" /\ resumed =>
       out.queue = 0 /\ ~out.rest /\ ~out.timer /\ ~out.turnOpen]_ending

(***************************************************************************)
(* A worker whose call was connected exits, and its result was posted, if   *)
(* Maria keeps her side of the protocol.                                    *)
(***************************************************************************)
CallFinishes ==
  MariaFairness => (stage = "connected" ~> cleanup = "done" /\ result # NoResult)

(***************************************************************************)
(* Whatever Maria and the customer do, a connected call does not stay       *)
(* without a decision: one is recorded or the worker exits.                 *)
(***************************************************************************)
NoEndlessCall ==
  stage = "connected" /\ decision = "none" ~> decision # "none" \/ cleanup = "done"
=============================================================================
