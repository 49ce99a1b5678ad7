-------------------------- MODULE VoiceCallProofs --------------------------
(***************************************************************************)
(* Proofs about the voice worker, for every size of the prebuffer, of the   *)
(* silence limit and of the queue.  The inductive invariant adds to the     *)
(* type and to NothingLeftRunning what the bridge guarantees to a handler   *)
(* that is about to continue.                                               *)
(***************************************************************************)
EXTENDS VoiceCall, TLAPS

(* The bridge: a frame on its way was played out of a started turn, and a *)
(* rest leaves room for the frame that it becomes.                        *)
BridgeSound ==
  /\ out.timer => out.started
  /\ out.rest => out.queue < MaxQueue

(* A handler continues only when everything was played, or after the end. *)
ResumedWhenDrained == resumed /\ ~closing => Drained(out) /\ ~out.turnOpen

VoiceInv == VoiceCallTypeOK /\ NothingLeftRunning /\ BridgeSound /\ ResumedWhenDrained

-----------------------------------------------------------------------------
(* What a pump does to an output. *)
LEMMA PumpKeeps ==
  ASSUME NEW o \in Output, NEW force \in BOOLEAN,
         o.timer => o.started, o.rest => o.queue < MaxQueue
  PROVE  /\ Pumped(o, force) \in Output
         /\ Pumped(o, force).timer => Pumped(o, force).started
         /\ Pumped(o, force).rest => Pumped(o, force).queue < MaxQueue
         /\ Pumped(o, force).turnOpen = o.turnOpen
<1>1. CASE o.timer \/ Buffering(o, force)
  <2>1. Pumped(o, force) = o
    BY <1>1 DEF Pumped
  <2>2. QED BY <2>1
<1>2. CASE ~o.timer /\ ~Buffering(o, force) /\ o.queue > 0
  <2>1. Pumped(o, force) =
          [o EXCEPT !.silence = 0, !.started = TRUE, !.queue = @ - 1, !.timer = TRUE]
    BY <1>2 DEF Pumped
  <2>2. o.queue - 1 \in 0..MaxQueue /\ o.queue - 1 < MaxQueue
    BY <1>2, BridgeAssumption DEF Output
  <2>3. Pumped(o, force) = [queue |-> o.queue - 1, rest |-> o.rest, timer |-> TRUE,
                            started |-> TRUE, turnOpen |-> o.turnOpen, silence |-> 0]
    BY <2>1 DEF Output
  <2>4. 0 \in 0..SilenceLimit
    BY BridgeAssumption
  <2>5. QED BY <2>2, <2>3, <2>4 DEF Output
<1>3. CASE ~o.timer /\ ~Buffering(o, force) /\ o.queue = 0 /\ o.turnOpen
  <2>1. Pumped(o, force) =
          IF o.started /\ o.silence < SilenceLimit
            THEN [o EXCEPT !.silence = @ + 1, !.timer = TRUE] ELSE o
    BY <1>3 DEF Pumped
  <2>2. o.silence < SilenceLimit => o.silence + 1 \in 0..SilenceLimit
    BY BridgeAssumption DEF Output
  <2>3. QED BY <2>1, <2>2 DEF Output
<1>4. CASE ~o.timer /\ ~Buffering(o, force) /\ o.queue = 0 /\ ~o.turnOpen
  <2>1. Pumped(o, force) = [o EXCEPT !.started = FALSE]
    BY <1>4 DEF Pumped
  <2>2. QED BY <1>4, <2>1 DEF Output
<1>5. QED
  BY <1>1, <1>2, <1>3, <1>4 DEF Output

(* A pump that releases the handlers leaves a drained output. *)
LEMMA ReleaseIsDrained ==
  ASSUME NEW o \in Output, NEW force \in BOOLEAN, Releases(o, force), ~o.turnOpen
  PROVE  Drained(Pumped(o, force)) /\ ~Pumped(o, force).turnOpen
  BY BridgeAssumption DEF Releases, Drained, Pumped, Output, Buffering

LEMMA QuietIsSound ==
  /\ Quiet \in Output
  /\ Drained(Quiet) /\ ~Quiet.turnOpen /\ ~Quiet.timer /\ ~Quiet.rest
  BY BridgeAssumption DEF Quiet, Output, Drained

(* The end of the call, whatever brings it about. *)
LEMMA FinishIsSound ==
  ASSUME VoiceInv, ~closing, NEW phase \in {"ended", "rejected", "error", "timeout"},
         Finish(phase), Release, gemini' \in {"none", "connecting", "closed"}
  PROVE  /\ ending' = phase /\ ending' # "no"
         /\ cleanup' = "saving" /\ result' = result
         /\ duration' = FALSE /\ silence' = FALSE
         /\ out' \in Output /\ ~out'.timer /\ ~out'.rest
         /\ waiting' = FALSE /\ resumed' \in BOOLEAN
         /\ NothingLeftRunning' /\ BridgeSound' /\ ResumedWhenDrained'
  BY QuietIsSound
  DEF VoiceInv, VoiceCallTypeOK, Finish, Release, NothingLeftRunning, BridgeSound,
      ResumedWhenDrained, closing

LEMMA EndIsSound ==
  ASSUME VoiceInv, ~closing, NEW phase \in {"ended", "rejected", "error", "timeout"},
         EndedBy(phase)
  PROVE  /\ ending' = phase /\ ending' # "no"
         /\ cleanup' = "saving" /\ result' = result
         /\ duration' = FALSE /\ silence' = FALSE
         /\ out' \in Output /\ ~out'.timer /\ ~out'.rest
         /\ waiting' = FALSE /\ resumed' \in BOOLEAN
         /\ gemini' \in {"none", "connecting", "closed"}
         /\ NothingLeftRunning' /\ BridgeSound' /\ ResumedWhenDrained'
<1>1. gemini' \in {"none", "connecting", "closed"}
  BY DEF EndedBy, CloseSession, VoiceInv, VoiceCallTypeOK
<1>2. QED
  BY <1>1, FinishIsSound DEF EndedBy

-----------------------------------------------------------------------------
(* The steps, grouped by what they leave alone. *)

(* Those that neither play nor end anything. *)
LEMMA CalmSteps ==
  ASSUME VoiceInv,
         \/ Join \/ Outgoing \/ Accepted \/ MediaUp \/ SessionReady \/ EndCall
         \/ SilenceFires \/ TranscriptSaved \/ Saved \/ Posted
         \/ \E intent \in Intents \cup {"nonsense"} : Decide(intent)
         \/ \E byCustomer \in BOOLEAN : Transcript(byCustomer)
  PROVE  VoiceInv'
<1>1. UNCHANGED <<bridgeVars, ending>>
  BY DEF Join, Outgoing, Accepted, MediaUp, SessionReady, EndCall, SilenceFires,
         TranscriptSaved, Saved, Posted, Decide, Transcript, endVars
<1>2. BridgeSound' /\ ResumedWhenDrained'
  BY <1>1 DEF VoiceInv, BridgeSound, ResumedWhenDrained, closing, bridgeVars, Drained
<1>3. VoiceCallTypeOK'
  <2>1. CASE Join \/ Outgoing \/ Accepted
    BY <2>1 DEF VoiceInv, VoiceCallTypeOK, Join, Outgoing, Accepted, bridgeVars, mariaVars,
                timerVars, endVars
  <2>2. CASE MediaUp
    BY <2>2 DEF VoiceInv, VoiceCallTypeOK, MediaUp, bridgeVars, endVars
  <2>3. CASE SessionReady
    BY <2>3 DEF VoiceInv, VoiceCallTypeOK, SessionReady, Admit, bridgeVars, timerVars, endVars
  <2>4. CASE EndCall \/ SilenceFires \/ TranscriptSaved
    <3>1. endCall' \in BOOLEAN /\ owed' \in BOOLEAN /\ writing' \in BOOLEAN
      BY <2>4 DEF VoiceInv, VoiceCallTypeOK, EndCall, SilenceFires, TranscriptSaved, mariaVars
    <3>2. UNCHANGED <<stage, gemini, greeting, decision, bridgeVars, timerVars, endVars>>
      BY <2>4 DEF EndCall, SilenceFires, TranscriptSaved, mariaVars
    <3>3. QED
      BY <3>1, <3>2 DEF VoiceInv, VoiceCallTypeOK, bridgeVars, timerVars, endVars
  <2>5. CASE Saved
    <3>1. Disposition \in {"completed", "no_answer", "error"}
      BY DEF Disposition
    <3>2. result' \in [disposition : {"completed", "no_answer", "error"},
                       intent : Intents \cup {"none"}]
      BY <2>5, <3>1 DEF VoiceInv, VoiceCallTypeOK, Saved
    <3>3. QED
      BY <2>5, <3>2 DEF VoiceInv, VoiceCallTypeOK, Saved, bridgeVars, mariaVars, timerVars
  <2>6. CASE Posted
    BY <2>6 DEF VoiceInv, VoiceCallTypeOK, Posted, bridgeVars, mariaVars, timerVars
  <2>7. ASSUME NEW intent \in Intents \cup {"nonsense"}, Decide(intent) PROVE VoiceCallTypeOK'
    BY <2>7 DEF VoiceInv, VoiceCallTypeOK, Decide, RecordedDecision, Intents, bridgeVars, endVars
  <2>8. ASSUME NEW byCustomer \in BOOLEAN, Transcript(byCustomer) PROVE VoiceCallTypeOK'
    <3>1. silence' \in BOOLEAN /\ owed' \in BOOLEAN /\ writing' \in BOOLEAN
      BY <2>8 DEF VoiceInv, VoiceCallTypeOK, Transcript
    <3>2. QED
      BY <2>8, <3>1 DEF VoiceInv, VoiceCallTypeOK, Transcript, bridgeVars, endVars
  <2>9. QED BY <2>1, <2>2, <2>3, <2>4, <2>5, <2>6, <2>7, <2>8
<1>4. NothingLeftRunning'
  <2>1. CASE closing
    <3>1. UNCHANGED <<duration, silence, out, waiting>> /\ gemini' # "ready"
      BY <2>1 DEF VoiceInv, NothingLeftRunning, closing, Open, Speaking, Join, Outgoing, Accepted,
                  MediaUp, SessionReady, Admit, EndCall, SilenceFires, TranscriptSaved, Saved,
                  Posted, Decide, Transcript, bridgeVars, timerVars
    <3>2. QED BY <1>1, <2>1, <3>1 DEF VoiceInv, NothingLeftRunning, closing
  <2>2. CASE ~closing
    BY <1>1, <2>2 DEF NothingLeftRunning, closing
  <2>3. QED BY <2>1, <2>2
<1>5. QED BY <1>2, <1>3, <1>4 DEF VoiceInv

(* A pump, before which a turn is either open or closed. *)
LEMMA PumpIsSound ==
  ASSUME VoiceInv, ~closing, ~resumed,
         NEW o \in Output, NEW force \in BOOLEAN,
         o.timer => o.started, o.rest => o.queue < MaxQueue,
         Releases(o, force) => ~o.turnOpen,
         Pump(o, force),
         UNCHANGED <<stage, gemini, greeting, writing, mariaVars, timerVars, endVars>>
  PROVE  VoiceInv'
<1>1. out' \in Output /\ BridgeSound'
  BY PumpKeeps DEF Pump, BridgeSound
<1>2. waiting' \in BOOLEAN /\ resumed' \in BOOLEAN
  BY DEF VoiceInv, VoiceCallTypeOK, Pump, Release
<1>3. VoiceCallTypeOK'
  BY <1>1, <1>2 DEF VoiceInv, VoiceCallTypeOK, mariaVars, timerVars, endVars
<1>4. NothingLeftRunning'
  BY DEF NothingLeftRunning, closing, endVars
<1>5. ResumedWhenDrained'
  <2>1. CASE Releases(o, force)
    <3>1. Drained(Pumped(o, force)) /\ ~Pumped(o, force).turnOpen
      BY <2>1, ReleaseIsDrained
    <3>2. QED BY <3>1 DEF ResumedWhenDrained, Pump, Drained
  <2>2. CASE ~Releases(o, force)
    BY <2>2 DEF ResumedWhenDrained, Pump
  <2>3. QED BY <2>1, <2>2
<1>6. QED BY <1>1, <1>3, <1>4, <1>5 DEF VoiceInv

(* A step that touches the output, its waiting handlers and Maria's turn only. *)
LEMMA OutputTypes ==
  ASSUME VoiceCallTypeOK,
         out' \in Output, waiting' \in BOOLEAN, resumed' \in BOOLEAN, owed' \in BOOLEAN,
         UNCHANGED <<stage, gemini, greeting, writing, decision, endCall, duration, silence,
                     ending, cleanup, result>>
  PROVE  VoiceCallTypeOK'
  BY DEF VoiceCallTypeOK

LEMMA EnqueuedIs ==
  ASSUME NEW o \in Output, NEW frames \in Nat, NEW rest \in BOOLEAN,
         o.queue + frames < MaxQueue, frames > 0 \/ rest, o.timer => o.started
  PROVE  /\ Enqueued(o, frames, rest) \in Output
         /\ Enqueued(o, frames, rest).queue < MaxQueue
         /\ Enqueued(o, frames, rest).timer => Enqueued(o, frames, rest).started
         /\ ~Drained(Enqueued(o, frames, rest))
<1> DEFINE e == Enqueued(o, frames, rest)
<1>1. e.queue = o.queue + frames
  BY DEF Enqueued, Output
<1>2. e.rest = rest
  BY DEF Enqueued, Output
<1>3. e.timer = o.timer /\ e.started = o.started
  <2>1. e.timer = o.timer
    BY DEF Enqueued, Output
  <2>2. e.started = o.started
    BY DEF Enqueued, Output
  <2>3. QED BY <2>1, <2>2
<1>4. e \in Output
  <2>1. o.queue + frames \in 0..MaxQueue /\ 0 \in 0..SilenceLimit
    BY BridgeAssumption DEF Output
  <2>2. e = [[[[o EXCEPT !.turnOpen = TRUE] EXCEPT !.silence = 0]
                 EXCEPT !.queue = o.queue + frames] EXCEPT !.rest = rest]
    BY DEF Enqueued
  <2>3. [[o EXCEPT !.turnOpen = TRUE] EXCEPT !.silence = 0] \in Output
    BY <2>1 DEF Output
  <2>4. QED BY <2>1, <2>2, <2>3 DEF Output
<1>5. e.queue < MaxQueue /\ (e.queue # 0 \/ e.rest)
  BY <1>1, <1>2, BridgeAssumption DEF Output
<1>6. QED
  BY <1>3, <1>4, <1>5 DEF Drained

LEMMA FlushedIs ==
  ASSUME NEW o \in Output, o.rest => o.queue < MaxQueue, o.timer => o.started
  PROVE  /\ Flushed(o) \in Output
         /\ ~Flushed(o).rest
         /\ Flushed(o).timer => Flushed(o).started
         /\ Flushed(o).turnOpen = FALSE
<1> DEFINE f == Flushed(o)
<1>1. f \in Output
  <2>1. o.rest => o.queue + 1 \in 0..MaxQueue
    BY BridgeAssumption DEF Output
  <2>2. (IF o.rest THEN o.queue + 1 ELSE o.queue) \in 0..MaxQueue
    BY <2>1 DEF Output
  <2>3. QED BY <2>2 DEF Flushed, Output
<1>2. ~f.rest /\ f.turnOpen = FALSE
  <2>1. f.rest = FALSE
    BY DEF Flushed, Output
  <2>2. f.turnOpen = FALSE
    BY DEF Flushed, Output
  <2>3. QED BY <2>1, <2>2
<1>3. f.timer = o.timer
  BY DEF Flushed, Output
<1>4. f.started = o.started
  BY DEF Flushed, Output
<1>5. QED BY <1>1, <1>2, <1>3, <1>4

(* Those that give the bridge something to play, or play it. *)
LEMMA PlayingSteps ==
  ASSUME VoiceInv,
         \/ PlayFrame
         \/ \E frames \in 0..MaxQueue, rest \in BOOLEAN : Audio(frames, rest)
  PROVE  VoiceInv'
<1>1. CASE PlayFrame
  <2> DEFINE o == Played(out)
  <2>1. ~closing /\ ~resumed
    BY <1>1 DEF PlayFrame, VoiceInv, NothingLeftRunning
  <2>2. o \in Output /\ o.timer = FALSE /\ o.rest = out.rest /\ o.queue = out.queue
    BY DEF Played, Output, VoiceInv, VoiceCallTypeOK
  <2>3. Releases(o, FALSE) => ~o.turnOpen
    BY <1>1 DEF PlayFrame, Releases, Played, Output, VoiceInv, VoiceCallTypeOK, BridgeSound
  <2>4. QED
    BY <1>1, <2>1, <2>2, <2>3, PumpIsSound DEF PlayFrame, VoiceInv, BridgeSound
<1>2. ASSUME NEW frames \in 0..MaxQueue, NEW rest \in BOOLEAN, Audio(frames, rest)
      PROVE  VoiceInv'
  <2> DEFINE o == Enqueued(out, frames, rest)
  <2>1. ~closing /\ ~resumed /\ (frames > 0 \/ rest) /\ out.queue + frames < MaxQueue
    BY <1>2 DEF Audio, Speaking, Open
  <2>2. out \in Output /\ (out.timer => out.started)
    BY DEF VoiceInv, VoiceCallTypeOK, BridgeSound
  <2>3. frames \in Nat
    BY BridgeAssumption
  <2>4. /\ o \in Output /\ o.queue < MaxQueue
        /\ o.timer => o.started
    BY <2>1, <2>2, <2>3, EnqueuedIs
  <2>5. ~Drained(o)
    BY <2>1, <2>2, <2>3, EnqueuedIs
  <2>6. Releases(o, FALSE) => ~o.turnOpen
    BY <2>5 DEF Releases
  <2>7. QED
    BY <1>2, <2>1, <2>4, <2>6, PumpIsSound DEF Audio
<1>3. QED BY <1>1, <1>2

(* Those that drop or flush the output. *)
LEMMA InterruptedSound ==
  ASSUME VoiceInv, Interrupted
  PROVE  VoiceInv'
<1>1. waiting' = FALSE /\ resumed' \in BOOLEAN /\ out' = Quiet /\ out' \in Output
  BY QuietIsSound DEF Interrupted, Release, VoiceInv, VoiceCallTypeOK
<1>2. VoiceCallTypeOK'
  <2>1. UNCHANGED <<stage, gemini, greeting, writing, owed, decision, endCall, duration, silence,
                    ending, cleanup, result>>
    BY DEF Interrupted, mariaVars, timerVars, endVars
  <2>2. owed' \in BOOLEAN
    BY <2>1 DEF VoiceInv, VoiceCallTypeOK
  <2>3. QED BY <1>1, <2>1, <2>2, OutputTypes DEF VoiceInv
<1>3. NothingLeftRunning'
  BY DEF Interrupted, Speaking, Open, NothingLeftRunning, closing, endVars
<1>4. BridgeSound' /\ ResumedWhenDrained'
  BY <1>1, QuietIsSound DEF BridgeSound, ResumedWhenDrained, Drained
<1>5. QED BY <1>2, <1>3, <1>4 DEF VoiceInv

LEMMA TurnCompleteSound ==
  ASSUME VoiceInv, TurnComplete
  PROVE  VoiceInv'
<1> DEFINE f == Flushed(out)
<1> DEFINE o == Pumped(f, TRUE)
<1>1. out \in Output /\ (out.rest => out.queue < MaxQueue) /\ (out.timer => out.started)
  BY DEF VoiceInv, VoiceCallTypeOK, BridgeSound
<1>2. f \in Output /\ ~f.rest /\ (f.timer => f.started) /\ f.turnOpen = FALSE
  BY <1>1, FlushedIs
<1>3. /\ o \in Output
      /\ o.timer => o.started
      /\ o.rest => o.queue < MaxQueue
      /\ o.turnOpen = FALSE
  BY <1>2, PumpKeeps
<1>4. out' = o /\ waiting' = ~Drained(o) /\ resumed' = Drained(o)
  BY DEF TurnComplete
<1>5. Drained(o) \in BOOLEAN
  BY DEF Drained
<1> HIDE DEF f, o
<1>6. VoiceCallTypeOK'
  <2>1. /\ UNCHANGED <<stage, gemini, greeting, writing, decision, endCall, duration, silence,
                       ending, cleanup, result>>
        /\ owed' = FALSE
    BY DEF TurnComplete, timerVars, endVars
  <2>2. out' \in Output /\ waiting' \in BOOLEAN /\ resumed' \in BOOLEAN
    BY <1>3, <1>4, <1>5
  <2>3. QED BY <2>1, <2>2, OutputTypes DEF VoiceInv
<1>7. NothingLeftRunning'
  BY DEF TurnComplete, Speaking, Open, NothingLeftRunning, closing, endVars
<1>8. BridgeSound' /\ ResumedWhenDrained'
  BY <1>3, <1>4 DEF BridgeSound, ResumedWhenDrained, Drained
<1>9. QED BY <1>6, <1>7, <1>8 DEF VoiceInv

-----------------------------------------------------------------------------
(* A step that disarms a timer, answers a write or lets a handler continue. *)
LEMMA QuietTypes ==
  ASSUME VoiceCallTypeOK,
         greeting' \in {"none", "started", "introduced", "complete"},
         writing' \in BOOLEAN, resumed' \in BOOLEAN,
         duration' \in BOOLEAN, silence' \in BOOLEAN,
         UNCHANGED <<stage, gemini, out, waiting, owed, decision, endCall, ending, cleanup, result>>
  PROVE  VoiceCallTypeOK'
  BY DEF VoiceCallTypeOK

(* A step that ends the call. *)
LEMMA EndTypes ==
  ASSUME VoiceCallTypeOK,
         out' \in Output, waiting' = FALSE, resumed' \in BOOLEAN,
         duration' = FALSE, silence' = FALSE, writing' \in BOOLEAN, endCall' \in BOOLEAN,
         ending' \in {"ended", "rejected", "error", "timeout"}, cleanup' = "saving",
         gemini' \in {"none", "connecting", "ready", "closed"},
         greeting' \in {"none", "started", "introduced", "complete"},
         decision' \in Intents \cup {"none"},
         UNCHANGED <<stage, owed, result>>
  PROVE  VoiceCallTypeOK'
  BY DEF VoiceCallTypeOK

LEMMA EndingSteps ==
  ASSUME VoiceInv, CallEnds \/ SessionRefused \/ TranscriptLost \/ DurationFires \/ Resume
  PROVE  VoiceInv'
<1>1. CASE CallEnds
  <2>1. PICK phase \in {"ended", "rejected", "error"} : EndedBy(phase)
    BY <1>1 DEF CallEnds
  <2>2. ~closing /\ UNCHANGED <<stage, greeting, writing, owed, decision, endCall>>
    BY <1>1 DEF CallEnds, Open, mariaVars
  <2>3. /\ greeting' \in {"none", "started", "introduced", "complete"}
        /\ writing' \in BOOLEAN /\ endCall' \in BOOLEAN
        /\ decision' \in Intents \cup {"none"}
    BY <2>2 DEF VoiceInv, VoiceCallTypeOK
  <2>4. QED BY <2>1, <2>2, <2>3, EndIsSound, EndTypes DEF VoiceInv
<1>2. CASE SessionRefused
  <2>1. gemini' = "closed" /\ UNCHANGED <<stage, greeting, writing, owed, decision, endCall>>
    BY <1>2 DEF SessionRefused, mariaVars
  <2>2. /\ greeting' \in {"none", "started", "introduced", "complete"}
        /\ writing' \in BOOLEAN /\ endCall' \in BOOLEAN
        /\ decision' \in Intents \cup {"none"}
    BY <2>1 DEF VoiceInv, VoiceCallTypeOK
  <2>3. CASE ~closing
    BY <1>2, <2>1, <2>2, <2>3, FinishIsSound, EndTypes DEF SessionRefused, VoiceInv
  <2>4. CASE closing
    <3>1. UNCHANGED <<bridgeVars, timerVars, endVars>>
      BY <1>2, <2>4 DEF SessionRefused
    <3>2. VoiceCallTypeOK'
      BY <2>1, <3>1 DEF VoiceInv, VoiceCallTypeOK, bridgeVars, timerVars, endVars
    <3>3. NothingLeftRunning' /\ BridgeSound' /\ ResumedWhenDrained'
      BY <2>1, <3>1 DEF VoiceInv, NothingLeftRunning, BridgeSound, ResumedWhenDrained, Drained,
                        closing, bridgeVars, timerVars, endVars
    <3>4. QED BY <3>2, <3>3 DEF VoiceInv
  <2>5. QED BY <2>3, <2>4
<1>3. CASE TranscriptLost
  <2>1. writing' = FALSE /\ UNCHANGED <<stage, greeting, owed, decision, endCall>>
    BY <1>3 DEF TranscriptLost, mariaVars
  <2>2. /\ greeting' \in {"none", "started", "introduced", "complete"}
        /\ endCall' \in BOOLEAN /\ decision' \in Intents \cup {"none"}
    BY <2>1 DEF VoiceInv, VoiceCallTypeOK
  <2>3. CASE ~closing
    <3>1. EndedBy("error")
      BY <1>3, <2>3 DEF TranscriptLost
    <3>2. QED BY <2>1, <2>2, <2>3, <3>1, EndIsSound, EndTypes DEF VoiceInv
  <2>4. CASE closing
    <3>1. UNCHANGED <<gemini, bridgeVars, timerVars, endVars>>
      BY <1>3, <2>4 DEF TranscriptLost
    <3>2. VoiceCallTypeOK'
      <4>1. UNCHANGED <<stage, gemini, out, waiting, owed, decision, endCall, ending, cleanup,
                       result>>
        BY <2>1, <3>1 DEF bridgeVars, timerVars, endVars
      <4>2. /\ greeting' \in {"none", "started", "introduced", "complete"}
            /\ writing' \in BOOLEAN /\ resumed' \in BOOLEAN
            /\ duration' \in BOOLEAN /\ silence' \in BOOLEAN
        BY <2>1, <3>1 DEF VoiceInv, VoiceCallTypeOK, bridgeVars, timerVars, endVars
      <4>3. QED BY <4>1, <4>2, QuietTypes DEF VoiceInv
    <3>3. NothingLeftRunning' /\ BridgeSound' /\ ResumedWhenDrained'
      BY <3>1 DEF VoiceInv, NothingLeftRunning, BridgeSound, ResumedWhenDrained, Drained,
                  closing, bridgeVars, timerVars, endVars
    <3>4. QED BY <3>2, <3>3 DEF VoiceInv
  <2>5. QED BY <2>3, <2>4
<1>4. CASE DurationFires
  <2>1. ~closing /\ UNCHANGED <<stage, greeting, writing, owed>>
    BY <1>4 DEF DurationFires, Open, mariaVars
  <2>2. /\ greeting' \in {"none", "started", "introduced", "complete"}
        /\ writing' \in BOOLEAN
    BY <2>1 DEF VoiceInv, VoiceCallTypeOK
  <2>3. CASE Overdue
    <3>1. decision' = "UNCLEAR" /\ endCall' = TRUE /\ EndedBy("timeout")
      BY <1>4, <2>3 DEF DurationFires
    <3>2. QED BY <2>1, <2>2, <3>1, EndIsSound, EndTypes DEF VoiceInv, Intents
  <2>4. CASE ~Overdue
    <3>1. duration' = FALSE /\ UNCHANGED <<gemini, bridgeVars, mariaVars, silence, endVars>>
      BY <1>4, <2>4 DEF DurationFires
    <3>2. VoiceCallTypeOK'
      <4>1. UNCHANGED <<stage, gemini, out, waiting, owed, decision, endCall, ending, cleanup,
                       result>>
        BY <2>1, <3>1 DEF bridgeVars, mariaVars, endVars
      <4>2. /\ greeting' \in {"none", "started", "introduced", "complete"}
            /\ writing' \in BOOLEAN /\ resumed' \in BOOLEAN
            /\ duration' \in BOOLEAN /\ silence' \in BOOLEAN
        BY <2>1, <3>1 DEF VoiceInv, VoiceCallTypeOK, bridgeVars, mariaVars, endVars
      <4>3. QED BY <4>1, <4>2, QuietTypes DEF VoiceInv
    <3>3. NothingLeftRunning' /\ BridgeSound' /\ ResumedWhenDrained'
      BY <2>1, <3>1 DEF VoiceInv, NothingLeftRunning, BridgeSound, ResumedWhenDrained, Drained,
                        closing, bridgeVars, endVars
    <3>4. QED BY <3>2, <3>3 DEF VoiceInv
  <2>5. QED BY <2>3, <2>4
<1>5. CASE Resume
  <2>1. greeting' = "complete" /\ UNCHANGED <<stage, writing, owed, decision, endCall>>
    BY <1>5 DEF Resume, mariaVars
  <2>2. /\ writing' \in BOOLEAN /\ endCall' \in BOOLEAN
        /\ decision' \in Intents \cup {"none"}
    BY <2>1 DEF VoiceInv, VoiceCallTypeOK
  <2>3. CASE decision # "none" /\ endCall /\ ~closing
    <3>1. EndedBy("ended")
      BY <1>5, <2>3 DEF Resume
    <3>2. QED BY <2>1, <2>2, <2>3, <3>1, EndIsSound, EndTypes DEF VoiceInv
  <2>4. CASE ~(decision # "none" /\ endCall /\ ~closing)
    <3>1. silence' = Watchdog /\ resumed' = FALSE
          /\ UNCHANGED <<gemini, out, waiting, duration, endVars>>
      BY <1>5, <2>4 DEF Resume
    <3>2. silence' \in BOOLEAN /\ (closing => silence' = FALSE)
      BY <3>1 DEF Watchdog
    <3>3. VoiceCallTypeOK'
      <4>1. UNCHANGED <<stage, gemini, out, waiting, owed, decision, endCall, ending, cleanup,
                       result>>
        BY <2>1, <3>1, <3>2 DEF endVars
      <4>2. /\ greeting' \in {"none", "started", "introduced", "complete"}
            /\ writing' \in BOOLEAN /\ resumed' \in BOOLEAN
            /\ duration' \in BOOLEAN /\ silence' \in BOOLEAN
        BY <2>1, <3>1, <3>2 DEF VoiceInv, VoiceCallTypeOK, endVars
      <4>3. QED BY <4>1, <4>2, QuietTypes DEF VoiceInv
    <3>4. NothingLeftRunning' /\ BridgeSound' /\ ResumedWhenDrained'
      BY <3>1, <3>2 DEF VoiceInv, NothingLeftRunning, BridgeSound, ResumedWhenDrained, closing,
                        endVars
    <3>5. QED BY <3>3, <3>4 DEF VoiceInv
  <2>5. QED BY <2>3, <2>4
<1>6. QED BY <1>1, <1>2, <1>3, <1>4, <1>5

LEMMA VoiceInit == Init => VoiceInv
<1> SUFFICES ASSUME Init PROVE VoiceInv
  OBVIOUS
<1>1. VoiceCallTypeOK
  BY QuietIsSound DEF Init, VoiceCallTypeOK, NoResult, Intents
<1>2. QED
  BY <1>1, QuietIsSound DEF Init, VoiceInv, NothingLeftRunning, BridgeSound, ResumedWhenDrained,
                            closing

LEMMA VoiceStep == VoiceInv /\ [Next]_vars => VoiceInv'
<1> SUFFICES ASSUME VoiceInv, [Next]_vars PROVE VoiceInv'
  OBVIOUS
<1>1. CASE Next
  BY <1>1, CalmSteps, PlayingSteps, InterruptedSound, TurnCompleteSound, EndingSteps
  DEF Next, SessionAnswers, TranscriptAnswers
<1>2. CASE UNCHANGED vars
  <2>1. VoiceCallTypeOK'
    BY <1>2 DEF VoiceInv, VoiceCallTypeOK, vars, bridgeVars, mariaVars, timerVars, endVars
  <2>2. NothingLeftRunning' /\ BridgeSound' /\ ResumedWhenDrained'
    BY <1>2 DEF VoiceInv, NothingLeftRunning, BridgeSound, ResumedWhenDrained, Drained, closing,
                vars, bridgeVars, timerVars, endVars
  <2>3. QED BY <2>1, <2>2 DEF VoiceInv
<1>3. QED BY <1>1, <1>2

LEMMA VoiceInvHolds == Spec => []VoiceInv
  BY VoiceInit, VoiceStep, PTL DEF Spec

(* The variables of the worker keep their types, the output queue included. *)
THEOREM VoiceTypesHold == Spec => []VoiceCallTypeOK
<1>1. VoiceInv => VoiceCallTypeOK
  BY DEF VoiceInv
<1>2. QED BY <1>1, VoiceInvHolds, PTL

(* Once something ended the call, no timer, session or frame is left that would *)
(* keep the process, and with it the adapter's only handle.                     *)
THEOREM NothingLeftRunningHolds == Spec => []NothingLeftRunning
<1>1. VoiceInv => NothingLeftRunning
  BY DEF VoiceInv
<1>2. QED BY <1>1, VoiceInvHolds, PTL

(* recordDecision, forceUnclear and the end of the call keep the first decision. *)
THEOREM DecisionHolds == Spec => DecisionStays
<1>1. Next => (decision # "none" => decision' = decision)
  BY DEF Next, SessionAnswers, TranscriptAnswers, Join, Outgoing, Accepted, MediaUp, CallEnds,
         SessionReady, SessionRefused, TranscriptSaved, TranscriptLost, Audio, Decide,
         RecordedDecision, Transcript, Interrupted, EndCall, TurnComplete, Resume, PlayFrame,
         DurationFires, Overdue, SilenceFires, Saved, Posted, mariaVars
<1>2. [Next]_vars => [decision # "none" => decision' = decision]_decision
  BY <1>1 DEF vars, mariaVars
<1>3. QED BY <1>2, PTL DEF Spec, DecisionStays

(* The worker hangs up on Maria's signal only when everything she said was *)
(* played, whatever the sizes of the buffers.                              *)
THEOREM GoodbyeHolds == Spec => GoodbyeHeard
<1>1. VoiceInv => (ending = "no" /\ resumed =>
                     out.queue = 0 /\ ~out.rest /\ ~out.timer /\ ~out.turnOpen)
  BY DEF VoiceInv, ResumedWhenDrained, Drained, closing
<1>2. VoiceInv => [ending = "no" /\ ending' = "ended" /\ resumed =>
                     out.queue = 0 /\ ~out.rest /\ ~out.timer /\ ~out.turnOpen]_ending
  BY <1>1
<1>3. QED BY <1>2, VoiceInvHolds, PTL DEF GoodbyeHeard
=============================================================================
