----------------------------- MODULE MediaBridge -----------------------------
(***************************************************************************)
(* The output side of AudioMediaBridge: the queue of audio frames that the  *)
(* voice worker plays to the customer, one every ten milliseconds.          *)
(*                                                                          *)
(* A turn of the model is buffered before its first frame is played, and a  *)
(* gap inside an open turn is bridged with silence for a while.  A handler  *)
(* may wait until everything was played.  The operators are functions of    *)
(* the bridge's state; samples are counted in whole frames, with a rest.    *)
(***************************************************************************)
EXTENDS Naturals

CONSTANTS
  Prebuffer,      \* outputPrebufferFrames
  SilenceLimit,   \* silent frames played inside an open turn
  MaxQueue        \* bound: frames in the queue

ASSUME BridgeAssumption ==
  /\ Prebuffer \in Nat \ {0}
  /\ SilenceLimit \in Nat
  /\ MaxQueue \in Nat \ {0}

Output == [queue : 0..MaxQueue,       \* outputQueue.length
           rest : BOOLEAN,            \* pendingOutputSamples holds something
           timer : BOOLEAN,           \* outputTimer: a frame is being played
           started : BOOLEAN,         \* outputStarted
           turnOpen : BOOLEAN,        \* outputTurnOpen
           silence : 0..SilenceLimit] \* consecutiveSilenceFrames

Quiet == [queue |-> 0, rest |-> FALSE, timer |-> FALSE, started |-> FALSE,
          turnOpen |-> FALSE, silence |-> 0]

(* Mutated form: the frame that is being played and the rest are forgotten. *)
QueueIsEmpty(out) == out.queue = 0

(* The condition of waitForOutputDrain and resolveDrainedIfReady. *)
Drained(out) == ~out.timer /\ out.queue = 0 /\ ~out.rest

Buffering(out, force) == ~out.started /\ ~force /\ out.queue < Prebuffer

(* pumpOutput: the next frame, if it is time for one. *)
Pumped(out, force) ==
  CASE out.timer \/ Buffering(out, force) -> out
    [] ~out.timer /\ ~Buffering(out, force) /\ out.queue > 0 ->
         [out EXCEPT !.silence = 0, !.started = TRUE, !.queue = @ - 1, !.timer = TRUE]
    [] ~out.timer /\ ~Buffering(out, force) /\ out.queue = 0 /\ out.turnOpen ->
         IF out.started /\ out.silence < SilenceLimit
           THEN [out EXCEPT !.silence = @ + 1, !.timer = TRUE] ELSE out
    [] OTHER -> [out EXCEPT !.started = FALSE]

(* Mutated form: the end of a turn that was played resolves nobody. *)
ReleasesIfUnplayed(out, force) == Drained(out) /\ ~out.started /\ ~force

(* pumpOutput gets to resolveDrainedIfReady, which resolves the waiting handlers. *)
Releases(out, force) ==
  Drained(out) /\ (~out.turnOpen \/ (~out.started /\ ~force))

(* enqueueGeminiAudio, before it pumps. *)
Enqueued(out, frames, rest) ==
  [out EXCEPT !.turnOpen = TRUE, !.silence = 0, !.queue = @ + frames, !.rest = rest]

(* flushOutput, before it pumps: the rest becomes a last frame. *)
Flushed(out) ==
  [out EXCEPT !.turnOpen = FALSE, !.rest = FALSE,
              !.queue = IF out.rest THEN @ + 1 ELSE @]

(* The timer of a frame fires. *)
Played(out) == [out EXCEPT !.timer = FALSE]
=============================================================================
