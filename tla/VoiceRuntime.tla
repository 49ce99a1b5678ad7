----------------------------- MODULE VoiceRuntime -----------------------------
(***************************************************************************)
(* The Ringio adapter's child process and the HTTP requests it sends back.  *)
(* The adapter keeps a handle on the last worker it forked; a worker places *)
(* one phone call, posts status events without waiting for the answer,      *)
(* posts one result and waits for the answer, and exits.  A request may be  *)
(* lost, and nothing sends it again.  When a worker dies, the adapter posts *)
(* a failure in its place.                                                  *)
(***************************************************************************)
EXTENDS CallTables

CONSTANTS
  Reports,       \* the results a worker may post
  EventPhases,   \* the status events that are modelled: a subset of {"live", "ended"}
  MaxInFlight,   \* bound: results on their way or being handled at once
  Lossy,         \* whether a request may be lost
  WorkersDie     \* whether a worker may die before it has finished

ASSUME VoiceAssumption ==
  /\ Reports \subseteq Report
  /\ EventPhases \subseteq {"live", "ended"}
  /\ MaxInFlight \in Nat \ {0}
  /\ Lossy \in BOOLEAN
  /\ WorkersDie \in BOOLEAN

VARIABLES
  child,      \* the adapter's handle: the task of the worker, or NoTask
  live,       \* the tasks whose worker process is running
  reported,   \* the tasks of `live` whose worker has posted its result
  events,     \* status events on their way to the backend
  results,    \* results on their way to the backend
  resolved    \* results whose call has been found and not yet been updated

voiceVars == <<child, live, reported, events, results, resolved>>

Tasks == Orders \X Attempts \X Nat
NoTask == <<0, 0, 0>>

VoiceTypeOK ==
  /\ child \in Tasks \cup {NoTask}
  /\ live \subseteq Tasks
  /\ reported \subseteq live
  /\ events \subseteq Tasks \X EventPhases
  /\ results \subseteq Tasks \X (Reports \cup {WorkerFailure})
  /\ resolved \subseteq Tasks \X (Reports \cup {WorkerFailure})

VoiceInit ==
  /\ child = NoTask
  /\ live = {} /\ reported = {}
  /\ events = {} /\ results = {} /\ resolved = {}

(* fork(agent.js): nothing here looks at the worker that may still be running. *)
Fork(t) ==
  /\ live' = live \cup {t}
  /\ child' = t
  /\ UNCHANGED <<reported, events, results, resolved>>

(* The worker's process is gone and the adapter's exit handler has run. *)
Gone(t) ==
  /\ live' = live \ {t}
  /\ reported' = reported \ {t}
  /\ child' = IF child = t THEN NoTask ELSE child

WorkerStatus(t) ==
  /\ t \in live \ reported
  /\ "live" \in EventPhases
  /\ events' = events \cup {<<t, "live">>}
  /\ UNCHANGED <<child, live, reported, results, resolved>>

RoomInFlight == Cardinality(results) + Cardinality(resolved) < MaxInFlight

WorkerReport(t, report) ==
  /\ t \in live \ reported
  /\ RoomInFlight
  /\ reported' = reported \cup {t}
  /\ results' = results \cup {<<t, report>>}
  /\ UNCHANGED <<child, live, events, resolved>>

Unanswered(t) == \E m \in results \cup resolved : m[1] = t

(* The result was answered, or its request failed: the last status and the exit. *)
WorkerExit(t) ==
  /\ t \in reported
  /\ ~Unanswered(t)
  /\ Gone(t)
  /\ events' = events \cup ({t} \X ({"ended"} \cap EventPhases))
  /\ UNCHANGED <<results, resolved>>

(* An exit with a code other than 0: the adapter posts the failure. *)
WorkerDeath(t) ==
  /\ WorkersDie
  /\ t \in live
  /\ RoomInFlight
  /\ Gone(t)
  /\ results' = results \cup {<<t, WorkerFailure>>}
  /\ UNCHANGED <<events, resolved>>

LoseResult(m) ==
  /\ Lossy
  /\ m \in results
  /\ results' = results \ {m}
  /\ UNCHANGED <<child, live, reported, events, resolved>>

LoseEvent(m) ==
  /\ Lossy
  /\ m \in events
  /\ events' = events \ {m}
  /\ UNCHANGED <<child, live, reported, results, resolved>>
=============================================================================
