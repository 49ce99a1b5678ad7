---------------------------- MODULE CallArtifacts ----------------------------
(***************************************************************************)
(* What a call leaves behind: CallArtifactService with the voice worker     *)
(* that feeds it.  The worker posts each line of the conversation without   *)
(* waiting for the one before it, so the requests of one call run side by   *)
(* side; each stores its line and rewrites the whole readable transcript.   *)
(* The recordings are written to files by AudioArtifactStore and sent when  *)
(* the call is over; the backend keeps them in the object store.            *)
(***************************************************************************)
EXTENDS Integers, FiniteSets

CONSTANTS
    Tasks,      \* task ids, in the order in which the call is dispatched
    MaxLine,    \* bound: sequence numbers of transcript lines
    MaxPosts,   \* bound: requests of one kind under way at the same time
    StaffLines  \* bound: lines that come without a sequence number

ASSUME ArtifactsAssumption ==
    /\ Tasks \in SUBSET (Nat \ {0}) /\ MaxLine \in Nat /\ MaxPosts \in Nat
    /\ StaffLines \in Nat

VARIABLES
    task,        \* the call's taskId; NoTaskYet, or Deleted once the row is gone
    entries,     \* call_transcript_entries: the line at each sequence number
    transcript,  \* calls.transcript: the entries as some request last read them
    posts,       \* the transcript requests under way
    overlapped,  \* the lines whose request was not alone (history)
    recording,   \* call_recordings, by speaker
    objects,     \* the recordings in the object store
    uploads,     \* the recording requests under way
    worker       \* the process on the call: its task, lines and audio files

artifactVars == <<task, entries, transcript, posts, overlapped, recording, objects,
                  uploads, worker>>
tranVars == <<entries, transcript, posts, overlapped>>
recVars == <<recording, objects, uploads>>

NoTaskYet == 0
Deleted == -1
Speakers == {"agent", "customer"}
Sequences == 1 .. MaxLine
NoLine == <<>>
\* A line is known by who sent it (a task, or 0 for the staff) and its sequence number.
Lines == (Tasks \cup {0}) \X Sequences
Transcripts == [Sequences -> Lines \cup {NoLine}]
\* read: the entries as the request found them.
LinePosts == [task : Tasks \cup {NoTaskYet}, line : Lines, at : {"sent", "found", "saved"},
          read : {<<>>}]
             \cup [task : Tasks, line : Lines, at : {"read"}, read : Transcripts]
Uploads == [task : Tasks, speaker : Speakers, at : {"sent", "found", "stored"}]
RecordingRow == [uploaded : BOOLEAN]
NoRow == <<>>
Worker == [task : Tasks \cup {NoTaskYet}, said : 0 .. MaxLine, audio : SUBSET Speakers,
           phase : {"calling", "saving", "gone"}]

ArtifactsTypeOK ==
    /\ task \in Tasks \cup {NoTaskYet, Deleted}
    /\ entries \in Transcripts /\ transcript \in Transcripts
    /\ posts \subseteq LinePosts /\ overlapped \subseteq Lines
    /\ recording \in [Speakers -> RecordingRow \cup {NoRow}] /\ objects \subseteq Speakers
    /\ uploads \subseteq Uploads
    /\ worker \in Worker

ArtifactsInit ==
    /\ task = NoTaskYet
    /\ entries = [n \in Sequences |-> NoLine] /\ transcript = [n \in Sequences |-> NoLine]
    /\ posts = {} /\ overlapped = {}
    /\ recording = [s \in Speakers |-> NoRow] /\ objects = {} /\ uploads = {}
    /\ worker = [task |-> NoTaskYet, said |-> 0, audio |-> {}, phase |-> "gone"]

---------------------------------------------------------------------------
(* The worker *)

\* The dispatcher gives the call a new task, whose worker counts its lines from one.
Dispatch ==
    /\ worker.phase = "gone" /\ task # Deleted
    /\ \E t \in Tasks :
        /\ t = task + 1 /\ task' = t
        /\ worker' = [task |-> t, said |-> 0, audio |-> {}, phase |-> "calling"]
    /\ UNCHANGED <<tranVars, recVars>>

Sent(t, line) ==
    /\ Cardinality(posts) < MaxPosts
    /\ posts' = posts \cup {[task |-> t, line |-> line, at |-> "sent", read |-> <<>>]}
    /\ overlapped' = overlapped \cup
         (IF posts = {} THEN {} ELSE {line} \cup {p.line : p \in posts})

\* handleGeminiEvent numbers a line and sends it; nothing awaits the answer.
Say ==
    /\ worker.phase = "calling" /\ worker.said < MaxLine
    /\ worker' = [worker EXCEPT !.said = @ + 1]
    /\ Sent(worker.task, <<worker.task, worker.said + 1>>)
    /\ UNCHANGED <<task, entries, transcript, recVars>>

\* appendPcm opens the speaker's file with the first samples.
RecordAudio(s) ==
    /\ worker.phase = "calling" /\ s \notin worker.audio
    /\ worker' = [worker EXCEPT !.audio = @ \cup {s}]
    /\ UNCHANGED <<task, tranVars, recVars>>

CloseFiles ==
    /\ worker.phase = "calling"
    /\ worker' = [worker EXCEPT !.phase = "saving"]
    /\ UNCHANGED <<task, tranVars, recVars>>

\* finalizeCall describes the file of a speaker; its path is not among the fields.
Asset(s) == [speaker |-> s, contentType |-> "audio/wav"]

HasFile(asset) == "filePath" \in DOMAIN asset

\* uploadRecording returns at once for an asset without a file.
SendRecordings ==
    /\ worker.phase = "saving"
    /\ worker' = [worker EXCEPT !.phase = "gone", !.audio = {}]
    /\ uploads' = uploads \cup {[task |-> worker.task, speaker |-> s, at |-> "sent"] :
                                  s \in {x \in worker.audio : HasFile(Asset(x))}}
    /\ UNCHANGED <<task, tranVars, recording, objects>>

---------------------------------------------------------------------------
(* Transcript lines *)

Sequence(p) == p.line[2]
Stored == {n \in Sequences : entries[n] # NoLine}

\* Without a sequence the line goes after those that are counted; a call that has no
\* task yet is looked up by a made-up one.
StaffLine ==
    /\ task # Deleted
    /\ Cardinality(Stored) < MaxLine
    /\ Cardinality({n \in Sequences : entries[n] # NoLine /\ entries[n][1] = 0}) < StaffLines
    /\ Sent(task, <<0, Cardinality(Stored) + 1>>)
    /\ UNCHANGED <<task, entries, transcript, recVars, worker>>

Answered(p) == posts' = posts \ {p}
Move(p, q) == posts' = (posts \ {p}) \cup {q}

\* Calls are looked up by their task: an earlier task's, or a made-up one, is a 404.
FindsCall(t) == t = task /\ task \in Tasks

LookUpLine(p) ==
    /\ p.at = "sent"
    /\ IF FindsCall(p.task)
         THEN Move(p, [p EXCEPT !.at = "found"]) ELSE Answered(p)
    /\ UNCHANGED <<task, entries, transcript, overlapped, recVars, worker>>

\* Upserted by sequence number.
SaveLine(p) ==
    /\ p.at = "found"
    /\ IF task = Deleted
         THEN Answered(p) /\ UNCHANGED entries
         ELSE /\ entries' = [entries EXCEPT ![Sequence(p)] = p.line]
              /\ Move(p, [p EXCEPT !.at = "saved"])
    /\ UNCHANGED <<task, transcript, overlapped, recVars, worker>>

ReadLines(p) ==
    /\ p.at = "saved"
    /\ Move(p, [p EXCEPT !.at = "read", !.read = entries])
    /\ UNCHANGED <<task, entries, transcript, overlapped, recVars, worker>>

\* Mutated form: the row takes what was there before the line.
WholeTranscriptLate(p) == [p.read EXCEPT ![Sequence(p)] = NoLine]

\* The row takes what this request read, whatever was stored since.
WholeTranscript(p) == p.read

WriteTranscript(p) ==
    /\ p.at = "read" /\ Answered(p)
    /\ transcript' = IF task = Deleted THEN transcript ELSE WholeTranscript(p)
    /\ UNCHANGED <<task, entries, overlapped, recVars, worker>>

---------------------------------------------------------------------------
(* Recordings *)

\* Another agent that has the secret posts a file for a task.
PostRecording(t, s) ==
    /\ Cardinality(uploads) < MaxPosts
    /\ uploads' = uploads \cup {[task |-> t, speaker |-> s, at |-> "sent"]}
    /\ UNCHANGED <<task, tranVars, recording, objects, worker>>

Ended(u) == uploads' = uploads \ {u}
Stage(u, at) == uploads' = (uploads \ {u}) \cup {[u EXCEPT !.at = at]}

LookUpRecording(u) ==
    /\ u.at = "sent"
    /\ IF FindsCall(u.task) THEN Stage(u, "found") ELSE Ended(u)
    /\ UNCHANGED <<task, tranVars, recording, objects, worker>>

PutRecording(u) ==
    /\ u.at = "found"
    /\ objects' = objects \cup {u.speaker} /\ Stage(u, "stored")
    /\ UNCHANGED <<task, tranVars, recording, worker>>

\* Mutated form: the failure is logged and the row is written all the same.
AfterFailedPutGoesOn(u) == Stage(u, "stored")

\* storage.put throws: the request ends, and there is no row for a file that is not there.
AfterFailedPut(u) == Ended(u)

PutFails(u) ==
    /\ u.at = "found" /\ AfterFailedPut(u)
    /\ UNCHANGED <<task, tranVars, recording, objects, worker>>

UpsertRecording(u) ==
    /\ u.at = "stored" /\ Ended(u)
    /\ recording' = IF task = Deleted THEN recording
                    ELSE [recording EXCEPT ![u.speaker] = [uploaded |-> TRUE]]
    /\ UNCHANGED <<task, tranVars, objects, worker>>

\* saveAsset records a file's key and size without the file.
SaveAsset(s) ==
    /\ task # Deleted
    /\ recording' = [recording EXCEPT ![s] = [uploaded |-> @ # NoRow /\ @.uploaded]]
    /\ UNCHANGED <<task, tranVars, objects, uploads, worker>>

---------------------------------------------------------------------------
\* Deleting the order takes the call's rows along; the stored files stay.
DeleteCall ==
    /\ task # Deleted
    /\ task' = Deleted
    /\ entries' = [n \in Sequences |-> NoLine] /\ transcript' = [n \in Sequences |-> NoLine]
    /\ recording' = [s \in Speakers |-> NoRow]
    /\ UNCHANGED <<posts, overlapped, objects, uploads, worker>>

LineStep(p) == LookUpLine(p) \/ SaveLine(p) \/ ReadLines(p) \/ WriteTranscript(p)
WorkerComesAndGoes == Dispatch \/ CloseFiles \/ SendRecordings

\* The lines and the files of a call touch different rows: they are explored one by one.
TranscriptStep ==
    \/ WorkerComesAndGoes \/ DeleteCall
    \/ Say \/ StaffLine
    \/ \E p \in posts : LineStep(p)

UploadStep(u) == LookUpRecording(u) \/ PutRecording(u) \/ UpsertRecording(u)

RecordingStep ==
    \/ WorkerComesAndGoes \/ DeleteCall
    \/ \E s \in Speakers : RecordAudio(s) \/ SaveAsset(s)
    \/ \E t \in Tasks, s \in Speakers : PostRecording(t, s)
    \/ \E u \in uploads : UploadStep(u) \/ PutFails(u)

\* Both at once: any number of requests of either kind.
AllArtifactsSpec == ArtifactsInit /\ [][TranscriptStep \/ RecordingStep]_artifactVars

\* A worker alone with a backend that does not fail.
WorkerAlone ==
    \/ WorkerComesAndGoes \/ Say
    \/ \E s \in Speakers : RecordAudio(s)
    \/ \E p \in posts : LineStep(p)
    \/ \E u \in uploads : UploadStep(u)

ArtifactsSpec ==
    /\ ArtifactsInit /\ [][WorkerAlone]_artifactVars
    /\ WF_artifactVars(CloseFiles \/ SendRecordings)
    /\ WF_artifactVars(\E p \in posts : LineStep(p))
    /\ WF_artifactVars(\E u \in uploads : UploadStep(u))

---------------------------------------------------------------------------
(***************************************************************************)
(* Once no request is under way, the readable transcript lacks a stored     *)
(* line only if the request of that line met another one of the same call:  *)
(* a conversation whose lines are answered one by one is shown whole.       *)
(***************************************************************************)
TranscriptLacksOnlyOverlapped ==
    posts = {} => \A n \in Sequences : entries[n] # transcript[n] => entries[n] \in overlapped

(***************************************************************************)
(* A recording that an upload listed can be played: its file is in the      *)
(* object store, whichever step of the upload failed.                       *)
(***************************************************************************)
UploadedIsStored ==
    \A s \in Speakers : recording[s] # NoRow => (recording[s].uploaded => s \in objects)

-----------------------------------------------------------------------------
(* What README.md says of the callbacks, and the worker does not do. *)

(***************************************************************************)
(* Both recordings appear on the call: when the worker has recorded the     *)
(* agent and the customer, has posted a line of what they said and has      *)
(* closed its files, each of the two is listed in the end.                  *)
(***************************************************************************)
RecordingsAppear ==
    worker.phase = "saving" /\ worker.audio = Speakers /\ worker.said > 0 ~>
        \A s \in Speakers : recording[s] # NoRow
=============================================================================
