--------------------------- MODULE TranscribePage ---------------------------
(***************************************************************************)
(* TranscribePlaygroundPage: audio from a file or the microphone, split    *)
(* into segments by voice activity when it is long, each segment           *)
(* transcribed and, if asked for, cleaned up by a generator.               *)
(*                                                                         *)
(* A run goes through fetches it can abort (phase "sent") and calls of the *)
(* Termite client it cannot (phase "held").                                *)
(***************************************************************************)
EXTENDS Playground

CONSTANT MaxSegments   \* bound on the segments of a recording

\* file: the audio that would be sent (0 when there is none). asked: calls of
\* getUserMedia that are pending; live: open microphone streams; stream: the
\* one the refs hold; reading: a file that is being read; encoding: a recording
\* that is being encoded; overlapped: a microphone was asked for while another
\* request was pending or a stream was open.
TranscribeDefaults ==
    [model |-> "", mode |-> "mic", vad |-> FALSE, cleanup |-> FALSE, lang |-> "",
     threshold |-> 3, file |-> 0, long |-> FALSE, nextFile |-> 1,
     recording |-> FALSE, asked |-> 0, live |-> {}, stream |-> 0, nextStream |-> 1,
     reading |-> {}, encoding |-> {}, captured |-> FALSE, copied |-> FALSE,
     overlapped |-> FALSE]

\* One list stands for those of transcribers, chunkers and generators.
TranscribeModels(ms) ==
    /\ page = "transcribe"
    /\ ModelsArrive(ms, IF ms = <<>> THEN form ELSE [form EXCEPT !.model = Head(ms)])

TranscribeSetModel(m) ==
    /\ User("transcribe") /\ ModelEnabled /\ m \in ToSet(models.list)
    /\ OnlyForm([form EXCEPT !.model = m])

TranscribeSetMode(m) == User("transcribe") /\ OnlyForm([form EXCEPT !.mode = m])
TranscribeSetLanguage(t) == User("transcribe") /\ OnlyForm([form EXCEPT !.lang = t])
TranscribeToggle(f) == User("transcribe") /\ OnlyForm([form EXCEPT ![f] = ~@])

\* The inputs of the VAD options; a threshold outside 0..1 is not taken.
TranscribeSetVad(v) ==
    /\ User("transcribe") /\ form.vad /\ v \in 0 .. 10
    /\ OnlyForm([form EXCEPT !.threshold = v])

-----------------------------------------------------------------------------
(* Audio *)

\* processAudioFile: a file that is no audio is refused; others are read.
ProcessAudioFile ==
    /\ User("transcribe") /\ form.mode = "file"
    /\ \/ Refuse
       \/ OnlyForm([form EXCEPT !.reading = @ \cup {form.nextFile}, !.nextFile = @ + 1])

AudioFileRead(id) ==
    /\ page = "transcribe" /\ id \in form.reading
    /\ SetForm([form EXCEPT !.file = id, !.long = FALSE, !.reading = @ \ {id}])
    /\ UNCHANGED <<page, view, models, reqs, steps>>

\* onLoadedMetadata of the player that is shown for the audio.
MetadataLoaded ==
    /\ page = "transcribe" /\ form.file # 0 /\ ~form.recording /\ ~form.long
    /\ SetForm([form EXCEPT !.long = TRUE])
    /\ UNCHANGED <<page, view, models, reqs, steps>>

RemoveAudio ==
    /\ User("transcribe") /\ form.file # 0 /\ ~form.recording
    /\ OnlyForm([form EXCEPT !.file = 0, !.long = FALSE])

\* startRecording up to its await: the button stays while the user is asked.
StartRecording ==
    /\ User("transcribe") /\ form.mode = "mic" /\ ~form.recording
    /\ OnlyForm([form EXCEPT !.asked = @ + 1,
                    !.overlapped = @ \/ form.asked > 0 \/ form.live # {}])

\* getUserMedia answers: the refs take the new stream, whatever they held.
MicrophoneGranted ==
    /\ page = "transcribe" /\ form.asked > 0
    /\ SetForm([form EXCEPT !.asked = @ - 1, !.live = @ \cup {form.nextStream},
                    !.stream = form.nextStream, !.nextStream = @ + 1,
                    !.recording = TRUE, !.captured = FALSE, !.file = 0, !.long = FALSE])
    /\ view' = [view EXCEPT !.data = <<>>, !.result = 0, !.error = FALSE]
    /\ UNCHANGED <<page, models, reqs, steps>>

MicrophoneDenied ==
    /\ page = "transcribe" /\ form.asked > 0
    /\ SetForm([form EXCEPT !.asked = @ - 1])
    /\ view' = [view EXCEPT !.error = TRUE]
    /\ UNCHANGED <<page, models, reqs, steps>>

\* onaudioprocess
AudioCaptured ==
    /\ page = "transcribe" /\ form.live # {} /\ ~form.captured
    /\ SetForm([form EXCEPT !.captured = TRUE])
    /\ UNCHANGED <<page, view, models, reqs, steps>>

\* cleanupRecording: stops the stream the refs hold.
CleanupRecording(f) == [f EXCEPT !.live = @ \ {f.stream}, !.stream = 0]

\* stopRecording up to its await of the downsampling.
StopRecording ==
    /\ User("transcribe") /\ form.mode = "mic" /\ form.recording
    /\ LET stopped == [CleanupRecording(form) EXCEPT !.recording = FALSE, !.captured = FALSE]
       IN IF form.captured
          THEN OnlyForm([stopped EXCEPT !.encoding = @ \cup {form.nextFile}, !.nextFile = @ + 1])
          ELSE SetForm(stopped) /\ view' = [view EXCEPT !.error = TRUE]
               /\ UNCHANGED <<models, reqs>>

\* The WAV is ready: it becomes the audio, also after a reset.
RecordingEncoded(id) ==
    /\ page = "transcribe" /\ id \in form.encoding
    /\ \E long \in BOOLEAN :
          SetForm([form EXCEPT !.file = id, !.long = long, !.encoding = @ \ {id}])
    /\ UNCHANGED <<page, view, models, reqs, steps>>

-----------------------------------------------------------------------------
(* The pipeline. view.data holds the segments: the run and status of each. *)

Segment(k, status) == [of |-> k, status |-> status, cleaned |-> FALSE]
Pending(k, n) == [i \in 1 .. n |-> Segment(k, "pending")]

\* updateSegment goes by index: a list that was emptied is not changed.
UpdateSegment(data, i, k, status) ==
    IF i \in DOMAIN data
    THEN [data EXCEPT ![i] = [Segment(k, status) EXCEPT !.cleaned = data[i].cleaned]]
    ELSE data

TranscribeButton == ~view.loading /\ form.file # 0 /\ form.model # ""

\* stage: the call a run waits for; at: its segment; n: how many there are.
TranscribeRun(f, stage, phase) ==
    [of |-> f, phase |-> phase, aborted |-> FALSE, retried |-> FALSE,
     stage |-> stage, at |-> 1, n |-> 1]

\* Only long audio goes through the VAD.
HandleTranscribe ==
    /\ User("transcribe") /\ TranscribeButton
    /\ Len(reqs) < MaxRuns
    /\ LET k == Len(reqs) + 1
       IN IF form.vad /\ form.long
          THEN /\ reqs' = Append(AbortAll(reqs), TranscribeRun(form, "chunk", "sent"))
               /\ view' = [NoView EXCEPT !.loading = ~Interrupts]
          ELSE /\ reqs' = Append(AbortAll(reqs), TranscribeRun(form, "transcribe", "held"))
               /\ view' = [NoView EXCEPT !.loading = ~Interrupts, !.result = k,
                               !.data = UpdateSegment(Pending(k, 1), 1, k, "transcribing")]
    /\ UNCHANGED <<form, saved, models>>

\* The VAD answers: no speech ends the run with an error.
Chunked(k) ==
    /\ page = "transcribe" /\ reqs[k].stage = "chunk" /\ reqs[k].phase = "sent"
    /\ \/ Settles(k, Failed)
       \/ \E n \in 1 .. MaxSegments :
             /\ reqs' = [reqs EXCEPT ![k].stage = "transcribe", ![k].phase = "held", ![k].n = n,
                                     ![k].retried = FALSE]
             /\ view' = [view EXCEPT !.result = k,
                             !.data = UpdateSegment(Pending(k, n), 1, k, "transcribing")]
             /\ UNCHANGED <<page, models, steps>>
    /\ UNCHANGED <<form, saved>>

\* The segment's last update, then the loop: the next one, or the end.
NextSegment(k, data) ==
    IF reqs[k].at < reqs[k].n
    THEN /\ reqs' = [reqs EXCEPT ![k].at = @ + 1, ![k].stage = "transcribe",
                                 ![k].phase = "held", ![k].retried = FALSE]
         /\ view' = [view EXCEPT !.data = UpdateSegment(data, reqs[k].at + 1, k, "transcribing")]
    ELSE /\ reqs' = [reqs EXCEPT ![k].phase = "done"]
         /\ view' = [view EXCEPT !.data = data, !.loading = FALSE]

\* Mutant of Transcribed: the signal is not checked after the transcription.
TranscribedUnchecked(k) ==
    /\ page = "transcribe" /\ reqs[k].stage = "transcribe" /\ reqs[k].phase = "held"
    /\ NextSegment(k, UpdateSegment(view.data, reqs[k].at, k, "done"))
    /\ UNCHANGED <<page, form, models, saved, steps>>

\* A transcription answers; an aborted run only then stops, and its finally
\* clears isLoading. A failure shows its error, also of an aborted run.
Transcribed(k) ==
    /\ page = "transcribe" /\ reqs[k].stage = "transcribe" /\ reqs[k].phase = "held"
    /\ \/ /\ reqs' = [reqs EXCEPT ![k].phase = "done"]
          /\ view' = [view EXCEPT !.loading = FALSE, !.error = TRUE]
       \/ /\ reqs[k].aborted
          /\ reqs' = [reqs EXCEPT ![k].phase = "done"]
          /\ view' = [view EXCEPT !.loading = FALSE]
       \/ /\ ~reqs[k].aborted /\ reqs[k].of.cleanup
          /\ reqs' = [reqs EXCEPT ![k].stage = "clean", ![k].phase = "sent"]
          /\ view' = [view EXCEPT !.data = UpdateSegment(@, reqs[k].at, k, "cleaning")]
       \/ /\ ~reqs[k].aborted   \* no cleanup, or no speech
          /\ NextSegment(k, UpdateSegment(view.data, reqs[k].at, k, "done"))
    /\ UNCHANGED <<page, form, models, saved, steps>>

\* A cleanup that fails keeps the raw text.
Cleaned(k) ==
    /\ page = "transcribe" /\ reqs[k].stage = "clean" /\ reqs[k].phase = "sent"
    /\ \E ok \in BOOLEAN :
          LET data == UpdateSegment(view.data, reqs[k].at, k, "done")
          IN NextSegment(k, IF ok /\ reqs[k].at \in DOMAIN data
                            THEN [data EXCEPT ![reqs[k].at].cleaned = TRUE] ELSE data)
    /\ UNCHANGED <<page, form, models, saved, steps>>

\* The reset stops the recording that has started, not the one being asked for.
TranscribeReset ==
    /\ User("transcribe")
    /\ LET f == IF form.recording THEN [CleanupRecording(form) EXCEPT !.recording = FALSE]
                ELSE form
       IN SetForm([f EXCEPT !.file = 0, !.long = FALSE, !.lang = "", !.copied = FALSE,
                            !.threshold = 3])
    /\ view' = NoView
    /\ reqs' = AbortAll(reqs)
    /\ UNCHANGED models

-----------------------------------------------------------------------------
(* Output *)

DoneSegments == SelectSeq(view.data, LAMBDA s : s.status = "done")

TranscribeCopy ==
    /\ User("transcribe") /\ DoneSegments # <<>>
    /\ OnlyForm([form EXCEPT !.copied = TRUE])

TranscribeCopyTimer ==
    /\ page = "transcribe" /\ form.copied
    /\ SetForm([form EXCEPT !.copied = FALSE])
    /\ UNCHANGED <<page, view, models, reqs, steps>>

TranscribePanels ==
    (IF view.data = <<>> THEN {"hint"} ELSE {"segments"})
        \cup (IF DoneSegments # <<>> THEN {"stats", "copy all"} ELSE {})
        \cup (IF form.file # 0 /\ ~form.recording THEN {"player"} ELSE {})
        \cup (IF form.vad THEN {"vad options"} ELSE {})
        \cup (IF view.error THEN {"error"} ELSE {})
        \cup (IF models.loaded /\ models.list = <<>> THEN {"no models"} ELSE {})

TranscribeNext ==
    \/ \E ms \in ModelLists : TranscribeModels(ms)
    \/ \E m \in AllModels : TranscribeSetModel(m)
    \/ \E m \in {"mic", "file"} : TranscribeSetMode(m)
    \/ \E t \in Inputs : TranscribeSetLanguage(t)
    \/ \E f \in {"vad", "cleanup"} : page = "transcribe" /\ TranscribeToggle(f)
    \/ page = "transcribe" /\ \E v \in {0, 11} : TranscribeSetVad(v)
    \/ ProcessAudioFile \/ RemoveAudio \/ MetadataLoaded
    \/ StartRecording \/ MicrophoneGranted \/ MicrophoneDenied \/ AudioCaptured
    \/ StopRecording \/ HandleTranscribe \/ TranscribeReset
    \/ TranscribeCopy \/ TranscribeCopyTimer
    \/ page = "transcribe" /\ \E id \in form.reading : AudioFileRead(id)
    \/ page = "transcribe" /\ \E id \in form.encoding : RecordingEncoded(id)
    \/ page = "transcribe" /\ \E k \in DOMAIN reqs : Chunked(k) \/ Transcribed(k) \/ Cleaned(k)

=============================================================================
