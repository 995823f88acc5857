------------------------------ MODULE VoiceTurns ------------------------------
(***************************************************************************)
(* The local voice session: a main thread that listens, waits for an      *)
(* answer while it keeps listening, and speaks; a worker thread that       *)
(* computes the answer and may cancel the session; the realtime runtime    *)
(* (VAD, recogniser, synthesiser, bounded buffers) both act on; a speaker  *)
(* that plays out what it was sent in its own time; and a microphone that  *)
(* keeps recording, also what the speaker plays.                           *)
(***************************************************************************)
EXTENDS Integers, Sequences, FiniteSets

CONSTANTS
  Controllers,   \* subset of BOOLEAN: whether an intelligence controller answers, on a worker thread
  InputLimit,    \* capacity of the input buffer, in frames
  PrerollLimit,  \* frames kept from before speech is detected
  SpokenLimit,   \* frames an answer may take
  DeviceLimit,   \* frames the speaker's buffer holds
  MicLimit,      \* bound on the frames waiting in the microphone
  MaxFrames      \* bound on the frames recorded

VARIABLES
  voice,   \* RealtimeVoiceRuntime, its VoiceSession and its adapters
  mic,     \* recorded frames not yet read
  frames,  \* how many were recorded
  main,    \* the main thread
  worker   \* the thread of process_with_live_input

voiceVars == <<voice, mic, frames, main, worker>>

Silence(f) == ~f.speech

\* heard: what the recogniser was given since its last reset, the first replayed frames of
\* it as the pre-roll; tts: frames still to be pulled; speaker: frames the device was sent
\* and has neither played nor flushed.
VoiceInit ==
  /\ voice = [state |-> "idle", session |-> "active", intent |-> FALSE, input |-> 0, heard |-> <<>>,
              replayed |-> 0, tts |-> 0, output |-> 0, exhausted |-> FALSE, speaker |-> 0]
  /\ mic = <<>> /\ frames = 0
  /\ main = [pc |-> "opening", live |-> FALSE, preroll |-> <<>>, seen |-> FALSE, ended |-> FALSE, stale |-> FALSE]
  /\ worker = [pc |-> "none", kind |-> "none", result |-> "none"]

-----------------------------------------------------------------------------
\* RealtimeVoiceRuntime, each operation as what it leaves behind.
Terminal(v) == v.state = "cancelled"

\* The recogniser's endpoint flag is that of the last frame it was given.
EndpointDetected(v) == v.heard # <<>> /\ v.heard[Len(v.heard)].end

\* Mutant: only the input is flushed.
FlushedInputOnly(v) == [v EXCEPT !.heard = <<>>, !.replayed = 0, !.input = 0]

\* What every interruption and cancellation throws away.
Flushed(v) ==
  [v EXCEPT !.tts = 0, !.heard = <<>>, !.replayed = 0, !.input = 0, !.output = 0, !.speaker = 0, !.exhausted = FALSE]

StartListening(v) ==
  [v EXCEPT !.session = IF v.state = "interrupted" /\ @ = "interrupted" THEN "active" ELSE @,
            !.heard = <<>>, !.replayed = 0, !.input = 0, !.state = "listening"]

\* A cancelled session is left alone, as it was seen at the start of the interruption.
Interrupted(v, seenCancelled) ==
  [Flushed(v) EXCEPT !.session = IF seenCancelled THEN @ ELSE "interrupted", !.state = "interrupted"]

CancelVoice(v) == [Flushed(v) EXCEPT !.session = "cancelled", !.intent = FALSE, !.state = "cancelled"]

InputFull(v) == v.input = InputLimit

Buffered(v, f) == [v EXCEPT !.input = @ + 1, !.heard = Append(@, f)]

\* The pre-roll and the frame of speech go to the recogniser one after the other; where it
\* sees an endpoint on the way, the next frame overwrites its flag.
Replayed(v, replay) == [v EXCEPT !.input = Len(replay), !.heard = replay, !.replayed = Len(replay)]

FinishUtterance(v, text) ==
  [v EXCEPT !.input = 0, !.session = IF @ = "interrupted" THEN "active" ELSE @,
            !.state = IF text THEN "processing" ELSE "idle"]

BeginSpeaking(v, n) == [v EXCEPT !.output = 0, !.tts = n, !.exhausted = FALSE, !.state = "speaking"]

Settled(v) ==
  IF v.state = "speaking" /\ v.exhausted /\ v.output = 0
  THEN [v EXCEPT !.tts = 0, !.exhausted = FALSE, !.state = "idle"] ELSE v

\* pump_synthesis(max_frames=1) into an empty buffer, and send_next_output.
PumpSynthesis(v) ==
  IF v.tts = 0 THEN Settled([v EXCEPT !.exhausted = TRUE])
  ELSE [v EXCEPT !.tts = @ - 1, !.output = @ + 1]

SendNextOutput(v) ==
  IF v.output = 0 THEN Settled(v)
  ELSE Settled([v EXCEPT !.output = @ - 1, !.speaker = @ + 1])

-----------------------------------------------------------------------------
\* When a frame is recorded: while an answer is synthesized and sent, while the speaker
\* still plays one that was sent, or in a quiet room.
Moment ==
  IF main.pc \in {"begin", "speak"} THEN "answer" ELSE IF voice.speaker > 0 THEN "tail" ELSE "quiet"

\* The microphone records one more frame.
Record ==
  /\ main.pc \notin {"opening", "closed"} /\ frames < MaxFrames /\ Len(mic) < MicLimit
  /\ \E s, e \in BOOLEAN : mic' = Append(mic, [speech |-> s, end |-> e, moment |-> Moment])
  /\ frames' = frames + 1 /\ UNCHANGED <<voice, main, worker>>

\* The speaker plays a frame of its buffer, whatever the threads are doing.
Play ==
  /\ voice.speaker > 0 /\ voice' = [voice EXCEPT !.speaker = @ - 1]
  /\ UNCHANGED <<mic, frames, main, worker>>

\* run_local_voice_session opens the devices, with or without a controller.
OpenSession ==
  /\ main.pc = "opening"
  /\ \E b \in Controllers : main' = [main EXCEPT !.pc = "capture", !.live = b]
  /\ UNCHANGED <<voice, mic, frames, worker>>

MainTo(l) == main' = [main EXCEPT !.pc = l]

\* Leaving the session closes the input and the transport.
Close(v) == MainTo("closed") /\ voice' = [v EXCEPT !.speaker = 0] /\ mic' = <<>> /\ UNCHANGED <<frames, worker>>

\* capture_utterance returned an utterance: it is routed here, or on a worker.
Captured(v) ==
  \E text \in BOOLEAN :
    /\ voice' = FinishUtterance(v, text)
    /\ IF text
       THEN /\ main' = [main EXCEPT !.pc = "process", !.preroll = <<>>, !.ended = FALSE, !.stale = FALSE]
            /\ worker' = [pc |-> "compile", kind |-> "none", result |-> "none"]
       ELSE main' = [main EXCEPT !.preroll = <<>>] /\ UNCHANGED worker

\* After a frame was taken: an endpoint ends the utterance.
AfterFrame(v) ==
  IF EndpointDetected(v) /\ v.state \in {"listening", "interrupted"}
  THEN Captured(v)
  ELSE voice' = v /\ main' = [main EXCEPT !.preroll = <<>>] /\ UNCHANGED worker

\* An endpoint that a barge-in left pending is finalized before anything is read.
FinishPending ==
  /\ main.pc = "capture" /\ EndpointDetected(voice) /\ voice.state \in {"listening", "interrupted"}
  /\ Captured(voice) /\ UNCHANGED <<mic, frames>>

\* While idle, frames are kept until one is speech; then they are replayed with it.
CaptureIdle ==
  /\ main.pc = "capture" /\ mic # <<>> /\ voice.state = "idle"
  /\ LET f == Head(mic)  replay == Append(main.preroll, f)
         v == StartListening(voice) IN
     \/ /\ Silence(f)
        /\ main' = [main EXCEPT !.preroll = SubSeq(replay, IF Len(replay) > PrerollLimit THEN 2 ELSE 1, Len(replay))]
        /\ mic' = Tail(mic) /\ UNCHANGED <<voice, frames, worker>>
     \/ /\ f.speech /\ Len(replay) <= InputLimit
        /\ AfterFrame(Replayed(v, replay))
        /\ mic' = Tail(mic) /\ UNCHANGED frames
     \/ f.speech /\ Len(replay) > InputLimit /\ Close(v)

\* Otherwise the runtime takes the frame: speech interrupts an answer that was not spoken.
CaptureFrame ==
  /\ main.pc = "capture" /\ mic # <<>> /\ voice.state # "idle"
  /\ ~(EndpointDetected(voice) /\ voice.state \in {"listening", "interrupted"})
  /\ LET f == Head(mic)
         v == IF voice.state = "processing" /\ f.speech THEN Interrupted(voice, voice.session = "cancelled") ELSE voice IN
     \/ /\ v.state = "processing"
        /\ mic' = Tail(mic) /\ UNCHANGED <<voice, frames, main, worker>>
     \/ /\ v.state # "processing" /\ ~InputFull(v)
        /\ AfterFrame(Buffered(v, f)) /\ mic' = Tail(mic) /\ UNCHANGED frames
     \/ v.state # "processing" /\ InputFull(v) /\ Close(v)

-----------------------------------------------------------------------------
\* The worker: IntelligentVoiceController.handle, and the router it calls.
WorkerTo(l) == worker' = [worker EXCEPT !.pc = l]
Returns(r) == worker' = [worker EXCEPT !.pc = "done", !.result = r]

ShouldAbort == main.live /\ voice.state \in {"interrupted", "cancelled"}

\* The safety guard decides first; what the model or, when it is unavailable or unsure,
\* the rules say is never one of the kinds that carry authority.
CompileIntent ==
  /\ worker.pc = "compile"
  /\ \E k \in {"cancel", "approve", "execute", "answer", "live", "other"} :
       /\ ~main.live => k \notin {"answer", "live"}
       /\ worker' = [worker EXCEPT !.kind = k, !.pc = "route"]
  /\ UNCHANGED <<voice, mic, frames, main>>

\* An interrupted turn is discarded; otherwise the intent is marked on the session.
RouteIntent ==
  /\ worker.pc = "route"
  /\ IF ShouldAbort THEN Returns("interrupted")
     ELSE IF voice.session = "cancelled" THEN Returns("error") ELSE WorkerTo("mark")
  /\ UNCHANGED <<voice, mic, frames, main>>

MarkIntent ==
  /\ worker.pc = "mark"
  /\ voice' = [voice EXCEPT !.intent = TRUE]
  /\ \/ worker.kind = "answer" /\ Returns("answered")
     \/ worker.kind = "live" /\ Returns("live")
     \/ worker.kind = "cancel" /\ WorkerTo("cancel")
     \/ worker.kind \in {"approve", "execute", "other"} /\ WorkerTo("plan")
  /\ UNCHANGED <<mic, frames, main>>

\* session.cancel(): the status, then the intent.
CancelSession ==
  /\ worker.pc = "cancel"
  /\ voice' = [voice EXCEPT !.session = "cancelled", !.intent = FALSE]
  /\ Returns("cancelled") /\ UNCHANGED <<mic, frames, main>>

\* Planning, continuity, governance and approval; a request that changes something is
\* ready only with a bound plan and a verified approval, and spoken approval is neither.
PlanAction ==
  /\ worker.pc = "plan"
  /\ \/ ShouldAbort /\ Returns("interrupted")
     \/ ~ShouldAbort /\ Returns("refused")
     \/ ~ShouldAbort /\ WorkerTo("ready")
     \/ worker.kind = "approve" /\ Returns("captured")
  /\ UNCHANGED <<voice, mic, frames, main>>

ActionReady ==
  /\ worker.pc = "ready"
  /\ IF ShouldAbort THEN Returns("interrupted") ELSE Returns("ready")
  /\ UNCHANGED <<voice, mic, frames, main>>

WorkerStep == CompileIntent \/ RouteIntent \/ MarkIntent \/ CancelSession \/ PlanAction \/ ActionReady

-----------------------------------------------------------------------------
\* The main thread keeps reading while the worker computes.  Frames after the endpoint
\* of a barge-in are dropped.
PumpAvailableInput ==
  /\ main.pc = "process" /\ main.live /\ mic # <<>>
  /\ LET f == Head(mic)  v == Buffered(voice, f) IN
     \/ /\ main.ended \/ (voice.state = "processing" /\ Silence(f))
        /\ UNCHANGED <<voice, main>>
     \/ /\ ~main.ended /\ voice.state = "processing" /\ f.speech
        /\ voice' = Flushed(voice)
        /\ main' = [main EXCEPT !.pc = "barge", !.seen = voice.session = "cancelled", !.preroll = <<f>>, !.stale = TRUE]
     \/ /\ ~main.ended /\ voice.state = "interrupted" /\ ~InputFull(voice)
        /\ voice' = v /\ main' = [main EXCEPT !.ended = EndpointDetected(v)]
     \/ /\ ~main.ended /\ voice.state = "interrupted" /\ InputFull(voice)
        /\ voice' = CancelVoice(voice) /\ MainTo("join")
  /\ mic' = Tail(mic) /\ UNCHANGED <<frames, worker>>

\* The rest of the interruption: the session, the state, and the frame itself.
BargeIn ==
  /\ main.pc = "barge"
  /\ LET v == Buffered(Interrupted(voice, main.seen), main.preroll[1]) IN
       voice' = v /\ main' = [main EXCEPT !.pc = "process", !.preroll = <<>>, !.ended = EndpointDetected(v)]
  /\ UNCHANGED <<mic, frames, worker>>

\* The worker is done and everything recorded was read.  Cancellation wins, an
\* interrupted answer is not spoken, and an error ends the session.
Joined ==
  /\ main.pc = "process" /\ worker.pc = "done" /\ (main.live => mic = <<>>)
  /\ \/ worker.result = "cancelled" /\ Close(CancelVoice(voice))
     \/ worker.result = "error" /\ Close(voice)
     \/ /\ worker.result \notin {"cancelled", "error"}
        /\ \E message \in BOOLEAN :
             IF voice.state = "processing" /\ message THEN MainTo("begin") ELSE MainTo("capture")
        /\ UNCHANGED <<voice, mic, frames, worker>>

\* A failed read, or a keyboard interrupt, while the worker runs: it is waited for.
ProcessFails ==
  /\ main.pc = "process" /\ main.live /\ MainTo("join")
  /\ voice' \in {voice, CancelVoice(voice)} /\ UNCHANGED <<mic, frames, worker>>

JoinThenClose == main.pc = "join" /\ worker.pc = "done" /\ Close(CancelVoice(voice))

\* Synthesis; a pump thread reads and drops the input meanwhile.
BeginAnswer ==
  /\ main.pc = "begin"
  /\ \E n \in 0 .. SpokenLimit : voice' = BeginSpeaking(voice, n)
  /\ MainTo("speak") /\ mic' = <<>> /\ UNCHANGED <<frames, worker>>

\* One round of the half-duplex loop: drain, synthesize, send, drain.  The write waits until
\* the device has room for the frame, not until it is played.
SpeakRound ==
  /\ main.pc = "speak" /\ voice.state = "speaking"
  /\ voice.tts + voice.output > 0 => voice.speaker < DeviceLimit
  /\ LET v == IF voice.output = 0 THEN PumpSynthesis(voice) ELSE voice IN
       voice' = IF v.state = "speaking" THEN SendNextOutput(v) ELSE v
  /\ mic' = <<>> /\ UNCHANGED <<frames, main, worker>>

\* Mutant: returning from playback keeps what the microphone still holds.
SpokenKeepsInput ==
  /\ main.pc = "speak" /\ voice.state # "speaking"
  /\ MainTo("capture") /\ UNCHANGED <<voice, mic, frames, worker>>

\* What was recorded so far is discarded before listening again; what the device still
\* has to play is neither flushed nor waited for.
Spoken ==
  /\ main.pc = "speak" /\ voice.state # "speaking"
  /\ MainTo("capture") /\ mic' = <<>> /\ UNCHANGED <<voice, frames, worker>>

\* A device error, or a keyboard interrupt, outside process: the session ends.
SessionFails ==
  /\ main.pc \in {"capture", "begin", "speak"}
  /\ \/ Close(voice)
     \/ Close(CancelVoice(voice))

VoiceNext ==
  \/ OpenSession \/ Record \/ Play \/ FinishPending \/ CaptureIdle \/ CaptureFrame \/ WorkerStep \/ PumpAvailableInput \/ BargeIn
  \/ Joined \/ ProcessFails \/ JoinThenClose \/ BeginAnswer \/ SpeakRound \/ Spoken \/ SessionFails

-----------------------------------------------------------------------------
\* An utterance is of one turn: nothing that was recorded before speak() returned, and
\* nothing after an endpoint, but for one that fell into the pre-roll while it was replayed.
HeardIsOneTurn ==
  \A i \in DOMAIN voice.heard :
    /\ voice.heard[i].moment # "answer"
    /\ voice.heard[i].end => i = Len(voice.heard) \/ i < voice.replayed

\* Outside an output turn nothing is left to be said; an answer that was talked over is
\* never said; a session cancelled by voice ends cancelled, whatever races with it.
VoiceQuiet ==
  /\ voice.state # "speaking" => voice.output = 0 /\ voice.tts = 0 /\ ~voice.exhausted
  /\ voice.state = "speaking" => ~main.stale
  /\ voice.state \in {"interrupted", "cancelled"} => voice.speaker = 0
  /\ main.pc = "closed" /\ worker.result = "cancelled" /\ worker.pc = "done" => voice.state = "cancelled" /\ voice.session = "cancelled"
=============================================================================
