----------------------------- MODULE Recognition ----------------------------
(***************************************************************************)
(* SttModelOwner and FileTranscription (wfloat-web stt-next/model.ts) and  *)
(* LiveSession (stt-next/session.ts): complete recordings and live         *)
(* sessions share one recognizer, incremental (online) or windowed         *)
(* (offline), through a queue; sessions take audio from push() or from a   *)
(* microphone, and are finished, cancelled, or fail, at every await.       *)
(*                                                                         *)
(* Audio is a sequence of numbered units, 1 being the first the operation  *)
(* accepted.  A text is the number of the last unit it tells of, or NoText.*)
(* An action is a turn of the event loop up to the next await.             *)
(***************************************************************************)
EXTENDS Microphone, Integers, Sequences, FiniteSetsExt

CONSTANTS
  Step,         \* units the incremental recognizer is pushed at a time
  Window,       \* WINDOW_SAMPLES
  Overlap,      \* units a full window keeps for the next
  MinWindow,    \* units the first window of an utterance waits for
  Cadence,      \* new units a further one waits for
  Quiet,        \* units a window needs to end in silence
  MaxBuffered,  \* maxBufferedAudioMs
  FileLengths,  \* the lengths of the recordings
  Chunks,       \* the lengths of what push() and the microphone deliver
  MaxAudio,     \* BOUND: units the sessions of one model accept
  MaxOps        \* BOUND: operations of one model

ASSUME RecognitionAssumption ==
  /\ {Step, Window, Overlap, MinWindow, Cadence, Quiet, MaxBuffered} \subseteq Nat \ {0}
  /\ Overlap < MinWindow /\ MinWindow < Window /\ Cadence <= Overlap
  /\ FileLengths \subseteq Nat \ {0} /\ Chunks \subseteq Nat \ {0}
  /\ MaxAudio \in Nat /\ MaxOps \in Nat

VARIABLES
  kind,        \* SpeechToTextBackend.kind, of the model that was loaded
  ops,         \* the operations, in the order of the tail promise
  unload,      \* "no", "queued" behind them, "asked" of the backend, "done"
  dead,        \* the worker failed (SttModelOwner.failure)
  recognizer   \* whose options it has, whose stream is open, and told its end

rvars == <<kind, ops, unload, dead, recognizer>>

NoText == 0
NoEvent == [text |-> NoText, id |-> 0, final |-> FALSE]
Results == {"none", "complete", "cancelled", "failed"}
\* Where the work the owner queued stands; each is an await.
Stages == {"queued", "normalize", "configure", "open", "push", "reset", "decode",
           "live", "close", "over"}
\* Where the pump of a session stands.
PumpStages == {"idle", "push", "reset", "reference", "decode", "returned", "settle"}

RecognitionInit ==
  /\ kind \in {"online", "offline"} /\ ops = <<>> /\ unload = "no" /\ dead = FALSE
  /\ recognizer = [options |-> 0, stream |-> 0, finished |-> FALSE]

\* Units a .. b.
Units(a, b) == [i \in 1 .. (IF b < a THEN 0 ELSE b - a + 1) |-> a + i - 1]
First(s, n) == SubSeq(s, 1, n)
Rest(s, n) == SubSeq(s, n + 1, Len(s))

\* The fields an operation has, file or session.  heard: the units given to
\* the recognizer without a gap.
NewOperation(k) ==
  [kind |-> k, at |-> "queued", terminal |-> FALSE, result |-> "none", length |-> 0,
   heard |-> 0, chunk |-> <<>>, finished |-> FALSE,
   pump |-> "idle", ending |-> FALSE, queue |-> <<>>, accepted |-> 0, held |-> 0,
   source |-> "none", capture |-> "none", mic |-> NoCapture, closing |-> FALSE,
   windowStart |-> 0, decoded |-> 0, prefix |-> NoText, reference |-> FALSE,
   hypothesis |-> NoText, segments |-> 0, last |-> NoEvent]

\* What the recognizer has heard once it was given chunk: a stream must go on
\* where it stopped, a window may go back over what is known.
Heard(s, chunk) ==
  IF chunk = <<>> THEN s.heard
  ELSE IF chunk[1] > s.heard + 1 \/ (kind = "online" /\ chunk[1] # s.heard + 1) THEN s.heard
  ELSE Max({s.heard, chunk[Len(chunk)]})

----------------------------------------------------------------------------
(* LiveSession: how a session ends. *)

\* stopCapture(): aborts a start, stops a capture it has been given.
StopCapture(s) == [s EXCEPT !.mic = Cancel(@), !.closing = @ \/ s.capture = "held",
                            !.capture = IF @ = "held" THEN "none" ELSE @]

\* cancel(), fail() and the end of the pump: the first of them settles.
Settle(s, how) ==
  IF s.terminal THEN s
  ELSE [StopCapture(s) EXCEPT !.terminal = TRUE, !.result = how, !.queue = <<>>, !.held = 0]

\* Mutant of Released: the model goes on while the recognizer still works.
ReleasedEarly(s) == s.terminal /\ ~s.closing
\* maybeRelease(): the recognizer and the device are free.
Released(s) == s.terminal /\ s.pump = "idle" /\ ~s.closing

\* emit(): onTranscript is told what changed.
Displayed(s, text, final) ==
  LET current == s.last.id = s.segments
      known == current /\ s.last.text = text /\ s.last.final = final
      retracts == current /\ ~s.last.final /\ s.last.text # NoText
  IN
  IF (text = NoText /\ (final \/ ~retracts)) \/ known THEN s
  ELSE [s EXCEPT !.last = [text |-> text, id |-> s.segments, final |-> final],
                 !.segments = IF final THEN @ + 1 ELSE @,
                 !.hypothesis = IF final THEN NoText ELSE @]

\* A hypothesis that became empty is retracted before it is made final.
Shown(s, final) ==
  LET retracted == IF s.hypothesis = NoText /\ s.last.text # NoText
                   THEN Displayed(s, NoText, FALSE) ELSE s
  IN Displayed(retracted, s.hypothesis, final)

----------------------------------------------------------------------------
(* LiveSession: the pump. *)

\* pumpOnline() or pumpWindowed() returns; pump() awaits it, so that callbacks
\* told of what it emitted run before pump() goes on.
PumpEnds(s) == [s EXCEPT !.pump = "returned", !.chunk = <<>>]

\* pump() goes on: the session is complete if it was asked to end and no audio
\* is left, also when it was asked in that await.
PumpGoesOn(s) ==
  [(IF ~s.terminal /\ s.ending /\ s.queue = <<>> THEN Settle(s, "complete") ELSE s)
   EXCEPT !.pump = "settle"]

\* Mutant of OnlineLoop: an end that finds nothing queued is not told.
OnlineLoopShort(s) ==
  LET n == Min({Step, Len(s.queue)}) IN
  IF ~s.terminal /\ (Len(s.queue) >= Step \/ (s.ending /\ s.queue # <<>>))
  THEN [s EXCEPT !.pump = "push", !.chunk = First(s.queue, n), !.queue = Rest(s.queue, n),
                 !.finished = s.ending /\ n = Len(s.queue)]
  ELSE PumpEnds(s)
\* pumpOnline(), at the head of its loop: the last push may have no audio.
OnlineLoop(s) ==
  LET n == Min({Step, Len(s.queue)}) IN
  IF ~s.terminal /\ (Len(s.queue) >= Step \/ s.ending)
  THEN [s EXCEPT !.pump = "push", !.chunk = First(s.queue, n), !.queue = Rest(s.queue, n),
                 !.finished = s.ending /\ n = Len(s.queue)]
  ELSE PumpEnds(s)

\* A window is full, or enough is new in it.
Enough(s) == Len(s.queue) >= Window
             \/ (Len(s.queue) >= MinWindow /\ Len(s.queue) - s.decoded >= Cadence)

\* The utterance is over, and so is what was kept of it.
Finalized(s, length) ==
  [Shown(s, TRUE) EXCEPT !.queue = Rest(@, length), !.windowStart = @ + length,
     !.decoded = 0, !.prefix = NoText, !.reference = FALSE, !.hypothesis = NoText]

\* pumpWindowed(), at the head of its loop.
WindowLoop(s) ==
  IF s.terminal \/ s.queue = <<>> \/ ~(s.ending \/ Enough(s)) THEN PumpEnds(s)
  ELSE IF s.ending /\ Len(s.queue) = s.decoded
  THEN PumpEnds([Shown(s, TRUE) EXCEPT !.queue = <<>>, !.hypothesis = NoText])
  ELSE [s EXCEPT !.chunk = First(s.queue, Min({Len(s.queue), Window})),
                 !.pump = IF s.prefix # NoText /\ ~s.reference THEN "reference" ELSE "decode"]

PumpLoop(s) == IF kind = "online" THEN OnlineLoop(s) ELSE WindowLoop(s)

\* kick(): pump() runs up to its first await.
Kick(s) == IF s.pump # "idle" \/ s.terminal THEN s ELSE PumpLoop(s)

\* Mutant of KickAgain: a finish during the last turn of the pump is missed.
KickAgainNever(s) == s
\* Input, or the end of it, may have come since the last check of the pump.
KickAgain(s) ==
  IF s.ending \/ (IF kind = "online" THEN Len(s.queue) >= Step ELSE Enough(s)) THEN Kick(s) ELSE s
PumpSettles(s) == KickAgain([s EXCEPT !.pump = "idle"])

\* pushStream() answered.
Pushed(s, text, endpoint) ==
  LET t == [s EXCEPT !.heard = Heard(s, s.chunk), !.chunk = <<>>]
      u == Shown([t EXCEPT !.hypothesis = text], endpoint \/ t.finished)
  IN IF t.terminal \/ t.finished THEN PumpEnds(IF t.terminal THEN t ELSE u)
     ELSE IF endpoint THEN [u EXCEPT !.pump = "reset"] ELSE OnlineLoop(u)

\* The last window of the loop was full: the next one overlaps it.
Advanced(s) ==
  [s EXCEPT !.reference = FALSE, !.prefix = s.hypothesis, !.queue = Rest(@, Window - Overlap),
            !.windowStart = @ + Window - Overlap, !.decoded = Overlap]

\* decode() of a window answered.
Decoded(s, text, silent) ==
  LET length == Len(s.chunk)
      t == [s EXCEPT !.heard = Heard(s, s.chunk), !.decoded = length,
                     !.hypothesis = Max({s.prefix, text})]
      u == Shown(t, FALSE)
  IN IF s.terminal THEN PumpEnds(s)
     ELSE IF (s.ending /\ Len(s.queue) = length) \/ silent THEN WindowLoop(Finalized(t, length))
     ELSE IF length = Window THEN WindowLoop(Advanced(u)) ELSE PumpEnds(u)

----------------------------------------------------------------------------
(* LiveSession: its input. *)

\* The audio nobody has recognized yet.
Pending(s) == IF kind = "online" THEN Len(s.queue) + Len(s.chunk)
              ELSE Max({0, Len(s.queue) - s.decoded})
CheckBacklog(s) == IF Pending(s) > MaxBuffered THEN Settle(s, "failed") ELSE s

\* accept(): n units arrive, of which the resampler keeps some back.
Accept(s, n, keeps) ==
  LET grown == [s EXCEPT !.queue = @ \o Units(s.accepted - s.held + 1, s.accepted + n - keeps),
                         !.accepted = @ + n, !.held = keeps]
  IN IF s.terminal \/ s.ending THEN s ELSE Kick(CheckBacklog(grown))

\* Mutant of Flushed: the tail has one unit more.
FlushedPadded(s) == Units(s.accepted - s.held + 1, s.accepted + 1)
\* What the resampler gives at the end: what it kept.
Flushed(s) == Units(s.accepted - s.held + 1, s.accepted)
\* finish().
Finish(s) ==
  LET t == [StopCapture(s) EXCEPT !.ending = TRUE]
  IN IF s.terminal \/ s.ending THEN s
     ELSE IF s.accepted = 0 THEN Settle(t, "failed")
     ELSE Kick([t EXCEPT !.held = 0, !.queue = @ \o Flushed(s)])

----------------------------------------------------------------------------
(* FileTranscription.run, between its awaits. *)

\* run() leaves the loop over the audio; the stream is closed first.
FileLeaves(s, error) ==
  IF kind = "online" THEN [s EXCEPT !.at = "close", !.finished = ~error]
  ELSE [Settle(s, IF error THEN "failed" ELSE "complete") EXCEPT !.at = "over"]

\* The head of the loop over the audio, of which length units are left.  A
\* window of a longer recording ends where it is quiet (fileWindowLength).
FileLoop(s) ==
  LET from == s.accepted - s.length
      step == IF kind = "online" THEN Step ELSE Window
      next == IF s.length <= step THEN {s.length}
              ELSE IF kind = "online" THEN {Step} ELSE MinWindow .. Window
  IN IF s.terminal \/ s.length = 0 THEN {FileLeaves(s, FALSE)}
     ELSE {[s EXCEPT !.at = IF kind = "online" THEN "push" ELSE "decode",
                     !.chunk = Units(from + 1, from + n), !.length = @ - n] : n \in next}

\* What an await of a file may continue with; run() returns at once when the
\* operation was settled meanwhile.
FileResumes(s, endpoint) ==
  LET heard == [s EXCEPT !.heard = Heard(s, s.chunk), !.chunk = <<>>] IN
  CASE s.at = "normalize" -> {[s EXCEPT !.at = IF s.terminal THEN "over" ELSE "configure"]}
    [] s.at = "configure" ->
         IF s.terminal THEN {[s EXCEPT !.at = "over"]}
         ELSE IF kind = "online" THEN {[s EXCEPT !.at = "open"]} ELSE FileLoop(s)
    [] s.at \in {"open", "reset"} -> FileLoop(s)
    [] s.at = "push" -> IF endpoint /\ ~s.terminal /\ s.length > 0
                        THEN {[heard EXCEPT !.at = "reset"]} ELSE FileLoop(heard)
    [] s.at = "decode" -> FileLoop(heard)
    [] s.at = "close" ->
         {[Settle(s, IF s.finished THEN "complete" ELSE "failed") EXCEPT !.at = "over"]}

\* The await throws: before the stream is open, and while it is closed, run()
\* fails at once.
FileThrows(s) ==
  IF s.at \in {"push", "reset"} THEN FileLeaves(s, TRUE)
  ELSE [Settle(s, "failed") EXCEPT !.at = "over"]

----------------------------------------------------------------------------
(* SttModelOwner. *)

Ops == DOMAIN ops
\* BOUND: of a session that is over the model keeps how it ended and its
\* microphone, nothing else of it being reachable.
Kept(s) == IF s.kind = "session" /\ s.at = "over" /\ s.pump = "idle"
           THEN [NewOperation("session") EXCEPT !.at = "over", !.terminal = TRUE,
                   !.result = s.result, !.mic = IF s.mic.stopped THEN [Stop(NewCapture) EXCEPT !.at = s.mic.at] ELSE s.mic]
           ELSE s
Become(o, s) == ops' = [ops EXCEPT ![o] = Kept(s)]
Files == {o \in Ops : ops[o].kind = "file" /\ ~ops[o].terminal}
Live == {o \in Ops : ops[o].kind = "session" /\ ops[o].at = "live" /\ ~ops[o].terminal}
Creating == {o \in Ops : ops[o].kind = "session" /\ ops[o].at \in {"queued", "configure", "open"}}
Available == unload = "no" /\ ~dead

\* The tail promise: work starts when what was queued before is over.
Turn(o) == \A p \in Ops : p < o => ops[p].at = "over"
MayTranscribe == Available /\ Live = {} /\ Creating = {}
MayCreate == MayTranscribe /\ Files = {}

Transcribe(n) ==
  /\ Len(ops) < MaxOps /\ MayTranscribe
  /\ ops' = Append(ops, [NewOperation("file") EXCEPT !.length = n, !.accepted = n])
  /\ UNCHANGED <<kind, unload, dead, recognizer>>

CreateSession ==
  /\ Len(ops) < MaxOps /\ MayCreate
  /\ ops' = Append(ops, NewOperation("session"))
  /\ UNCHANGED <<kind, unload, dead, recognizer>>

\* The work of a session ends: its stream is closed.
SessionEnds(s) == [s EXCEPT !.at = IF kind = "online" THEN "close" ELSE "over"]
Unborn(s) == SessionEnds(Settle(s, "failed"))

\* The work of o reaches the head of the queue.
WorkStarts(o) ==
  LET s == ops[o] IN
  /\ s.at = "queued" /\ Turn(o)
  /\ Become(o, IF s.kind = "file" THEN [s EXCEPT !.at = IF s.terminal THEN "over" ELSE "normalize"]
               ELSE IF Available THEN [s EXCEPT !.at = "configure"] ELSE Unborn(s))
  /\ UNCHANGED <<kind, unload, dead, recognizer>>

\* createSession() goes on: the session is handed out.
SessionResumes(s) ==
  IF ~Available THEN Unborn(s)
  ELSE [s EXCEPT !.at = IF s.at = "configure" /\ kind = "online" THEN "open" ELSE "live"]

\* released: the session is over, and so is the work of the recognizer for it.
SessionReleased(o) ==
  /\ ops[o].kind = "session" /\ ops[o].at = "live" /\ Released(ops[o])
  /\ Become(o, SessionEnds(ops[o]))
  /\ UNCHANGED <<kind, unload, dead, recognizer>>

\* unload(): everything is cancelled, and the backend unloaded after it.
Unload ==
  /\ unload = "no" /\ unload' = "queued"
  /\ ops' = [o \in Ops |-> IF o \in Files \cup Live THEN Settle(ops[o], "cancelled") ELSE ops[o]]
  /\ UNCHANGED <<kind, dead, recognizer>>

UnloadStarts ==
  /\ unload = "queued" /\ Turn(Len(ops) + 1) /\ unload' = "asked"
  /\ UNCHANGED <<kind, ops, dead, recognizer>>
UnloadEnds ==
  /\ unload = "asked" /\ unload' = "done"
  /\ UNCHANGED <<kind, ops, dead, recognizer>>

----------------------------------------------------------------------------
(* The recognizer (SherpaRecognizer) and its worker. *)

Pumping(s) == s.pump \in {"push", "reset", "reference", "decode"}
\* The command o waits for, if any.
Command(o) ==
  LET s == ops[o] IN
  IF s.kind = "session" /\ Pumping(s) THEN s.pump
  ELSE IF s.at \in {"configure", "open", "push", "reset", "decode", "close"} THEN s.at
  ELSE "none"

LastPush(s) == IF s.kind = "file" THEN s.length = 0 ELSE s.finished
\* What the recognizer keeps of a command it has carried out.
Carried(o, c) ==
  recognizer' =
    CASE c = "configure" -> [recognizer EXCEPT !.options = o]
      [] c = "open" -> [recognizer EXCEPT !.stream = o, !.finished = FALSE]
      [] c = "push" -> [recognizer EXCEPT !.finished = LastPush(ops[o])]
      [] c = "close" -> [recognizer EXCEPT !.stream = 0]
      [] OTHER -> recognizer

\* The pump of a session goes on after a command.
PumpResumes(s, text, flag) ==
  CASE s.pump = "push" -> Pushed(s, text, flag)
    [] s.pump = "reset" -> OnlineLoop(s)
    [] s.pump = "reference" -> IF s.terminal THEN PumpEnds(s)
                               ELSE [s EXCEPT !.reference = TRUE, !.pump = "decode"]
    [] s.pump = "decode" -> Decoded(s, text, flag)

\* The texts a chunk may be recognized as; flag is an endpoint, or silence.
Texts(s) == {NoText} \cup (IF s.chunk = <<>> THEN {} ELSE {s.chunk[Len(s.chunk)]})
Flags(s) == IF s.pump = "decode" /\ Len(s.chunk) < Quiet THEN {FALSE} ELSE BOOLEAN

\* The worker answers the command o waits for.
Answers(o) ==
  LET s == ops[o] IN
  /\ Command(o) # "none" /\ ~dead
  /\ Carried(o, Command(o))
  /\ \/ s.kind = "session" /\ Pumping(s)
        /\ \E text \in Texts(s), flag \in Flags(s) : Become(o, PumpResumes(s, text, flag))
     \/ s.kind = "session" /\ ~Pumping(s)
        /\ Become(o, IF s.at = "close" THEN [s EXCEPT !.at = "over"] ELSE SessionResumes(s))
     \/ s.kind = "file" /\ \E flag \in BOOLEAN : \E t \in FileResumes(s, flag) : Become(o, t)
  /\ UNCHANGED <<kind, unload, dead>>

\* It answers with an error, or not at all because it has failed.
Refuses(o) ==
  LET s == ops[o] IN
  /\ Command(o) # "none" /\ (Command(o) # "close" \/ dead)
  /\ Become(o, IF s.kind = "file" THEN FileThrows(s)
               ELSE IF Pumping(s) THEN [Settle(s, "failed") EXCEPT !.pump = "settle", !.chunk = <<>>]
               ELSE IF s.at = "close" THEN [s EXCEPT !.at = "over"] ELSE Unborn(s))
  /\ UNCHANGED <<kind, unload, dead, recognizer>>

\* normalizeAudio() answers, or refuses the recording.
Normalizes(o) ==
  /\ ops[o].at = "normalize"
  /\ \E t \in FileResumes(ops[o], FALSE) \cup {FileThrows(ops[o])} : Become(o, t)
  /\ UNCHANGED <<kind, unload, dead, recognizer>>

\* The failure handler: every operation of the model fails.
WorkerFails ==
  /\ ~dead /\ unload # "done" /\ dead' = TRUE
  /\ ops' = [o \in Ops |-> IF o \in Files \cup Live THEN Settle(ops[o], "failed") ELSE ops[o]]
  /\ UNCHANGED <<kind, unload, recognizer>>

PumpReturned(o) ==
  /\ ops[o].pump = "returned" /\ Become(o, PumpGoesOn(ops[o]))
  /\ UNCHANGED <<kind, unload, dead, recognizer>>

\* The last turn of a pump, and with it the next pump if there is work.
PumpSettled(o) ==
  /\ ops[o].pump = "settle" /\ Become(o, PumpSettles(ops[o]))
  /\ UNCHANGED <<kind, unload, dead, recognizer>>

----------------------------------------------------------------------------
(* The callers of a session, and its microphone. *)

Cancelled(o) == Become(o, Settle(ops[o], "cancelled"))
Handed(o) == ops[o].kind = "file" \/ ops[o].at = "live"

CallerCancels(o) ==
  /\ Handed(o) /\ ~ops[o].terminal /\ Cancelled(o)
  /\ UNCHANGED <<kind, unload, dead, recognizer>>
CallerFinishes(o) ==
  /\ o \in Live /\ ~ops[o].ending /\ Become(o, Finish(ops[o]))
  /\ UNCHANGED <<kind, unload, dead, recognizer>>

\* The audio all the sessions have accepted.
Spent == MapThenSumSet(LAMBDA o : IF ops[o].kind = "session" THEN ops[o].accepted ELSE 0, Ops)
\* Audio comes, of which the resampler keeps a unit back or not.
Arrives(o, s) ==
  /\ \E n \in Chunks, keeps \in 0 .. 1 :
       Spent + n <= MaxAudio /\ Become(o, Accept(s, n, keeps))
  /\ UNCHANGED <<kind, unload, dead, recognizer>>
CallerPushes(o) ==
  /\ o \in Live /\ ~ops[o].ending /\ ops[o].source # "microphone"
  /\ Arrives(o, [ops[o] EXCEPT !.source = "external"])
MicrophoneHears(o) ==
  /\ o \in Live /\ ~ops[o].ending /\ Delivers(ops[o].mic) /\ Arrives(o, ops[o])

CallerStartsMicrophone(o) ==
  /\ o \in Live /\ ~ops[o].ending /\ ops[o].source = "none"
  /\ Become(o, [ops[o] EXCEPT !.source = "microphone", !.capture = "starting", !.mic = NewCapture])
  /\ UNCHANGED <<kind, unload, dead, recognizer>>

\* The device, the context or the user; a failure after the start is told.
MicrophoneTurns(o) ==
  /\ \E m \in CaptureTurns(ops[o].mic) :
       LET s == [ops[o] EXCEPT !.mic = m]
       IN Become(o, IF m.failed /\ ~ops[o].mic.failed THEN Settle(s, "failed") ELSE s)
  /\ UNCHANGED <<kind, unload, dead, recognizer>>

\* The promise of startMicrophone reaches the session.
MicrophoneStarts(o) ==
  LET s == ops[o]
      t == [s EXCEPT !.capture = IF Started(s.mic) /\ ~s.terminal /\ ~s.ending THEN "held" ELSE "none",
                     !.mic = IF Started(s.mic) /\ (s.terminal \/ s.ending) THEN Stop(@) ELSE @]
  IN
  /\ s.capture = "starting" /\ s.mic.promise # "pending"
  /\ Become(o, IF s.mic.promise = "rejected" /\ ~s.ending THEN Settle(t, "failed") ELSE t)
  /\ UNCHANGED <<kind, unload, dead, recognizer>>

\* The AudioContext of a stopped capture has closed.
MicrophoneCloses(o) ==
  /\ ops[o].closing /\ Become(o, [ops[o] EXCEPT !.closing = FALSE])
  /\ UNCHANGED <<kind, unload, dead, recognizer>>

\* The monitor, once a second while audio may be pending.
MonitorTicks(o) ==
  /\ o \in Live /\ ops[o].accepted > 0 /\ Become(o, CheckBacklog(ops[o]))
  /\ UNCHANGED <<kind, unload, dead, recognizer>>

----------------------------------------------------------------------------
(* The system. *)

OwnerSteps == (\E o \in Ops : WorkStarts(o) \/ SessionReleased(o)
                              \/ PumpReturned(o) \/ PumpSettled(o)
                              \/ MicrophoneStarts(o) \/ MonitorTicks(o))
              \/ UnloadStarts
Environment == (\E o \in Ops : Answers(o) \/ Refuses(o) \/ Normalizes(o) \/ MicrophoneTurns(o)
                               \/ MicrophoneHears(o) \/ MicrophoneCloses(o))
               \/ UnloadEnds \/ WorkerFails
Callers == (\E o \in Ops : CallerCancels(o) \/ CallerFinishes(o) \/ CallerPushes(o)
                           \/ CallerStartsMicrophone(o))
           \/ (\E n \in FileLengths : Transcribe(n)) \/ CreateSession \/ Unload

RecognitionNext == OwnerSteps \/ Environment \/ Callers
RecognitionSpec == RecognitionInit /\ [][RecognitionNext]_rvars

\* Promises settle, the worker answers, a context that is asked to close closes:
\* one such turn is taken in the end.  Nothing is assumed of the callers, of the
\* user or of the device.
Turns == (\E o \in Ops : WorkStarts(o) \/ SessionReleased(o)
                        \/ PumpReturned(o) \/ PumpSettled(o) \/ Answers(o)
                        \/ Refuses(o) \/ Normalizes(o) \/ MicrophoneCloses(o))
         \/ UnloadStarts \/ UnloadEnds
RecognitionFairness == WF_rvars(Turns)
FairRecognitionSpec == RecognitionSpec /\ RecognitionFairness

----------------------------------------------------------------------------
(* Properties. *)

OperationTypeOK(s) ==
  /\ s.kind \in {"file", "session"} /\ s.at \in Stages /\ s.pump \in PumpStages
  /\ s.result \in Results /\ (s.terminal <=> s.result # "none")
  /\ s.heard <= s.accepted /\ s.held \in 0 .. 1 /\ s.mic \in CaptureRecord
  /\ s.queue \in Seq(1 .. s.accepted) /\ s.decoded <= Window
  /\ s.last.id \in {s.segments, s.segments - 1, 0}
\* The type invariant.
RecognitionTypeOK ==
  /\ kind \in {"online", "offline"} /\ dead \in BOOLEAN
  /\ unload \in {"no", "queued", "asked", "done"}
  /\ recognizer \in [options : 0 .. MaxOps, stream : 0 .. MaxOps, finished : BOOLEAN]
  /\ \A o \in Ops : OperationTypeOK(ops[o])

\* The recognizer, which has one set of options and one stream, is never sent
\* a command it would refuse, nor one of a recording or session while another
\* uses it, whichever of them were cancelled, failed or are being created
\* (model.ts:115, session.ts:62).
Obeyed(o) ==
  LET c == Command(o)
      s == ops[o] IN
  /\ c \in {"configure", "open"} => recognizer.stream = 0
  /\ c \in {"open", "push", "reset", "decode", "reference"} => recognizer.options = o
  /\ c \in {"push", "reset"} => recognizer.stream = o /\ ~recognizer.finished
  /\ c \in {"decode", "reference"} => Len(s.chunk) \in 1 .. Window
RecognizerIsObeyed ==
  /\ \A o, p \in Ops : Command(o) # "none" /\ Command(p) # "none" => o = p
  /\ unload \in {"asked", "done"} => \A o \in Ops : Command(o) = "none"
  /\ ~dead => \A o \in Ops : Command(o) # "none" => Obeyed(o)

\* A recording or a session that is complete has given every unit it accepted
\* to the recognizer, in order, an incremental one exactly once; a windowed one
\* displays no text that is not final (session.ts:192, model.ts:86).
CompleteIsHeard ==
  \A o \in Ops : LET s == ops[o] IN
     s.result = "complete" => s.heard = s.accepted /\ (kind = "offline" => s.hypothesis = NoText)

\* A pump that returns when the end was asked for has had everything recognized
\* and nothing it displays is provisional.  So the one incremental session that
\* completes with a provisional text is one whose end was asked for after its
\* pump had returned and before pump() looked (session.ts:190, :192).
LateEndOnly ==
  \A o \in Ops : LET s == ops'[o] IN
     ops[o].pump # "returned" /\ s.pump = "returned" /\ ~s.terminal /\ s.ending /\ s.queue = <<>>
       => s.hypothesis = NoText /\ s.heard = s.accepted

\* What onTranscript was told of the current utterance is the hypothesis the
\* session reports when it is cancelled or fails; times are relative to the
\* first unit the session has kept (session.ts:160, session.ts:234).
DisplayIsTrue ==
  \A o \in Ops : LET s == ops[o] IN
     /\ s.hypothesis = (IF s.last.id = s.segments /\ ~s.last.final THEN s.last.text ELSE NoText)
     /\ kind = "offline" /\ s.queue # <<>> => s.queue[1] = s.windowStart + 1

\* A session that is over, or is asked to finish, holds no microphone, even if
\* it is granted or fails later, and hears nothing more (session.ts:141).
MicrophoneIsReleased ==
  \A o \in Ops : LET s == ops[o] IN
     /\ NoLeak(s.mic)
     /\ (s.terminal \/ s.ending) /\ s.mic.at # "none" => s.mic.stopped /\ s.capture # "held"

\* What a session that goes on has accepted and the recognizer has not heard,
\* in the queue or under way, is within the limit the application set.
BacklogBounded ==
  \A o \in Live : ~ops[o].ending => ops[o].accepted - ops[o].held - ops[o].heard <= MaxBuffered

SessionInvariants == CompleteIsHeard /\ DisplayIsTrue /\ MicrophoneIsReleased /\ BacklogBounded

\* What an application is told is what was said, and a session keeps neither a
\* device nor audio beyond what it may: so it is after every step (before the
\* first there is no operation), and no step of a pump loses what it displays.
SessionsAreTrue == [][SessionInvariants' /\ LateEndOnly]_rvars

\* Every recording, every session being created or asked to end, and unload()
\* end, with no help from the user or the device: in the end nothing is left
\* but sessions somebody uses (session.ts:182, model.ts:153).
AtRest == unload \in {"no", "done"} /\ \A o \in Ops : ops[o].at = "over" \/ (o \in Live /\ ~ops[o].ending)
WorkEnds == []<>AtRest
=============================================================================
