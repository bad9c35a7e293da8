---------------------------- MODULE VoiceActivity ----------------------------
(***************************************************************************)
(* VoiceActivityDetectionModel (wfloat-web vad-next/model.ts) and          *)
(* VadOperation (vad-next/session.ts): detections in complete recordings   *)
(* and live sessions share one recurrent scorer, in a worker, through a    *)
(* queue.  A session takes audio from push(), from a microphone of its     *)
(* own, or from a capture it shares with another consumer.                 *)
(*                                                                         *)
(* Audio is a sequence of numbered units, 1 being the first the operation  *)
(* accepted.  An action is a turn of the event loop up to the next await.  *)
(***************************************************************************)
EXTENDS SharedMicrophone, Segmenter

CONSTANTS
  FrameSize,    \* VadBackend.frameSize
  FileLengths,  \* the lengths of the recordings
  Chunks,       \* the lengths of what push() and the microphones deliver
  MaxAudio,     \* BOUND: units the sessions of one model accept
  MaxOps        \* BOUND: operations of one model

ASSUME ListeningAssumption ==
  /\ FrameSize \in Nat \ {0} /\ FileLengths \cup Chunks \subseteq Nat \ {0}
  /\ MaxAudio \in Nat /\ MaxOps \in Nat

VARIABLES
  ops,      \* the operations, in the order of the tail promise
  unload,   \* "no", "queued" behind them, "asked" of the backend, "done"
  dead,     \* the worker failed
  scorer,   \* whose reset it saw last, and how many frames since
  shared    \* the capture the application shares between its sessions

vvars == <<ops, unload, dead, scorer, shared>>

Stages == {"queued", "normalize", "reset", "live", "over"}
Results == {"none", "complete", "cancelled", "failed"}
\* The other consumer of the shared capture, such as a LiveSession.
Other == 0

ListeningInit ==
  /\ ops = <<>> /\ unload = "no" /\ dead = FALSE
  /\ scorer = [of |-> 0, frames |-> 0] /\ shared = Prepared

\* ends and scores tell of each frame where it ends and its score.
NewOperation(k) ==
  [kind |-> k, at |-> "queued", terminal |-> FALSE, result |-> "none", ending |-> FALSE,
   pump |-> "idle", queue |-> <<>>, frame |-> <<>>, accepted |-> 0, held |-> 0,
   source |-> "none", capture |-> "none", mic |-> NoCapture, closing |-> FALSE,
   attached |-> FALSE, seg |-> NewSegmenter, ends |-> <<>>, scores |-> <<>>]

----------------------------------------------------------------------------
(* VadOperation. *)

\* stopCapture(): leaves the shared capture, aborts a start, stops its own.
StopCapture(s) ==
  [s EXCEPT !.attached = FALSE, !.mic = Cancel(@), !.closing = @ \/ s.capture = "held",
            !.capture = IF @ = "held" THEN "none" ELSE @]

\* cancel(), fail() and the end of the pump: the first of them settles.
Settle(s, how) ==
  IF s.terminal THEN s
  ELSE [StopCapture(s) EXCEPT !.terminal = TRUE, !.result = how, !.queue = <<>>, !.held = 0,
                               !.seg = Clear(@)]

\* Mutant of Released: the next operation starts while a frame is scored.
ReleasedEarly(s) == s.terminal /\ ~s.closing
\* releaseIfDone().
Released(s) == s.terminal /\ s.pump = "idle" /\ ~s.closing

\* pump(), at the head of its loop.
PumpLoop(s) ==
  LET n == Min({FrameSize, Len(s.queue)})
      over == Settle([s EXCEPT !.seg = FinishSegments(@)], "complete") IN
  IF ~s.terminal /\ n > 0 /\ (n = FrameSize \/ s.ending)
  THEN [s EXCEPT !.pump = "score", !.frame = SubSeq(s.queue, 1, n), !.queue = Past(@, n)]
  ELSE [(IF s.ending /\ ~s.terminal THEN over ELSE s) EXCEPT !.pump = "settle", !.frame = <<>>]

Kick(s) == IF s.terminal \/ s.pump # "idle" \/ s.at # "live" THEN s ELSE PumpLoop(s)

\* Mutant of KickAgain: a finish during the last turn of the pump is missed.
KickAgainNever(s) == s
\* The last turn of the pump looks again.
KickAgain(s) == IF Len(s.queue) >= FrameSize \/ s.ending THEN Kick(s) ELSE s

\* Mutant of Fed: the padding of the last frame counts as audio.
FedPadded(s) == s.frame \o UnitsAfter(s.accepted, s.accepted + FrameSize - Len(s.frame))
\* What of a frame is audio.
Fed(s) == s.frame
\* What a frame may come to.
Outcomes(s) == {[score |-> score, seg |-> Feed(s.seg, Fed(s), score)] : score \in Scores}
\* score() answered.
Scored(s, outcome) ==
  PumpLoop(IF s.terminal THEN s
           ELSE [s EXCEPT !.seg = outcome.seg, !.scores = Append(@, outcome.score),
                          !.ends = Append(@, s.seg.position + Len(s.frame))])

\* accept(): n units arrive, of which the resampler keeps some back.
Accept(s, n, keeps) ==
  IF s.terminal \/ s.ending THEN s
  ELSE Kick([s EXCEPT !.queue = @ \o UnitsAfter(s.accepted - s.held, s.accepted + n - keeps),
                      !.accepted = @ + n, !.held = keeps])

Finish(s) ==
  IF s.terminal \/ s.ending THEN s
  ELSE Kick([StopCapture(s) EXCEPT !.ending = TRUE, !.held = 0,
               !.queue = @ \o UnitsAfter(s.accepted - s.held, s.accepted)])

----------------------------------------------------------------------------
(* VoiceActivityDetectionModel. *)

Ops == DOMAIN ops
\* BOUND: of an operation that is over the model keeps its microphone, nothing
\* else of it being reachable.
Kept(s) == IF s.at = "over" /\ s.pump = "idle"
           THEN [NewOperation(s.kind) EXCEPT !.at = "over", !.terminal = TRUE,
                   !.result = "complete", !.capture = s.capture,
                   !.mic = IF s.mic.stopped THEN [Stop(NewCapture) EXCEPT !.at = s.mic.at] ELSE s.mic]
           ELSE s
\* What o becomes; the shared capture loses a consumer that has left.
Become(o, s) ==
  /\ ops' = [ops EXCEPT ![o] = Kept(s)]
  /\ shared' = IF s.attached THEN shared ELSE Detach(shared, o)

Active(o) == ~ops[o].terminal /\ (ops[o].kind = "file" \/ ops[o].at = "live")
Live == {o \in Ops : Active(o) /\ ops[o].kind = "session"}
Creating == {o \in Ops : ops[o].kind = "session" /\ ops[o].at \in {"queued", "reset"}}
Available == unload = "no" /\ ~dead
\* The tail promise: work starts when what was queued before is over.
Turn(o) == \A p \in Ops : p < o => ops[p].at = "over"

\* detect() and createSession(): a session waits for earlier recordings.
Detect(n) ==
  /\ Len(ops) < MaxOps /\ Available /\ Live = {} /\ Creating = {}
  /\ ops' = Append(ops, [NewOperation("file") EXCEPT !.accepted = n])
  /\ UNCHANGED <<unload, dead, scorer, shared>>
CreateSession ==
  /\ Len(ops) < MaxOps /\ Available /\ Live = {} /\ Creating = {}
  /\ ops' = Append(ops, NewOperation("session"))
  /\ UNCHANGED <<unload, dead, scorer, shared>>

Unborn(s) == [Settle(s, "failed") EXCEPT !.at = "over"]

\* The work of o reaches the head of the queue.
WorkStarts(o) ==
  LET s == ops[o] IN
  /\ s.at = "queued" /\ Turn(o)
  /\ Become(o, IF s.kind = "session" THEN IF Available THEN [s EXCEPT !.at = "reset"] ELSE Unborn(s)
               ELSE [s EXCEPT !.at = IF s.terminal THEN "over" ELSE "normalize"])
  /\ UNCHANGED <<unload, dead, scorer>>

\* normalizeAudio() answers, or refuses the recording.
Normalizes(o) ==
  LET s == ops[o] IN
  /\ s.at = "normalize"
  /\ Become(o, [s EXCEPT !.at = IF s.terminal THEN "over" ELSE "reset"]) \/ Become(o, Unborn(s))
  /\ UNCHANGED <<unload, dead, scorer>>

\* The scorer was reset for o, which begins, a recording with all its audio.
Begins(s) ==
  IF s.terminal THEN [s EXCEPT !.at = "over"]
  ELSE IF s.kind = "session" THEN IF Available THEN [s EXCEPT !.at = "live"] ELSE Unborn(s)
  ELSE Finish(Accept([s EXCEPT !.at = "live", !.accepted = 0], s.accepted, 0))
Resets(o) ==
  /\ ops[o].at = "reset" /\ ~dead
  /\ scorer' = [of |-> o, frames |-> 0] /\ Become(o, Begins(ops[o]))
  /\ UNCHANGED <<unload, dead>>

\* The worker scores a frame.
FrameScored(o) ==
  /\ ops[o].pump = "score" /\ ~dead
  /\ scorer' = [scorer EXCEPT !.frames = @ + 1]
  /\ \E outcome \in Outcomes(ops[o]) : Become(o, Scored(ops[o], outcome))
  /\ UNCHANGED <<unload, dead>>

\* A worker that has failed refuses what it is asked.
Refuses(o) ==
  LET s == ops[o] IN
  /\ dead
  /\ \/ s.at = "reset" /\ Become(o, Unborn(s))
     \/ s.pump = "score" /\ Become(o, [Settle(s, "failed") EXCEPT !.pump = "settle", !.frame = <<>>])
  /\ UNCHANGED <<unload, dead, scorer>>

\* The last turn of a pump, and with it the next pump if there is work.
PumpSettled(o) ==
  /\ ops[o].pump = "settle" /\ Become(o, KickAgain([ops[o] EXCEPT !.pump = "idle"]))
  /\ UNCHANGED <<unload, dead, scorer>>

\* released.
WorkEnds(o) ==
  /\ ops[o].at = "live" /\ Released(ops[o]) /\ Become(o, [ops[o] EXCEPT !.at = "over"])
  /\ UNCHANGED <<unload, dead, scorer>>

\* Every active operation ends; those that shared a capture leave it.
AllSettle(how) ==
  /\ ops' = [o \in Ops |-> IF Active(o) THEN Settle(ops[o], how) ELSE ops[o]]
  /\ shared' = [shared EXCEPT !.consumers = @ \ Ops]

\* The failure handler, and unload().
WorkerFails ==
  /\ ~dead /\ unload # "done" /\ dead' = TRUE /\ AllSettle("failed")
  /\ UNCHANGED <<unload, scorer>>
Unload ==
  /\ unload = "no" /\ unload' = "queued" /\ AllSettle("cancelled")
  /\ UNCHANGED <<dead, scorer>>
UnloadStarts ==
  /\ unload = "queued" /\ Turn(Len(ops) + 1) /\ unload' = "asked"
  /\ UNCHANGED <<ops, dead, scorer, shared>>
UnloadEnds ==
  /\ unload = "asked" /\ unload' = "done"
  /\ UNCHANGED <<ops, dead, scorer, shared>>

----------------------------------------------------------------------------
(* The callers, and the microphones. *)

Quietly == UNCHANGED <<unload, dead, scorer>>
Takes(o) == o \in Live /\ ~ops[o].ending

CallerCancels(o) == Active(o) /\ Become(o, Settle(ops[o], "cancelled")) /\ Quietly
CallerFinishes(o) == Takes(o) /\ Become(o, Finish(ops[o])) /\ Quietly

Spent == MapThenSumSet(LAMBDA o : IF ops[o].kind = "session" THEN ops[o].accepted ELSE 0, Ops)
CallerPushes(o) ==
  /\ Takes(o) /\ ops[o].source \in {"none", "external"}
  /\ \E n \in Chunks, keeps \in 0 .. 1 :
       /\ Spent + n <= MaxAudio
       /\ Become(o, Accept([ops[o] EXCEPT !.source = "external"], n, keeps))
  /\ Quietly

\* startMicrophone(): a capture of its own.
CallerStartsMicrophone(o) ==
  /\ Takes(o) /\ ops[o].source = "none"
  /\ Become(o, [ops[o] EXCEPT !.source = "owned", !.capture = "starting", !.mic = NewCapture])
  /\ Quietly
MicrophoneHears(o) ==
  /\ Takes(o) /\ Delivers(ops[o].mic)
  /\ \E n \in Chunks, keeps \in 0 .. 1 : Spent + n <= MaxAudio /\ Become(o, Accept(ops[o], n, keeps))
  /\ Quietly
MicrophoneTurns(o) ==
  /\ \E m \in CaptureTurns(ops[o].mic) :
       LET s == [ops[o] EXCEPT !.mic = m]
       IN Become(o, IF m.failed /\ ~ops[o].mic.failed THEN Settle(s, "failed") ELSE s)
  /\ Quietly
MicrophoneStarts(o) ==
  LET s == ops[o]
      late == s.terminal \/ s.ending
      t == [s EXCEPT !.capture = IF Started(s.mic) /\ ~late THEN "held" ELSE "none",
                     !.mic = IF Started(s.mic) /\ late THEN Stop(@) ELSE @] IN
  /\ s.capture = "starting" /\ s.mic.promise # "pending"
  /\ Become(o, IF s.mic.promise = "rejected" /\ ~late THEN Settle(t, "failed") ELSE t)
  /\ Quietly
MicrophoneCloses(o) == ops[o].closing /\ Become(o, [ops[o] EXCEPT !.closing = FALSE]) /\ Quietly

\* BOUND: the shared capture is used while a session is attached to it.
Used == shared.consumers \cap Ops # {}

\* attachMicrophone(); the other consumer attaches and leaves as it likes.
CallerAttaches(o) ==
  /\ Takes(o) /\ ops[o].source = "none" /\ MayAttach(shared)
  /\ ops' = [ops EXCEPT ![o].source = "shared", ![o].attached = TRUE]
  /\ shared' = Attach(shared, o) /\ Quietly
OtherMoves ==
  /\ Used
  /\ \/ MayAttach(shared) /\ Other \notin shared.consumers /\ shared' = Attach(shared, Other)
     \/ Other \in shared.consumers /\ shared' = Detach(shared, Other)
  /\ UNCHANGED ops /\ Quietly

SharedStarts ==
  /\ Used /\ shared.state = "prepared" /\ shared' = StartHelper(shared) /\ UNCHANGED ops /\ Quietly
SharedStops ==
  /\ ~Terminal(shared) /\ shared' = StopHelper(shared) /\ UNCHANGED ops /\ Quietly

\* The shared capture has become h; if it failed, whoever listened fails.
SharedBecomes(h) ==
  LET told == IF h.state = "failed" THEN shared.consumers ELSE {} IN
  /\ shared' = h
  /\ ops' = [o \in Ops |-> IF o \in told THEN Settle(ops[o], "failed") ELSE ops[o]]
SharedTurns ==
  /\ \E m \in CaptureTurns(shared.mic) :
       LET h == [shared EXCEPT !.mic = m]
       IN SharedBecomes(IF m.failed /\ ~shared.mic.failed THEN FailHelper(h) ELSE h)
  /\ Quietly
SharedAcquires ==
  /\ ~shared.answered /\ shared.mic.promise # "pending"
  /\ SharedBecomes(Acquired(shared)) /\ Quietly

\* The shared capture hears n units and gives each consumer a copy.  The
\* other may throw, and is dropped, or stop the capture, before or after a
\* session is served.
SharedHears ==
  /\ Used /\ Listening(shared) /\ Delivers(shared.mic)
  /\ \E n \in Chunks, keeps \in 0 .. 1, does \in {"hears", "throws", "stops"},
        served \in {shared.consumers \ {Other}, {}} :
       /\ Spent + n <= MaxAudio
       /\ does # "hears" => Other \in shared.consumers
       /\ does # "stops" => served = shared.consumers \ {Other}
       /\ ops' = [o \in Ops |-> IF o \in served THEN Accept(ops[o], n, keeps) ELSE ops[o]]
       /\ LET h == [shared EXCEPT !.heard = @ + n] IN
          shared' = CASE does = "hears" -> h
                      [] does = "throws" -> Detach(h, Other)
                      [] does = "stops" -> StopHelper(h)
  /\ Quietly

----------------------------------------------------------------------------
(* The system. *)

Owner == (\E o \in Ops : WorkStarts(o) \/ WorkEnds(o) \/ PumpSettled(o) \/ MicrophoneStarts(o))
         \/ UnloadStarts \/ SharedAcquires
Environment == (\E o \in Ops : Normalizes(o) \/ Resets(o) \/ FrameScored(o) \/ Refuses(o)
                               \/ MicrophoneHears(o) \/ MicrophoneTurns(o) \/ MicrophoneCloses(o))
               \/ UnloadEnds \/ WorkerFails \/ SharedTurns \/ SharedHears
Callers == (\E o \in Ops : CallerCancels(o) \/ CallerFinishes(o) \/ CallerPushes(o)
                           \/ CallerStartsMicrophone(o) \/ CallerAttaches(o))
           \/ (\E n \in FileLengths : Detect(n)) \/ CreateSession \/ Unload
           \/ OtherMoves \/ SharedStarts \/ SharedStops

ListeningNext == Owner \/ Environment \/ Callers
ListeningSpec == ListeningInit /\ [][ListeningNext]_vvars

\* Promises settle, the worker answers, a context that is asked to close closes.
Turns == (\E o \in Ops : WorkStarts(o) \/ WorkEnds(o) \/ PumpSettled(o) \/ Normalizes(o)
                         \/ Resets(o) \/ FrameScored(o) \/ Refuses(o) \/ MicrophoneCloses(o))
         \/ UnloadStarts \/ UnloadEnds
FairListeningSpec == ListeningSpec /\ WF_vvars(Turns)

----------------------------------------------------------------------------
(* Properties. *)

OperationTypeOK(s) ==
  /\ s.kind \in {"file", "session"} /\ s.at \in Stages /\ s.pump \in {"idle", "score", "settle"}
  /\ s.result \in Results /\ (s.terminal <=> s.result # "none")
  /\ s.queue \in Seq(1 .. s.accepted) /\ Len(s.frame) <= FrameSize /\ s.held \in 0 .. 1
  /\ s.seg.position <= s.accepted /\ s.mic \in CaptureRecord /\ s.scores \in Seq(Scores)
  /\ s.source \in {"none", "external", "owned", "shared"}
\* The type invariant.
ListeningTypeOK ==
  /\ unload \in {"no", "queued", "asked", "done"} /\ dead \in BOOLEAN
  /\ scorer.of \in 0 .. MaxOps /\ \A o \in Ops : OperationTypeOK(ops[o])
  /\ shared.state \in HelperStates /\ shared.consumers \subseteq Ops \cup {Other}
  /\ shared.mic \in CaptureRecord

\* The scorer keeps the audio it has heard: whenever a frame is scored it was
\* reset for that operation and has scored every frame of it since, and no
\* other's, whatever was cancelled or failed in between; nothing is asked of
\* it while it is being unloaded (model.ts:49, session.ts:122).
ScorerIsReset ==
  /\ \A o \in Ops : ops[o].pump = "score" /\ ~dead =>
       scorer = [of |-> o, frames |-> Len(ops[o].scores)]
  /\ unload \in {"asked", "done"} =>
       \A o \in Ops : ops[o].pump # "score" /\ ops[o].at # "reset"

\* However it ends, an operation reports ranges in order that do not overlap,
\* each with the audio of its range; one that is complete has scored all the
\* audio and reports exactly the speech that lasted (segmenter.ts:59, :80).
RangesAreTrue ==
  \A o \in Ops : LET s == ops[o] IN
     /\ WellFormed(s.seg)
     /\ s.result = "complete" /\ s.at = "live" =>
          s.seg.position = s.accepted /\ SpeechIsFound(s.seg, s.ends, s.scores)

\* A session that shares a capture has heard all of it, from its first unit;
\* it is not left listening to one that failed, and one that is over or asked
\* to finish is not served.
Served(o) ==
  /\ o \in Live /\ ops[o].source = "shared" /\ ~ops[o].ending =>
       o \in shared.consumers \/ shared.state = "stopped"
  /\ o \in shared.consumers => o \in Live /\ ~ops[o].ending /\ ops[o].accepted = shared.heard
\* A capture that is stopped or has failed, shared or not, holds no device
\* even if it is granted later, and has no consumers (microphone.ts:43, :89).
MicrophoneIsShared ==
  /\ \A o \in Ops : Served(o)
  /\ NoLeak(shared.mic)
  /\ Terminal(shared) => shared.consumers = {} /\ (shared.mic.at # "none" => shared.mic.stopped)
  /\ \A o \in Ops : LET s == ops[o] IN
       NoLeak(s.mic) /\ ((s.terminal \/ s.ending) /\ s.mic.at # "none" => s.mic.stopped)

\* Detections, sessions asked to end and unload() end without help: in the end
\* nothing is left but sessions somebody uses (session.ts:115, model.ts:48).
AtRest == unload \in {"no", "done"} /\ \A o \in Ops : ops[o].at = "over" \/ (o \in Live /\ ~ops[o].ending)
ListeningEnds == []<>AtRest
=============================================================================
