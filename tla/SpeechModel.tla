----------------------------- MODULE SpeechModel ----------------------------
(***************************************************************************)
(* TextToSpeechModel, Generation, Speech (wfloat-web tts-next/model.ts)    *)
(* and WebAudioPlayback (tts-next/playback.ts): one pump synthesizes the   *)
(* generations of a model, one speech at a time is played, each on a       *)
(* driver of its own, and callers speak, pause, resume, cancel, dispose    *)
(* and read at every await.                                                *)
(*                                                                         *)
(* Audio is counted: every chunk lasts ChunkLength ticks of the audio      *)
(* clock, chunk i from i * ChunkLength on.  An action is a turn of the     *)
(* event loop with all the methods that call one another in it.  Callbacks *)
(* of the application run in turns of their own (notify), so what they do  *)
(* are the callers' actions.                                               *)
(***************************************************************************)
EXTENDS Integers, Sequences, FiniteSetsExt

CONSTANTS
  Options,       \* the generations a caller may ask for
  UnitCounts,    \* how many units a segment may be prepared into
  ChunkLength,   \* ticks of one chunk
  Ahead,         \* AHEAD_MS, in ticks
  StartBuffers,  \* the values of startBufferMs, in ticks
  MaxJobs,       \* BOUND: generations of one model
  MaxSpeeches,   \* BOUND: speeches of one model
  None           \* no speech, no job

\* The pauses after the segments, in chunks of silence.
OptionRecord == [retained : BOOLEAN, pauses : Seq(Nat)]

ASSUME SpeechAssumption ==
  /\ Options # {} /\ \A o \in Options : o \in OptionRecord /\ o.pauses # <<>>
  /\ UnitCounts # {} /\ UnitCounts \subseteq Nat \ {0}
  /\ ChunkLength \in Nat \ {0} /\ Ahead \in Nat
  /\ StartBuffers # {} /\ StartBuffers \subseteq 1 .. Ahead
  /\ MaxJobs \in Nat /\ MaxSpeeches \in Nat /\ None \notin Nat

VARIABLES
  jobs,      \* the Generations created, in order
  speeches,  \* the Speeches created, in order
  active,    \* the speech that is not paused
  pump,      \* what the pump is doing, and for which job
  closed     \* unload() was called

svars == <<jobs, speeches, active, pump, closed>>

Idle == [at |-> "idle", job |-> None]
Queued == [at |-> "queued", job |-> None]

SpeechInit == jobs = <<>> /\ speeches = <<>> /\ active = None /\ pump = Idle /\ closed = FALSE

\* What a turn cannot choose: whether the audio nodes start, and the buffer
\* that the measured speed of the synthesis asks for.
Conditions == [starts : BOOLEAN, buffer : StartBuffers]

----------------------------------------------------------------------------
(* Generation. *)

NewJob(o) ==
  [opt |-> o, segment |-> 1, units |-> 0, unit |-> 0, silence |-> 0, made |-> 0,
   base |-> 0, done |-> FALSE, disposed |-> FALSE, error |-> FALSE, spoken |-> FALSE,
   awaited |-> FALSE]

Runnable(x) == ~x.done /\ ~x.disposed /\ ~x.error
Duration(x) == x.made * ChunkLength

\* The promise `changed` resolves: who awaits it finds a chunk, the end or an
\* error.
Signalled(x) == [x EXCEPT !.awaited = FALSE]

\* dispose: the data goes, the readers see it.
Disposed(x) == Signalled([NewJob(x.opt) EXCEPT !.disposed = TRUE, !.spoken = x.spoken])

\* releaseThrough: a generation that is not retained drops what was played.
\* Mutant of Released: also the chunk that is playing.
ReleasedEarly(x, index) == IF x.opt.retained \/ x.made = 0 THEN x
                           ELSE [x EXCEPT !.base = Min({index + 1, x.made})]
Released(x, index) == IF x.opt.retained THEN x ELSE [x EXCEPT !.base = Max({@, index})]

----------------------------------------------------------------------------
(* WebAudioPlayback, and the clock of its speech. *)

NewSpeech(j, driver) ==
  [job |-> j, paused |-> TRUE, terminal |-> FALSE, driver |-> driver,
   index |-> 0, scheduled |-> 0, saved |-> 0, started |-> FALSE, ticking |-> FALSE,
   start |-> "none", stale |-> {},
   running |-> FALSE, position |-> 0, elapsed |-> 0, end |-> 0,
   pending |-> {}, sources |-> {}]

StartOf(i) == i * ChunkLength
EndOf(i) == (i + 1) * ChunkLength

\* positionMs of the driver: the clock since the origin, up to the end.
DriverPosition(p) ==
  IF p.running THEN Min({p.end, Max({p.position, p.elapsed})}) ELSE p.position
\* positionMs of the speech.
Position(p) == IF p.started THEN DriverPosition(p) ELSE p.saved

\* Mutant of Late: an underrun does not move the origin.
LateNever(p, chunks) == FALSE
\* The clock has passed the end of what is scheduled (or nothing is).
Late(p, chunks) ==
  p.elapsed > p.end /\ Max({StartOf(Min(chunks)), p.position}) >= p.end

\* append of a running driver: chunks that are over are skipped, the others
\* become sources, and after an underrun the origin moves.
Scheduled(p, chunks) ==
  LET due == {i \in chunks : EndOf(i) > DriverPosition(p)}
  IN IF due = {} THEN p
     ELSE [p EXCEPT !.sources = @ \cup due,
                    !.end = Max({@, EndOf(Max(due))}),
                    !.elapsed = IF Late(p, due) THEN p.end ELSE @]

Appended(p, chunks) ==
  IF p.running THEN Scheduled(p, chunks) ELSE [p EXCEPT !.pending = @ \cup chunks]

\* Speech.stop and the driver's: a start under way is of an older epoch, and
\* the next one sets the driver's clock anew.
Superseded(p) ==
  CASE p.start = "none" -> {} [] p.start = "resuming" -> {"resuming"}
    [] p.start \in {"resolved", "rejected"} -> {"settled"}
Stopped(p) ==
  [NewSpeech(p.job, p.driver) EXCEPT
     !.paused = p.paused, !.terminal = p.terminal, !.index = p.index, !.saved = p.saved,
     !.scheduled = p.index, !.stale = p.stale \cup Superseded(p)]

\* finish: the driver is stopped and closed; nothing of the speech is used
\* again, and what it has under way finds its epoch over.
Over(p) == [NewSpeech(p.job, FALSE) EXCEPT !.terminal = TRUE]

----------------------------------------------------------------------------
(* Speech.update, and what its turn does to the model. *)

HasChunk(p, x) == x.base <= p.index /\ p.index < x.made

\* takeLookahead: the chunks to schedule now.
Lookahead(p, x) ==
  {i \in p.scheduled .. x.made - 1 : x.base <= i /\ StartOf(i) <= Position(p) + Ahead}

\* The driver's start, up to its await, and started is set.
Started(p, chunks) ==
  [Stopped(p) EXCEPT !.position = p.saved, !.end = p.saved, !.pending = chunks,
                     !.scheduled = @ + Cardinality(chunks),
                     !.started = TRUE, !.start = "resuming"]

\* Mutant of Buffered: playback waits for the buffer though nothing follows.
BufferedAlways(p, x, buffer) == Duration(x) - Position(p) >= buffer
Buffered(p, x, buffer) == x.done \/ Duration(x) - Position(p) >= buffer

\* update: of a speech that is neither paused nor over.  The audio nodes may
\* refuse to start, and the speech fails.
Updated(p, x, c) ==
  CASE p.started ->
         LET chunks == Lookahead(p, x)
         IN IF p.running /\ chunks # {} /\ ~c.starts THEN Over(p)
            ELSE Appended([p EXCEPT !.scheduled = @ + Cardinality(chunks)], chunks)
    [] ~p.started /\ HasChunk(p, x) ->
         IF p.driver /\ Buffered(p, x, c.buffer) THEN Started(p, Lookahead(p, x)) ELSE p
    [] ~p.started /\ ~HasChunk(p, x) -> IF x.done THEN Over(p) ELSE p

Woken == IF pump = Idle /\ ~closed THEN Queued ELSE pump

\* The active speech s becomes p.  When it is over (finish) there is no active
\* speech, and a generation that was made for it is disposed.
Becomes(js, ss, s, p) ==
  /\ speeches' = [ss EXCEPT ![s] = p]
  /\ active' = IF p.terminal THEN None ELSE s
  /\ jobs' = IF p.terminal /\ ~js[p.job].opt.retained
             THEN [js EXCEPT ![p.job] = Disposed(@)] ELSE js

\* signal: the readers and the children see the change; the children that are
\* not active are paused, and return at once.
Signal(js, j, c) ==
  IF active # None /\ speeches[active].job = j
  THEN \E p \in {Updated(speeches[active], js[j], c)} :
         Becomes([js EXCEPT ![j] = Signalled(@)], speeches, active, p)
  ELSE jobs' = [js EXCEPT ![j] = Signalled(@)] /\ UNCHANGED <<speeches, active>>

\* The speeches S are over, and the generations D disposed.
End(S, D) ==
  /\ speeches' = [s \in DOMAIN speeches |-> IF s \in S THEN Over(speeches[s]) ELSE speeches[s]]
  /\ jobs' = [j \in DOMAIN jobs |-> IF j \in D THEN Disposed(jobs[j]) ELSE jobs[j]]
  /\ active' = IF active \in S THEN None ELSE active

Children(j) == {s \in DOMAIN speeches : speeches[s].job = j /\ ~speeches[s].terminal}
\* A generation that is not retained goes with its speech.
Finish(s) == End({s}, {j \in DOMAIN jobs : j = speeches[s].job /\ ~jobs[j].opt.retained})

\* pause of the speech that is playing: its position is saved.
Paused(p) == [Stopped(p) EXCEPT !.saved = Position(p), !.paused = TRUE]

\* activate: the speech that was playing is paused.
\* Mutant of Activate: it goes on.
ActivateOver(js, ss, s, c) ==
  /\ \E p \in {Updated([ss[s] EXCEPT !.paused = FALSE], js[ss[s].job], c)} : Becomes(js, ss, s, p)
  /\ pump' = Woken
Activate(js, ss, s, c) ==
  /\ \E p \in {Updated([ss[s] EXCEPT !.paused = FALSE], js[ss[s].job], c)} :
       Becomes(js, [t \in DOMAIN ss |-> IF t = active /\ t # s THEN Paused(ss[t]) ELSE ss[t]], s, p)
  /\ pump' = Woken

----------------------------------------------------------------------------
(* The callers. *)

Generate(o) ==
  /\ ~closed /\ o.retained /\ Len(jobs) < MaxJobs
  /\ jobs' = Append(jobs, NewJob(o)) /\ pump' = Woken
  /\ UNCHANGED <<speeches, active, closed>>

\* attach: the driver may be missing, and then fails the speech in a turn of
\* its own.
Attach(js, j, driver, c) ==
  /\ ~closed /\ Len(speeches) < MaxSpeeches /\ UNCHANGED closed
  /\ Activate([js EXCEPT ![j].spoken = TRUE], Append(speeches, NewSpeech(j, driver)),
              Len(speeches) + 1, c)

Speak(o, driver, c) ==
  /\ ~o.retained /\ Len(jobs) < MaxJobs
  /\ Attach(Append(jobs, NewJob(o)), Len(jobs) + 1, driver, c)

\* generation.speak(): assertOpen throws for one that is disposed or failed.
SpeakGeneration(j, driver, c) ==
  /\ jobs[j].opt.retained /\ ~jobs[j].disposed /\ ~jobs[j].error
  /\ Attach(jobs, j, driver, c)

CallerPauses(s) ==
  /\ ~speeches[s].terminal /\ ~speeches[s].paused
  /\ active' = (IF active = s THEN None ELSE active) /\ pump' = Woken
  /\ speeches' = [speeches EXCEPT ![s] = Paused(@)]
  /\ UNCHANGED <<jobs, closed>>
CallerResumes(s, c) ==
  ~closed /\ ~speeches[s].terminal /\ Activate(jobs, speeches, s, c) /\ UNCHANGED closed
CallerCancels(s) ==
  ~speeches[s].terminal /\ Finish(s) /\ pump' = Woken /\ UNCHANGED closed
CallerDisposes(j) ==
  /\ jobs[j].opt.retained /\ ~jobs[j].disposed
  /\ End(Children(j), {j}) /\ pump' = Woken /\ UNCHANGED closed

\* The audio iterator of a generation: whoever has read all there is, and
\* wants more, awaits a change; any other answer is given at once.
AwaitChunk(j) ==
  /\ jobs[j].opt.retained /\ Runnable(jobs[j]) /\ ~jobs[j].awaited
  /\ jobs' = [jobs EXCEPT ![j].awaited = TRUE]
  /\ UNCHANGED <<speeches, active, pump, closed>>

\* unload: every generation is disposed, and with it its speeches; the
\* backend rejects what it was asked (StepFails).
Unload ==
  /\ ~closed /\ closed' = TRUE /\ UNCHANGED pump
  /\ End({s \in DOMAIN speeches : ~speeches[s].terminal}, {j \in DOMAIN jobs : ~jobs[j].disposed})

----------------------------------------------------------------------------
(* The pump. *)

Foreground(j) == active # None /\ speeches[active].job = j
\* The job of the active speech, while it is not far enough ahead.
Needed ==
  {j \in DOMAIN jobs : /\ Foreground(j) /\ Runnable(jobs[j])
                       /\ Duration(jobs[j]) - Position(speeches[active]) < Ahead}
Background == {j \in DOMAIN jobs : jobs[j].opt.retained /\ Runnable(jobs[j])}
Others == {j \in Background : ~Foreground(j)}

\* Mutant of Chosen: the newest of the other generations.
ChosenNewest ==
  IF Needed # {} THEN Needed ELSE IF Others # {} THEN {Max(Others)} ELSE Background
\* The job of the next step, if any.
Chosen == IF Needed # {} THEN Needed ELSE IF Others # {} THEN {Min(Others)} ELSE Background

AddChunk(js, j, c) == Signal([js EXCEPT ![j].made = @ + 1], j, c)

\* The segment is over; the last one completes the generation.
NextSegment(j, c) ==
  LET y == [jobs[j] EXCEPT !.segment = @ + 1, !.units = 0, !.unit = 0]
  IN IF jobs[j].segment < Len(jobs[j].opt.pauses)
     THEN jobs' = [jobs EXCEPT ![j] = y] /\ UNCHANGED <<speeches, active>>
     ELSE Signal([jobs EXCEPT ![j] = [y EXCEPT !.done = TRUE]], j, c)

\* One turn of the loop: a step that waits for the backend is begun, one that
\* does not is made.
PumpStops ==
  /\ pump = Queued /\ (closed \/ Chosen = {})
  /\ pump' = Idle /\ UNCHANGED <<jobs, speeches, active, closed>>
PumpAsks ==
  /\ pump = Queued /\ ~closed
  /\ \E j \in Chosen :
       /\ jobs[j].units = 0 \/ jobs[j].unit < jobs[j].units
       /\ pump' = [at |-> IF jobs[j].units = 0 THEN "prepare" ELSE "synthesize", job |-> j]
  /\ UNCHANGED <<jobs, speeches, active, closed>>
PumpSteps(c) ==
  /\ pump = Queued /\ ~closed
  /\ \E j \in Chosen :
       /\ jobs[j].units > 0 /\ jobs[j].unit = jobs[j].units
       /\ IF jobs[j].silence > 0
          THEN AddChunk([jobs EXCEPT ![j].silence = @ - 1], j, c)
          ELSE NextSegment(j, c)
  /\ UNCHANGED <<pump, closed>>

\* What the backend answers; a job that is not runnable any more ignores it.
Prepared(n) ==
  LET j == pump.job
  IN /\ pump.at = "prepare" /\ pump' = Queued
     /\ jobs' = IF ~Runnable(jobs[j]) THEN jobs
                ELSE [jobs EXCEPT ![j].units = n, ![j].silence = jobs[j].opt.pauses[jobs[j].segment]]
     /\ UNCHANGED <<speeches, active, closed>>
Synthesized(c) ==
  LET j == pump.job
  IN /\ pump.at = "synthesize" /\ pump' = Queued
     /\ IF Runnable(jobs[j]) THEN AddChunk([jobs EXCEPT ![j].unit = @ + 1], j, c)
        ELSE UNCHANGED <<jobs, speeches, active>>
     /\ UNCHANGED closed
\* Generation.fail: the children fail, paused or not.
StepFails ==
  LET j == pump.job
  IN /\ j # None /\ pump' = Queued /\ UNCHANGED closed
     /\ IF ~Runnable(jobs[j]) THEN UNCHANGED <<jobs, speeches, active>>
        ELSE IF ~jobs[j].opt.retained THEN End(Children(j), {j})
        ELSE /\ speeches' = [s \in DOMAIN speeches |->
                               IF s \in Children(j) THEN Over(speeches[s]) ELSE speeches[s]]
             /\ jobs' = [jobs EXCEPT ![j] = Signalled([@ EXCEPT !.error = TRUE])]
             /\ active' = IF active \in Children(j) THEN None ELSE active

----------------------------------------------------------------------------
(* Playback: the driver, the clock and the timer of a speech. *)

\* resume() of the audio context settles, and the driver schedules what is
\* pending.
ContextResumes(s, resumed, c) ==
  LET p == speeches[s]
      r == [p EXCEPT !.running = TRUE, !.elapsed = p.position, !.pending = {}]
  IN /\ p.start = "resuming"
     /\ speeches' = [speeches EXCEPT ![s] =
          IF ~resumed THEN [p EXCEPT !.start = "rejected"]
          ELSE IF p.pending # {} /\ ~c.starts THEN [r EXCEPT !.start = "rejected"]
          ELSE [Scheduled(r, p.pending) EXCEPT !.start = "resolved"]]
     /\ UNCHANGED <<jobs, active, pump, closed>>

\* A start of an older epoch: the driver returns, the speech ignores it.
StaleStart(s) ==
  /\ \E x \in speeches[s].stale :
       speeches' = [speeches EXCEPT ![s].stale =
                      (@ \ {x}) \cup (IF x = "resuming" THEN {"settled"} ELSE {})]
  /\ UNCHANGED <<jobs, active, pump, closed>>

\* tick, up to update: the index follows the position, and a speech without a
\* chunk to play stops, to buffer or to finish.
Advanced(p, x) ==
  [p EXCEPT !.index = Max({@, Min({x.made, Position(p) \div ChunkLength})})]
Ticked(p, x) ==
  IF HasChunk(p, x) THEN p ELSE Stopped([p EXCEPT !.saved = Position(p)])

\* tick: what was played is released.
Tick(s, c, begins) ==
  /\ \E q \in {Advanced(speeches[s], jobs[speeches[s].job])} :
     \E x \in {Released(jobs[q.job], q.index)} :
     \E r \in {Ticked(q, x)} :
     \E p \in {Updated([r EXCEPT !.start = IF begins THEN "none" ELSE @], x, c)} :
       Becomes([jobs EXCEPT ![q.job] = x], speeches, s,
               [p EXCEPT !.ticking = ~p.terminal /\ p.started /\ (begins \/ r.ticking)])
  /\ pump' = Woken /\ UNCHANGED closed

TimerTicks(s, c) == speeches[s].ticking /\ Tick(s, c, FALSE)

\* The promise of start: the timer begins, or the speech fails.
StartSettles(s, c) ==
  \/ speeches[s].start = "resolved" /\ Tick(s, c, TRUE)
  \/ speeches[s].start = "rejected" /\ Finish(s) /\ pump' = Woken /\ UNCHANGED closed

\* The audio clock; it is not followed further than past the end.  A start
\* that was rejected is handled in the same turn.
Clock(s) ==
  /\ speeches[s].running /\ speeches[s].elapsed <= speeches[s].end
  /\ speeches[s].start # "rejected"
  /\ speeches' = [speeches EXCEPT ![s].elapsed = @ + 1]
  /\ UNCHANGED <<jobs, active, pump, closed>>

\* The driver could not be created: the speech fails in a turn of its own.
NoDriver(s) ==
  /\ ~speeches[s].terminal /\ ~speeches[s].driver
  /\ Finish(s) /\ pump' = Woken /\ UNCHANGED closed

----------------------------------------------------------------------------
Calls ==
  \/ \E o \in Options : Generate(o) \/ \E d \in BOOLEAN, c \in Conditions : Speak(o, d, c)
  \/ \E j \in DOMAIN jobs :
       CallerDisposes(j) \/ \E d \in BOOLEAN, c \in Conditions : SpeakGeneration(j, d, c)
  \/ \E s \in DOMAIN speeches :
       CallerPauses(s) \/ CallerCancels(s) \/ \E c \in Conditions : CallerResumes(s, c)
  \/ \E j \in DOMAIN jobs : AwaitChunk(j)
  \/ Unload
PumpTurns == PumpStops \/ PumpAsks \/ \E c \in Conditions : PumpSteps(c)
BackendAnswers ==
  (\E n \in UnitCounts : Prepared(n)) \/ (\E c \in Conditions : Synthesized(c)) \/ StepFails
DriverResumes(s) == \E resumed \in BOOLEAN, c \in Conditions : ContextResumes(s, resumed, c)

SpeechNext ==
  \/ Calls \/ PumpTurns \/ BackendAnswers
  \/ \E s \in DOMAIN speeches :
       \/ Clock(s) \/ StaleStart(s) \/ NoDriver(s) \/ DriverResumes(s)
       \/ \E c \in Conditions : StartSettles(s, c) \/ TimerTicks(s, c)

SpeechSpec == SpeechInit /\ [][SpeechNext]_svars

\* The code: the event loop turns and timers fire.
CodeFairness ==
  /\ WF_svars(PumpTurns)
  /\ \A s \in 1 .. MaxSpeeches :
       /\ WF_svars(s \in DOMAIN speeches /\ \E c \in Conditions : StartSettles(s, c))
       /\ WF_svars(s \in DOMAIN speeches /\ \E c \in Conditions : TimerTicks(s, c))
       /\ WF_svars(s \in DOMAIN speeches /\ NoDriver(s))
\* The platform: the backend answers, the audio context resumes and its clock
\* runs.
PlatformFairness ==
  /\ WF_svars(BackendAnswers)
  /\ \A s \in 1 .. MaxSpeeches :
       /\ WF_svars(s \in DOMAIN speeches /\ DriverResumes(s))
       /\ WF_svars(s \in DOMAIN speeches /\ Clock(s))

FairSpeechSpec == SpeechSpec /\ CodeFairness /\ PlatformFairness

----------------------------------------------------------------------------
(* Properties. *)

Job == [opt : Options, segment : Nat, units : Nat, unit : Nat, silence : Nat, made : Nat,
        base : Nat, done : BOOLEAN, disposed : BOOLEAN, error : BOOLEAN, spoken : BOOLEAN,
        awaited : BOOLEAN]
Starts == {"resuming", "resolved", "rejected"}
SpeechState ==
  [job : Nat, paused : BOOLEAN, terminal : BOOLEAN, driver : BOOLEAN, index : Nat,
   scheduled : Nat, saved : Nat, started : BOOLEAN, ticking : BOOLEAN,
   start : Starts \cup {"none"}, stale : SUBSET {"resuming", "settled"}, running : BOOLEAN, position : Nat,
   elapsed : Nat, end : Nat, pending : SUBSET Nat, sources : SUBSET Nat]

\* Types, and how the fields of a generation and of a speech belong together:
\* what is released was made, what is scheduled exists and is not behind what
\* is played, and only a started driver has audio (the classes of model.ts).
SpeechTypeOK ==
  /\ \A j \in DOMAIN jobs : jobs[j] \in Job /\ jobs[j].base <= jobs[j].made
  /\ \A s \in DOMAIN speeches :
       LET p == speeches[s] IN
       /\ p \in SpeechState /\ p.job \in DOMAIN jobs
       /\ ~p.terminal => /\ p.index <= p.scheduled /\ p.scheduled <= jobs[p.job].made
                         /\ jobs[p.job].base <= p.index /\ ~jobs[p.job].disposed
       /\ p.running \/ p.pending # {} => p.started
  /\ active \in DOMAIN speeches \cup {None}
  /\ pump \in {Idle, Queued} \cup [at : {"prepare", "synthesize"}, job : DOMAIN jobs]

\* "New speech on the same instance pauses its previous playback": the active
\* speech is the one that is neither paused nor over, and no other one has
\* audio scheduled or a timer running (activate, pause, finish).
OneVoice ==
  \A s \in DOMAIN speeches :
    /\ ~speeches[s].terminal /\ ~speeches[s].paused <=> active = s
    /\ speeches[s].sources # {} \/ speeches[s].ticking => active = s

\* Through pauses, resumptions, superseded starts and underruns the position
\* of a speech only moves with the clock, and only over a chunk that is
\* scheduled: no audio is skipped, repeated or counted unheard.
PositionHonest ==
  [][\A s \in DOMAIN speeches :
       LET p == speeches[s]  q == speeches'[s] IN
       ~q.terminal /\ Position(q) # Position(p) =>
         /\ Position(q) = Position(p) + 1 /\ q.elapsed = p.elapsed + 1
         /\ Position(p) \div ChunkLength \in q.sources]_svars

\* Direct speech keeps what is left to play, and synthesizes at most AHEAD_MS
\* ahead plus one chunk, however often it is paused (tts-next/README.md).
LookaheadBounded ==
  \A s \in DOMAIN speeches :
    LET p == speeches[s]  x == jobs[p.job] IN
    ~p.terminal /\ ~x.opt.retained =>
      x.base * ChunkLength <= Position(p) /\ Duration(x) < Position(p) + Ahead + ChunkLength

\* "Raw generation is FIFO": of two generations that nobody speaks the later
\* has no work done before the earlier is over, whatever is spoken in between.
RawFifo ==
  \A j, k \in DOMAIN jobs :
    /\ j < k /\ \A i \in {j, k} : jobs[i].opt.retained /\ ~jobs[i].spoken
    /\ jobs[k].units > 0 \/ jobs[k].made > 0
    => ~Runnable(jobs[j])

\* What the pump chooses keeps both promises.
WorkIsOrdered == LookaheadBounded /\ RawFifo

\* A speech that stays active ends: the pump, the timer, the driver and the
\* buffer of an underrun never all wait for one another.
SpeechesEnd == \A s \in 1 .. MaxSpeeches : active = s ~> active # s

\* Who awaits the next chunk of a generation gets it, or learns that the
\* generation is over, failed or disposed.
ReadersSettle ==
  \A j \in 1 .. MaxJobs :
    j \in DOMAIN jobs /\ jobs[j].awaited ~> j \in DOMAIN jobs /\ ~jobs[j].awaited
=============================================================================
