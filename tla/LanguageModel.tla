--------------------------- MODULE LanguageModel ----------------------------
(***************************************************************************)
(* LanguageModel and GenerationOperation (wfloat-web llm-next/model.ts):   *)
(* generations queue on one model, run rounds of the native backend,       *)
(* execute tools while and between rounds, and may be cancelled, or fail,  *)
(* at every await.                                                         *)
(*                                                                         *)
(* A promise that settles and the code that resumes from it are two steps  *)
(* (settled), because an abort may come in between.  Texts, arguments and  *)
(* token counts are abstracted; callbacks of the application appear as the *)
(* abort they may cause.  What the backend promises about a round is the   *)
(* part called the native round; NativeBridge models who keeps it.         *)
(***************************************************************************)
EXTENDS Naturals, Sequences, FiniteSets

CONSTANTS
  Gens,      \* the generations requested of the model
  Options,   \* the options the application may choose
  MaxCalls,  \* BOUND: tool calls of one generation
  None       \* no generation

Waits == {"prepare", "next", "parse", "closing", "drain", "stopWhen", "validate"}
Phases == Waits \cup {"idle", "queued", "begin", "bounded", "leaving", "done"}
Ran == {"running", "completed", "failed", "unanswered"}
CallStates == Ran \cup {"parsing", "pending", "dropped", "manual", "invalid"}
Reports == {"completed", "failed", "invalid", "notExecuted", "outcomeUnknown", "none"}
Reasons == {"none", "complete", "toolCalls", "maxRounds", "stopCondition",
            "maxTokens", "cancelled", "stopString"}

OptionRecord == [tools : {"none", "managed", "manual"}, limit : Nat \ {0},
                 afterGeneration : BOOLEAN, stopOnError : BOOLEAN,
                 maxRounds : Nat \ {0}, schema : BOOLEAN, corrections : Nat,
                 stopWhen : BOOLEAN]

ASSUME LanguageAssumption ==
  /\ Options # {} /\ Options \subseteq OptionRecord
  /\ \A o \in Options : o.schema => o.tools = "none"
  /\ MaxCalls \in Nat
  /\ None \notin Gens

VARIABLES
  closed,   \* LanguageModel.closed
  unload,   \* "no", "waiting" for the queue, "done"
  queue,    \* the operations the tail promise has not finished
  native,   \* the native round: whose it is, told to abort, done event sent
  gens      \* [Gens -> the state of a GenerationOperation]

lvars == <<closed, unload, queue, native, gens>>

NoRound == [gen |-> None, abort |-> FALSE, done |-> FALSE]
Fresh(o) ==
  [opt |-> o, phase |-> "idle", settled |-> "no", aborted |-> FALSE,
   failed |-> FALSE, ended |-> "no", reason |-> "none", round |-> 0,
   stop |-> "complete", corrections |-> 0, output |-> FALSE,
   calls |-> <<>>, pending |-> <<>>, awaited |-> {}, report |-> <<>>]

LanguageInit ==
  /\ closed = FALSE /\ unload = "no" /\ queue = <<>> /\ native = NoRound
  /\ gens = [g \in Gens |-> Fresh(CHOOSE o \in Options : TRUE)]

----------------------------------------------------------------------------
(* How an operation ends.                                                  *)

\* Mutant of Report: the snapshot shows the state of the call as it is.
ReportRaw(o, state) == state
\* roundsSnapshot: the message that pairs a call in the conversation.
Report(o, state) ==
  IF state \in {"completed", "failed", "invalid"} THEN state
  ELSE IF o.tools # "managed" THEN "none"
  ELSE IF state \in Ran THEN "outcomeUnknown" ELSE "notExecuted"

Snapshot(r) == [i \in DOMAIN r.calls |-> Report(r.opt, r.calls[i].state)]

Finish(r, reason) ==
  [r EXCEPT !.ended = "resolved", !.reason = reason, !.report = Snapshot(r),
            !.phase = "leaving", !.settled = "no"]

Fail(r) == IF r.aborted \/ r.ended # "no" THEN r
           ELSE [r EXCEPT !.failed = TRUE, !.aborted = TRUE]

Reject(r) ==
  [Fail(r) EXCEPT !.ended = "rejected", !.report = Snapshot(r),
                  !.phase = "leaving", !.settled = "no"]

\* Mutant of Raise: a cancellation hides the failure that caused it.
RaiseCancelled(r) == Finish(r, "cancelled")
\* check() throws: the failure, or the cancellation, which first gives the
\* text it has a bounded chance to be validated.
Raise(r) ==
  IF r.failed THEN Reject(r)
  ELSE IF r.opt.schema /\ r.round > 0 THEN [r EXCEPT !.phase = "bounded", !.settled = "no"]
  ELSE Finish(r, "cancelled")

\* The operation becomes r.  Leaving the loop over a round aborts the round.
Become(g, r) ==
  /\ gens' = [gens EXCEPT ![g] = r]
  /\ native' = IF native.gen = g /\ r.phase \in {"closing", "bounded", "leaving"}
               THEN [native EXCEPT !.abort = TRUE] ELSE native
  /\ UNCHANGED <<closed, unload, queue>>

----------------------------------------------------------------------------
(* Tools.                                                                  *)

Running(r) == {i \in DOMAIN r.calls : r.calls[i].state = "running"}
Mark(r, i, s) == [r EXCEPT !.calls[i].state = s]

\* The first k pending calls are executed.
Execute(r, k) ==
  [r EXCEPT !.pending = SubSeq(@, k + 1, Len(@)),
            !.calls = [i \in DOMAIN @ |->
               IF \E j \in 1 .. k : r.pending[j] = i
               THEN [@[i] EXCEPT !.state = "running"] ELSE @[i]]]

\* Mutant of Room: one too few.
RoomMinusOne(r) == IF r.opt.limit > Cardinality(Running(r)) + 1
                   THEN r.opt.limit - 1 - Cardinality(Running(r)) ELSE 0
Room(r) == IF r.opt.limit > Cardinality(Running(r))
           THEN r.opt.limit - Cardinality(Running(r)) ELSE 0

\* Mutant of MayPump: the queue of calls is emptied whatever has happened.
PumpsAlways(r) == TRUE
MayPump(r) == ~r.aborted /\ r.ended = "no"

\* pump(): what it may make of r.  The k-th tool it starts may abort the
\* generation from onToolStart, and is then not executed, or from execute, or
\* may fail at once under toolErrorBehavior stop; nothing starts after it.
Pumped(r) ==
  LET n == IF Room(r) < Len(r.pending) THEN Room(r) ELSE Len(r.pending)
      Dropped(k) == [Mark(Execute(r, k), r.pending[k], "dropped") EXCEPT !.aborted = TRUE]
      Aborted(k) == [Execute(r, k) EXCEPT !.aborted = TRUE]
      Failed(k) == Fail(Mark(Execute(r, k), r.pending[k], "failed"))
  IN
  IF ~MayPump(r) THEN {r}
  ELSE {Execute(r, n)} \cup {Dropped(k) : k \in 1 .. n} \cup {Aborted(k) : k \in 1 .. n}
       \cup (IF r.opt.stopOnError THEN {Failed(k) : k \in 1 .. n} ELSE {})

\* A tool ends: with its output, an error, an output that is no JSON value,
\* or, once aborted, an AbortError.  Then the next ones start.
ToolEnds(g, i) ==
  LET r == gens[g] IN
  /\ i \in Running(r)
  /\ \E s \in {Mark(r, i, "completed"),
               IF r.opt.stopOnError THEN Fail(Mark(r, i, "failed")) ELSE Mark(r, i, "failed"),
               Fail(Mark(r, i, "unanswered"))} :
       \E q \in Pumped(s) : Become(g, q)

----------------------------------------------------------------------------
(* The queue.                                                              *)

Generate(g) ==
  /\ gens[g].phase = "idle" /\ ~closed
  /\ \E o \in Options : gens' = [gens EXCEPT ![g] = [Fresh(o) EXCEPT !.phase = "queued"]]
  /\ queue' = Append(queue, g)
  /\ UNCHANGED <<closed, unload, native>>

Cancelled(r) == IF r.ended = "no" THEN [r EXCEPT !.aborted = TRUE] ELSE r

Cancel(g) ==
  /\ gens[g].phase # "idle" /\ gens[g].ended = "no" /\ ~gens[g].aborted
  /\ gens' = [gens EXCEPT ![g] = Cancelled(@)]
  /\ UNCHANGED <<closed, unload, queue, native>>

\* The microtask of cancel(): a generation that has not started ends at once.
CancelledUnstarted(g) ==
  /\ gens[g].phase = "queued" /\ gens[g].aborted /\ gens[g].ended = "no"
  /\ Become(g, [Finish(gens[g], "cancelled") EXCEPT !.phase = "queued"])

Run(g) ==
  LET r == gens[g] IN
  /\ r.phase = "queued" /\ Head(queue) = g
  /\ Become(g, IF r.ended # "no" THEN [r EXCEPT !.phase = "leaving"]
               ELSE IF r.aborted THEN Finish(r, "cancelled")
               ELSE [r EXCEPT !.phase = "prepare"])

\* Mutant of Left: the next operation does not wait for the round of this one.
LeftEarly(g) == TRUE
Left(g) == native.gen # g

\* "await closing": the queue is owned until the round is over.
Leave(g) ==
  /\ gens[g].phase = "leaving" /\ Left(g)
  /\ gens' = [gens EXCEPT ![g].phase = "done"]
  /\ queue' = Tail(queue)
  /\ UNCHANGED <<closed, unload, native>>

Unload ==
  /\ ~closed
  /\ closed' = TRUE /\ unload' = "waiting"
  /\ gens' = [g \in Gens |-> IF \E i \in DOMAIN queue : queue[i] = g
                             THEN Cancelled(gens[g]) ELSE gens[g]]
  /\ UNCHANGED <<queue, native>>

TailSettled == queue = <<>>

BackendUnload ==
  /\ unload = "waiting" /\ TailSettled
  /\ unload' = "done"
  /\ UNCHANGED <<closed, queue, native, gens>>

----------------------------------------------------------------------------
(* wait(): the awaited work settles; an abort that comes first wins.       *)

Settle(g, how) ==
  /\ gens[g].settled = "no" /\ ~gens[g].aborted
  /\ gens' = [gens EXCEPT ![g].settled = how]
  /\ UNCHANGED <<closed, unload, queue, native>>

\* Schemas, stopWhen and validation are prepared, answered and refined by the
\* application and the worker, and may fail.
WorkSettles(g) ==
  /\ gens[g].phase \in {"prepare", "parse", "stopWhen", "validate"}
  /\ Settle(g, "value") \/ Settle(g, "error")

\* iterator.next(): an event of the native round, or its end.
EventArrives(g) ==
  /\ gens[g].phase = "next" /\ (native.gen = g => ~native.done)
  /\ Settle(g, "value")

\* iterator.return() of a round that is over.
ReturnSettles(g) ==
  gens[g].phase = "closing" /\ native.gen # g /\ Settle(g, "value")

\* Promise.all of the jobs there were when the wait began.
JobsSettle(g) ==
  /\ gens[g].phase = "drain" /\ gens[g].awaited \cap Running(gens[g]) = {}
  /\ Settle(g, "value")

\* The native round ends once it has said done or is told to abort.
NativeEnds ==
  /\ native.abort \/ native.done
  /\ native' = NoRound
  /\ UNCHANGED <<closed, unload, queue, gens>>

\* The native round fails while the generation waits for its next event.
NativeFails(g) ==
  /\ gens[g].phase = "next" /\ native.gen = g /\ ~native.done
  /\ gens[g].settled = "no" /\ ~gens[g].aborted
  /\ gens' = [gens EXCEPT ![g].settled = "error"]
  /\ native' = NoRound
  /\ UNCHANGED <<closed, unload, queue>>

Interrupted(r) == r.settled = "no" /\ r.aborted

\* The wait throws: the abort, or the error of the work.
Raised(g) ==
  LET r == gens[g] IN
  /\ r.phase \in Waits
  /\ \/ Interrupted(r) /\ Become(g, Raise(r))
     \/ r.settled = "error" /\ Become(g,
          IF r.phase \in {"parse", "validate"} /\ r.aborted THEN Raise(r) ELSE Reject(r))

\* A cancelled generation gives its text 100 ms to be validated.
Bounded(g) ==
  /\ gens[g].phase = "bounded"
  /\ \E v \in BOOLEAN : Become(g, Finish([gens[g] EXCEPT !.output = v], "cancelled"))

----------------------------------------------------------------------------
(* The rounds, from await to await.                                        *)

Resumed(g, phase) == gens[g].phase = phase /\ gens[g].settled = "value"
Goto(r, phase) == [r EXCEPT !.phase = phase, !.settled = "no"]

Prepared(g) == Resumed(g, "prepare") /\ Become(g, Goto(gens[g], "begin"))

BeginRound(g) ==
  LET r == gens[g] IN
  /\ r.phase = "begin"
  /\ IF r.aborted THEN Become(g, Raise(r))
     ELSE /\ gens' = [gens EXCEPT ![g] =
                [Goto(r, "next") EXCEPT !.round = @ + 1, !.stop = "complete"]]
          /\ native' = [NoRound EXCEPT !.gen = g]
          /\ UNCHANGED <<closed, unload, queue>>

\* receiveCall: the call is part of the conversation before its arguments
\* are parsed; one of a tool nobody defined is answered at once.
ReceiveCall(r, known) ==
  [Goto(r, IF known THEN "parse" ELSE "next") EXCEPT
     !.calls = Append(@, [round |-> r.round, state |-> IF known THEN "parsing" ELSE "invalid"])]

NextEvent(g) ==
  LET r == gens[g] IN
  /\ Resumed(g, "next")
  /\ \/ native.gen # g /\ Become(g, Goto(r, "closing"))
     \/ /\ native.gen = g /\ r.stop # "stopString"
        /\ \/ \E known \in {r.opt.tools # "none", FALSE} :
                Len(r.calls) < MaxCalls /\ Become(g, ReceiveCall(r, known))
           \/ /\ gens' = [gens EXCEPT ![g] = [Goto(r, "next") EXCEPT !.stop = "stopString"]]
              /\ native' = [native EXCEPT !.abort = TRUE]
              /\ UNCHANGED <<closed, unload, queue>>
     \/ /\ native.gen = g
        /\ \E s \in {"complete", "maxTokens"} :
             gens' = [gens EXCEPT ![g] = [Goto(r, "next") EXCEPT
                        !.stop = IF @ = "stopString" THEN @ ELSE s]]
        /\ native' = [native EXCEPT !.done = TRUE]
        /\ UNCHANGED <<closed, unload, queue>>

\* A valid call of a managed tool is queued, and may start at once.
Accept(r) ==
  LET q == [r EXCEPT !.pending = Append(@, Len(r.calls))] IN
  IF r.opt.afterGeneration THEN {q} ELSE Pumped(q)

Parsed(g) ==
  LET r == Goto(gens[g], "next")  i == Len(r.calls) IN
  /\ Resumed(g, "parse")
  /\ \/ ~r.aborted /\ Become(g, Mark(r, i, "invalid"))
     \/ r.aborted /\ Become(g, Raise(r))
     \/ r.opt.tools = "manual" /\ Become(g, Mark(r, i, "manual"))
     \/ r.opt.tools = "managed" /\ \E q \in Accept(Mark(r, i, "pending")) : Become(g, q)

Called(r) == \E i \in DOMAIN r.calls : r.calls[i].round = r.round
Manual(r) == r.opt.tools = "manual" /\ Called(r)

NextRound(r) ==
  IF r.round < r.opt.maxRounds THEN Goto(r, "begin") ELSE Finish(r, "maxRounds")

\* The text does not satisfy the schema: ask again, or give up.
Correct(r) ==
  IF r.corrections >= r.opt.corrections THEN Reject(r)
  ELSE NextRound([r EXCEPT !.corrections = @ + 1])

Conclude(r, invalid) ==
  IF invalid /\ r.stop = "complete" THEN Correct(r)
  ELSE IF r.stop # "complete" THEN Finish(r, r.stop)
  ELSE IF Manual(r) THEN Finish(r, "toolCalls")
  ELSE IF ~Called(r) THEN Finish(r, "complete")
  ELSE NextRound(r)

AfterStop(r) ==
  IF r.opt.schema THEN Goto(r, "validate") ELSE Conclude(r, FALSE)

AfterDrain(r) ==
  IF r.aborted THEN Raise(r)
  ELSE IF r.stop = "complete" /\ ~Manual(r) /\ r.opt.stopWhen THEN Goto(r, "stopWhen")
  ELSE AfterStop(r)

\* Mutant of Drained: the jobs are awaited once.
DrainedOnce(r) == AfterDrain(r)
\* drain(): tools started by the end of another are awaited too.
Drained(r) ==
  IF Running(r) = {} /\ r.pending = <<>> THEN AfterDrain(r)
  ELSE [Goto(r, "drain") EXCEPT !.awaited = Running(r)]

Closed(g) ==
  /\ Resumed(g, "closing")
  /\ \E r \in Pumped(gens[g]) : Become(g, IF Running(r) = {} /\ r.pending = <<>>
       THEN AfterDrain(r) ELSE [Goto(r, "drain") EXCEPT !.awaited = Running(r)])

DrainEnds(g) == Resumed(g, "drain") /\ Become(g, Drained(gens[g]))

Stopped(g) ==
  /\ Resumed(g, "stopWhen")
  /\ \E stop \in {"complete", "stopCondition"} :
       Become(g, AfterStop([gens[g] EXCEPT !.stop = stop]))

Validated(g) ==
  /\ Resumed(g, "validate")
  /\ \/ Become(g, Conclude([gens[g] EXCEPT !.output = TRUE], FALSE))
     \/ Become(g, IF gens[g].aborted THEN Raise(gens[g]) ELSE Conclude(gens[g], TRUE))

\* What the engine runs by itself: reactions of settled promises, the timer.
Resume(g) ==
  \/ CancelledUnstarted(g) \/ Run(g) \/ Leave(g) \/ Raised(g) \/ Bounded(g)
  \/ Prepared(g) \/ BeginRound(g) \/ NextEvent(g) \/ Parsed(g) \/ Closed(g)
  \/ DrainEnds(g) \/ Stopped(g) \/ Validated(g)
\* What the tools, the schemas and the worker contribute.
Work(g) ==
  \/ WorkSettles(g) \/ EventArrives(g) \/ ReturnSettles(g) \/ JobsSettle(g)
  \/ \E i \in 1 .. MaxCalls : ToolEnds(g, i)

LanguageNext ==
  \/ \E g \in Gens : Generate(g) \/ Cancel(g) \/ NativeFails(g)
  \/ \E g \in Gens : Resume(g) \/ Work(g)
  \/ Unload \/ BackendUnload \/ NativeEnds

LanguageSpec == LanguageInit /\ [][LanguageNext]_lvars

\* Reactions of settled promises run, and so does the 100 ms timer.
CodeFairness == \A g \in Gens : WF_lvars(Resume(g))
\* Tools, schemas and callbacks settle, unless the generation was cancelled or
\* has failed: then none of them need ever answer.
WorkFairness == \A g \in Gens : WF_lvars(Work(g) /\ ~gens[g].aborted)
\* A round emits finitely many events (the context is bounded) and the worker
\* ends the round it is told to abort, at the latest once the result is settled.
Acknowledges ==
  native.gen # None /\ gens[native.gen].aborted => gens[native.gen].ended # "no"
BackendFairness == WF_lvars(NativeEnds /\ Acknowledges) /\ WF_lvars(BackendUnload)

FairLanguageSpec == LanguageSpec /\ CodeFairness /\ WorkFairness /\ BackendFairness

----------------------------------------------------------------------------
Generation ==
  [opt : Options, phase : Phases, settled : {"no", "value", "error"},
   aborted : BOOLEAN, failed : BOOLEAN, ended : {"no", "resolved", "rejected"},
   reason : Reasons, round : Nat, stop : Reasons, corrections : Nat,
   output : BOOLEAN, calls : Seq([round : Nat, state : CallStates]),
   pending : Seq(Nat), awaited : SUBSET (1 .. MaxCalls), report : Seq(Reports)]

LanguageTypeOK ==
  /\ closed \in BOOLEAN /\ unload \in {"no", "waiting", "done"}
  /\ queue \in Seq(Gens)
  /\ native \in [gen : Gens \cup {None}, abort : BOOLEAN, done : BOOLEAN]
  /\ gens \in [Gens -> Generation]

\* The conversation a generation ends with pairs every managed call with one
\* outcome, and tells the truth about it for good: a call reported as not
\* executed never executes afterwards, a reported result is the tool's.
ReportsAreTrue ==
  \A g \in Gens : LET r == gens[g] IN r.ended # "no" =>
    /\ Len(r.report) = Len(r.calls)
    /\ \A i \in DOMAIN r.report :
         /\ r.report[i] = "notExecuted" => r.calls[i].state \notin Ran
         /\ r.report[i] \in {"completed", "failed", "invalid"}
              => r.calls[i].state = r.report[i]
         /\ r.opt.tools = "managed" => r.report[i] # "none"

\* A round of the model is asked only with the outcomes of all earlier calls:
\* tools that were started by the end of others have ended too.
HistoryIsPaired ==
  \A g \in Gens : native.gen = g /\ gens[g].ended = "no" =>
    \A i \in DOMAIN gens[g].calls : gens[g].calls[i].round < gens[g].round =>
      gens[g].calls[i].state \in {"completed", "failed", "invalid"}

\* maxConcurrentTools, or one tool at a time, whatever starts them: a call
\* that arrives, the end of another tool, the end of the round.
ToolLimit == \A g \in Gens : Cardinality(Running(gens[g])) <= gens[g].opt.limit

\* Tools are neither too many nor late, whatever starts and ends them.
ToolsAreScheduled == HistoryIsPaired /\ ToolLimit

\* A failure that came before any cancellation is what the caller learns,
\* although it ends the generation through the same abort signal.
FailuresSurface ==
  \A g \in Gens : gens[g].failed /\ gens[g].ended # "no" => gens[g].ended = "rejected"

\* With structured output, a generation completes only with a valid output.
CompleteIsValid ==
  \A g \in Gens : gens[g].reason = "complete" /\ gens[g].opt.schema => gens[g].output

\* How a generation ends is true.
EndingsAreTrue == FailuresSurface /\ CompleteIsValid

\* No native round begins while another one has not ended, although results
\* are settled, and the queue moves, before the worker has acknowledged.
RoundBeginsAlone == native'.gen \notin {native.gen, None} => native.gen = None
OneRoundAtATime == [][RoundBeginsAlone]_lvars

\* The backend is unloaded after every operation and their rounds.
UnloadIsLast ==
  unload = "done" => /\ native.gen = None
                     /\ \A g \in Gens : gens[g].phase \in {"idle", "done"}

\* The backend sees the rounds one after the other, and the unload last.
BackendIsSerial == [][RoundBeginsAlone /\ UnloadIsLast']_lvars

\* A cancelled or failed generation settles its result although tools,
\* schemas, the worker and the generations before it may never answer.
CancelledSettles ==
  \A g \in Gens : gens[g].aborted ~> gens[g].ended # "no"

\* If all of these answer, every generation settles, ...
GenerationsSettle ==
  \A g \in Gens : gens[g].phase # "idle" ~> gens[g].ended # "no"

\* ... and an unload, which first drains the queue, ends.
UnloadEnds == unload = "waiting" ~> unload = "done"

=============================================================================
