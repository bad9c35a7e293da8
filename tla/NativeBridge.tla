---------------------------- MODULE NativeBridge -----------------------------
(***************************************************************************)
(* WorkerBackend (wfloat-web llm-native/bridge.ts) and the dispatch of the *)
(* worker that owns the WASM model (worker.ts): numbered requests, one     *)
(* generator per native round, cancellation by message, loading that may   *)
(* be cancelled, unloading, and worker errors that no request explains.    *)
(*                                                                         *)
(* Each direction of postMessage keeps its order.  In the worker a message *)
(* and the timer between two native steps may come in either order.        *)
(***************************************************************************)
EXTENDS Naturals, Sequences

CONSTANTS
  MaxIds,     \* BOUND: requests of one backend, the first loads the model
  MaxEvents,  \* BOUND: events of a native round before its done event
  MaxErrors,  \* BOUND: worker errors that belong to no request
  None        \* no round

Ids == 1 .. MaxIds

ASSUME BridgeAssumption ==
  /\ MaxIds \in Nat \ {0} /\ MaxEvents \in Nat /\ MaxErrors \in Nat
  /\ None \notin Ids

VARIABLES
  closed,    \* WorkerBackend.closed: the worker is terminated
  sequence,  \* WorkerBackend.sequence
  active,    \* WorkerBackend.active: the round whose generator is not over
  calls,     \* [Ids -> promise or generator, and its entry in pending]
  load,      \* createNativeBackend: "no", "loading", "open" or "failed"
  cancelled, \* its signal is aborted
  unload,    \* unload(): "no", "waiting" for the round, "posted", "done"
  down, up,  \* messages to the worker and from it
  worker,    \* the worker: model loaded, round, its abort flag
  emitted,   \* [Ids -> events the worker posted for the round]
  refused,   \* rounds and unloads refused because a round was running
  errors     \* unassociated errors so far

hvars == <<closed, sequence, active, load, cancelled, unload>>
wvars == <<worker, emitted, refused>>
bvars == <<hvars, calls, down, up, wvars, errors>>

Unused == [kind |-> "none", pending |-> FALSE, done |-> FALSE, failed |-> FALSE,
           events |-> 0, seen |-> 0, pc |-> "none", leaving |-> FALSE, signalled |-> FALSE]
NoWorkerRound == [model |-> FALSE, round |-> None, abort |-> FALSE]

BridgeInit ==
  /\ closed = FALSE /\ sequence = 0 /\ active = None
  /\ calls = [i \in Ids |-> Unused]
  /\ load = "no" /\ cancelled = FALSE /\ unload = "no"
  /\ down = <<>> /\ up = <<>> /\ worker = NoWorkerRound
  /\ emitted = [i \in Ids |-> 0] /\ refused = {} /\ errors = 0

Message(type, i) == [type |-> type, id |-> i]
\* A terminated worker receives nothing.
Posted(m) == IF closed THEN down ELSE Append(down, m)

----------------------------------------------------------------------------
(* The host: pending requests.                                             *)

\* Mutant of Failed: the entries are cleared, and nobody is told.
FailedSilently(c) == [c EXCEPT !.pending = FALSE]
Failed(c) == IF c.pending THEN [c EXCEPT !.pending = FALSE, !.failed = TRUE, !.done = TRUE] ELSE c

\* A new entry of pending, and its command to the worker.  Of the bounded
\* numbers the last one is left for the unload.
Request(kind, pc) ==
  /\ sequence < IF kind = "unload" THEN MaxIds ELSE MaxIds - 1
  /\ sequence' = sequence + 1
  /\ calls' = [calls EXCEPT ![sequence'] =
                 [Unused EXCEPT !.kind = kind, !.pending = TRUE, !.pc = pc]]
  /\ down' = Append(down, Message(kind, sequence'))

\* fail(): every pending request is rejected and the worker is terminated.
Terminate ==
  /\ closed' = TRUE
  /\ calls' = [i \in Ids |-> Failed(calls[i])]
  /\ down' = <<>> /\ up' = <<>>
  /\ worker' = NoWorkerRound
  /\ UNCHANGED <<sequence, active, emitted, refused, errors>>

Load ==
  /\ load = "no"
  /\ load' = "loading" /\ Request("load", "none")
  /\ UNCHANGED <<closed, active, cancelled, unload, up, wvars, errors>>

AbortLoad ==
  /\ load = "loading" /\ ~cancelled /\ ~closed
  /\ cancelled' = TRUE /\ Terminate
  /\ UNCHANGED <<load, unload>>

\* Mutant of Usable: the reply alone decides.
UsableReply == ~calls[1].failed
\* The continuation of the load: cancellation may have come after the reply.
Usable == ~calls[1].failed /\ ~cancelled

LoadContinues ==
  /\ load = "loading" /\ calls[1].done
  /\ IF Usable \/ closed
     THEN /\ load' = IF Usable THEN "open" ELSE "failed"
          /\ UNCHANGED <<closed, sequence, active, cancelled, unload, calls, down, up, wvars, errors>>
     ELSE load' = "failed" /\ Terminate /\ UNCHANGED <<cancelled, unload>>

\* countInputTokens, checkSchema, validateSchema.
Query ==
  /\ load = "open" /\ ~closed /\ Request("query", "none")
  /\ UNCHANGED <<closed, active, load, cancelled, unload, up, wvars, errors>>

\* unload() resumes from "await settled" before any later code of the caller.
UnloadReady == unload = "waiting" /\ (active # None => calls[active].done)

PostUnload == unload' = "posted" /\ Request("unload", "none")

Unload ==
  /\ load = "open" /\ unload = "no" /\ ~closed
  /\ IF active = None THEN PostUnload
     ELSE /\ unload' = "waiting" /\ down' = Posted(Message("abort", active))
          /\ UNCHANGED <<sequence, calls>>
  /\ UNCHANGED <<closed, active, load, cancelled, up, wvars, errors>>

UnloadContinues ==
  /\ UnloadReady
  /\ PostUnload
  /\ UNCHANGED <<closed, active, load, cancelled, up, wvars, errors>>

\* The finally of unload(), whatever the worker answered.
UnloadEnds ==
  /\ unload = "posted" /\ \A i \in Ids : calls[i].kind = "unload" => calls[i].done
  /\ unload' = "done" /\ Terminate /\ UNCHANGED <<load, cancelled>>

----------------------------------------------------------------------------
(* The host: the generator of a round.                                     *)

Beginnable == load = "open" /\ ~closed /\ active = None /\ ~UnloadReady

BeginRound ==
  /\ Beginnable /\ Request("generate", "wait")
  /\ active' = sequence'
  /\ UNCHANGED <<closed, load, cancelled, unload, up, wvars, errors>>

\* A request that cannot be cloned is released at once.
BeginFails ==
  /\ Beginnable /\ sequence < MaxIds - 1
  /\ sequence' = sequence + 1
  /\ calls' = [calls EXCEPT ![sequence'] = [Unused EXCEPT
                 !.kind = "generate", !.done = TRUE, !.failed = TRUE, !.pc = "over"]]
  /\ UNCHANGED <<closed, active, load, cancelled, unload, down, up, wvars, errors>>

Signal(i) ==
  /\ calls[i].pc \in {"wait", "yield"} /\ ~calls[i].signalled
  /\ calls' = [calls EXCEPT ![i].signalled = TRUE]
  /\ down' = Posted(Message("abort", i))
  /\ UNCHANGED <<hvars, up, wvars, errors>>

\* Mutant of Released: the generator that ends does not release the model.
ReleasedNever(i) == active
Released(i) == None

\* The end of the finally block: of the loop, or of an early return.
Over(i) ==
  /\ calls' = [calls EXCEPT ![i].pending = FALSE, ![i].pc = "over",
                             ![i].leaving = (calls[i].pc # "wait")]
  /\ active' = Released(i)
  /\ UNCHANGED <<closed, sequence, load, cancelled, unload, down, up, wvars, errors>>

\* while (!done || events.length)
Unread(i) == calls[i].events > 0

Yield(i) ==
  /\ calls[i].pc = "wait" /\ Unread(i)
  /\ calls' = [calls EXCEPT ![i].pc = "yield", ![i].events = @ - 1, ![i].seen = @ + 1]
  /\ UNCHANGED <<hvars, down, up, wvars, errors>>

Exhausted(i) == calls[i].pc = "wait" /\ ~Unread(i) /\ calls[i].done /\ Over(i)

\* The caller asks for the next event, ...
NextEvent(i) ==
  /\ calls[i].pc = "yield" /\ ~calls[i].leaving
  /\ calls' = [calls EXCEPT ![i].pc = "wait"]
  /\ UNCHANGED <<hvars, down, up, wvars, errors>>

\* ... or returns while one is awaited, which takes effect at the next yield.
ReturnLater(i) ==
  /\ calls[i].pc = "wait" /\ ~calls[i].leaving
  /\ calls' = [calls EXCEPT ![i].leaving = TRUE]
  /\ UNCHANGED <<hvars, down, up, wvars, errors>>

\* Mutant of Awaited: an early return does not wait for the worker.
AwaitedNever(i) == FALSE
Awaited(i) == ~calls[i].done /\ ~closed

\* The finally block after return(): abort, and wait until the round is over.
Return(i) ==
  /\ calls[i].pc = "yield"
  /\ IF Awaited(i)
     THEN /\ calls' = [calls EXCEPT ![i].pc = "return"]
          /\ down' = Posted(Message("abort", i))
          /\ UNCHANGED <<hvars, up, wvars, errors>>
     ELSE Over(i)

Returned(i) == calls[i].pc = "return" /\ calls[i].done /\ Over(i)

\* onmessage, for the pending request of the message.
Delivered(c, type) ==
  CASE type = "event" -> [c EXCEPT !.events = @ + 1]
    [] type = "done" -> [c EXCEPT !.events = @ + 1, !.done = TRUE]
    [] type = "result" -> [c EXCEPT !.pending = FALSE, !.done = TRUE]
    [] type = "error" -> [c EXCEPT !.pending = (c.kind = "generate"), !.failed = TRUE, !.done = TRUE]

HostReceives ==
  /\ up # <<>>
  /\ LET m == Head(up) IN
     calls' = IF calls[m.id].pending THEN [calls EXCEPT ![m.id] = Delivered(@, m.type)] ELSE calls
  /\ up' = Tail(up)
  /\ UNCHANGED <<hvars, down, wvars, errors>>

\* onerror, and onmessageerror, which also loses a message: every pending
\* request is rejected and the round is told to stop, but the worker lives.
RejectOutstanding ==
  /\ load # "no" /\ ~closed /\ errors < MaxErrors
  /\ errors' = errors + 1
  /\ down' = IF active = None THEN down ELSE Append(down, Message("abort", active))
  /\ calls' = [i \in Ids |-> Failed(calls[i])]
  /\ \/ UNCHANGED up
     \/ up # <<>> /\ up' = Tail(up)
  /\ UNCHANGED <<hvars, wvars>>

----------------------------------------------------------------------------
(* The worker.                                                             *)

Reply(type, i) == up' = Append(up, Message(type, i))

Dispatch(type) == down # <<>> /\ Head(down).type = type /\ down' = Tail(down)

WorkerAborts ==
  /\ Dispatch("abort")
  /\ worker' = [worker EXCEPT !.abort = @ \/ worker.round = Head(down).id]
  /\ UNCHANGED <<hvars, calls, up, emitted, refused, errors>>

WorkerLoads ==
  /\ Dispatch("load")
  /\ \/ worker' = [worker EXCEPT !.model = TRUE] /\ Reply("result", Head(down).id)
     \/ UNCHANGED worker /\ Reply("error", Head(down).id)
  /\ UNCHANGED <<hvars, calls, emitted, refused, errors>>

WorkerAnswers ==
  /\ Dispatch("query")
  /\ \/ worker.model /\ Reply("result", Head(down).id)
     \/ Reply("error", Head(down).id)
  /\ UNCHANGED <<hvars, calls, wvars, errors>>

\* "A round is already running on this model."
WorkerRefuses ==
  /\ Dispatch("generate") \/ Dispatch("unload")
  /\ worker.model /\ worker.round # None
  /\ refused' = refused \cup {Head(down).id}
  /\ Reply("error", Head(down).id)
  /\ UNCHANGED <<hvars, calls, worker, emitted, errors>>

\* The model is gone, or the native round cannot begin.
WorkerCannot ==
  /\ \/ Dispatch("generate") /\ (worker.model => worker.round = None)
     \/ Dispatch("unload") /\ ~worker.model
  /\ Reply("error", Head(down).id)
  /\ UNCHANGED <<hvars, calls, wvars, errors>>

WorkerBegins ==
  /\ Dispatch("generate") /\ worker.model /\ worker.round = None
  /\ worker' = [worker EXCEPT !.round = Head(down).id, !.abort = FALSE]
  /\ UNCHANGED <<hvars, calls, up, emitted, refused, errors>>

WorkerUnloads ==
  /\ Dispatch("unload") /\ worker.model /\ worker.round = None
  /\ worker' = [worker EXCEPT !.model = FALSE]
  /\ Reply("result", Head(down).id)
  /\ UNCHANGED <<hvars, calls, emitted, refused, errors>>

\* The timer fired: one native step.  An aborted round ends in this step.
WorkerSteps ==
  LET i == worker.round IN
  /\ i # None
  /\ \/ /\ ~worker.abort /\ emitted[i] < MaxEvents
        /\ Reply("event", i) /\ emitted' = [emitted EXCEPT ![i] = @ + 1]
        /\ UNCHANGED worker
     \/ /\ Reply("done", i) /\ emitted' = [emitted EXCEPT ![i] = @ + 1]
        /\ worker' = [worker EXCEPT !.round = None]
     \/ /\ Reply("error", i) /\ worker' = [worker EXCEPT !.round = None]
        /\ UNCHANGED emitted
  /\ UNCHANGED <<hvars, calls, down, refused, errors>>

WorkerReceives ==
  \/ WorkerAborts \/ WorkerLoads \/ WorkerAnswers \/ WorkerRefuses
  \/ WorkerCannot \/ WorkerBegins \/ WorkerUnloads

\* Continuations the host runs once what they await has settled.
Continue(i) == Yield(i) \/ Exhausted(i) \/ Returned(i) \/ (calls[i].leaving /\ Return(i))
HostContinues == LoadContinues \/ UnloadContinues \/ UnloadEnds \/ \E i \in Ids : Continue(i)
\* What callers do.
Caller(i) == Signal(i) \/ NextEvent(i) \/ ReturnLater(i) \/ Return(i)

BridgeNext ==
  \/ Load \/ AbortLoad \/ Query \/ Unload \/ BeginRound \/ BeginFails
  \/ \E i \in Ids : Caller(i)
  \/ HostContinues \/ HostReceives \/ RejectOutstanding
  \/ WorkerReceives \/ WorkerSteps

BridgeSpec == BridgeInit /\ [][BridgeNext]_bvars

\* Messages arrive, the native steps of a bounded context end, and settled
\* promises run their reactions; nothing is assumed of the callers.
FairBridgeSpec ==
  /\ BridgeSpec
  /\ WF_bvars(HostReceives) /\ WF_bvars(WorkerReceives) /\ WF_bvars(WorkerSteps)
  /\ WF_bvars(LoadContinues) /\ WF_bvars(UnloadContinues) /\ WF_bvars(UnloadEnds)
  /\ \A i \in Ids : WF_bvars(Continue(i))

----------------------------------------------------------------------------
CallRecord ==
  [kind : {"none", "load", "query", "generate", "unload"}, pending : BOOLEAN,
   done : BOOLEAN, failed : BOOLEAN, events : Nat, seen : Nat,
   pc : {"none", "wait", "yield", "return", "over"}, leaving : BOOLEAN, signalled : BOOLEAN]

\* Types, and which request is the active one: exactly the generator that
\* has not run to its end.
BridgeTypeOK ==
  /\ closed \in BOOLEAN /\ cancelled \in BOOLEAN
  /\ sequence \in 0 .. MaxIds /\ active \in Ids \cup {None}
  /\ calls \in [Ids -> CallRecord]
  /\ load \in {"no", "loading", "open", "failed"}
  /\ unload \in {"no", "waiting", "posted", "done"}
  /\ worker \in [model : BOOLEAN, round : Ids \cup {None}, abort : BOOLEAN]
  /\ \A i \in Ids : calls[i].pc \in {"wait", "yield", "return"} <=> active = i

\* Native rounds are serial: the worker never finds a round still running when
\* it is asked for the next one, or to unload, although callers leave rounds
\* early, cancel them, or see them fail, while the worker is still at work
\* (as long as no worker error has come that belongs to no request).
RoundsAreSerial == errors = 0 => refused = {}

\* "Early iterator return waits for native teardown before another round can
\* start" (llm-native/README.md), and so does every other end of a round: the
\* worker never refuses the next round because one is still running.
TeardownBeforeNextRound == \A i \in refused : calls[i].kind # "generate"

\* A round that its caller does not leave has handed over every event the
\* worker emitted for it, also those that were queued when it was done, or
\* failed with an error of its own.
EndedRoundsAreWhole ==
  \A i \in Ids : /\ calls[i].pc = "over" /\ ~calls[i].leaving
                 /\ calls[i].failed => errors = 0 /\ ~closed
    => calls[i].seen = emitted[i]

\* A load that was cancelled never resolves with a terminated backend, also
\* when the cancellation comes after the reply.
LoadedIsOpen == load = "open" /\ closed => unload = "done"

\* What callers are told is so: the end of a round, and of a load.
AnswersAreTrue == EndedRoundsAreWhole /\ LoadedIsOpen

\* Every request the backend has accepted settles, and a round that its caller
\* returns from ends, ...
RequestsSettle ==
  \A i \in Ids : /\ calls[i].pending /\ calls[i].kind # "generate" ~> calls[i].done
                 /\ calls[i].pc = "return" ~> calls[i].pc = "over"

\* ... and so does an unload, although the caller may hold the generator of a
\* round without ever asking it for the next event.
UnloadsEnd == unload = "waiting" ~> unload = "done"

\* Whatever the callers do, the bridge answers them.
BridgeSettles == RequestsSettle /\ UnloadsEnd
=============================================================================
