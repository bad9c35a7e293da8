-------------------------- MODULE LanguageStream ---------------------------
(***************************************************************************)
(* Language models of the Python package (_language.py).  Threads consume  *)
(* lazy streams of one model, close them, cancel them, count tokens and    *)
(* unload the model.  A stream is driven by the thread that has its lock;  *)
(* the model has one active stream, which others wait for in a queue.      *)
(* Tools run in daemon threads of their own.                               *)
(*                                                                         *)
(* What is done under the condition of the model is one step, and so is    *)
(* what a thread does between two points where it looks at state that      *)
(* others change: a lock, a flag, the queue of finished tools.             *)
(*                                                                         *)
(* Data abstraction.  An event of the native round is a managed call, an   *)
(* invalid one, something else or nothing to yield; manual calls and text  *)
(* are something else.  How a generation ends is not told apart: it ended, *)
(* was cancelled, or failed.  next() on a settled stream, or on one whose  *)
(* lock is taken, raises at once and is left out; so is unload() called    *)
(* from a callback of the active stream.                                   *)
(***************************************************************************)
EXTENDS Naturals, Sequences, FiniteSets

CONSTANTS
  Threads,   \* the application's threads
  Streams,   \* BOUND: as many streams are created
  Options,   \* BOUND: what the streams are created with
  MaxCalls,  \* BOUND: managed calls of a stream
  None

\* What a stream is created with.
Option == [rounds : Nat \ {0}, calls : 0 .. MaxCalls, limit : Nat \ {0},
           immediate : BOOLEAN, stop : BOOLEAN]

ASSUME StreamAssumption ==
  /\ None \notin Streams \cup Threads
  /\ None \notin {"ended", "cancelled", "invalid", "completed", "failed"}
  /\ MaxCalls \in Nat
  /\ Options \in [Streams -> (SUBSET Option) \ {{}}]

VARIABLES
  model,   \* LanguageModel: _closed, _unloaded, _active, _waiting, _streams
  stream,  \* each LanguageStream, with its generator _run()
  native,  \* the streams with an open native round
  thread   \* what each thread is doing

lvars == <<model, stream, native, thread>>

NewModel == [closed |-> FALSE, unloaded |-> FALSE, active |-> None, waiting |-> <<>>, streams |-> {}]
\* gen: where _run() is suspended or running; none before it exists.
\* missed (no field of the code): a close() gave the cleanup over to a driver
\* that had already looked at _close_requested for the last time.
NewStream(s) ==
  [made |-> FALSE, counts |-> FALSE, opt |-> CHOOSE o \in Options[s] : TRUE, lock |-> None, driver |-> None,
   owner |-> None, cancel |-> FALSE, closing |-> FALSE, gen |-> "none", round |-> 0, calls |-> <<>>,
   completed |-> <<>>, started |-> FALSE, result |-> None, failed |-> FALSE, told |-> None,
   missed |-> FALSE]
Idle == [op |-> "none", at |-> "idle", s |-> None, todo |-> {}]

StreamInit ==
  /\ model = NewModel
  /\ stream = [s \in Streams |-> NewStream(s)]
  /\ native = {}
  /\ thread = [t \in Threads |-> Idle]

----------------------------------------------------------------------------
(* The calls of a stream *)

Settled(x) == x.result # None \/ x.failed
\* Started and not yet collected.
Running(x) == {i \in DOMAIN x.calls : x.calls[i].at \in {"running", "returned"}}
Pending(x) == {i \in DOMAIN x.calls : x.calls[i].at = "asked"}
First(I) == CHOOSE i \in I : \A j \in I : i <= j
Startable(x) == Pending(x) # {} /\ Cardinality(Running(x)) < x.opt.limit /\ ~x.cancel

\* What a result says of each call, then and later.
Partial(x) ==
  [i \in DOMAIN x.calls |-> CASE x.calls[i].outcome # None -> x.calls[i].outcome
                             [] x.calls[i].at = "asked" -> "not_executed"
                             [] OTHER -> "outcome_unknown"]

Finish(x, reason) ==
  IF x.result # None THEN x
  ELSE [x EXCEPT !.result = reason, !.told = IF x.failed THEN @ ELSE Partial(x)]
\* iterator.close() runs the finally blocks of _run().
Cleanup(x) == IF x.gen = "none" THEN x ELSE [x EXCEPT !.gen = "over"]
Cancelled(x) == Finish(Cleanup(x), "cancelled")

\* _waiting.remove(operation), of one that may be in the queue, once.
Without(q, s) ==
  IF \A i \in DOMAIN q : q[i] # s THEN q
  ELSE LET i == CHOOSE j \in DOMAIN q : q[j] = s
       IN SubSeq(q, 1, i - 1) \o SubSeq(q, i + 1, Len(q))
Unqueued(s) == [model EXCEPT !.waiting = Without(@, s)]
Release(m, s) == [m EXCEPT !.active = IF @ = s THEN None ELSE @, !.streams = @ \ {s}]

----------------------------------------------------------------------------
(* Steps of a thread *)

At(t, a) == thread[t].at = a
My(t) == stream[thread[t].s]
GoTo(t, a) == thread' = [thread EXCEPT ![t].at = a]
Leave(t) == thread' = [thread EXCEPT ![t] = Idle]
Update(t, x) == stream' = [stream EXCEPT ![thread[t].s] = x]

\* The stream of t ends, closing what is open, and t leaves the drive.
Ends(t, x) ==
  /\ Update(t, x)
  /\ model' = Release(Unqueued(thread[t].s), thread[t].s)
  /\ native' = native \ {thread[t].s}
  /\ GoTo(t, "leave")
Fails(t) ==
  LET x == My(t) IN
  Ends(t, Cleanup([x EXCEPT !.failed = TRUE, !.cancel = TRUE,
                            !.told = IF x.result = None THEN Partial(x) ELSE @]))

Create(s) ==
  /\ ~stream[s].made /\ ~model.closed
  /\ \E o \in Options[s] : stream' = [stream EXCEPT ![s].made = TRUE, ![s].opt = o]
  /\ model' = [model EXCEPT !.streams = @ \cup {s}]
  /\ UNCHANGED <<native, thread>>

\* cancel(), or the caller's own event.
Cancel(s) ==
  /\ stream[s].made /\ ~Settled(stream[s]) /\ ~stream[s].cancel
  /\ stream' = [stream EXCEPT ![s].cancel = TRUE]
  /\ UNCHANGED <<model, native, thread>>

EnterDrive(t, s) ==
  stream' = [stream EXCEPT ![s].lock = t, ![s].driver = t,
                           ![s].owner = IF stream[s].gen = "none" THEN @ ELSE t]

\* next(stream) or stream.result().
Drive(t, s, op) ==
  /\ thread[t] = Idle
  /\ stream[s].made /\ ~stream[s].counts /\ ~Settled(stream[s]) /\ stream[s].lock = None
  /\ EnterDrive(t, s)
  /\ thread' = [thread EXCEPT ![t] = [Idle EXCEPT !.op = op, !.s = s,
                                        !.at = IF stream[s].gen = "none" THEN "claim" ELSE "run"]]
  /\ UNCHANGED <<model, native>>

\* count_input_tokens() makes a stream nobody else sees, but unload().
CountTokens(t, s) ==
  /\ thread[t] = Idle /\ ~stream[s].made /\ ~model.closed
  /\ stream' = [stream EXCEPT ![s].made = TRUE, ![s].counts = TRUE]
  /\ model' = [model EXCEPT !.streams = @ \cup {s}]
  /\ thread' = [thread EXCEPT ![t] = [Idle EXCEPT !.op = "count", !.s = s, !.at = "enter"]]
  /\ UNCHANGED native
CountEnters(t) ==
  /\ At(t, "enter")
  /\ IF My(t).lock = None THEN EnterDrive(t, thread[t].s) /\ GoTo(t, "claim")
                          ELSE Leave(t) /\ UNCHANGED stream
  /\ UNCHANGED <<model, native>>

----------------------------------------------------------------------------
(* _claim *)

\* count_input_tokens() raises.
CountRaises(t) == model' = Unqueued(thread[t].s) /\ GoTo(t, "leave") /\ UNCHANGED <<stream, native>>
\* The claim returns False, or raises and the stream fails.
NotClaimed(t) == IF My(t).counts THEN CountRaises(t) ELSE Ends(t, Cancelled(My(t)))
ClaimRaises(t) == IF My(t).counts THEN CountRaises(t) ELSE Fails(t)

OwnedBy(t) == model.active # None /\ stream[model.active].owner = t

Claim(t) ==
  /\ At(t, "claim")
  /\ \/ My(t).cancel /\ NotClaimed(t)
     \/ ~My(t).cancel /\ (model.closed \/ OwnedBy(t)) /\ ClaimRaises(t)
     \/ /\ ~My(t).cancel /\ ~model.closed /\ ~OwnedBy(t)
        /\ model' = [model EXCEPT !.waiting = Append(@, thread[t].s)]
        /\ GoTo(t, "queued")
        /\ UNCHANGED <<stream, native>>

Claimed(t) ==
  /\ model' = [model EXCEPT !.active = thread[t].s, !.waiting = Tail(@)]
  /\ Update(t, [My(t) EXCEPT !.owner = t, !.gen = IF @ = "none" /\ ~My(t).counts THEN "begin" ELSE @])
  /\ GoTo(t, IF My(t).counts THEN "inspect" ELSE "run")
  /\ UNCHANGED native

FirstInQueue(t) == model.active = None /\ Head(model.waiting) = thread[t].s
Queued(t) ==
  /\ At(t, "queued")
  /\ \/ My(t).cancel /\ NotClaimed(t)
     \/ ~My(t).cancel /\ FirstInQueue(t) /\ model.closed /\ ClaimRaises(t)
     \/ ~My(t).cancel /\ FirstInQueue(t) /\ ~model.closed /\ Claimed(t)

----------------------------------------------------------------------------
(* The generator _run(): x.gen says where it is *)

Run(t, g) == At(t, "run") /\ My(t).gen = g
\* The generator goes on, or yields and next() sees an event.
Continues(t, x) == Update(t, x) /\ UNCHANGED <<model, native, thread>>
Yields(t, x) == Update(t, x) /\ GoTo(t, "event") /\ UNCHANGED <<model, native>>

\* _Cancelled: the native round is ended and the calls under way are told of.
StopsRun(t) ==
  IF Running(My(t)) = {} THEN Ends(t, Cancelled(My(t)))
  ELSE /\ Update(t, [My(t) EXCEPT !.gen = "cancelled"])
       /\ native' = native \ {thread[t].s}
       /\ GoTo(t, "event") /\ UNCHANGED model

\* A point of _run() that looks at the cancellation event.
Check(t, g) == Run(t, g) /\ ~My(t).cancel
Checks == {"begin", "round", "step", "drain", "evaluate"}
LastRound(t) == Run(t, "begin") /\ My(t).round = My(t).opt.rounds
Stops(t) == At(t, "run") /\ My(t).gen \in Checks /\ My(t).cancel /\ ~LastRound(t) /\ StopsRun(t)

BeginRound(t) ==
  /\ Check(t, "begin") /\ ~LastRound(t)
  /\ Yields(t, [My(t) EXCEPT !.round = @ + 1, !.gen = "round"])
NoMoreRounds(t) == LastRound(t) /\ Ends(t, Finish(Cleanup(My(t)), "ended"))

\* One finished call is collected; its error may be the end of the generation.
Collect(t, g) ==
  /\ Check(t, g) /\ My(t).completed # <<>>
  /\ LET x == My(t)  c == Head(x.completed)
         fatal == c.kind = "serialization_error" \/ (c.kind = "executor_error" /\ x.opt.stop) IN
     Yields(t, [x EXCEPT !.completed = Tail(@), !.calls[c.call].at = "collected",
                         !.calls[c.call].outcome = CASE c.kind = "output" -> "completed"
                                                     [] c.kind = "executor_error" -> "failed"
                                                     [] OTHER -> @,
                         !.gen = IF fatal THEN "raise" ELSE @])
Collected(t) ==
  /\ Check(t, "round") /\ My(t).completed = <<>>
  /\ Continues(t, [My(t) EXCEPT !.gen = IF My(t).opt.immediate THEN "pump" ELSE "step"])

\* _pump() starts calls up to the limit, and the events are yielded after that.
Pumps == {"pump", "received", "drain_pump"}
Pump(t) ==
  /\ At(t, "run") /\ My(t).gen \in Pumps /\ Startable(My(t))
  /\ Continues(t, [My(t) EXCEPT !.calls[First(Pending(My(t)))].at = "running", !.started = TRUE])
Pumped(t) ==
  /\ At(t, "run") /\ My(t).gen \in Pumps /\ ~Startable(My(t))
  /\ LET x == [My(t) EXCEPT !.started = FALSE,
                 !.gen = CASE @ = "pump" -> "step" [] @ = "received" -> "round" [] OTHER -> "drain"] IN
     IF My(t).started \/ My(t).gen = "received" THEN Yields(t, x) ELSE Continues(t, x)

\* The first step of a round begins it.
NativeStep(t) ==
  /\ Check(t, "step")
  /\ native' = native \cup {thread[t].s}
  /\ GoTo(t, "native")
  /\ UNCHANGED <<model, stream>>

\* _receive: the arguments are valid and the call pending, or it is answered.
Receive(t, outcome) ==
  /\ Len(My(t).calls) < My(t).opt.calls
  /\ Update(t, [My(t) EXCEPT !.calls = Append(@, [round |-> My(t).round, outcome |-> outcome,
                               at |-> IF outcome = None THEN "asked" ELSE "answered"]),
                             !.gen = IF My(t).opt.immediate THEN "received" ELSE "round"])
  /\ GoTo(t, IF My(t).opt.immediate THEN "run" ELSE "event")
  /\ UNCHANGED <<model, native>>

NativeReturns(t) ==
  /\ At(t, "native")
  /\ \/ /\ \E a \in {"run"} \cup (IF My(t).cancel THEN {} ELSE {"event"}) : GoTo(t, a)
        /\ Update(t, [My(t) EXCEPT !.gen = "round"]) /\ UNCHANGED <<model, native>>
     \/ ~My(t).cancel /\ \E outcome \in {None, "invalid"} : Receive(t, outcome)
     \/ /\ Update(t, [My(t) EXCEPT !.gen = "drain"])
        /\ native' = native \ {thread[t].s}
        /\ \E a \in {"run", "event"} : GoTo(t, a)
        /\ UNCHANGED model
     \/ Fails(t)

\* Mutant of Drain: only the calls that run are waited for.
DrainRunning(t) ==
  /\ Check(t, "drain") /\ My(t).completed = <<>>
  /\ Continues(t, [My(t) EXCEPT !.gen = IF Running(My(t)) = {} THEN "evaluate" ELSE "drain_pump"])
Drain(t) ==
  /\ Check(t, "drain") /\ My(t).completed = <<>>
  /\ Continues(t, [My(t) EXCEPT !.gen = IF Pending(My(t)) \cup Running(My(t)) = {} THEN "evaluate" ELSE "drain_pump"])

\* The round is over: a stop, a schema or a predicate decides.
Evaluate(t) ==
  /\ Check(t, "evaluate")
  /\ \/ Continues(t, [My(t) EXCEPT !.gen = "begin"])
     \/ Ends(t, Finish(Cleanup(My(t)), "ended"))
     \/ Fails(t)

ResumeRaise(t) == Run(t, "raise") /\ Fails(t)
ResumeCancelled(t) == Run(t, "cancelled") /\ Ends(t, Cancelled(My(t)))

----------------------------------------------------------------------------
(* _next() with an event, and _leave_drive() *)

\* _close_requested is looked at before and after the callback of the event;
\* the next event of result() follows.
Event(t) ==
  /\ At(t, "event")
  /\ \/ My(t).closing /\ Ends(t, Cancelled(My(t)))
     \/ /\ ~My(t).closing /\ GoTo(t, IF thread[t].op = "result" THEN "run" ELSE "leave")
        /\ UNCHANGED <<model, stream, native>>
     \/ Fails(t)
CallbackCloses(t) ==
  /\ At(t, "event") /\ ~My(t).closing
  /\ Update(t, [My(t) EXCEPT !.closing = TRUE, !.cancel = TRUE])
  /\ UNCHANGED <<model, native, thread>>

\* inspect_input() of a count.
Inspect(t) == At(t, "inspect") /\ GoTo(t, "leave") /\ UNCHANGED <<model, stream, native>>

\* The last look at _close_requested, before the lock is given back.
LeaveDrive(t) ==
  /\ At(t, "leave")
  /\ IF My(t).closing /\ ~Settled(My(t))
     THEN /\ Update(t, Cancelled(My(t)))
          /\ model' = Release(model, thread[t].s) /\ native' = native \ {thread[t].s}
     ELSE UNCHANGED <<model, stream, native>>
  /\ GoTo(t, "unlock")
Unlock(t) ==
  /\ At(t, "unlock")
  /\ Update(t, [My(t) EXCEPT !.lock = None, !.driver = None])
  /\ IF thread[t].op = "count" THEN GoTo(t, "close") ELSE Leave(t)
  /\ UNCHANGED <<model, native>>

----------------------------------------------------------------------------
(* close() and unload() *)

Close(t, s) ==
  /\ thread[t] = Idle
  /\ stream[s].made /\ ~stream[s].counts /\ ~Settled(stream[s])
  /\ thread' = [thread EXCEPT ![t] = [Idle EXCEPT !.op = "close", !.s = s, !.at = "close"]]
  /\ UNCHANGED <<model, stream, native>>

\* What follows close(): count_input_tokens() releases its stream.
Closed(t) ==
  IF thread[t].op = "unload" THEN GoTo(t, "unloading") ELSE Leave(t)
AfterClose(t) == IF thread[t].op = "count" THEN Release(model, thread[t].s) ELSE model

RequestClose(t) ==
  /\ At(t, "close")
  /\ IF Settled(My(t)) THEN Closed(t) /\ model' = AfterClose(t) /\ UNCHANGED stream
     ELSE /\ Update(t, [My(t) EXCEPT !.closing = TRUE, !.cancel = TRUE])
          /\ GoTo(t, "try") /\ UNCHANGED model
  /\ UNCHANGED native
PastLook(t) == At(t, "unlock")
\* Mutant of TryLock: the lock is not asked for.
TakeLock(t) ==
  /\ At(t, "try")
  /\ Update(t, [My(t) EXCEPT !.lock = t])
  /\ GoTo(t, "cleanup")
  /\ UNCHANGED <<model, native>>
\* The lock is taken if it is free; else its holder is to clean up.
TryLock(t) ==
  /\ At(t, "try")
  /\ IF My(t).lock = None THEN /\ Update(t, [My(t) EXCEPT !.lock = t])
                               /\ GoTo(t, "cleanup") /\ UNCHANGED model
     ELSE /\ Closed(t) /\ model' = AfterClose(t)
          /\ Update(t, [My(t) EXCEPT !.missed = @ \/ (PastLook(My(t).lock) /\ ~Settled(My(t)))])
  /\ UNCHANGED native
CloseCleanup(t) ==
  /\ At(t, "cleanup")
  /\ Update(t, [Cancelled(My(t)) EXCEPT !.lock = None])
  /\ model' = Release(model, thread[t].s) /\ native' = native \ {thread[t].s}
  /\ Closed(t)

\* Mutant of Unload: the streams are left to their consumers.
UnloadWaits(t) ==
  /\ thread[t] = Idle /\ ~model.unloaded
  /\ model' = [model EXCEPT !.closed = TRUE]
  /\ thread' = [thread EXCEPT ![t] = [Idle EXCEPT !.op = "unload", !.at = "unloading"]]
  /\ UNCHANGED <<stream, native>>
Unload(t) ==
  /\ thread[t] = Idle /\ ~model.unloaded
  /\ model' = [model EXCEPT !.closed = TRUE]
  /\ thread' = [thread EXCEPT ![t] = [Idle EXCEPT !.op = "unload", !.at = "unloading", !.todo = model.streams]]
  /\ UNCHANGED <<stream, native>>
UnloadCloses(t) ==
  /\ At(t, "unloading")
  /\ \E s \in thread[t].todo :
       thread' = [thread EXCEPT ![t].at = "close", ![t].s = s, ![t].todo = @ \ {s}]
  /\ UNCHANGED <<model, stream, native>>
\* Mutant of Unloads: nobody waits for the active stream.
UnloadsAtOnce(t) ==
  /\ At(t, "unloading") /\ thread[t].todo = {}
  /\ model' = [model EXCEPT !.unloaded = TRUE]
  /\ Leave(t)
  /\ UNCHANGED <<stream, native>>
\* The backend may refuse; the model can then be unloaded again.
Unloads(t) ==
  /\ At(t, "unloading") /\ thread[t].todo = {} /\ model.active = None
  /\ \E done \in BOOLEAN : model' = [model EXCEPT !.unloaded = @ \/ done]
  /\ Leave(t)
  /\ UNCHANGED <<stream, native>>

----------------------------------------------------------------------------
(* A tool, in its daemon thread, ends when it likes. *)

ToolReturns(s, i, kind) ==
  /\ i \in DOMAIN stream[s].calls /\ stream[s].calls[i].at = "running"
  /\ stream' = [stream EXCEPT ![s].calls[i].at = "returned",
                              ![s].completed = Append(@, [call |-> i, kind |-> kind])]
  /\ UNCHANGED <<model, native, thread>>

Generator(t) ==
  \/ Stops(t) \/ BeginRound(t) \/ NoMoreRounds(t) \/ Collected(t) \/ Pump(t) \/ Pumped(t) \/ NativeStep(t) \/ Drain(t) \/ Evaluate(t)
  \/ \E g \in {"round", "drain"} : Collect(t, g)
  \/ ResumeRaise(t) \/ ResumeCancelled(t)
Advance(t) ==
  \/ CountEnters(t) \/ Claim(t) \/ Queued(t) \/ Inspect(t)
  \/ Generator(t) \/ NativeReturns(t) \/ Event(t) \/ LeaveDrive(t) \/ Unlock(t)
  \/ RequestClose(t) \/ TryLock(t) \/ CloseCleanup(t) \/ UnloadCloses(t) \/ Unloads(t)

StreamNext ==
  \/ \E s \in Streams : Create(s) \/ Cancel(s)
  \/ \E t \in Threads, s \in Streams : CountTokens(t, s) \/ Close(t, s) \/ \E op \in {"next", "result"} : Drive(t, s, op)
  \/ \E t \in Threads : Advance(t) \/ CallbackCloses(t) \/ Unload(t)
  \/ \E s \in Streams, i \in 1..MaxCalls, kind \in {"output", "executor_error", "serialization_error"} : ToolReturns(s, i, kind)

StreamSpec == StreamInit /\ [][StreamNext]_lvars
\* Threads are scheduled, native steps and callbacks return.  Nothing is assumed
\* of tools, nor of what the application does with a stream.
ThreadFairness == \A t \in Threads : WF_lvars(Advance(t))
FairStreamSpec == StreamSpec /\ ThreadFairness

----------------------------------------------------------------------------
(* Properties *)

Driving == {"claim", "queued", "inspect", "run", "native", "event", "leave", "unlock"}
Places == Driving \cup {"idle", "enter", "close", "try", "cleanup", "unloading"}
Call == [round : Nat, at : {"asked", "answered", "running", "returned", "collected"},
         outcome : {None, "invalid", "completed", "failed"}]

\* The variables have their types, and the lock of a stream is held by the one
\* thread that drives it or cleans it up.
StreamTypeOK ==
  /\ model.active \in Streams \cup {None} /\ model.streams \subseteq Streams
  /\ model.waiting \in Seq(Streams) /\ model.closed \in BOOLEAN /\ model.unloaded \in BOOLEAN
  /\ native \subseteq Streams
  /\ \A t \in Threads : thread[t].at \in Places /\ thread[t].s \in Streams \cup {None}
  /\ \A s \in Streams :
       /\ stream[s].calls \in Seq(Call)
       /\ \A t \in Threads :
            stream[s].lock = t <=> thread[t].s = s /\ thread[t].at \in Driving \cup {"cleanup"}

\* The native model does one thing at a time, for the active stream, and
\* nothing once it is unloaded; a thread never waits for a stream it owns.
InNative == {t \in Threads : thread[t].at \in {"native", "inspect"}}
NativeIsExclusive ==
  /\ Cardinality(native) <= 1 /\ Cardinality(InNative) <= 1
  /\ native \cup {thread[t].s : t \in InNative} \subseteq {model.active}
  /\ model.unloaded => native = {} /\ InNative = {}
  /\ \A t \in Threads : At(t, "queued") => ~OwnedBy(t)

\* A round begins when the calls of the last one are answered, no more of them
\* run than the limit says, and what a result says of a call stays true: what
\* was not executed never will be.
ToolsAreAccounted ==
  \A s \in Streams : LET x == stream[s] IN
    /\ Cardinality(Running(x)) <= x.opt.limit
    /\ s \in native => \A i \in DOMAIN x.calls : x.calls[i].round < x.round => x.calls[i].outcome # None
    /\ x.told # None =>
         /\ DOMAIN x.told = DOMAIN x.calls
         /\ \A i \in DOMAIN x.calls : CASE x.told[i] = "not_executed" -> x.calls[i].at = "asked"
                                       [] x.told[i] = "outcome_unknown" -> x.calls[i].at \notin {"asked", "answered"}
                                       [] OTHER -> x.told[i] = x.calls[i].outcome

\* close() and unload() return, and so does what drives a cancelled stream, unless
\* a close() was missed (_leave_drive).
Stopped(t) == thread[t].op \in {"close", "unload"} \/ (thread[t].s # None /\ My(t).cancel)
CallsReturn == \A t \in Threads : Stopped(t) ~> thread[t] = Idle \/ \E s \in Streams : stream[s].missed
=============================================================================
