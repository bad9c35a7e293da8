------------------------ MODULE LanguageStreamProofs ------------------------
(***************************************************************************)
(* Theorems about the language model of the Python package, for any number *)
(* of threads, streams, tool calls and options: who holds the lock of a    *)
(* stream, that the native model does one thing at a time, and what is     *)
(* told of the calls of a stream.                                          *)
(***************************************************************************)
EXTENDS LanguageStream, TLAPS, SequenceTheorems, FiniteSetTheorems, NaturalsInduction

----------------------------------------------------------------------------
(* The invariant. *)

Gens == {"none", "begin", "round", "pump", "step", "received", "drain", "drain_pump", "evaluate",
         "raise", "cancelled", "over"}
RunGens == Gens \ {"none", "over"}
Kinds == {"output", "executor_error", "serialization_error"}
Reports == {"not_executed", "outcome_unknown", "invalid", "completed", "failed"}
Ops == {"none", "next", "result", "count", "close", "unload"}
Holding == Driving \cup {"cleanup"}
Working == Holding \cup {"enter", "close", "try"}

Model == [closed : BOOLEAN, unloaded : BOOLEAN, active : Streams \cup {None},
          waiting : Seq(Streams), streams : SUBSET Streams]
Stream == [made : BOOLEAN, counts : BOOLEAN, opt : Option, lock : Threads \cup {None},
           driver : Threads \cup {None}, owner : Threads \cup {None}, cancel : BOOLEAN,
           closing : BOOLEAN, gen : Gens, round : Nat, calls : Seq(Call),
           completed : Seq([call : Nat, kind : Kinds]), started : BOOLEAN,
           result : {None, "ended", "cancelled"}, failed : BOOLEAN,
           told : Seq(Reports) \cup {None}, missed : BOOLEAN]
Thread == [op : Ops, at : Places, s : Streams \cup {None}, todo : SUBSET Streams]

\* What is told of the calls of a stream.
Told(x) ==
  /\ DOMAIN x.told = DOMAIN x.calls
  /\ \A i \in DOMAIN x.calls : CASE x.told[i] = "not_executed" -> x.calls[i].at = "asked"
                                [] x.told[i] = "outcome_unknown" -> x.calls[i].at \notin {"asked", "answered"}
                                [] OTHER -> x.told[i] = x.calls[i].outcome

\* The calls of a stream in each place of the generator.
CallsFit(x) ==
  \A i \in DOMAIN x.calls :
    /\ x.calls[i].round <= x.round
    /\ x.calls[i].at = "answered" => x.calls[i].outcome # None
    /\ x.calls[i].at = "collected" /\ x.gen \in RunGens \ {"raise"} => x.calls[i].outcome # None
    /\ x.calls[i].round < x.round /\ x.gen \in RunGens => x.calls[i].outcome # None
    /\ x.gen \in {"evaluate", "begin"} => x.calls[i].outcome # None

Sound(x) ==
  /\ x \in Stream
  /\ CallsFit(x)
  /\ \A k \in DOMAIN x.completed : x.completed[k].call \in DOMAIN x.calls
  /\ Cardinality(Running(x)) <= x.opt.limit
  /\ x.gen = "none" => x.calls = <<>>
  /\ ~x.made => x.gen = "none"
  /\ x.counts => x.gen = "none"
  /\ x.gen \in RunGens => ~Settled(x)
  /\ x.gen = "over" => Settled(x)
  /\ ~Settled(x) => x.told = None
  /\ x.told # None => Told(x)

InQueue(s) == \E i \in DOMAIN model.waiting : model.waiting[i] = s

\* Where a thread is, and what that says of its stream.
Fits(t) ==
  LET th == thread[t]  x == stream[th.s] IN
  /\ th.at \in Working => th.s \in Streams /\ x.made
  /\ th.at \in Working /\ th.op = "count" => x.counts
  /\ th.at \in Driving /\ x.counts => th.op = "count"
  /\ th.at \in {"claim", "queued"} => x.gen = "none" /\ (x.counts \/ ~Settled(x))
  /\ th.at = "queued" => InQueue(th.s) /\ ~OwnedBy(t)
  /\ th.at \in {"run", "native", "event"} => x.gen \in RunGens
  /\ th.at = "native" => x.gen = "step"
  /\ th.at = "inspect" => x.counts /\ model.active = th.s
  /\ th.at = "enter" => th.op = "count"
  /\ th.at = "unloading" => th.op = "unload"
  /\ th.op = "unload" => model.closed
  /\ \A s \in th.todo : stream[s].made

Locked ==
  \A s \in Streams, t \in Threads : stream[s].lock = t <=> thread[t].s = s /\ thread[t].at \in Holding
Counting(t) == thread[t].op = "count" /\ thread[t].at \in Working
OneCounts ==
  \A t, r \in Threads : Counting(t) /\ Counting(r) /\ thread[r].s = thread[t].s => r = t

ModelFits ==
  /\ model.unloaded => model.closed /\ model.active = None
  /\ \A s \in model.streams : stream[s].made
  /\ \A s \in Streams : /\ stream[s].gen \in RunGens => model.active = s
                        /\ s \in native => stream[s].gen \in RunGens

Typed ==
  /\ model \in Model /\ native \subseteq Streams
  /\ stream \in [Streams -> Stream] /\ thread \in [Threads -> Thread]

StreamInv ==
  /\ Typed /\ Locked /\ OneCounts /\ ModelFits
  /\ \A s \in Streams : Sound(stream[s])
  /\ \A t \in Threads : Fits(t)

USE StreamAssumption

----------------------------------------------------------------------------
(* The operators.                                                          *)

LEMMA CallsTyped ==
  ASSUME NEW x \in Stream
  PROVE  /\ x.calls \in Seq(Call) /\ Len(x.calls) \in Nat /\ DOMAIN x.calls = 1 .. Len(x.calls)
         /\ \A i \in DOMAIN x.calls : x.calls[i] \in Call
  <1>1. x.calls \in Seq(Call)  BY DEF Stream
  <1> QED BY <1>1, ElementOfSeq

LEMMA RunningFinite ==
  ASSUME NEW x \in Stream
  PROVE  /\ IsFiniteSet(Running(x)) /\ Running(x) \subseteq DOMAIN x.calls
         /\ Cardinality(Running(x)) \in Nat
  <1>1. IsFiniteSet(DOMAIN x.calls)  BY CallsTyped, FS_Interval
  <1>2. Running(x) \subseteq DOMAIN x.calls  BY DEF Running
  <1> QED BY <1>1, <1>2, FS_Subset, FS_CardinalityType

\* The first pending call is a pending call.
LEMMA FirstIn ==
  ASSUME NEW I \in SUBSET Nat, I # {}
  PROVE  First(I) \in I
  <1>1. PICK m \in I : \A j \in I : ~(<<j, m>> \in OpToRel(<, Nat))
    BY NatLessThanWellFounded, WFMin
  <1>2. \A j \in I : m <= j
    <2> SUFFICES ASSUME NEW j \in I, ~(m <= j) PROVE FALSE  OBVIOUS
    <2>1. j < m /\ j \in Nat /\ m \in Nat  OBVIOUS
    <2>2. <<j, m>> \in OpToRel(<, Nat)  BY <2>1 DEF OpToRel
    <2> QED BY <1>1, <2>2
  <1> QED BY <1>2 DEF First

Among(q, s) == \E i \in DOMAIN q : q[i] = s

\* Removing a stream from the queue leaves the others in it.
LEMMA WithoutOne ==
  ASSUME NEW q \in Seq(Streams), NEW s
  PROVE  /\ Without(q, s) \in Seq(Streams)
         /\ \A r : r # s /\ Among(q, r) => Among(Without(q, s), r)
  <1>1. CASE \A i \in DOMAIN q : q[i] # s  BY <1>1 DEF Without
  <1>2. CASE \E i \in DOMAIN q : q[i] = s
    <2> DEFINE i == CHOOSE j \in DOMAIN q : q[j] = s
               a == SubSeq(q, 1, i - 1)
               b == SubSeq(q, i + 1, Len(q))
    <2>1. i \in 1 .. Len(q) /\ q[i] = s /\ Len(q) \in Nat  BY <1>2
    <2>2. Without(q, s) = a \o b  BY <1>2 DEF Without
    <2> HIDE DEF i
    <2>3. /\ a \in Seq(Streams) /\ Len(a) = i - 1
          /\ \A k \in 1 .. i - 1 : a[k] = q[k]
      BY <2>1
    <2>4. /\ b \in Seq(Streams) /\ Len(b) = Len(q) - i
          /\ \A k \in 1 .. Len(q) - i : b[k] = q[k + i]
      BY <2>1
    <2> HIDE DEF a, b
    <2>c. /\ a \o b \in Seq(Streams)
          /\ Len(a \o b) = Len(a) + Len(b)
      <3>1. a \in Seq(Streams) /\ b \in Seq(Streams)  BY <2>3, <2>4
      <3> QED BY ONLY <3>1, ConcatProperties
    <2>5. a \o b \in Seq(Streams) /\ Len(a \o b) = Len(q) - 1  BY <2>1, <2>3, <2>4, <2>c
    <2>6. ASSUME NEW r, r # s, NEW k \in DOMAIN q, q[k] = r PROVE Among(a \o b, r)
      <3>1. k \in 1 .. Len(q) /\ k # i  BY <2>1, <2>6
      <3>2. CASE k < i
        <4>1. k \in DOMAIN (a \o b) /\ (a \o b)[k] = q[k]
          BY <2>1, <2>3, <2>4, <2>5, <3>1, <3>2
        <4> QED BY <2>6, <4>1 DEF Among
      <3>3. CASE k > i
        <4>1. k - 1 \in 1 .. Len(a \o b) /\ k - i \in 1 .. Len(b)
          BY <2>1, <2>4, <2>5, <3>1, <3>3
        <4>2. (a \o b)[k - 1] = b[k - i]
          BY <2>1, <2>3, <2>4, <3>1, <3>3, <4>1
        <4>3. b[k - i] = q[k]  BY <2>1, <2>4, <3>1, <4>1
        <4>4. k - 1 \in DOMAIN (a \o b)  BY <2>5, <4>1
        <4> QED BY <2>6, <4>2, <4>3, <4>4 DEF Among
      <3> QED BY <2>1, <3>1, <3>2, <3>3
    <2> QED BY <2>2, <2>5, <2>6 DEF Among
  <1> QED BY <1>1, <1>2

----------------------------------------------------------------------------
(* Sound streams.                                                          *)

\* y is x but for where it stands and who has it.
Alike(x, y) ==
  /\ y \in Stream
  /\ y.round = x.round /\ y.calls = x.calls /\ y.completed = x.completed /\ y.opt = x.opt
  /\ y.made = x.made /\ y.counts = x.counts
Held(x, y) == y.made = x.made /\ y.counts = x.counts /\ y.lock = x.lock /\ y.owner = x.owner
\* y is x ended.
Closes(x, y) ==
  /\ Sound(y) /\ Settled(y)
  /\ y.made = x.made /\ y.counts = x.counts /\ y.lock = x.lock /\ y.owner = x.owner
  /\ y.gen = IF x.gen = "none" THEN "none" ELSE "over"

LEMMA AlikeRunning ==
  ASSUME NEW x, NEW y, Alike(x, y)
  PROVE  Running(y) = Running(x)
  BY DEF Alike, Running

\* Nothing else of a stream matters.
LEMMA FrameSound ==
  ASSUME NEW x, NEW y, Sound(x), Alike(x, y),
         y.gen = x.gen, y.result = x.result, y.failed = x.failed, y.told = x.told
  PROVE  Sound(y)
  <1>1. CallsFit(y)  BY DEF Sound, Alike, CallsFit
  <1>2. Cardinality(Running(y)) <= y.opt.limit  BY AlikeRunning DEF Sound, Alike
  <1>3. Settled(y) <=> Settled(x)  BY DEF Settled
  <1>4. y.told # None => Told(y)  BY DEF Sound, Alike, Told
  <1> QED BY <1>1, <1>2, <1>3, <1>4 DEF Sound, Alike

\* The generator goes from one place to another.
LEMMA MoveSound ==
  ASSUME NEW x, NEW y, Sound(x), Alike(x, y),
         x.gen \in RunGens \ {"raise"}, y.gen \in RunGens,
         y.gen \in {"evaluate", "begin"} =>
           x.gen \in {"evaluate", "begin"} \/ Pending(x) \cup Running(x) = {},
         y.result = x.result, y.failed = x.failed, y.told = x.told
  PROVE  Sound(y)
  <1>1. CallsFit(y)
    <2> SUFFICES ASSUME NEW i \in DOMAIN x.calls
                 PROVE  /\ x.calls[i].round <= x.round
                        /\ x.calls[i].at = "answered" => x.calls[i].outcome # None
                        /\ x.calls[i].at = "collected" => x.calls[i].outcome # None
                        /\ x.calls[i].round < x.round => x.calls[i].outcome # None
                        /\ y.gen \in {"evaluate", "begin"} => x.calls[i].outcome # None
      BY DEF CallsFit, Alike
    <2>1. /\ x.calls[i].round <= x.round
          /\ x.calls[i].at = "answered" => x.calls[i].outcome # None
          /\ x.calls[i].at = "collected" => x.calls[i].outcome # None
          /\ x.calls[i].round < x.round => x.calls[i].outcome # None
          /\ x.gen \in {"evaluate", "begin"} => x.calls[i].outcome # None
      BY DEF Sound, CallsFit
    <2>2. x.calls[i].at \in {"asked", "answered", "running", "returned", "collected"}
      BY CallsTyped DEF Sound, Call
    <2>3. ASSUME Pending(x) \cup Running(x) = {} PROVE x.calls[i].outcome # None
      BY <2>1, <2>2, <2>3 DEF Pending, Running
    <2> QED BY <2>1, <2>3
  <1>2. Cardinality(Running(y)) <= y.opt.limit  BY AlikeRunning DEF Sound, Alike
  <1>3. ~Settled(y) /\ ~y.counts /\ y.told = None  BY DEF Sound, Settled, Alike, RunGens
  <1>4. y.gen # "over" /\ y.gen # "none" /\ y.made  BY DEF RunGens, Sound, Alike
  <1> QED BY <1>1, <1>2, <1>3, <1>4 DEF Sound, Alike

\* What a result says of each call is true.
LEMMA PartialTold ==
  ASSUME NEW x, Sound(x)
  PROVE  /\ Partial(x) \in Seq(Reports)
         /\ DOMAIN Partial(x) = DOMAIN x.calls
         /\ \A i \in DOMAIN x.calls :
              CASE Partial(x)[i] = "not_executed" -> x.calls[i].at = "asked"
                [] Partial(x)[i] = "outcome_unknown" -> x.calls[i].at \notin {"asked", "answered"}
                [] OTHER -> Partial(x)[i] = x.calls[i].outcome
  <1>1. /\ Len(x.calls) \in Nat /\ DOMAIN x.calls = 1 .. Len(x.calls)
        /\ \A i \in DOMAIN x.calls : x.calls[i] \in Call
    BY CallsTyped DEF Sound
  <1> DEFINE told(i) == CASE x.calls[i].outcome # None -> x.calls[i].outcome
                          [] x.calls[i].at = "asked" -> "not_executed"
                          [] OTHER -> "outcome_unknown"
  <1>2. Partial(x) = [i \in 1 .. Len(x.calls) |-> told(i)]  BY <1>1 DEF Partial
  <1>3. ASSUME NEW i \in DOMAIN x.calls
        PROVE  /\ told(i) \in Reports
               /\ CASE told(i) = "not_executed" -> x.calls[i].at = "asked"
                    [] told(i) = "outcome_unknown" -> x.calls[i].at \notin {"asked", "answered"}
                    [] OTHER -> told(i) = x.calls[i].outcome
    <2>1. x.calls[i].outcome \in {None, "invalid", "completed", "failed"}  BY <1>1 DEF Call
    <2>2. x.calls[i].at = "answered" => x.calls[i].outcome # None  BY DEF Sound, CallsFit
    <2> QED BY <2>1, <2>2 DEF Reports
  <1> HIDE DEF told
  <1>4. Partial(x) \in Seq(Reports)  BY <1>1, <1>2, <1>3, SeqDef
  <1>5. DOMAIN Partial(x) = DOMAIN x.calls /\ \A i \in DOMAIN x.calls : Partial(x)[i] = told(i)
    BY <1>1, <1>2
  <1> QED BY <1>3, <1>4, <1>5

\* A stream that ends.
LEMMA EndSound ==
  ASSUME NEW x, NEW y, Sound(x), Alike(x, y),
         y.gen = IF x.gen = "none" THEN "none" ELSE "over",
         Settled(y), y.told \in {x.told, Partial(x)}
  PROVE  Sound(y)
  <1>1. CallsFit(y)  BY DEF Sound, Alike, CallsFit, RunGens
  <1>2. Cardinality(Running(y)) <= y.opt.limit  BY AlikeRunning DEF Sound, Alike
  <1>3. y.told # None => Told(y)
    <2>1. CASE y.told = x.told  BY <2>1 DEF Sound, Alike, Told
    <2>2. CASE y.told = Partial(x)  BY <2>2, PartialTold DEF Alike, Told
    <2> QED BY <2>1, <2>2
  <1>4. y.gen \notin RunGens  BY DEF RunGens
  <1> QED BY <1>1, <1>2, <1>3, <1>4 DEF Sound, Alike

LEMMA CancelledCloses ==
  ASSUME NEW x, Sound(x)
  PROVE  Closes(x, Cancelled(x))
  <1> DEFINE c == Cleanup(x)  y == Cancelled(x)
  <1>1. /\ c \in Stream /\ c.gen = IF x.gen = "none" THEN "none" ELSE "over"
        /\ c.result = x.result /\ c.failed = x.failed /\ c.told = x.told
        /\ Held(x, c) /\ Alike(x, c) /\ Partial(c) = Partial(x)
    <2>1. x \in Stream  BY DEF Sound
    <2> QED BY <2>1 DEF Cleanup, Stream, Gens, Held, Alike, Partial
  <1>2. y = IF c.result # None THEN c
            ELSE [c EXCEPT !.result = "cancelled", !.told = IF c.failed THEN c.told ELSE Partial(c)]
    BY DEF Cancelled, Finish
  <1> HIDE DEF c, y
  <1>3. Partial(x) \in Seq(Reports)  BY PartialTold
  <1>4. /\ Alike(x, y) /\ Held(x, y) /\ y.gen = c.gen /\ Settled(y) /\ y.told \in {x.told, Partial(x)}
    BY <1>1, <1>2, <1>3 DEF Sound, Stream, Alike, Held, Settled
  <1>5. Sound(y)  BY <1>1, <1>4, EndSound
  <1> QED BY <1>1, <1>4, <1>5 DEF Closes, Held, y

LEMMA FinishedCloses ==
  ASSUME NEW x, Sound(x)
  PROVE  Closes(x, Finish(Cleanup(x), "ended"))
  <1> DEFINE c == Cleanup(x)  y == Finish(c, "ended")
  <1>1. /\ c \in Stream /\ c.gen = IF x.gen = "none" THEN "none" ELSE "over"
        /\ c.result = x.result /\ c.failed = x.failed /\ c.told = x.told
        /\ Held(x, c) /\ Alike(x, c) /\ Partial(c) = Partial(x)
    <2>1. x \in Stream  BY DEF Sound
    <2> QED BY <2>1 DEF Cleanup, Stream, Gens, Held, Alike, Partial
  <1>2. y = IF c.result # None THEN c
            ELSE [c EXCEPT !.result = "ended", !.told = IF c.failed THEN c.told ELSE Partial(c)]
    BY DEF Finish
  <1> HIDE DEF c, y
  <1>3. Partial(x) \in Seq(Reports)  BY PartialTold
  <1>4. /\ Alike(x, y) /\ Held(x, y) /\ y.gen = c.gen /\ Settled(y) /\ y.told \in {x.told, Partial(x)}
    BY <1>1, <1>2, <1>3 DEF Sound, Stream, Alike, Held, Settled
  <1>5. Sound(y)  BY <1>1, <1>4, EndSound
  <1> QED BY <1>1, <1>4, <1>5 DEF Closes, Held, y, c

Failure(x) ==
  Cleanup([x EXCEPT !.failed = TRUE, !.cancel = TRUE,
                    !.told = IF x.result = None THEN Partial(x) ELSE @])
LEMMA FailureCloses ==
  ASSUME NEW x, Sound(x)
  PROVE  Closes(x, Failure(x))
  <1> DEFINE f == [x EXCEPT !.failed = TRUE, !.cancel = TRUE,
                            !.told = IF x.result = None THEN Partial(x) ELSE @]
             y == Failure(x)
  <1>1. Partial(x) \in Seq(Reports)  BY PartialTold
  <1>2. /\ f \in Stream /\ f.gen = x.gen /\ f.failed = TRUE /\ f.result = x.result
        /\ f.told \in {x.told, Partial(x)} /\ Held(x, f) /\ Alike(x, f)
    BY <1>1 DEF Sound, Stream, Alike, Held
  <1>3. y = IF f.gen = "none" THEN f ELSE [f EXCEPT !.gen = "over"]  BY DEF Failure, Cleanup
  <1> HIDE DEF f, y
  <1>4. /\ Alike(x, y) /\ Held(x, y) /\ y.gen = IF x.gen = "none" THEN "none" ELSE "over"
        /\ Settled(y) /\ y.told \in {x.told, Partial(x)}
    BY <1>2, <1>3 DEF Sound, Stream, Gens, Alike, Held, Settled
  <1>5. Sound(y)  BY <1>4, EndSound
  <1> QED BY <1>4, <1>5 DEF Closes, Held, y

\* A round begins when the calls of the last are answered.
LEMMA RoundSound ==
  ASSUME NEW x, Sound(x), x.gen = "begin"
  PROVE  LET y == [x EXCEPT !.round = @ + 1, !.gen = "round"] IN Sound(y) /\ Held(x, y)
  <1> DEFINE n == x.round + 1
             y == [x EXCEPT !.round = n, !.gen = "round"]
  <1>1. x.gen \in RunGens  BY DEF RunGens, Gens
  <1>n. n \in Nat
    <2>1. x.round \in Nat  BY DEF Sound, Stream
    <2> QED BY <2>1
  <1> HIDE DEF n
  <1>2. /\ y \in Stream /\ Held(x, y) /\ y.round = n /\ y.gen = "round"
        /\ y.calls = x.calls /\ y.completed = x.completed /\ y.opt = x.opt
        /\ y.result = x.result /\ y.failed = x.failed /\ y.told = x.told
    BY <1>n DEF Sound, Stream, Gens, Held
  <1> HIDE DEF y
  <1>3. ASSUME NEW i \in DOMAIN x.calls
        PROVE  x.calls[i].round <= y.round /\ x.calls[i].outcome # None
    <2>1. x.calls[i].round \in Nat /\ x.round \in Nat  BY CallsTyped DEF Sound, Stream, Call
    <2>2. x.calls[i].round <= x.round /\ x.calls[i].outcome # None  BY DEF Sound, CallsFit
    <2> QED BY <1>2, <2>1, <2>2 DEF n
  <1>4. CallsFit(y)  BY <1>2, <1>3 DEF CallsFit
  <1>5. Running(y) = Running(x)  BY <1>2 DEF Running
  <1>6. ~Settled(y) /\ ~y.counts /\ y.told = None  BY <1>1, <1>2 DEF Sound, Settled, Held
  <1> QED BY <1>2, <1>4, <1>5, <1>6 DEF Sound, y, n

\* A call is received: asked, or answered at once.
LEMMA ReceiveSound ==
  ASSUME NEW x, Sound(x), x.gen = "step", NEW outcome \in {None, "invalid"},
         NEW g \in {"received", "round"}
  PROVE  LET c == [round |-> x.round, outcome |-> outcome,
                   at |-> IF outcome = None THEN "asked" ELSE "answered"]
             y == [x EXCEPT !.calls = Append(@, c), !.gen = g]
         IN  Sound(y) /\ Held(x, y)
  <1> DEFINE c == [round |-> x.round, outcome |-> outcome,
                   at |-> IF outcome = None THEN "asked" ELSE "answered"]
             y == [x EXCEPT !.calls = Append(@, c), !.gen = g]
             n == Len(x.calls)
  <1>1. x.gen \in RunGens /\ x.gen \notin {"raise", "evaluate", "begin"}  BY DEF RunGens, Gens
  <1>2. /\ c \in Call /\ c.round = x.round /\ c.outcome = outcome
        /\ c.at = IF outcome = None THEN "asked" ELSE "answered"
    BY DEF Sound, Stream, Call
  <1> HIDE DEF c
  <1>3. /\ x.calls \in Seq(Call) /\ n \in Nat /\ DOMAIN x.calls = 1 .. n
        /\ Append(x.calls, c) \in Seq(Call)
        /\ DOMAIN Append(x.calls, c) = 1 .. n + 1
        /\ \A i \in 1 .. n : Append(x.calls, c)[i] = x.calls[i]
        /\ Append(x.calls, c)[n + 1] = c
    BY <1>2, CallsTyped DEF Sound
  <1>4. /\ y \in Stream /\ Held(x, y) /\ y.calls = Append(x.calls, c) /\ y.gen = g
        /\ y.round = x.round /\ y.completed = x.completed /\ y.opt = x.opt
        /\ y.result = x.result /\ y.failed = x.failed /\ y.told = x.told
    BY <1>3 DEF Sound, Stream, Gens, Held
  <1> HIDE DEF y, n
  <1>5. CallsFit(y)
    <2> SUFFICES ASSUME NEW i \in DOMAIN y.calls
                 PROVE  /\ y.calls[i].round <= x.round
                        /\ y.calls[i].at = "answered" => y.calls[i].outcome # None
                        /\ y.calls[i].at = "collected" => y.calls[i].outcome # None
                        /\ y.calls[i].round < x.round => y.calls[i].outcome # None
      BY <1>4 DEF CallsFit
    <2>1. CASE i \in DOMAIN x.calls
      BY <1>1, <1>3, <1>4, <2>1 DEF Sound, CallsFit
    <2>2. CASE i = n + 1
      <3>1. x.round \in Nat  BY DEF Sound, Stream
      <3> QED BY <1>2, <1>3, <1>4, <2>2, <3>1
    <2> QED BY <1>3, <1>4, <2>1, <2>2
  <1>6. Running(y) = Running(x)
    <2>1. y.calls[n + 1].at \notin {"running", "returned"}  BY <1>2, <1>3, <1>4
    <2> QED BY <1>3, <1>4, <2>1 DEF Running
  <1>7. ~Settled(y) /\ ~y.counts /\ y.told = None  BY <1>1, <1>4 DEF Sound, Settled, Held
  <1>8. \A k \in DOMAIN y.completed : y.completed[k].call \in DOMAIN y.calls
    BY <1>3, <1>4 DEF Sound
  <1>9. y.gen # "over"  BY <1>4
  <1> QED BY <1>4, <1>5, <1>6, <1>7, <1>8, <1>9 DEF Sound, y, c

\* A pending call is started, below the limit.
LEMMA PumpSound ==
  ASSUME NEW x, Sound(x), x.gen \in Pumps, Startable(x)
  PROVE  LET y == [x EXCEPT !.calls[First(Pending(x))].at = "running", !.started = TRUE]
         IN  Sound(y) /\ Held(x, y) /\ y.gen = x.gen
  <1> DEFINE i == First(Pending(x))
             y == [x EXCEPT !.calls[i].at = "running", !.started = TRUE]
  <1>1. x.gen \in RunGens /\ x.gen \notin {"raise", "evaluate", "begin"}  BY DEF RunGens, Gens, Pumps
  <1>2. /\ x.calls \in Seq(Call) /\ DOMAIN x.calls = 1 .. Len(x.calls) /\ Len(x.calls) \in Nat
        /\ \A j \in DOMAIN x.calls : x.calls[j] \in Call
    BY CallsTyped DEF Sound
  <1>3. i \in Pending(x)
    <2>1. Pending(x) \in SUBSET Nat  BY <1>2 DEF Pending
    <2> QED BY <2>1, FirstIn DEF Startable
  <1>4. i \in DOMAIN x.calls /\ x.calls[i].at = "asked"  BY <1>3 DEF Pending
  <1> DEFINE calls == [x.calls EXCEPT ![i].at = "running"]
  <1> HIDE DEF i
  <1>5. [x.calls[i] EXCEPT !.at = "running"] \in Call  BY <1>2, <1>4 DEF Call
  <1>6. calls \in Seq(Call) /\ DOMAIN calls = DOMAIN x.calls  BY <1>2, <1>4, <1>5, ExceptSeq
  <1>7. /\ \A j \in DOMAIN x.calls : j # i => calls[j] = x.calls[j]
        /\ calls[i].at = "running" /\ calls[i].round = x.calls[i].round
        /\ calls[i].outcome = x.calls[i].outcome
    BY <1>2, <1>4 DEF Call
  <1>8. y = [x EXCEPT !.calls = calls, !.started = TRUE]  BY DEF Sound, Stream
  <1> HIDE DEF calls, y
  <1>9. /\ y \in Stream /\ Held(x, y) /\ y.calls = calls /\ y.gen = x.gen
        /\ y.round = x.round /\ y.completed = x.completed /\ y.opt = x.opt
        /\ y.result = x.result /\ y.failed = x.failed /\ y.told = x.told
    BY <1>6, <1>8 DEF Sound, Stream, Held
  <1>10. CallsFit(y)  BY <1>1, <1>4, <1>6, <1>7, <1>9 DEF Sound, CallsFit
  <1>11. Cardinality(Running(y)) <= y.opt.limit
    <2>1. Running(y) = Running(x) \cup {i} /\ i \notin Running(x)
      BY <1>4, <1>6, <1>7, <1>9 DEF Running
    <2>x. x \in Stream  BY DEF Sound
    <2>2. Cardinality(Running(y)) = Cardinality(Running(x)) + 1
      BY <2>1, <2>x, RunningFinite, FS_AddElement
    <2>3. Cardinality(Running(x)) \in Nat /\ x.opt.limit \in Nat
      BY RunningFinite DEF Sound, Stream, Option
    <2> QED BY <1>9, <2>2, <2>3 DEF Startable
  <1>12. ~Settled(y) /\ ~y.counts /\ y.told = None  BY <1>1, <1>9 DEF Sound, Settled, Held, RunGens
  <1>13. \A k \in DOMAIN y.completed : y.completed[k].call \in DOMAIN y.calls
    BY <1>6, <1>9 DEF Sound
  <1>14. y.gen # "over"  BY <1>1, <1>9 DEF RunGens
  <1> QED BY <1>9, <1>10, <1>11, <1>12, <1>13, <1>14 DEF Sound, y, i

LEMMA HeadAndTail ==
  ASSUME NEW S, NEW q \in Seq(S), q # <<>>
  PROVE  /\ Head(q) = q[1] /\ 1 \in DOMAIN q /\ Head(q) \in S
         /\ Tail(q) \in Seq(S)
         /\ \A k \in DOMAIN Tail(q) : k + 1 \in DOMAIN q /\ Tail(q)[k] = q[k + 1]
         /\ \A k \in DOMAIN q : k = 1 \/ (k - 1 \in DOMAIN Tail(q) /\ Tail(q)[k - 1] = q[k])
  OBVIOUS

\* The record of a stream with the call i collected, as the action writes it
\* and with its calls written once.
Collecting(x, i, q, kind, fatal) ==
  [x EXCEPT !.completed = q, !.calls[i].at = "collected",
            !.calls[i].outcome = CASE kind = "output" -> "completed"
                                   [] kind = "executor_error" -> "failed"
                                   [] OTHER -> @,
            !.gen = IF fatal THEN "raise" ELSE @]
WithCollected(x, i, q, kind, fatal) ==
  [x EXCEPT !.completed = q,
            !.calls = [x.calls EXCEPT ![i] =
               [x.calls[i] EXCEPT !.at = "collected",
                                  !.outcome = CASE kind = "output" -> "completed"
                                                [] kind = "executor_error" -> "failed"
                                                [] OTHER -> x.calls[i].outcome]],
            !.gen = IF fatal THEN "raise" ELSE x.gen]
LEMMA CollectedRecord ==
  ASSUME NEW x \in Stream, NEW i \in DOMAIN x.calls, NEW q, NEW kind, NEW fatal
  PROVE  Collecting(x, i, q, kind, fatal) = WithCollected(x, i, q, kind, fatal)
  <1>1. x.calls[i] \in Call  BY CallsTyped
  <1>2. DOMAIN x.calls[i] = {"round", "at", "outcome"}  BY <1>1 DEF Call
  <1> DEFINE out == CASE kind = "output" -> "completed"
                      [] kind = "executor_error" -> "failed"
                      [] OTHER -> x.calls[i].outcome
             a == [x EXCEPT !.completed = q]
             b == [a EXCEPT !.calls[i].at = "collected"]
             c == [b EXCEPT !.calls[i].outcome = out]
             calls == [x.calls EXCEPT ![i] = [x.calls[i] EXCEPT !.at = "collected", !.outcome = out]]
  <1>3. b = [a EXCEPT !.calls = [x.calls EXCEPT ![i] = [x.calls[i] EXCEPT !.at = "collected"]]]
    BY DEF Stream
  <1>5. c = [a EXCEPT !.calls = calls]
    <2> DEFINE u == [x.calls[i] EXCEPT !.at = "collected"]
               v == [u EXCEPT !.outcome = out]
    <2>1. c = [b EXCEPT !.calls = [b.calls EXCEPT ![i] = [b.calls[i] EXCEPT !.outcome = out]]]
      OBVIOUS
    <2> HIDE DEF out, b, c
    <2>2. b.calls = [x.calls EXCEPT ![i] = u]  BY <1>3 DEF Stream
    <2>3. b.calls[i] = u  BY <2>2
    <2> HIDE DEF u
    <2>4. [b.calls EXCEPT ![i] = v] = [x.calls EXCEPT ![i] = v]  BY <2>2
    <2>5. c = [b EXCEPT !.calls = [x.calls EXCEPT ![i] = v]]  BY <2>1, <2>3, <2>4
    <2>6. [x.calls EXCEPT ![i] = v] = calls  BY DEF u
    <2> HIDE DEF calls
    <2> QED BY <1>3, <2>5, <2>6 DEF Stream
  <1>6. [c EXCEPT !.gen = IF fatal THEN "raise" ELSE x.gen]
        = [a EXCEPT !.calls = calls, !.gen = IF fatal THEN "raise" ELSE x.gen]
    BY <1>5
  <1> QED BY <1>6 DEF Collecting, WithCollected

\* A finished call is collected.
LEMMA CollectSound ==
  ASSUME NEW x, Sound(x), x.gen \in {"round", "drain"}, x.completed # <<>>
  PROVE  LET c == Head(x.completed)
             fatal == c.kind = "serialization_error" \/ (c.kind = "executor_error" /\ x.opt.stop)
             y == [x EXCEPT !.completed = Tail(@), !.calls[c.call].at = "collected",
                            !.calls[c.call].outcome = CASE c.kind = "output" -> "completed"
                                                        [] c.kind = "executor_error" -> "failed"
                                                        [] OTHER -> @,
                            !.gen = IF fatal THEN "raise" ELSE @]
         IN  Sound(y) /\ Held(x, y) /\ y.gen \in RunGens
  <1> DEFINE c == Head(x.completed)
             fatal == c.kind = "serialization_error" \/ (c.kind = "executor_error" /\ x.opt.stop)
             i == c.call
             outcome == CASE c.kind = "output" -> "completed"
                          [] c.kind = "executor_error" -> "failed"
                          [] OTHER -> x.calls[i].outcome
             g == IF fatal THEN "raise" ELSE x.gen
             new == [x.calls[i] EXCEPT !.at = "collected", !.outcome = outcome]
             calls == [x.calls EXCEPT ![i] = new]
             y == [x EXCEPT !.completed = Tail(@), !.calls = calls, !.gen = g]
  <1>1. x.gen \in RunGens /\ x.gen \notin {"raise", "evaluate", "begin"} /\ x.gen \in Gens
    BY DEF RunGens, Gens
  <1>2. /\ x.calls \in Seq(Call) /\ DOMAIN x.calls = 1 .. Len(x.calls) /\ Len(x.calls) \in Nat
        /\ \A j \in DOMAIN x.calls : x.calls[j] \in Call
    BY CallsTyped DEF Sound
  <1>3. x.completed \in Seq([call : Nat, kind : Kinds])  BY DEF Sound, Stream
  <1>4. /\ c = x.completed[1] /\ 1 \in DOMAIN x.completed /\ c.kind \in Kinds
        /\ Tail(x.completed) \in Seq([call : Nat, kind : Kinds])
        /\ \A k \in DOMAIN Tail(x.completed) :
              k + 1 \in DOMAIN x.completed /\ Tail(x.completed)[k] = x.completed[k + 1]
    <2>1. /\ c = x.completed[1] /\ 1 \in DOMAIN x.completed /\ c \in [call : Nat, kind : Kinds]
          /\ Tail(x.completed) \in Seq([call : Nat, kind : Kinds])
          /\ \A k \in DOMAIN Tail(x.completed) :
                k + 1 \in DOMAIN x.completed /\ Tail(x.completed)[k] = x.completed[k + 1]
      BY <1>3, HeadAndTail
    <2> HIDE DEF c
    <2> QED BY <2>1
  <1>5. i \in DOMAIN x.calls  BY <1>4 DEF Sound
  <1>6. x.calls[i] \in Call  BY <1>2, <1>5
  <1> HIDE DEF i
  <1>7. /\ outcome \in {None, "invalid", "completed", "failed"}
        /\ ~fatal => outcome # None
    BY <1>4, <1>6 DEF Call, Kinds
  <1>8. g \in RunGens /\ (g # "raise" => ~fatal /\ g = x.gen) /\ g \notin {"evaluate", "begin"}
    BY <1>1 DEF RunGens, Gens
  <1> HIDE DEF outcome, fatal, g, c
  <1>9. /\ new \in Call /\ new.at = "collected" /\ new.outcome = outcome
        /\ new.round = x.calls[i].round
    BY <1>6, <1>7 DEF Call
  <1> HIDE DEF new
  <1>10. calls \in Seq(Call) /\ DOMAIN calls = DOMAIN x.calls /\ calls[i] = new
    BY <1>2, <1>5, <1>9, ExceptSeq
  <1>11. \A j \in DOMAIN x.calls : j # i => calls[j] = x.calls[j]
    BY <1>2, <1>5
  <1> HIDE DEF calls
  <1>g. g \in Gens  BY <1>8 DEF RunGens
  <1>12. /\ y \in Stream /\ Held(x, y) /\ y.calls = calls /\ y.gen = g
         /\ y.round = x.round /\ y.completed = Tail(x.completed) /\ y.opt = x.opt
         /\ y.result = x.result /\ y.failed = x.failed /\ y.told = x.told
    BY <1>4, <1>g, <1>10 DEF Sound, Stream, Held
  <1>y. [x EXCEPT !.completed = Tail(@), !.calls[c.call].at = "collected",
                  !.calls[c.call].outcome = CASE c.kind = "output" -> "completed"
                                              [] c.kind = "executor_error" -> "failed"
                                              [] OTHER -> @,
                  !.gen = IF fatal THEN "raise" ELSE @] = y
    <2>1. x \in Stream  BY DEF Sound
    <2>2. c.call \in DOMAIN x.calls  BY <1>5 DEF i
    <2>3. Collecting(x, c.call, Tail(x.completed), c.kind, fatal)
          = WithCollected(x, c.call, Tail(x.completed), c.kind, fatal)
      BY <2>1, <2>2, CollectedRecord
    <2> HIDE DEF c
    <2> QED BY <2>3 DEF calls, new, outcome, i, g, Collecting, WithCollected
  <1> HIDE DEF y
  <1>13. CallsFit(y)
    <2> SUFFICES ASSUME NEW j \in DOMAIN x.calls
                 PROVE  /\ calls[j].round <= x.round
                        /\ calls[j].at = "answered" => calls[j].outcome # None
                        /\ calls[j].at = "collected" /\ g # "raise" => calls[j].outcome # None
                        /\ calls[j].round < x.round => calls[j].outcome # None
      BY <1>8, <1>10, <1>12 DEF CallsFit
    <2>1. /\ x.calls[j].round <= x.round
          /\ x.calls[j].at = "answered" => x.calls[j].outcome # None
          /\ x.calls[j].at = "collected" => x.calls[j].outcome # None
          /\ x.calls[j].round < x.round => x.calls[j].outcome # None
      BY <1>1 DEF Sound, CallsFit
    <2>2. CASE j # i  BY <1>11, <2>1, <2>2
    <2>3. CASE j = i
      <3>1. x.calls[i].outcome # None => outcome # None  BY <1>4, <1>6 DEF outcome, Call, Kinds
      <3> QED BY <1>7, <1>8, <1>9, <1>10, <2>1, <2>3, <3>1
    <2> QED BY <2>2, <2>3
  <1>14. Cardinality(Running(y)) <= y.opt.limit
    <2>1. Running(y) \subseteq Running(x)
      BY <1>9, <1>10, <1>11, <1>12 DEF Running
    <2>2. Cardinality(Running(y)) <= Cardinality(Running(x)) /\ Cardinality(Running(y)) \in Nat
      BY <2>1, RunningFinite, FS_Subset, FS_CardinalityType DEF Sound
    <2>3. Cardinality(Running(x)) \in Nat /\ x.opt.limit \in Nat
      BY RunningFinite DEF Sound, Stream, Option
    <2>4. Cardinality(Running(x)) <= x.opt.limit  BY DEF Sound
    <2> QED BY <1>12, <2>2, <2>3, <2>4
  <1>15. ~Settled(y) /\ ~y.counts /\ y.told = None  BY <1>1, <1>12 DEF Sound, Settled, Held
  <1>16. \A k \in DOMAIN y.completed : y.completed[k].call \in DOMAIN y.calls
    BY <1>4, <1>10, <1>12 DEF Sound
  <1>17. y.gen # "over" /\ y.gen # "none" /\ y.made
    BY <1>1, <1>8, <1>12 DEF RunGens, Sound, Held
  <1>18. Sound(y) /\ Held(x, y) /\ y.gen \in RunGens
    BY <1>8, <1>12, <1>13, <1>14, <1>15, <1>16, <1>17 DEF Sound
  <1> QED BY <1>y, <1>18 DEF fatal, c

\* A tool ends.
LEMMA ReturnSound ==
  ASSUME NEW x, Sound(x), NEW i \in DOMAIN x.calls, x.calls[i].at = "running", NEW kind \in Kinds
  PROVE  LET y == [x EXCEPT !.calls[i].at = "returned",
                            !.completed = Append(@, [call |-> i, kind |-> kind])]
         IN  Sound(y) /\ Held(x, y) /\ y.gen = x.gen /\ (Settled(y) <=> Settled(x))
  <1> DEFINE c == [call |-> i, kind |-> kind]
             done == Append(x.completed, c)
             new == [x.calls[i] EXCEPT !.at = "returned"]
             calls == [x.calls EXCEPT ![i] = new]
             y == [x EXCEPT !.calls = calls, !.completed = done]
  <1>1. /\ x.calls \in Seq(Call) /\ DOMAIN x.calls = 1 .. Len(x.calls) /\ Len(x.calls) \in Nat
        /\ \A j \in DOMAIN x.calls : x.calls[j] \in Call
    BY CallsTyped DEF Sound
  <1>2. x.calls[i] \in Call /\ i \in Nat  BY <1>1
  <1>3. /\ new \in Call /\ new.at = "returned" /\ new.outcome = x.calls[i].outcome
        /\ new.round = x.calls[i].round
    BY <1>2 DEF Call
  <1> HIDE DEF new
  <1>4. calls \in Seq(Call) /\ DOMAIN calls = DOMAIN x.calls /\ calls[i] = new
    BY <1>1, <1>3, ExceptSeq
  <1>5. \A j \in DOMAIN x.calls : j # i => calls[j] = x.calls[j]
    BY <1>1
  <1>6. x.completed \in Seq([call : Nat, kind : Kinds]) /\ c \in [call : Nat, kind : Kinds] /\ c.call = i
    BY <1>2 DEF Sound, Stream
  <1> HIDE DEF c
  <1>7. /\ done \in Seq([call : Nat, kind : Kinds])
        /\ \A k \in DOMAIN done : done[k] = c \/ (k \in DOMAIN x.completed /\ done[k] = x.completed[k])
    BY <1>6
  <1>y. y = [x EXCEPT !.calls[i].at = "returned", !.completed = Append(@, c)]
    BY DEF Sound, Stream, new
  <1> HIDE DEF calls, done
  <1>8. /\ y \in Stream /\ Held(x, y) /\ y.calls = calls /\ y.gen = x.gen
        /\ y.round = x.round /\ y.completed = done /\ y.opt = x.opt
        /\ y.result = x.result /\ y.failed = x.failed /\ y.told = x.told
    BY <1>4, <1>7 DEF Sound, Stream, Held
  <1> HIDE DEF y
  <1>9. CallsFit(y)
    <2> SUFFICES ASSUME NEW j \in DOMAIN x.calls
                 PROVE  /\ calls[j].round <= x.round
                        /\ calls[j].at = "answered" => calls[j].outcome # None
                        /\ calls[j].at = "collected" /\ x.gen \in RunGens \ {"raise"} => calls[j].outcome # None
                        /\ calls[j].round < x.round /\ x.gen \in RunGens => calls[j].outcome # None
                        /\ x.gen \in {"evaluate", "begin"} => calls[j].outcome # None
      BY <1>4, <1>8 DEF CallsFit
    <2>1. CASE j # i  BY <1>5, <2>1 DEF Sound, CallsFit
    <2>2. CASE j = i
      <3>1. calls[j].at = "returned" /\ calls[j].outcome = x.calls[j].outcome /\ calls[j].round = x.calls[j].round
        BY <1>3, <1>4, <2>2
      <3> QED BY <3>1 DEF Sound, CallsFit
    <2> QED BY <2>1, <2>2
  <1>10. Running(y) = Running(x)
    BY <1>3, <1>4, <1>5, <1>8 DEF Running
  <1>11. Settled(y) <=> Settled(x)  BY <1>8 DEF Settled
  <1>12. y.told # None => Told(y)
    <2> SUFFICES ASSUME x.told # None, NEW j \in DOMAIN x.calls
                 PROVE  CASE x.told[j] = "not_executed" -> calls[j].at = "asked"
                          [] x.told[j] = "outcome_unknown" -> calls[j].at \notin {"asked", "answered"}
                          [] OTHER -> x.told[j] = calls[j].outcome
      BY <1>4, <1>8 DEF Sound, Told
    <2>1. (CASE x.told[j] = "not_executed" -> x.calls[j].at = "asked"
             [] x.told[j] = "outcome_unknown" -> x.calls[j].at \notin {"asked", "answered"}
             [] OTHER -> x.told[j] = x.calls[j].outcome)
      BY DEF Sound, Told
    <2>2. CASE j # i  BY <1>5, <2>1, <2>2
    <2>3. CASE j = i
      <3>1. calls[j].at = "returned" /\ calls[j].outcome = x.calls[j].outcome
        BY <1>3, <1>4, <2>3
      <3> QED BY <2>1, <2>3, <3>1
    <2> QED BY <2>2, <2>3
  <1>13. \A k \in DOMAIN y.completed : y.completed[k].call \in DOMAIN y.calls
    BY <1>4, <1>6, <1>7, <1>8 DEF Sound
  <1>14. Sound(y)
    BY <1>8, <1>9, <1>10, <1>11, <1>12, <1>13 DEF Sound, Held
  <1> QED BY <1>8, <1>11, <1>14, <1>y DEF c

----------------------------------------------------------------------------
(* What a step of one thread leaves to the others.                         *)

Apart(t) ==
  /\ model.closed => model'.closed
  /\ \A r \in Threads \ {t} : thread'[r] = thread[r]
  /\ \A s \in Streams :
       /\ stream[s].made => stream'[s].made /\ stream'[s].counts = stream[s].counts
       /\ stream'[s].owner \in {stream[s].owner, t}
       /\ stream'[s].lock = stream[s].lock \/ {stream[s].lock, stream'[s].lock} \subseteq {t, None}
       /\ stream[s].lock \notin {t, None} =>
            /\ stream'[s].gen = stream[s].gen
            /\ Settled(stream'[s]) <=> Settled(stream[s])
            /\ InQueue(s) => InQueue(s)'
  /\ \/ model'.active = model.active
     \/ model'.active = None /\ \A r \in Threads \ {t} : thread[r].at = "inspect" => thread[r].s # model.active
     \/ model.active = None /\ model'.active # None /\ stream'[model'.active].owner = t

LEMMA ApartFits ==
  ASSUME StreamInv, NEW t, Apart(t), NEW r \in Threads, r # t, model'.active \in Streams \cup {None}
  PROVE  Fits(r)'
  <1> DEFINE s == thread[r].s
  <1>1. thread'[r] = thread[r]  BY DEF Apart
  <1>2. Fits(r) /\ thread[r] \in Thread  BY DEF StreamInv, Typed
  <1>3. \A q \in Streams : stream[q].made => stream'[q].made /\ stream'[q].counts = stream[q].counts
    BY DEF Apart
  <1>4. ASSUME thread[r].at \in Driving
        PROVE  /\ s \in Streams /\ stream'[s].gen = stream[s].gen
               /\ Settled(stream'[s]) <=> Settled(stream[s])
               /\ InQueue(s) => InQueue(s)'
    <2>1. s \in Streams  BY <1>2, <1>4 DEF Fits, Working, Holding
    <2>2. stream[s].lock = r  BY <1>4, <2>1 DEF StreamInv, Locked, Holding
    <2>3. stream[s].lock \notin {t, None}  BY <2>2
    <2> QED BY <2>1, <2>3 DEF Apart
  <1>5. ASSUME ~OwnedBy(r) PROVE ~OwnedBy(r)'
    <2> SUFFICES ASSUME model'.active # None PROVE stream'[model'.active].owner # r
      BY DEF OwnedBy
    <2>1. CASE model'.active = model.active
      <3>1. stream[model.active].owner # r  BY <1>5, <2>1 DEF OwnedBy
      <3>2. stream'[model'.active].owner \in {stream[model.active].owner, t}
        BY <2>1 DEF Apart
      <3> QED BY <3>1, <3>2
    <2>2. CASE stream'[model'.active].owner = t  BY <2>2
    <2> QED BY <2>1, <2>2 DEF Apart
  <1>6. ASSUME thread[r].at = "inspect", model.active = s PROVE model'.active = s
    <2>1. s \in Streams  BY <1>4, <1>6 DEF Driving
    <2> QED BY <1>6, <2>1 DEF Apart
  <1> HIDE DEF s
  <1>7. /\ thread[r].at \in Working => s \in Streams /\ stream'[s].made
        /\ thread[r].at \in Working /\ thread[r].op = "count" => stream'[s].counts
        /\ thread[r].at \in Driving /\ stream'[s].counts => thread[r].op = "count"
    <2>1. thread[r].at \in Working => s \in Streams /\ stream[s].made  BY <1>2 DEF Fits, s
    <2>2. thread[r].at \in Driving => thread[r].at \in Working  BY DEF Working, Holding
    <2> QED BY <1>2, <1>3, <2>1, <2>2 DEF Fits, s
  <1>8. /\ thread[r].at \in {"claim", "queued"} =>
             stream'[s].gen = "none" /\ (stream'[s].counts \/ ~Settled(stream'[s]))
        /\ thread[r].at = "queued" => InQueue(s)' /\ ~OwnedBy(r)'
        /\ thread[r].at \in {"run", "native", "event"} => stream'[s].gen \in RunGens
        /\ thread[r].at = "native" => stream'[s].gen = "step"
        /\ thread[r].at = "inspect" => stream'[s].counts /\ model'.active = s
    <2>1. thread[r].at \in {"claim", "queued", "run", "native", "event", "inspect"} =>
            /\ thread[r].at \in Driving /\ s \in Streams /\ stream[s].made
            /\ stream'[s].gen = stream[s].gen /\ stream'[s].counts = stream[s].counts
            /\ Settled(stream'[s]) <=> Settled(stream[s])
            /\ InQueue(s) => InQueue(s)'
      BY <1>2, <1>3, <1>4 DEF Fits, s, Driving, Working, Holding
    <2> QED BY <1>2, <1>5, <1>6, <2>1 DEF Fits, s
  <1>9. /\ \A q \in thread[r].todo : stream'[q].made
        /\ thread[r].at = "enter" => thread[r].op = "count"
        /\ thread[r].at = "unloading" => thread[r].op = "unload"
        /\ thread[r].op = "unload" => model'.closed
    BY <1>2, <1>3 DEF Fits, Thread, Apart
  <1> QED BY <1>1, <1>7, <1>8, <1>9 DEF Fits, s

\* A step of the thread t keeps the invariant.
LEMMA StepInv ==
  ASSUME StreamInv, NEW t \in Threads, Typed', Apart(t), ModelFits', Fits(t)',
         \A s \in Streams : Sound(stream'[s]),
         \A s \in Streams : stream'[s].lock = t <=> thread'[t].s = s /\ thread'[t].at \in Holding,
         Counting(t)' => \/ Counting(t) /\ thread'[t].s = thread[t].s
                         \/ thread'[t].s \in Streams /\ ~stream[thread'[t].s].made
  PROVE  StreamInv'
  <1>1. model'.active \in Streams \cup {None}  BY DEF Typed, Model
  <1>2. \A r \in Threads : Fits(r)'  BY <1>1, ApartFits
  <1>3. Locked'
    <2> SUFFICES ASSUME NEW s \in Streams, NEW r \in Threads, r # t
                 PROVE  stream'[s].lock = r <=> thread'[r].s = s /\ thread'[r].at \in Holding
      BY DEF Locked
    <2>1. stream'[s].lock = r <=> stream[s].lock = r  BY DEF Apart
    <2>2. thread'[r] = thread[r]  BY DEF Apart
    <2> QED BY <2>1, <2>2 DEF StreamInv, Locked
  <1>4. ASSUME NEW r \in Threads, r # t, Counting(r)', Counting(t)'
        PROVE  thread'[r].s # thread'[t].s
    <2>1. thread'[r] = thread[r]  BY <1>4 DEF Apart
    <2>2. Counting(r)  BY <1>4, <2>1 DEF Counting
    <2>3. stream[thread[r].s].made  BY <2>2 DEF StreamInv, Fits, Counting
    <2> QED BY <1>4, <2>1, <2>2, <2>3 DEF StreamInv, OneCounts
  <1>5. OneCounts'
    <2> SUFFICES ASSUME NEW q \in Threads, NEW r \in Threads, Counting(q)', Counting(r)',
                        thread'[r].s = thread'[q].s
                 PROVE  r = q
      BY DEF OneCounts
    <2>1. CASE q = t  BY <1>4, <2>1
    <2>2. CASE r = t  BY <1>4, <2>2
    <2>3. CASE q # t /\ r # t
      <3>1. thread'[q] = thread[q] /\ thread'[r] = thread[r]  BY <2>3 DEF Apart
      <3> QED BY <3>1 DEF Counting, StreamInv, OneCounts
    <2> QED BY <2>1, <2>2, <2>3
  <1> QED BY <1>2, <1>3, <1>5 DEF StreamInv

\* A step that moves no thread keeps the invariant.
LEMMA QuietInv ==
  ASSUME StreamInv, Typed', Apart(None), ModelFits', thread' = thread,
         \A s \in Streams : Sound(stream'[s]) /\ stream'[s].lock = stream[s].lock
  PROVE  StreamInv'
  <1>1. model'.active \in Streams \cup {None}  BY DEF Typed, Model
  <1>2. \A r \in Threads : Fits(r)'  BY <1>1, ApartFits
  <1>3. Locked'  BY DEF StreamInv, Locked
  <1>4. OneCounts'  BY DEF StreamInv, OneCounts, Counting
  <1> QED BY <1>2, <1>3, <1>4 DEF StreamInv

LEMMA ReleaseModel ==
  ASSUME model \in Model, NEW s \in Streams, NEW m \in {model, Unqueued(s)}
  PROVE  LET n == Release(m, s) IN
         /\ n \in Model /\ n.closed = model.closed /\ n.unloaded = model.unloaded
         /\ n.active = IF model.active = s THEN None ELSE model.active
         /\ n.streams = model.streams \ {s}
         /\ \A r : r # s /\ Among(model.waiting, r) => Among(n.waiting, r)
  <1> DEFINE q == Without(model.waiting, s)
  <1>1. /\ q \in Seq(Streams)
        /\ \A r : r # s /\ Among(model.waiting, r) => Among(q, r)
    BY WithoutOne DEF Model
  <1> HIDE DEF q
  <1>2. /\ m \in Model /\ m.closed = model.closed /\ m.unloaded = model.unloaded
        /\ m.active = model.active /\ m.streams = model.streams
        /\ m.waiting \in {model.waiting, q}
    BY <1>1 DEF Model, Unqueued, q
  <1> DEFINE n == Release(m, s)
  <1>3. /\ n \in Model /\ n.closed = m.closed /\ n.unloaded = m.unloaded
        /\ n.active = IF m.active = s THEN None ELSE m.active
        /\ n.streams = m.streams \ {s} /\ n.waiting = m.waiting
    BY <1>2 DEF Model, Release
  <1> HIDE DEF n
  <1>4. \A r : r # s /\ Among(model.waiting, r) => Among(n.waiting, r)  BY <1>1, <1>2, <1>3
  <1>5. /\ n \in Model /\ n.closed = model.closed /\ n.unloaded = model.unloaded
        /\ n.active = IF model.active = s THEN None ELSE model.active
        /\ n.streams = model.streams \ {s}
    BY <1>2, <1>3
  <1> QED BY <1>4, <1>5 DEF n

----------------------------------------------------------------------------
(* The steps of a thread that drives a stream.                             *)

\* The thread of a generator is in the one active stream, which it locks.
LEMMA DrivesOne ==
  ASSUME StreamInv, NEW t \in Threads, thread[t].at \in Working
  PROVE  LET s == thread[t].s IN
         /\ s \in Streams /\ stream[s] \in Stream /\ Sound(stream[s]) /\ stream[s].made
         /\ thread[t] \in Thread
         /\ thread[t].at \in Holding => stream[s].lock = t
         /\ thread[t].at \in {"run", "native", "event"} =>
              stream[s].gen \in RunGens /\ ~stream[s].counts /\ ~Settled(stream[s]) /\ model.active = s
  <1> DEFINE s == thread[t].s
  <1>1. s \in Streams /\ stream[s].made  BY DEF StreamInv, Fits
  <1>2. stream[s] \in Stream /\ Sound(stream[s]) /\ thread[t] \in Thread
    BY <1>1 DEF StreamInv, Typed
  <1>3. thread[t].at \in Holding => stream[s].lock = t  BY <1>1 DEF StreamInv, Locked
  <1>4. thread[t].at \in {"run", "native", "event"} => stream[s].gen \in RunGens
    BY DEF StreamInv, Fits
  <1>5. stream[s].gen \in RunGens =>
          ~stream[s].counts /\ ~Settled(stream[s]) /\ model.active = s
    BY <1>1, <1>2 DEF Sound, StreamInv, ModelFits, RunGens
  <1> QED BY <1>1, <1>2, <1>3, <1>4, <1>5

\* The generator goes on.
LEMMA GoesInv ==
  ASSUME StreamInv, NEW t \in Threads, thread[t].at \in {"run", "native", "event"},
         NEW y, NEW a \in {"run", "native", "event", "leave"},
         Sound(y), y.gen \in RunGens, Held(stream[thread[t].s], y),
         a = "native" => y.gen = "step",
         stream' = [stream EXCEPT ![thread[t].s] = y],
         thread' = [thread EXCEPT ![t].at = a],
         model' = model,
         native' \in {native, native \cup {thread[t].s}, native \ {thread[t].s}}
  PROVE  StreamInv'
  <1> DEFINE s == thread[t].s  x == stream[s]
  <1>1. /\ s \in Streams /\ x.made /\ x.lock = t /\ x.gen \in RunGens
        /\ ~x.counts /\ model.active = s /\ thread[t] \in Thread
    BY DrivesOne DEF Working, Holding, Driving
  <1>2. Typed /\ Fits(t) /\ Locked /\ ModelFits  BY DEF StreamInv
  <1>3. /\ thread' \in [Threads -> Thread] /\ thread'[t].at = a /\ thread'[t].s = s
        /\ thread'[t].op = thread[t].op /\ thread'[t].todo = thread[t].todo
        /\ \A r \in Threads : r # t => thread'[r] = thread[r]
    BY <1>1, <1>2 DEF Typed, Thread, Places, Driving
  <1> HIDE DEF s
  <1>4. /\ stream' \in [Streams -> Stream] /\ stream'[s] = y
        /\ \A r \in Streams : r # s => stream'[r] = stream[r]
    BY <1>1, <1>2 DEF Typed, Sound, s
  <1>5. y.made /\ y.lock = t /\ ~y.counts /\ y.counts = x.counts /\ y.owner = x.owner  BY <1>1 DEF Held, s
  <1>6. \A r \in Streams : Sound(stream'[r])  BY <1>4 DEF StreamInv
  <1>7. Typed'  BY <1>1, <1>2, <1>3, <1>4 DEF Typed, s
  <1>8. Apart(t)
    <2>1. \A r \in Threads \ {t} : thread'[r] = thread[r]  BY <1>3
    <2>2. ASSUME NEW r \in Streams, r # s
          PROVE  stream'[r] = stream[r] /\ (InQueue(r) => InQueue(r)')
      BY <1>4, <2>2 DEF InQueue
    <2>3. /\ stream'[s].made /\ stream'[s].counts = x.counts /\ stream'[s].owner = x.owner
          /\ stream'[s].lock = x.lock /\ x.lock = t
      BY <1>1, <1>4, <1>5
    <2> QED BY <2>1, <2>2, <2>3 DEF Apart
  <1>9. ModelFits'
    <2>1. \A q \in model'.streams : stream'[q].made
      <3> SUFFICES ASSUME NEW q \in model.streams PROVE stream'[q].made  OBVIOUS
      <3>1. q \in Streams /\ stream[q].made  BY <1>2 DEF Typed, Model, ModelFits
      <3> QED BY <1>4, <1>5, <3>1
    <2>2. \A q \in Streams : /\ stream'[q].gen \in RunGens => model'.active = q
                             /\ q \in native' => stream'[q].gen \in RunGens
      BY <1>1, <1>2, <1>4 DEF ModelFits, s
    <2> QED BY <1>2, <2>1, <2>2 DEF ModelFits
  <1>10. Fits(t)'
    <2>1. /\ thread[t].op # "count" /\ \A q \in thread[t].todo : stream[q].made
          /\ thread[t].op = "unload" => model.closed
      BY <1>1, <1>2 DEF Fits, s, Working, Holding, Driving
    <2>2. \A q \in thread[t].todo : stream'[q].made
      <3>1. thread[t].todo \subseteq Streams  BY <1>1 DEF Thread
      <3> QED BY <1>4, <1>5, <2>1, <3>1
    <2> QED BY <1>1, <1>3, <1>4, <1>5, <2>1, <2>2 DEF Fits
  <1>11. \A r \in Streams : stream'[r].lock = t <=> thread'[t].s = r /\ thread'[t].at \in Holding
    <2>1. thread[t].at \in Holding /\ a \in Holding  BY DEF Holding, Driving
    <2> QED BY <1>2, <1>3, <1>4, <1>5, <2>1 DEF Locked
  <1>12. ~Counting(t)'
    <2>1. thread[t].op # "count"
      BY <1>1, <1>2 DEF Fits, s, Working, Holding, Driving
    <2> QED BY <1>3, <2>1 DEF Counting
  <1> QED BY <1>6, <1>7, <1>8, <1>9, <1>10, <1>11, <1>12, StepInv

\* A stream ends in the hands of the thread that has its lock.
LEMMA EndedInv ==
  ASSUME StreamInv, NEW t \in Threads, thread[t].at \in Holding,
         NEW y, Sound(y), y.gen \notin RunGens,
         y.made = stream[thread[t].s].made, y.counts = stream[thread[t].s].counts,
         y.owner = stream[thread[t].s].owner, y.lock \in {t, None},
         NEW th \in Thread, Fits(t)',
         y.lock = t <=> th.at \in Holding, th.at \in Holding => th.s = thread[t].s,
         th.op = "count" /\ th.at \in Working => Counting(t) /\ th.s = thread[t].s,
         NEW m \in {model, Unqueued(thread[t].s)},
         stream' = [stream EXCEPT ![thread[t].s] = y],
         thread' = [thread EXCEPT ![t] = th],
         model' = Release(m, thread[t].s),
         native' = native \ {thread[t].s}
  PROVE  StreamInv'
  <1> DEFINE s == thread[t].s  x == stream[s]
  <1>1. s \in Streams /\ x.made /\ x.lock = t /\ thread[t] \in Thread
    BY DrivesOne DEF Working
  <1>2. Typed /\ Locked /\ ModelFits  BY DEF StreamInv
  <1>3. /\ thread' \in [Threads -> Thread] /\ thread'[t] = th
        /\ \A r \in Threads : r # t => thread'[r] = thread[r]
    BY <1>2 DEF Typed
  <1>m. /\ model' \in Model /\ model'.closed = model.closed /\ model'.unloaded = model.unloaded
        /\ model'.active = IF model.active = s THEN None ELSE model.active
        /\ model'.streams = model.streams \ {s}
        /\ \A r : r # s /\ Among(model.waiting, r) => Among(model'.waiting, r)
    BY <1>1, <1>2, ReleaseModel DEF Typed
  <1> HIDE DEF s
  <1>4. /\ stream' \in [Streams -> Stream] /\ stream'[s] = y
        /\ \A r \in Streams : r # s => stream'[r] = stream[r]
    BY <1>1, <1>2 DEF Typed, Sound, s
  <1>5. y.made = x.made /\ y.counts = x.counts /\ y.owner = x.owner  BY DEF s
  <1>6. \A r \in Streams : Sound(stream'[r])  BY <1>4 DEF StreamInv
  <1>7. Typed'  BY <1>2, <1>3, <1>4, <1>m DEF Typed
  <1>8. Apart(t)
    <2>1. \A r \in Threads \ {t} : thread'[r] = thread[r]  BY <1>3
    <2>2. ASSUME NEW r \in Streams, r # s
          PROVE  stream'[r] = stream[r] /\ (InQueue(r) => InQueue(r)')
      BY <1>4, <1>m, <2>2 DEF InQueue, Among
    <2>3. /\ stream'[s].made /\ stream'[s].counts = x.counts /\ stream'[s].owner = x.owner
          /\ {stream'[s].lock, x.lock} \subseteq {t, None} /\ x.lock = t
      BY <1>1, <1>4, <1>5
    <2>4. \/ model'.active = model.active
          \/ model'.active = None /\ model.active = s
      BY <1>m
    <2>5. \A r \in Threads \ {t} : thread[r].at = "inspect" => thread[r].s # s
      BY <1>1, <1>2 DEF Locked, Holding, Driving
    <2> QED BY <1>m, <2>1, <2>2, <2>3, <2>4, <2>5 DEF Apart
  <1>9. ModelFits'
    <2>1. \A q \in model'.streams : stream'[q].made
      <3> SUFFICES ASSUME NEW q \in model.streams, q # s PROVE stream'[q].made  BY <1>m
      <3>1. q \in Streams /\ stream[q].made  BY <1>2 DEF Typed, Model, ModelFits
      <3> QED BY <1>4, <1>5, <3>1
    <2>2. \A q \in Streams : /\ stream'[q].gen \in RunGens => model'.active = q
                             /\ q \in native' => stream'[q].gen \in RunGens
      BY <1>1, <1>2, <1>4, <1>5, <1>m DEF ModelFits, s
    <2>3. model'.unloaded => model'.closed /\ model'.active = None
      BY <1>2, <1>m DEF ModelFits
    <2> QED BY <2>1, <2>2, <2>3 DEF ModelFits
  <1>11. \A r \in Streams : stream'[r].lock = t <=> thread'[t].s = r /\ thread'[t].at \in Holding
    <2>1. th.at \in Holding => th.s = s  BY DEF s
    <2>2. \A r \in Streams : r # s => stream[r].lock # t  BY <1>1, <1>2 DEF Locked, s
    <2> QED BY <1>3, <1>4, <2>1, <2>2
  <1>12. Counting(t)' => Counting(t) /\ thread'[t].s = thread[t].s
    BY <1>3 DEF Counting
  <1> QED BY <1>6, <1>7, <1>8, <1>9, <1>11, <1>12, StepInv

\* A stream ends in the hands of its driver, which has still to leave.
LEMMA EndsInv ==
  ASSUME StreamInv, NEW t \in Threads, thread[t].at \in Driving,
         NEW y, Closes(stream[thread[t].s], y), NEW a \in {"leave", "unlock"},
         NEW m \in {model, Unqueued(thread[t].s)},
         stream' = [stream EXCEPT ![thread[t].s] = y],
         thread' = [thread EXCEPT ![t].at = a],
         model' = Release(m, thread[t].s),
         native' = native \ {thread[t].s}
  PROVE  StreamInv'
  <1> DEFINE s == thread[t].s  x == stream[s]  th == [thread[t] EXCEPT !.at = a]
  <1>1. /\ s \in Streams /\ x.made /\ x.lock = t /\ thread[t] \in Thread
        /\ thread[t].at \in Holding /\ thread[t].at \in Working
    BY DrivesOne DEF Working, Holding
  <1>2. Typed /\ Fits(t)  BY DEF StreamInv
  <1>3. /\ th \in Thread /\ th.at = a /\ th.s = s /\ th.op = thread[t].op /\ th.todo = thread[t].todo
        /\ a \in Holding
    BY <1>1 DEF Thread, Places, Holding, Driving
  <1>4. thread' = [thread EXCEPT ![t] = th] /\ thread'[t] = th  BY <1>2 DEF Typed
  <1> HIDE DEF th, s
  <1>5. /\ stream'[s] = y /\ \A r \in Streams : r # s => stream'[r] = stream[r]
    BY <1>1, <1>2 DEF Typed, s
  <1>6. /\ y.made = x.made /\ y.lock = t /\ y.counts = x.counts /\ y.owner = x.owner /\ Sound(y)
        /\ y.gen \notin RunGens
    BY <1>1 DEF Closes, s, RunGens
  <1>7. Fits(t)'
    <2>1. /\ thread[t].op = "count" => x.counts
          /\ x.counts => thread[t].op = "count"
          /\ \A q \in thread[t].todo : stream[q].made
      BY <1>1, <1>2 DEF Fits, s, Holding
    <2>2. \A q \in thread[t].todo : stream'[q].made
      <3>1. thread[t].todo \subseteq Streams  BY <1>1 DEF Thread
      <3> QED BY <1>1, <1>5, <1>6, <2>1, <3>1
    <2>3. /\ thread'[t].at = a /\ thread'[t].s = s /\ thread'[t].op = thread[t].op
          /\ thread'[t].todo = thread[t].todo
      BY <1>3, <1>4
    <2>4. /\ stream'[s].made
          /\ thread[t].op = "count" => stream'[s].counts
          /\ stream'[s].counts => thread[t].op = "count"
      BY <1>1, <1>5, <1>6, <2>1
    <2>5. thread[t].op = "unload" => model'.closed
      <3>1. model'.closed = model.closed  BY <1>1, <1>2, ReleaseModel DEF s, Typed
      <3> QED BY <1>2, <3>1 DEF Fits
    <2> QED BY <1>1, <2>2, <2>3, <2>4, <2>5 DEF Fits
  <1>8. th.op = "count" /\ th.at \in Working => Counting(t) /\ th.s = s
    BY <1>1, <1>3 DEF Counting
  <1>9. /\ th.at \in Holding => th.s = thread[t].s
        /\ th.op = "count" /\ th.at \in Working => Counting(t) /\ th.s = thread[t].s
    BY <1>3, <1>8 DEF s
  <1>10. y.lock \in {t, None} /\ (y.lock = t <=> th.at \in Holding)  BY <1>3, <1>6
  <1>11. /\ y.made = stream[thread[t].s].made /\ y.counts = stream[thread[t].s].counts
         /\ y.owner = stream[thread[t].s].owner
    BY DEF Closes
  <1> QED BY <1>1, <1>3, <1>4, <1>6, <1>7, <1>9, <1>10, <1>11, EndedInv

----------------------------------------------------------------------------
(* The claim and the end of a drive.                                       *)

\* t moves between places where it has the lock; the streams are as they were.
LEMMA MoveInv ==
  ASSUME StreamInv, NEW t \in Threads, thread[t].at \in Driving, NEW a \in Driving,
         stream' = stream, native' = native,
         thread' = [thread EXCEPT ![t].at = a],
         model' \in Model, model'.closed = model.closed, model'.unloaded = model.unloaded,
         model'.active = model.active, model'.streams = model.streams,
         \A r : r # thread[t].s /\ Among(model.waiting, r) => Among(model'.waiting, r),
         a \in {"leave", "unlock"} \/ (a = "queued" /\ thread[t].at = "claim" /\ Fits(t)')
  PROVE  StreamInv'
  <1> DEFINE s == thread[t].s  x == stream[s]
  <1>1. s \in Streams /\ x.made /\ x.lock = t /\ thread[t] \in Thread
    BY DrivesOne DEF Working, Holding
  <1>2. Typed /\ Fits(t) /\ Locked /\ ModelFits  BY DEF StreamInv
  <1>3. /\ thread' \in [Threads -> Thread] /\ thread'[t].at = a /\ thread'[t].s = s
        /\ thread'[t].op = thread[t].op /\ thread'[t].todo = thread[t].todo
        /\ \A r \in Threads : r # t => thread'[r] = thread[r]
    BY <1>1, <1>2 DEF Typed, Thread, Places, Driving
  <1>6. \A r \in Streams : Sound(stream'[r])  BY DEF StreamInv
  <1>7. Typed'  BY <1>2, <1>3 DEF Typed
  <1>8. Apart(t)
    <2>1. \A r \in Streams : r # s => (InQueue(r) => InQueue(r)')  BY DEF InQueue, Among
    <2> QED BY <1>1, <1>3, <2>1 DEF Apart
  <1>9. ModelFits'  BY <1>2 DEF ModelFits
  <1>10. Fits(t)'
    <2>1. CASE a = "queued"  BY <2>1
    <2>2. CASE a \in {"leave", "unlock"}
      <3>1. /\ thread[t].op = "count" => x.counts
            /\ x.counts => thread[t].op = "count"
            /\ thread[t].op = "unload" => model.closed
            /\ \A q \in thread[t].todo : stream[q].made
        BY <1>1, <1>2 DEF Fits, Working, Holding
      <3> QED BY <1>1, <1>3, <2>2, <3>1 DEF Fits
    <2> QED BY <2>1, <2>2
  <1> HIDE DEF s
  <1>11. \A r \in Streams : stream'[r].lock = t <=> thread'[t].s = r /\ thread'[t].at \in Holding
    <2>1. thread[t].at \in Holding /\ a \in Holding  BY DEF Holding
    <2> QED BY <1>2, <1>3, <2>1 DEF Locked, s
  <1>12. Counting(t)' => Counting(t) /\ thread'[t].s = thread[t].s
    <2>1. thread[t].at \in Working  BY DEF Working, Holding
    <2> QED BY <1>3, <2>1 DEF Counting, s
  <1> QED BY <1>6, <1>7, <1>8, <1>9, <1>10, <1>11, <1>12, StepInv

\* The queue of a model without the stream.
LEMMA UnqueuedModel ==
  ASSUME model \in Model, NEW s \in Streams
  PROVE  LET n == Unqueued(s) IN
         /\ n \in Model /\ n.closed = model.closed /\ n.unloaded = model.unloaded
         /\ n.active = model.active /\ n.streams = model.streams
         /\ \A r : r # s /\ Among(model.waiting, r) => Among(n.waiting, r)
  BY WithoutOne DEF Model, Unqueued

LEMMA CountRaisesInv ==
  ASSUME StreamInv, NEW t \in Threads, thread[t].at \in Driving, CountRaises(t)
  PROVE  StreamInv'
  <1>1. thread[t].s \in Streams  BY DrivesOne DEF Working, Holding
  <1>2. model \in Model  BY DEF StreamInv, Typed
  <1> DEFINE n == Unqueued(thread[t].s)
  <1>3. /\ n \in Model /\ n.closed = model.closed /\ n.unloaded = model.unloaded
        /\ n.active = model.active /\ n.streams = model.streams
        /\ \A r : r # thread[t].s /\ Among(model.waiting, r) => Among(n.waiting, r)
    BY <1>1, <1>2, UnqueuedModel
  <1>4. /\ model' = n /\ stream' = stream /\ native' = native
        /\ thread' = [thread EXCEPT ![t].at = "leave"]
    BY DEF CountRaises, GoTo
  <1> HIDE DEF n
  <1>5. "leave" \in Driving  BY DEF Driving
  <1> QED BY <1>3, <1>4, <1>5, MoveInv

LEMMA EndInv ==
  ASSUME StreamInv, NEW t \in Threads, thread[t].at \in Driving,
         NEW y, Closes(My(t), y), Ends(t, y)
  PROVE  StreamInv'
  <1>1. /\ stream' = [stream EXCEPT ![thread[t].s] = y]
        /\ thread' = [thread EXCEPT ![t].at = "leave"]
        /\ model' = Release(Unqueued(thread[t].s), thread[t].s)
        /\ native' = native \ {thread[t].s}
        /\ Closes(stream[thread[t].s], y)
    BY DEF Ends, Update, GoTo, My
  <1> QED BY <1>1, EndsInv

LEMMA FailsInv ==
  ASSUME StreamInv, NEW t \in Threads, thread[t].at \in Driving, Fails(t)
  PROVE  StreamInv'
  <1>1. Ends(t, Failure(My(t)))  BY DEF Fails, Failure
  <1>2. Closes(My(t), Failure(My(t)))
    BY DrivesOne, FailureCloses DEF My, Working, Holding
  <1> QED BY <1>1, <1>2, EndInv

LEMMA CancelsInv ==
  ASSUME StreamInv, NEW t \in Threads, thread[t].at \in Driving, Ends(t, Cancelled(My(t)))
  PROVE  StreamInv'
  <1>1. Closes(My(t), Cancelled(My(t)))
    BY DrivesOne, CancelledCloses DEF My, Working, Holding
  <1> QED BY <1>1, EndInv

LEMMA FinishesInv ==
  ASSUME StreamInv, NEW t \in Threads, thread[t].at \in Driving, Ends(t, Finish(Cleanup(My(t)), "ended"))
  PROVE  StreamInv'
  <1>1. Closes(My(t), Finish(Cleanup(My(t)), "ended"))
    BY DrivesOne, FinishedCloses DEF My, Working, Holding
  <1> QED BY <1>1, EndInv

LEMMA NotClaimedInv ==
  ASSUME StreamInv, NEW t \in Threads, thread[t].at \in Driving, NotClaimed(t) \/ ClaimRaises(t)
  PROVE  StreamInv'
  BY CountRaisesInv, CancelsInv, FailsInv DEF NotClaimed, ClaimRaises

LEMMA ClaimInv ==
  ASSUME StreamInv, NEW t \in Threads, Claim(t)
  PROVE  StreamInv'
  <1> DEFINE s == thread[t].s  x == stream[s]
  <1>1. thread[t].at = "claim" /\ thread[t].at \in Driving  BY DEF Claim, At, Driving
  <1>2. CASE NotClaimed(t) \/ ClaimRaises(t)  BY <1>1, <1>2, NotClaimedInv
  <1>3. CASE /\ ~OwnedBy(t) /\ model' = [model EXCEPT !.waiting = Append(@, s)]
             /\ GoTo(t, "queued") /\ UNCHANGED <<stream, native>>
    <2>1. s \in Streams /\ model \in Model /\ thread[t] \in Thread /\ thread \in [Threads -> Thread]
      BY <1>1, DrivesOne DEF Working, Holding, StreamInv, Typed
    <2> DEFINE q == Append(model.waiting, s)
    <2>2. /\ q \in Seq(Streams) /\ Among(q, s)
          /\ \A r : Among(model.waiting, r) => Among(q, r)
      <3>1. model.waiting \in Seq(Streams)  BY <2>1 DEF Model
      <3>2. /\ q \in Seq(Streams) /\ DOMAIN q = 1 .. Len(model.waiting) + 1
            /\ \A i \in 1 .. Len(model.waiting) : q[i] = model.waiting[i]
            /\ q[Len(model.waiting) + 1] = s
            /\ DOMAIN model.waiting = 1 .. Len(model.waiting) /\ Len(model.waiting) \in Nat
        BY <2>1, <3>1, AppendProperties
      <3> HIDE DEF q
      <3> QED BY <3>2 DEF Among
    <2> HIDE DEF q
    <2>3. /\ model' \in Model /\ model'.closed = model.closed /\ model'.unloaded = model.unloaded
          /\ model'.active = model.active /\ model'.streams = model.streams
          /\ model'.waiting = q
      BY <1>3, <2>1, <2>2 DEF Model, q
    <2>4. /\ thread' = [thread EXCEPT ![t].at = "queued"] /\ stream' = stream /\ native' = native
      BY <1>3 DEF GoTo
    <2>5. /\ thread'[t].at = "queued" /\ thread'[t].s = s
          /\ thread'[t].op = thread[t].op /\ thread'[t].todo = thread[t].todo
      BY <2>1, <2>4 DEF Thread
    <2>6. Fits(t)'
      <3>1. \E i \in DOMAIN model'.waiting : model'.waiting[i] = s  BY <2>2, <2>3 DEF Among
      <3>2. ~OwnedBy(t)'  BY <1>3, <2>3, <2>4 DEF OwnedBy
      <3>3. /\ s \in Streams /\ x.made /\ (thread[t].op = "count" => x.counts)
            /\ x.counts => thread[t].op = "count"
            /\ x.gen = "none" /\ (x.counts \/ ~Settled(x))
            /\ thread[t].op = "unload" => model.closed
            /\ \A r \in thread[t].todo : stream[r].made
        BY <1>1, <2>1 DEF StreamInv, Fits, Working, Holding, Driving
      <3>4. /\ thread[t].op = "unload" => model'.closed
            /\ stream'[s].made /\ (thread[t].op = "count" => stream'[s].counts)
            /\ stream'[s].counts => thread[t].op = "count"
            /\ stream'[s].gen = "none" /\ (stream'[s].counts \/ ~Settled(stream'[s]))
            /\ \A r \in thread[t].todo : stream'[r].made
        BY <2>3, <2>4, <3>3
      <3> HIDE DEF s
      <3> QED BY <2>5, <3>1, <3>2, <3>3, <3>4 DEF Fits, InQueue
    <2>7. "queued" \in Driving  BY DEF Driving
    <2> QED BY <1>1, <2>2, <2>3, <2>4, <2>6, <2>7, MoveInv
  <1> QED BY <1>2, <1>3 DEF Claim

\* The first in the queue becomes the active stream.
LEMMA ClaimedInv ==
  ASSUME StreamInv, NEW t \in Threads, At(t, "queued"), FirstInQueue(t), ~model.closed, Claimed(t)
  PROVE  StreamInv'
  <1> DEFINE s == thread[t].s  x == stream[s]
             g == IF x.gen = "none" /\ ~x.counts THEN "begin" ELSE x.gen
             y == [x EXCEPT !.owner = t, !.gen = g]
             a == IF x.counts THEN "inspect" ELSE "run"
  <1>1. /\ s \in Streams /\ x \in Stream /\ Sound(x) /\ x.made /\ x.lock = t /\ thread[t] \in Thread
        /\ thread[t].at \in Driving /\ thread[t].at \in Working
    BY DrivesOne DEF Working, Holding, Driving, At
  <1>2. Typed /\ Fits(t) /\ Locked /\ ModelFits  BY DEF StreamInv
  <1>3. /\ model.active = None /\ ~model.closed /\ InQueue(s) /\ Head(model.waiting) = s
        /\ x.gen = "none" /\ (x.counts \/ ~Settled(x)) /\ (x.counts => thread[t].op = "count")
        /\ (thread[t].op = "count" => x.counts) /\ thread[t].op # "unload"
        /\ \A r \in thread[t].todo : stream[r].made
    BY <1>1, <1>2 DEF FirstInQueue, Fits, At
  <1>4. /\ Tail(model.waiting) \in Seq(Streams)
        /\ \A r : r # s /\ Among(model.waiting, r) => Among(Tail(model.waiting), r)
    <2>1. model.waiting \in Seq(Streams) /\ model.waiting # <<>>
      BY <1>2, <1>3 DEF Typed, Model, InQueue
    <2>2. /\ Tail(model.waiting) \in Seq(Streams) /\ model.waiting[1] = s
          /\ \A k \in DOMAIN model.waiting :
                k = 1 \/ (k - 1 \in DOMAIN Tail(model.waiting)
                          /\ Tail(model.waiting)[k - 1] = model.waiting[k])
      BY <1>3, <2>1, HeadAndTail
    <2> QED BY <2>2 DEF Among
  <1>5. /\ model' \in Model /\ model'.active = s /\ model'.closed = model.closed
        /\ model'.unloaded = model.unloaded /\ model'.streams = model.streams
        /\ model'.waiting = Tail(model.waiting)
    <2> DEFINE q == Tail(model.waiting)
    <2>1. model' = [model EXCEPT !.active = s, !.waiting = q]  BY DEF Claimed
    <2>2. model \in Model  BY <1>2 DEF Typed
    <2> HIDE DEF q, s
    <2>3. /\ model' \in Model /\ model'.active = s /\ model'.closed = model.closed
          /\ model'.unloaded = model.unloaded /\ model'.streams = model.streams
          /\ model'.waiting = q
      BY <1>1, <1>4, <2>1, <2>2 DEF Model, q
    <2> QED BY <2>3 DEF q
  <1>6. stream' = [stream EXCEPT ![s] = y] /\ thread' = [thread EXCEPT ![t].at = a] /\ native' = native
    BY DEF Claimed, Update, GoTo, My
  <1>7. /\ y \in Stream /\ Alike(x, y) /\ y.gen = g /\ y.lock = t /\ y.owner = t /\ y.made = x.made
        /\ y.counts = x.counts
        /\ y.result = x.result /\ y.failed = x.failed /\ y.told = x.told
    <2>1. g \in Gens /\ x.lock = t  BY <1>1 DEF Stream, Gens
    <2> HIDE DEF x, g
    <2>2. /\ y \in Stream /\ Alike(x, y) /\ y.gen = g /\ y.lock = x.lock /\ y.owner = t
          /\ y.made = x.made /\ y.counts = x.counts
          /\ y.result = x.result /\ y.failed = x.failed /\ y.told = x.told
      BY <1>1, <2>1 DEF Stream, Alike
    <2> HIDE DEF y
    <2> QED BY <2>1, <2>2
  <1> HIDE DEF y
  <1>8. Sound(y)
    <2>1. x.calls = <<>>  BY <1>1, <1>3 DEF Sound
    <2>2. CallsFit(y)  BY <1>7, <2>1 DEF CallsFit, Alike
    <2>3. Settled(y) <=> Settled(x)  BY <1>7 DEF Settled
    <2>4. Cardinality(Running(y)) <= y.opt.limit  BY <1>1, <1>7, AlikeRunning DEF Sound, Alike
    <2>5. y.told # None => Told(y)  BY <1>1, <1>7 DEF Sound, Alike, Told
    <2>6. (y.gen = "none" /\ x.counts) \/ (y.gen = "begin" /\ ~x.counts /\ ~Settled(x))
      BY <1>3, <1>7
    <2> QED BY <1>1, <1>7, <2>1, <2>2, <2>3, <2>4, <2>5, <2>6 DEF Sound, Alike, RunGens
  <1>9. /\ thread' \in [Threads -> Thread] /\ thread'[t].at = a /\ thread'[t].s = s
        /\ thread'[t].op = thread[t].op /\ thread'[t].todo = thread[t].todo
        /\ \A r \in Threads : r # t => thread'[r] = thread[r]
    BY <1>1, <1>2, <1>6 DEF Typed, Thread, Places, Driving
  <1> HIDE DEF s
  <1>10. /\ stream' \in [Streams -> Stream] /\ stream'[s] = y
         /\ \A r \in Streams : r # s => stream'[r] = stream[r]
    BY <1>1, <1>2, <1>6, <1>7 DEF Typed
  <1>11. \A r \in Streams : Sound(stream'[r])  BY <1>8, <1>10 DEF StreamInv
  <1>12. Typed'  BY <1>2, <1>5, <1>6, <1>9, <1>10 DEF Typed
  <1>13. Apart(t)
    <2>1. \A r \in Threads \ {t} : thread'[r] = thread[r]  BY <1>9
    <2>2. ASSUME NEW r \in Streams, r # s
          PROVE  stream'[r] = stream[r] /\ (InQueue(r) => InQueue(r)')
      BY <1>4, <1>5, <1>10, <2>2 DEF InQueue, Among
    <2>3. /\ stream'[s].made /\ stream'[s].counts = x.counts /\ stream'[s].owner = t
          /\ stream'[s].lock = x.lock /\ x.lock = t
      BY <1>1, <1>7, <1>10
    <2>4. model.active = None /\ model'.active # None /\ stream'[model'.active].owner = t
      BY <1>1, <1>3, <1>5, <2>3
    <2> QED BY <2>1, <2>2, <2>3, <2>4 DEF Apart
  <1>14. ModelFits'
    <2>1. \A q \in model'.streams : stream'[q].made
      <3> SUFFICES ASSUME NEW q \in model.streams PROVE stream'[q].made  BY <1>5
      <3>1. q \in Streams /\ stream[q].made  BY <1>2 DEF Typed, Model, ModelFits
      <3> QED BY <1>1, <1>7, <1>10, <3>1
    <2>2. \A q \in Streams : stream[q].gen \notin RunGens /\ q \notin native
      BY <1>2, <1>3 DEF ModelFits
    <2>3. \A q \in Streams : /\ stream'[q].gen \in RunGens => model'.active = q
                             /\ q \in native' => stream'[q].gen \in RunGens
      BY <1>5, <1>6, <1>10, <2>2
    <2>4. ~model'.unloaded  BY <1>2, <1>3, <1>5 DEF ModelFits
    <2> QED BY <2>1, <2>3, <2>4 DEF ModelFits
  <1>15. Fits(t)'
    <2>1. thread[t].todo \subseteq Streams  BY <1>1 DEF Thread
    <2>2. \A q \in thread[t].todo : stream'[q].made  BY <1>1, <1>3, <1>7, <1>10, <2>1
    <2>3. ~x.counts => y.gen = "begin" /\ "begin" \in RunGens  BY <1>3, <1>7 DEF RunGens, Gens
    <2> QED BY <1>1, <1>3, <1>5, <1>7, <1>9, <1>10, <2>2, <2>3 DEF Fits
  <1>16. \A r \in Streams : stream'[r].lock = t <=> thread'[t].s = r /\ thread'[t].at \in Holding
    <2>1. thread[t].at \in Holding /\ a \in Holding  BY <1>1 DEF Holding, Driving
    <2> QED BY <1>1, <1>2, <1>7, <1>9, <1>10, <2>1 DEF Locked, s
  <1>17. Counting(t)' => Counting(t) /\ thread'[t].s = thread[t].s
    BY <1>1, <1>9 DEF Counting, s
  <1> QED BY <1>11, <1>12, <1>13, <1>14, <1>15, <1>16, <1>17, StepInv

LEMMA QueuedInv ==
  ASSUME StreamInv, NEW t \in Threads, Queued(t)
  PROVE  StreamInv'
  <1>1. thread[t].at \in Driving /\ At(t, "queued")  BY DEF Queued, At, Driving
  <1>2. CASE NotClaimed(t) \/ ClaimRaises(t)  BY <1>1, <1>2, NotClaimedInv
  <1>3. CASE FirstInQueue(t) /\ ~model.closed /\ Claimed(t)  BY <1>1, <1>3, ClaimedInv
  <1> QED BY <1>2, <1>3 DEF Queued

----------------------------------------------------------------------------
(* The generator.                                                          *)

\* The generator stays in the hands of t, with the round as it was.
LEMMA RunsInv ==
  ASSUME StreamInv, NEW t \in Threads, thread[t].at \in {"run", "native", "event"},
         NEW y, Sound(y), y.gen \in RunGens, Held(My(t), y), Update(t, y), model' = model,
         native' \in {native, native \cup {thread[t].s}, native \ {thread[t].s}},
         thread' = thread \/ \E a \in {"run", "event"} : GoTo(t, a),
         thread[t].at = "run" \/ \E a \in {"run", "event"} : GoTo(t, a)
  PROVE  StreamInv'
  <1>1. stream' = [stream EXCEPT ![thread[t].s] = y]  BY DEF Update
  <1>2. \E a \in {"run", "event"} : thread' = [thread EXCEPT ![t].at = a]
    <2>1. CASE \E a \in {"run", "event"} : GoTo(t, a)  BY <2>1 DEF GoTo
    <2>2. CASE thread' = thread /\ thread[t].at = "run"
      <3>1. thread \in [Threads -> Thread] /\ thread[t] \in Thread  BY DEF StreamInv, Typed
      <3>2. [thread[t] EXCEPT !.at = "run"] = thread[t]  BY <2>2, <3>1 DEF Thread
      <3> QED BY <2>2, <3>1, <3>2
    <2> QED BY <2>1, <2>2
  <1>3. PICK a \in {"run", "event"} : thread' = [thread EXCEPT ![t].at = a]  BY <1>2
  <1>4. a # "native" /\ a \in {"run", "native", "event", "leave"}  OBVIOUS
  <1> QED BY <1>1, <1>3, <1>4, GoesInv DEF My

\* A step of the generator to another place.
LEMMA PlaceInv ==
  ASSUME StreamInv, NEW t \in Threads, thread[t].at \in {"run", "native", "event"},
         NEW y, Alike(My(t), y), Held(My(t), y),
         My(t).gen # "raise", y.gen \in RunGens,
         y.gen \in {"evaluate", "begin"} =>
           My(t).gen \in {"evaluate", "begin"} \/ Pending(My(t)) \cup Running(My(t)) = {},
         y.result = My(t).result, y.failed = My(t).failed, y.told = My(t).told,
         Update(t, y), model' = model,
         native' \in {native, native \cup {thread[t].s}, native \ {thread[t].s}},
         thread' = thread \/ \E a \in {"run", "event"} : GoTo(t, a),
         thread[t].at = "run" \/ \E a \in {"run", "event"} : GoTo(t, a)
  PROVE  StreamInv'
  <1>1. Sound(My(t)) /\ My(t).gen \in RunGens
    BY DrivesOne DEF My, Working, Holding, Driving
  <1>2. Sound(y)  BY <1>1, MoveSound
  <1> QED BY <1>2, RunsInv

\* What a field of a stream that does not matter, or its place, may become.
LEMMA PlaceOf ==
  ASSUME NEW x \in Stream, NEW g \in Gens
  PROVE  LET y == [x EXCEPT !.gen = g]  z == [x EXCEPT !.started = FALSE, !.gen = g] IN
         /\ Alike(x, y) /\ Held(x, y) /\ y.gen = g
         /\ y.result = x.result /\ y.failed = x.failed /\ y.told = x.told
         /\ Alike(x, z) /\ Held(x, z) /\ z.gen = g
         /\ z.result = x.result /\ z.failed = x.failed /\ z.told = x.told
  BY DEF Stream, Alike, Held

\* The generator moves to g.
LEMMA GenInv ==
  ASSUME StreamInv, NEW t \in Threads, thread[t].at \in {"run", "native", "event"},
         NEW g \in RunGens, My(t).gen # "raise",
         g \in {"evaluate", "begin"} =>
           My(t).gen \in {"evaluate", "begin"} \/ Pending(My(t)) \cup Running(My(t)) = {},
         \/ Update(t, [My(t) EXCEPT !.gen = g])
         \/ Update(t, [My(t) EXCEPT !.started = FALSE, !.gen = g]),
         model' = model,
         native' \in {native, native \cup {thread[t].s}, native \ {thread[t].s}},
         thread' = thread \/ \E a \in {"run", "event"} : GoTo(t, a),
         thread[t].at = "run" \/ \E a \in {"run", "event"} : GoTo(t, a)
  PROVE  StreamInv'
  <1>1. My(t) \in Stream /\ g \in Gens
    BY DrivesOne DEF My, Working, Holding, Driving, RunGens
  <1>2. CASE Update(t, [My(t) EXCEPT !.gen = g])
    <2> DEFINE y == [My(t) EXCEPT !.gen = g]
    <2>1. /\ Alike(My(t), y) /\ Held(My(t), y) /\ y.gen = g
          /\ y.result = My(t).result /\ y.failed = My(t).failed /\ y.told = My(t).told
      BY <1>1, PlaceOf
    <2>2. Update(t, y)  BY <1>2
    <2> HIDE DEF y
    <2> QED BY <2>1, <2>2, PlaceInv
  <1>3. CASE Update(t, [My(t) EXCEPT !.started = FALSE, !.gen = g])
    <2> DEFINE y == [My(t) EXCEPT !.started = FALSE, !.gen = g]
    <2>1. /\ Alike(My(t), y) /\ Held(My(t), y) /\ y.gen = g
          /\ y.result = My(t).result /\ y.failed = My(t).failed /\ y.told = My(t).told
      BY <1>1, PlaceOf
    <2>2. Update(t, y)  BY <1>3
    <2> HIDE DEF y
    <2> QED BY <2>1, <2>2, PlaceInv
  <1> QED BY <1>2, <1>3

LEMMA GeneratorInv ==
  ASSUME StreamInv, NEW t \in Threads, Generator(t)
  PROVE  StreamInv'
  <1>1. thread[t].at = "run"
    BY DEF Generator, Stops, BeginRound, NoMoreRounds, Collected, Pump, Pumped, NativeStep, Drain,
           Evaluate, Collect, ResumeRaise, ResumeCancelled, Check, LastRound, Run, At
  <1>2. thread[t].at \in Driving /\ thread[t].at \in {"run", "native", "event"}  BY <1>1 DEF Driving
  <1>3. My(t) \in Stream /\ Sound(My(t)) /\ My(t).gen \in RunGens
    BY <1>1, DrivesOne DEF My, Working, Holding, Driving
  <1>g. \A g \in {"begin", "round", "pump", "step", "received", "drain", "drain_pump", "evaluate",
                  "raise", "cancelled"} : g \in RunGens
    BY DEF RunGens, Gens
  <1>a. CASE Stops(t)
    <2>1. CASE Ends(t, Cancelled(My(t)))  BY <1>2, <2>1, CancelsInv
    <2>2. CASE /\ Update(t, [My(t) EXCEPT !.gen = "cancelled"])
               /\ native' = native \ {thread[t].s} /\ GoTo(t, "event") /\ UNCHANGED model
      <3>1. My(t).gen # "raise"  BY <1>a DEF Stops, Checks
      <3>2. "cancelled" \in RunGens /\ \E a \in {"run", "event"} : GoTo(t, a)  BY <1>g, <2>2
      <3> QED BY <1>2, <2>2, <3>1, <3>2, GenInv
    <2> QED BY <1>a, <2>1, <2>2 DEF Stops, StopsRun
  <1>b. CASE BeginRound(t)
    <2> DEFINE y == [My(t) EXCEPT !.round = @ + 1, !.gen = "round"]
    <2>1. My(t).gen = "begin"  BY <1>b DEF BeginRound, Check, Run
    <2>2. Sound(y) /\ Held(My(t), y)  BY <1>3, <2>1, RoundSound
    <2>3. y.gen \in RunGens  BY <1>3, <1>g DEF Stream
    <2>4. Update(t, y) /\ GoTo(t, "event") /\ model' = model /\ native' = native
      BY <1>b DEF BeginRound, Yields
    <2> HIDE DEF y
    <2>5. \E a \in {"run", "event"} : GoTo(t, a)  BY <2>4
    <2> QED BY <1>2, <2>2, <2>3, <2>4, <2>5, RunsInv
  <1>c. CASE NoMoreRounds(t)  BY <1>2, <1>c, FinishesInv DEF NoMoreRounds
  <1>d. CASE Collected(t)
    <2> DEFINE g == IF My(t).opt.immediate THEN "pump" ELSE "step"
    <2>1. g \in RunGens /\ g \notin {"evaluate", "begin"}  BY <1>g
    <2>2. My(t).gen # "raise"  BY <1>d DEF Collected, Check, Run
    <2>3. Update(t, [My(t) EXCEPT !.gen = g]) /\ model' = model /\ native' = native /\ thread' = thread
      BY <1>d DEF Collected, Continues
    <2> HIDE DEF g
    <2> QED BY <1>1, <2>1, <2>2, <2>3, GenInv
  <1>e. CASE Pump(t)
    <2> DEFINE y == [My(t) EXCEPT !.calls[First(Pending(My(t)))].at = "running", !.started = TRUE]
    <2>1. My(t).gen \in Pumps /\ Startable(My(t))  BY <1>e DEF Pump
    <2>2. Sound(y) /\ Held(My(t), y) /\ y.gen = My(t).gen  BY <1>3, <2>1, PumpSound
    <2>3. Update(t, y) /\ thread' = thread /\ model' = model /\ native' = native
      BY <1>e DEF Pump, Continues
    <2> HIDE DEF y
    <2> QED BY <1>1, <1>3, <2>2, <2>3, RunsInv
  <1>f. CASE Pumped(t)
    <2> DEFINE g == CASE My(t).gen = "pump" -> "step" [] My(t).gen = "received" -> "round" [] OTHER -> "drain"
               y == [My(t) EXCEPT !.started = FALSE, !.gen = g]
    <2>1. g \in RunGens /\ g \notin {"evaluate", "begin"}  BY <1>g
    <2>2. My(t).gen # "raise"  BY <1>f DEF Pumped, Pumps
    <2>3. Update(t, y) /\ model' = model /\ native' = native /\ (thread' = thread \/ GoTo(t, "event"))
      BY <1>f DEF Pumped, Continues, Yields
    <2> HIDE DEF g
    <2>4. thread' = thread \/ \E a \in {"run", "event"} : GoTo(t, a)  BY <2>3
    <2> QED BY <1>1, <2>1, <2>2, <2>3, <2>4, GenInv
  <1>h. CASE NativeStep(t)
    <2> DEFINE s == thread[t].s
    <2>1. My(t).gen = "step" /\ Held(stream[s], My(t))  BY <1>h DEF NativeStep, Check, Run, Held, My
    <2>2. stream' = [stream EXCEPT ![s] = My(t)]
      BY <1>h DEF NativeStep, My, StreamInv, Typed
    <2>3. thread' = [thread EXCEPT ![t].at = "native"] /\ model' = model /\ native' = native \cup {s}
      BY <1>h DEF NativeStep, GoTo
    <2>4. native' \in {native, native \cup {s}, native \ {s}}  BY <2>3
    <2> QED BY <1>2, <1>3, <2>1, <2>2, <2>3, <2>4, GoesInv
  <1>i. CASE Drain(t)
    <2> DEFINE g == IF Pending(My(t)) \cup Running(My(t)) = {} THEN "evaluate" ELSE "drain_pump"
    <2>1. g \in RunGens /\ (g \in {"evaluate", "begin"} => Pending(My(t)) \cup Running(My(t)) = {})
      BY <1>g
    <2>2. My(t).gen # "raise"  BY <1>i DEF Drain, Check, Run
    <2>3. Update(t, [My(t) EXCEPT !.gen = g]) /\ model' = model /\ native' = native /\ thread' = thread
      BY <1>i DEF Drain, Continues
    <2> HIDE DEF g
    <2> QED BY <1>1, <2>1, <2>2, <2>3, GenInv
  <1>j. CASE Evaluate(t)
    <2>1. CASE Continues(t, [My(t) EXCEPT !.gen = "begin"])
      <3>1. My(t).gen = "evaluate" /\ "begin" \in RunGens  BY <1>g, <1>j DEF Evaluate, Check, Run
      <3>2. Update(t, [My(t) EXCEPT !.gen = "begin"]) /\ model' = model /\ native' = native /\ thread' = thread
        BY <2>1 DEF Continues
      <3> QED BY <1>1, <3>1, <3>2, GenInv
    <2>2. CASE Ends(t, Finish(Cleanup(My(t)), "ended"))  BY <1>2, <2>2, FinishesInv
    <2>3. CASE Fails(t)  BY <1>2, <2>3, FailsInv
    <2> QED BY <1>j, <2>1, <2>2, <2>3 DEF Evaluate
  <1>k. ASSUME NEW w \in {"round", "drain"}, Collect(t, w) PROVE StreamInv'
    <2> DEFINE c == Head(My(t).completed)
               fatal == c.kind = "serialization_error" \/ (c.kind = "executor_error" /\ My(t).opt.stop)
               y == [My(t) EXCEPT !.completed = Tail(@), !.calls[c.call].at = "collected",
                                  !.calls[c.call].outcome = CASE c.kind = "output" -> "completed"
                                                              [] c.kind = "executor_error" -> "failed"
                                                              [] OTHER -> @,
                                  !.gen = IF fatal THEN "raise" ELSE @]
    <2>1. My(t).gen \in {"round", "drain"} /\ My(t).completed # <<>>
      BY <1>k DEF Collect, Check, Run
    <2>2. Sound(y) /\ Held(My(t), y) /\ y.gen \in RunGens  BY <1>3, <2>1, CollectSound
    <2>3. Update(t, y) /\ GoTo(t, "event") /\ model' = model /\ native' = native
      BY <1>k DEF Collect, Yields
    <2> HIDE DEF y
    <2>4. \E a \in {"run", "event"} : GoTo(t, a)  BY <2>3
    <2> QED BY <1>2, <2>2, <2>3, <2>4, RunsInv
  <1>l. CASE ResumeRaise(t)  BY <1>2, <1>l, FailsInv DEF ResumeRaise
  <1>m. CASE ResumeCancelled(t)  BY <1>2, <1>m, CancelsInv DEF ResumeCancelled
  <1> QED BY <1>a, <1>b, <1>c, <1>d, <1>e, <1>f, <1>h, <1>i, <1>j, <1>k, <1>l, <1>m DEF Generator

\* What happens in a native step, or between two looks of _next() at its stream.
LEMMA NativeReturnsInv ==
  ASSUME StreamInv, NEW t \in Threads, NativeReturns(t)
  PROVE  StreamInv'
  <1>1. /\ thread[t].at = "native" /\ thread[t].at \in Driving
        /\ thread[t].at \in {"run", "native", "event"}
    BY DEF NativeReturns, At, Driving
  <1>2. My(t).gen = "step" /\ Sound(My(t)) /\ My(t) \in Stream
    BY <1>1, DrivesOne DEF StreamInv, Fits, My, Working, Holding
  <1>3. My(t).gen # "raise"  BY <1>2
  <1>g. {"round", "drain", "received"} \subseteq RunGens  BY DEF RunGens, Gens
  <1>4. CASE /\ \E a \in {"run", "event"} : GoTo(t, a)
             /\ Update(t, [My(t) EXCEPT !.gen = "round"]) /\ UNCHANGED <<model, native>>
    <2>1. "round" \in RunGens  BY <1>g
    <2>2. native' \in {native, native \cup {thread[t].s}, native \ {thread[t].s}} /\ model' = model
      BY <1>4
    <2> QED BY <1>1, <1>3, <1>4, <2>1, <2>2, GenInv
  <1>5. ASSUME NEW outcome \in {None, "invalid"}, Receive(t, outcome) PROVE StreamInv'
    <2> DEFINE g == IF My(t).opt.immediate THEN "received" ELSE "round"
               y == [My(t) EXCEPT !.calls = Append(@, [round |-> My(t).round, outcome |-> outcome,
                                                      at |-> IF outcome = None THEN "asked" ELSE "answered"]),
                                  !.gen = g]
               a == IF My(t).opt.immediate THEN "run" ELSE "event"
    <2>1. g \in {"received", "round"} /\ a \in {"run", "event"}  OBVIOUS
    <2>2. Update(t, y) /\ GoTo(t, a) /\ model' = model /\ native' = native
      BY <1>5 DEF Receive
    <2> HIDE DEF g, a
    <2>3. Sound(y) /\ Held(My(t), y)  BY <1>2, <2>1, ReceiveSound
    <2>4. y.gen \in RunGens
      <3>1. y.gen = g  BY <1>2 DEF Stream
      <3> QED BY <1>g, <2>1, <3>1
    <2> HIDE DEF y
    <2> QED BY <1>1, <2>1, <2>2, <2>3, <2>4, RunsInv
  <1>6. CASE /\ Update(t, [My(t) EXCEPT !.gen = "drain"])
             /\ native' = native \ {thread[t].s}
             /\ \E a \in {"run", "event"} : GoTo(t, a)
             /\ UNCHANGED model
    <2>1. "drain" \in RunGens  BY <1>g
    <2>2. native' \in {native, native \cup {thread[t].s}, native \ {thread[t].s}} /\ model' = model
      BY <1>6
    <2> QED BY <1>1, <1>3, <1>6, <2>1, <2>2, GenInv
  <1>7. CASE Fails(t)  BY <1>1, <1>7, FailsInv
  <1> QED BY <1>4, <1>5, <1>6, <1>7 DEF NativeReturns

LEMMA EventInv ==
  ASSUME StreamInv, NEW t \in Threads, Event(t)
  PROVE  StreamInv'
  <1>1. /\ thread[t].at = "event" /\ thread[t].at \in Driving
        /\ thread[t].at \in {"run", "native", "event"}
    BY DEF Event, At, Driving
  <1>2. CASE Ends(t, Cancelled(My(t)))  BY <1>1, <1>2, CancelsInv
  <1>3. CASE Fails(t)  BY <1>1, <1>3, FailsInv
  <1>4. CASE /\ GoTo(t, IF thread[t].op = "result" THEN "run" ELSE "leave")
             /\ UNCHANGED <<model, stream, native>>
    <2> DEFINE s == thread[t].s  a == IF thread[t].op = "result" THEN "run" ELSE "leave"
    <2>1. Held(stream[s], stream[s]) /\ Sound(stream[s]) /\ stream[s].gen \in RunGens
      BY <1>1, DrivesOne DEF Held, Working, Holding
    <2>2. stream' = [stream EXCEPT ![s] = stream[s]]  BY <1>4 DEF StreamInv, Typed
    <2>3. thread' = [thread EXCEPT ![t].at = a] /\ model' = model /\ native' = native
      BY <1>4 DEF GoTo
    <2>4. a \in {"run", "native", "event", "leave"} /\ a # "native"  OBVIOUS
    <2> HIDE DEF a
    <2> QED BY <1>1, <2>1, <2>2, <2>3, <2>4, GoesInv
  <1> QED BY <1>2, <1>3, <1>4 DEF Event

LEMMA InspectInv ==
  ASSUME StreamInv, NEW t \in Threads, Inspect(t)
  PROVE  StreamInv'
  <1>1. thread[t].at \in Driving /\ "leave" \in Driving  BY DEF Inspect, At, Driving
  <1>2. model \in Model  BY DEF StreamInv, Typed
  <1>3. /\ stream' = stream /\ native' = native /\ model' = model
        /\ thread' = [thread EXCEPT ![t].at = "leave"]
    BY DEF Inspect, GoTo
  <1> QED BY <1>1, <1>2, <1>3, MoveInv

LEMMA LeaveDriveInv ==
  ASSUME StreamInv, NEW t \in Threads, LeaveDrive(t)
  PROVE  StreamInv'
  <1>1. thread[t].at \in Driving /\ "unlock" \in Driving /\ thread' = [thread EXCEPT ![t].at = "unlock"]
    BY DEF LeaveDrive, At, GoTo, Driving
  <1>2. CASE UNCHANGED <<model, stream, native>>
    <2>1. model \in Model  BY DEF StreamInv, Typed
    <2> QED BY <1>1, <1>2, <2>1, MoveInv
  <1>3. CASE /\ Update(t, Cancelled(My(t)))
             /\ model' = Release(model, thread[t].s) /\ native' = native \ {thread[t].s}
    <2> DEFINE s == thread[t].s  y == Cancelled(stream[s])
    <2>1. Closes(stream[s], y)  BY <1>1, DrivesOne, CancelledCloses DEF Working, Holding
    <2>2. stream' = [stream EXCEPT ![s] = y]  BY <1>3 DEF Update, My
    <2> HIDE DEF y
    <2> QED BY <1>1, <1>3, <2>1, <2>2, EndsInv
  <1> QED BY <1>2, <1>3 DEF LeaveDrive

----------------------------------------------------------------------------
(* Locks, requests to close, and what the application calls.               *)

\* A step of t that changes no call and no place of a generator.
LEMMA FrameInv ==
  ASSUME StreamInv, NEW t \in Threads, NEW s \in Streams, NEW y \in Stream, NEW th \in Thread,
         stream' = [stream EXCEPT ![s] = y], thread' = [thread EXCEPT ![t] = th], native' = native,
         Alike(stream[s], y), y.gen = stream[s].gen, y.result = stream[s].result,
         y.failed = stream[s].failed, y.told = stream[s].told,
         y.owner \in {stream[s].owner, t},
         y.lock = stream[s].lock \/ {stream[s].lock, y.lock} \subseteq {t, None},
         model' \in Model, model.closed => model'.closed, model'.waiting = model.waiting, model'.streams \subseteq model.streams,
         model'.unloaded => model'.closed /\ model'.active = None,
         \/ model'.active = model.active
         \/ /\ model'.active = None /\ model.active \in Streams
            /\ stream[model.active].gen \notin RunGens
            /\ \A r \in Threads \ {t} : thread[r].at = "inspect" => thread[r].s # model.active,
         \A r \in Streams : stream'[r].lock = t <=> th.s = r /\ th.at \in Holding,
         Fits(t)',
         th.op = "count" /\ th.at \in Working => Counting(t) /\ th.s = thread[t].s
  PROVE  StreamInv'
  <1>1. Typed /\ Fits(t) /\ Locked /\ ModelFits  BY DEF StreamInv
  <1>2. /\ stream' \in [Streams -> Stream] /\ stream'[s] = y
        /\ \A r \in Streams : r # s => stream'[r] = stream[r]
    BY <1>1 DEF Typed
  <1>3. /\ thread' \in [Threads -> Thread] /\ thread'[t] = th
        /\ \A r \in Threads : r # t => thread'[r] = thread[r]
    BY <1>1 DEF Typed
  <1>4. Typed'  BY <1>1, <1>2, <1>3 DEF Typed
  <1>5. \A r \in Streams : Sound(stream'[r])
    <2>1. Sound(y)  BY FrameSound DEF StreamInv
    <2> QED BY <1>2, <2>1 DEF StreamInv
  <1>6. \A r \in Streams : /\ stream'[r].made = stream[r].made
                           /\ stream'[r].gen = stream[r].gen
                           /\ stream'[r].counts = stream[r].counts
                           /\ Settled(stream'[r]) <=> Settled(stream[r])
    <2>1. y.made = stream[s].made /\ y.counts = stream[s].counts
      BY DEF Alike
    <2>2. Settled(y) <=> Settled(stream[s])  BY DEF Settled
    <2> QED BY <1>2, <2>1, <2>2
  <1>7. Apart(t)
    <2>1. \A r \in Threads \ {t} : thread'[r] = thread[r]  BY <1>3
    <2>2. \A r \in Streams : InQueue(r) => InQueue(r)'  BY DEF InQueue
    <2>3. \A r \in Streams : /\ stream'[r].owner \in {stream[r].owner, t}
                             /\ stream'[r].lock = stream[r].lock \/ {stream[r].lock, stream'[r].lock} \subseteq {t, None}
      BY <1>2
    <2> QED BY <1>6, <2>1, <2>2, <2>3 DEF Apart
  <1>8. ModelFits'
    <2>1. \A q \in model'.streams : stream'[q].made
      <3> SUFFICES ASSUME NEW q \in model.streams PROVE stream'[q].made  OBVIOUS
      <3>1. q \in Streams /\ stream[q].made  BY <1>1 DEF Typed, Model, ModelFits
      <3> QED BY <1>6, <3>1
    <2>2. \A q \in Streams : /\ stream'[q].gen \in RunGens => model'.active = q
                             /\ q \in native' => stream'[q].gen \in RunGens
      BY <1>1, <1>6 DEF ModelFits
    <2> QED BY <2>1, <2>2 DEF ModelFits
  <1>9. \A r \in Streams : stream'[r].lock = t <=> thread'[t].s = r /\ thread'[t].at \in Holding
    BY <1>3
  <1>10. Counting(t)' => Counting(t) /\ thread'[t].s = thread[t].s
    BY <1>3 DEF Counting
  <1> QED BY <1>4, <1>5, <1>7, <1>8, <1>9, <1>10, StepInv

\* What of a stream its lock and its flags do not touch.
Flagged(x, y) ==
  /\ Alike(x, y) /\ y.gen = x.gen /\ y.result = x.result /\ y.failed = x.failed /\ y.told = x.told

LEMMA UnlockFields ==
  ASSUME NEW x \in Stream
  PROVE  LET y == [x EXCEPT !.lock = None, !.driver = None] IN
         y \in Stream /\ Flagged(x, y) /\ y.lock = None /\ y.owner = x.owner
  BY DEF Stream, Alike, Flagged

\* A thread that was not in a stream, or leaves what it does.
LEMMA IdleThread ==
  /\ Idle \in Thread /\ Idle.at = "idle" /\ Idle.op = "none" /\ Idle.s = None /\ Idle.todo = {}
  /\ "idle" \notin Working /\ "unloading" \notin Working
  BY DEF Idle, Thread, Ops, Places, Working, Holding, Driving

LEMMA UnlockInv ==
  ASSUME StreamInv, NEW t \in Threads, Unlock(t)
  PROVE  StreamInv'
  <1> DEFINE s == thread[t].s  x == stream[s]
             y == [x EXCEPT !.lock = None, !.driver = None]
             th == IF thread[t].op = "count" THEN [thread[t] EXCEPT !.at = "close"] ELSE Idle
  <1>1. thread[t].at = "unlock" /\ thread[t].at \in Driving  BY DEF Unlock, At, Driving
  <1>2. s \in Streams /\ x \in Stream /\ x.made /\ x.lock = t /\ thread[t] \in Thread
    BY <1>1, DrivesOne DEF Working, Holding
  <1>3. Typed /\ Fits(t) /\ Locked /\ ModelFits  BY DEF StreamInv
  <1>4. /\ stream' = [stream EXCEPT ![s] = y] /\ thread' = [thread EXCEPT ![t] = th]
        /\ native' = native /\ model' = model
    BY DEF Unlock, Update, My, GoTo, Leave
  <1>5. /\ th \in Thread /\ th.at \in {"close", "idle"} /\ th.at \notin Holding
        /\ th.at = "close" => th.op = "count" /\ th.s = s /\ thread[t].op = "count"
                              /\ th.todo = thread[t].todo
        /\ th.at = "idle" => th.todo = {} /\ th.op = "none"
    BY <1>2, IdleThread DEF Thread, Places, Holding, Driving
  <1>6. y \in Stream /\ Flagged(x, y) /\ y.lock = None /\ y.owner = x.owner
    <2> HIDE DEF x
    <2> QED BY <1>2, UnlockFields
  <1> HIDE DEF y, th
  <1>7. /\ stream'[s] = y /\ thread'[t] = th
        /\ \A r \in Streams : r # s => stream'[r] = stream[r]
    BY <1>2, <1>3, <1>4 DEF Typed
  <1>8. \A r \in Streams : stream'[r].lock # t
    BY <1>1, <1>2, <1>3, <1>6, <1>7 DEF Locked, Holding
  <1>9. thread[t].op = "count" => Counting(t)  BY <1>1 DEF Counting, Working, Holding
  <1>10. Fits(t)'
    <2>1. /\ thread[t].op = "count" => x.counts
          /\ \A q \in thread[t].todo : stream[q].made
      BY <1>1, <1>2, <1>3 DEF Fits, Working, Holding
    <2>2. thread[t].todo \subseteq Streams  BY <1>2 DEF Thread
    <2>3. \A q \in Streams : stream[q].made => stream'[q].made
      BY <1>2, <1>6, <1>7 DEF Flagged, Alike
    <2>4. stream'[s].counts = x.counts  BY <1>6, <1>7 DEF Flagged, Alike
    <2>5. \A q \in th.todo : stream'[q].made  BY <1>5, <2>1, <2>2, <2>3
    <2> HIDE DEF s
    <2>6. th.at \in Working => th.at = "close"  BY <1>5, IdleThread
    <2> QED BY <1>2, <1>5, <1>7, <2>1, <2>3, <2>4, <2>5, <2>6 DEF Fits, Driving
  <1>11. model \in Model /\ (model.unloaded => model.closed /\ model.active = None)
    BY <1>3 DEF Typed, ModelFits
  <1>12. th.op = "count" /\ th.at \in Working => Counting(t) /\ th.s = s
    BY <1>5, <1>9
  <1> HIDE DEF s
  <1>13. /\ Alike(x, y) /\ y.gen = x.gen /\ y.result = x.result /\ y.failed = x.failed /\ y.told = x.told
         /\ y.owner \in {x.owner, t} /\ {x.lock, y.lock} \subseteq {t, None}
    BY <1>2, <1>6 DEF Flagged
  <1> QED BY <1>2, <1>4, <1>5, <1>6, <1>8, <1>10, <1>11, <1>12, <1>13, FrameInv DEF s

\* A step of t that leaves the streams as they are, where t has no lock.
LEMMA StayInv ==
  ASSUME StreamInv, NEW t \in Threads, NEW th \in Thread,
         stream' = stream, thread' = [thread EXCEPT ![t] = th], native' = native,
         thread[t].at \notin Holding, th.at \notin Holding,
         model' \in Model, model.closed => model'.closed, model'.waiting = model.waiting, model'.streams \subseteq model.streams,
         model'.unloaded => model'.closed /\ model'.active = None,
         \/ model'.active = model.active
         \/ /\ model'.active = None /\ model.active \in Streams
            /\ stream[model.active].gen \notin RunGens
            /\ \A r \in Threads \ {t} : thread[r].at = "inspect" => thread[r].s # model.active,
         Fits(t)',
         th.op = "count" /\ th.at \in Working => Counting(t) /\ th.s = thread[t].s
  PROVE  StreamInv'
  <1>1. Typed /\ Locked /\ ModelFits  BY DEF StreamInv
  <1>2. /\ thread' \in [Threads -> Thread] /\ thread'[t] = th
        /\ \A r \in Threads : r # t => thread'[r] = thread[r]
    BY <1>1 DEF Typed
  <1>3. Typed'  BY <1>1, <1>2 DEF Typed
  <1>4. \A r \in Streams : Sound(stream'[r])  BY DEF StreamInv
  <1>5. Apart(t)
    <2>1. \A r \in Threads \ {t} : thread'[r] = thread[r]  BY <1>2
    <2>2. \A r \in Streams : InQueue(r) => InQueue(r)'  BY DEF InQueue
    <2> QED BY <2>1, <2>2 DEF Apart
  <1>6. ModelFits'
    <2>1. \A q \in model'.streams : stream'[q].made  BY <1>1 DEF ModelFits
    <2>2. \A q \in Streams : /\ stream'[q].gen \in RunGens => model'.active = q
                             /\ q \in native' => stream'[q].gen \in RunGens
      BY <1>1 DEF ModelFits
    <2> QED BY <2>1, <2>2 DEF ModelFits
  <1>7. \A r \in Streams : stream'[r].lock = t <=> thread'[t].s = r /\ thread'[t].at \in Holding
    BY <1>1, <1>2 DEF Locked
  <1>8. Counting(t)' => Counting(t) /\ thread'[t].s = thread[t].s
    BY <1>2 DEF Counting
  <1> QED BY <1>3, <1>4, <1>5, <1>6, <1>7, <1>8, StepInv

\* next() and result() take the lock of a stream that is not settled.
LEMMA EnterInv ==
  ASSUME StreamInv, NEW t \in Threads, NEW s \in Streams, NEW th \in Thread,
         stream[s].made, stream[s].lock = None, thread[t].at \notin Holding,
         EnterDrive(t, s), thread' = [thread EXCEPT ![t] = th], UNCHANGED <<model, native>>,
         th.s = s, th.at \in {"claim", "run"},
         th.at = "claim" => stream[s].gen = "none" /\ (stream[s].counts \/ ~Settled(stream[s])),
         th.at = "run" => stream[s].gen \in RunGens,
         th.op # "unload", th.op = "count" <=> stream[s].counts, th.op = "count" => Counting(t) /\ thread[t].s = s,
         \A q \in th.todo : stream[q].made
  PROVE  StreamInv'
  <1> DEFINE x == stream[s]
             o == IF x.gen = "none" THEN x.owner ELSE t
             y == [x EXCEPT !.lock = t, !.driver = t, !.owner = o]
  <1>1. Typed /\ Fits(t) /\ Locked /\ ModelFits /\ x \in Stream  BY DEF StreamInv, Typed
  <1>2. o \in Threads \cup {None} /\ o \in {x.owner, t}  BY <1>1 DEF Stream
  <1>3. stream' = [stream EXCEPT ![s] = y]  BY DEF EnterDrive
  <1> HIDE DEF o
  <1>4. y \in Stream /\ Flagged(x, y) /\ y.lock = t /\ y.owner = o
    <2> HIDE DEF x
    <2> QED BY <1>1, <1>2 DEF Stream, Alike, Flagged
  <1> HIDE DEF y
  <1>5. /\ Alike(x, y) /\ y.gen = x.gen /\ y.result = x.result /\ y.failed = x.failed /\ y.told = x.told
        /\ y.made = x.made /\ y.counts = x.counts
    BY <1>4 DEF Flagged, Alike
  <1>6. /\ stream'[s] = y /\ thread'[t] = th
        /\ \A r \in Streams : r # s => stream'[r] = stream[r]
    BY <1>1, <1>3 DEF Typed
  <1>7. th.at \in Holding /\ th.at \in Driving /\ th.at \in Working  BY DEF Holding, Driving, Working
  <1>8. \A r \in Streams : stream'[r].lock = t <=> th.s = r /\ th.at \in Holding
    BY <1>1, <1>4, <1>6, <1>7 DEF Locked
  <1>9. Fits(t)'
    <2>1. \A q \in th.todo : stream'[q].made
      <3>1. th.todo \subseteq Streams  BY DEF Thread
      <3> QED BY <1>5, <1>6, <3>1
    <2>2. Settled(y) <=> Settled(x)  BY <1>5 DEF Settled
    <2>3. stream'[s].counts <=> x.counts  BY <1>5, <1>6
    <2>4. stream'[s].made /\ stream'[s].gen = x.gen  BY <1>5, <1>6
    <2> QED BY <1>6, <1>7, <2>1, <2>2, <2>3, <2>4 DEF Fits
  <1>10. model \in Model /\ (model.unloaded => model.closed /\ model.active = None)
    BY <1>1 DEF Typed, ModelFits
  <1>11. {x.lock, y.lock} \subseteq {t, None} /\ y.owner \in {x.owner, t}  BY <1>2, <1>4
  <1> QED BY <1>3, <1>4, <1>5, <1>8, <1>9, <1>10, <1>11, FrameInv

LEMMA DriveInv ==
  ASSUME StreamInv, NEW t \in Threads, NEW s \in Streams, NEW op \in {"next", "result"}, Drive(t, s, op)
  PROVE  StreamInv'
  <1> DEFINE th == [Idle EXCEPT !.op = op, !.s = s,
                                !.at = IF stream[s].gen = "none" THEN "claim" ELSE "run"]
  <1>1. /\ stream[s].made /\ ~stream[s].counts /\ ~Settled(stream[s]) /\ stream[s].lock = None
        /\ EnterDrive(t, s) /\ thread' = [thread EXCEPT ![t] = th] /\ UNCHANGED <<model, native>>
        /\ thread[t].at = "idle"
    BY IdleThread DEF Drive
  <1>2. /\ th \in Thread /\ th.s = s /\ th.op = op /\ th.todo = {}
        /\ th.at = IF stream[s].gen = "none" THEN "claim" ELSE "run"
    BY DEF Idle, Thread, Ops, Places, Driving
  <1> HIDE DEF th
  <1>3. stream[s].gen # "none" => stream[s].gen \in RunGens
    <2>1. Sound(stream[s])  BY DEF StreamInv
    <2>2. stream[s].gen \in Gens /\ stream[s].gen # "over"  BY <1>1, <2>1 DEF Sound, Stream
    <2> QED BY <2>2 DEF RunGens
  <1>4. thread[t].at \notin Holding  BY <1>1, IdleThread DEF Working
  <1> QED BY <1>1, <1>2, <1>3, <1>4, EnterInv

LEMMA CountEntersInv ==
  ASSUME StreamInv, NEW t \in Threads, CountEnters(t)
  PROVE  StreamInv'
  <1> DEFINE s == thread[t].s
  <1>1. thread[t].at = "enter" /\ thread[t].at \in Working /\ thread[t].at \notin Holding
    BY DEF CountEnters, At, Working, Holding, Driving
  <1>2. s \in Streams /\ stream[s].made /\ thread[t] \in Thread /\ Sound(stream[s]) /\ Fits(t) /\ Typed
    BY <1>1, DrivesOne DEF StreamInv
  <1>3. CASE stream[s].lock = None /\ EnterDrive(t, s) /\ GoTo(t, "claim")
    <2> DEFINE th == [thread[t] EXCEPT !.at = "claim"]
    <2>1. th \in Thread /\ th.s = s /\ th.op = thread[t].op /\ th.todo = thread[t].todo /\ th.at = "claim"
      BY <1>2 DEF Thread, Places, Driving
    <2>2. thread' = [thread EXCEPT ![t] = th] /\ UNCHANGED <<model, native>>
      BY <1>3 DEF GoTo, CountEnters
    <2> HIDE DEF th
    <2>3. stream[s].counts /\ thread[t].op = "count" /\ Counting(t)
      BY <1>1, <1>2 DEF Fits, Counting
    <2>4. stream[s].gen = "none"  BY <1>2, <2>3 DEF Sound
    <2>5. \A q \in th.todo : stream[q].made  BY <1>2, <2>1 DEF Fits
    <2> QED BY <1>1, <1>2, <1>3, <2>1, <2>2, <2>3, <2>4, <2>5, EnterInv
  <1>4. CASE Leave(t) /\ UNCHANGED stream
    <2>1. stream' = stream /\ native' = native /\ model' = model /\ thread' = [thread EXCEPT ![t] = Idle]
      BY <1>4 DEF Leave, CountEnters
    <2>2. thread'[t] = Idle  BY <1>2, <2>1 DEF Typed
    <2>3. Fits(t)'  BY <2>2, IdleThread DEF Fits, Working, Holding, Driving
    <2>4. model \in Model /\ (model.unloaded => model.closed /\ model.active = None)
      BY DEF StreamInv, Typed, ModelFits
    <2> QED BY <1>1, <2>1, <2>3, <2>4, IdleThread, StayInv DEF Working
  <1> QED BY <1>3, <1>4 DEF CountEnters, My

----------------------------------------------------------------------------
(* close() and unload().                                                   *)

\* Where a thread is after its close().
After(t) == IF thread[t].op = "unload" THEN [thread[t] EXCEPT !.at = "unloading"] ELSE Idle

LEMMA AfterThread ==
  ASSUME StreamInv, NEW t \in Threads
  PROVE  /\ After(t) \in Thread /\ After(t).at \in {"unloading", "idle"}
         /\ After(t).at \notin Working /\ After(t).at \notin Holding
         /\ After(t).at = "unloading" => After(t).op = "unload"
         /\ After(t).op = "unload" => model.closed
         /\ \A q \in After(t).todo : q \in Streams /\ stream[q].made
         /\ Closed(t) => thread' = [thread EXCEPT ![t] = After(t)] /\ thread'[t] = After(t)
  <1>1. thread[t] \in Thread /\ Fits(t) /\ thread \in [Threads -> Thread]  BY DEF StreamInv, Typed
  <1>2. Closed(t) => thread' = [thread EXCEPT ![t] = After(t)]
    BY DEF Closed, After, GoTo, Leave
  <1>3. CASE thread[t].op = "unload"
    <2> DEFINE th == [thread[t] EXCEPT !.at = "unloading"]
    <2>1. After(t) = th  BY <1>3 DEF After
    <2>2. th \in Thread /\ th.at = "unloading" /\ th.op = "unload" /\ th.todo = thread[t].todo
      BY <1>1, <1>3 DEF Thread, Places
    <2> HIDE DEF th
    <2>3. model.closed /\ \A q \in thread[t].todo : stream[q].made  BY <1>1, <1>3 DEF Fits
    <2>4. thread[t].todo \subseteq Streams  BY <1>1 DEF Thread
    <2> QED BY <1>1, <1>2, <2>1, <2>2, <2>3, <2>4, IdleThread DEF Working
  <1>4. CASE thread[t].op # "unload"
    <2>1. After(t) = Idle  BY <1>4 DEF After
    <2> QED BY <1>1, <1>2, <2>1, IdleThread DEF Working
  <1> QED BY <1>3, <1>4

\* A count releases the model it did not hold, or nothing.
LEMMA AfterModel ==
  ASSUME StreamInv, NEW t \in Threads, thread[t].at \in {"close", "try"}, model' = AfterClose(t)
  PROVE  /\ model' \in Model /\ (model.closed => model'.closed) /\ model'.waiting = model.waiting
         /\ model'.streams \subseteq model.streams
         /\ model'.unloaded => model'.closed /\ model'.active = None
         /\ \/ model'.active = model.active
            \/ /\ model'.active = None /\ model.active \in Streams
               /\ stream[model.active].gen \notin RunGens
               /\ \A r \in Threads \ {t} : thread[r].at = "inspect" => thread[r].s # model.active
  <1> DEFINE s == thread[t].s
  <1>1. Typed /\ Fits(t) /\ ModelFits /\ OneCounts  BY DEF StreamInv
  <1>2. s \in Streams /\ Sound(stream[s]) /\ thread[t].at \in Working
    BY DrivesOne DEF Working
  <1>3. CASE thread[t].op # "count"
    <2>1. model' = model  BY <1>3 DEF AfterClose
    <2> QED BY <1>1, <2>1 DEF Typed, ModelFits
  <1>4. CASE thread[t].op = "count"
    <2>1. model' = [model EXCEPT !.active = IF @ = s THEN None ELSE @, !.streams = @ \ {s}]
      BY <1>4 DEF AfterClose, Release
    <2>2. stream[s].counts /\ stream[s].gen = "none" /\ Counting(t)
      BY <1>1, <1>2, <1>4 DEF Fits, Sound, Counting
    <2>3. ASSUME NEW r \in Threads \ {t}, thread[r].at = "inspect" PROVE thread[r].s # s
      <3>1. Fits(r)  BY DEF StreamInv
      <3>2. thread[r].s = s => Counting(r)
        BY <2>2, <2>3, <3>1 DEF Fits, Counting, Driving, Working, Holding
      <3> QED BY <1>1, <2>2, <3>2 DEF OneCounts
    <2> HIDE DEF s
    <2>4. /\ model' \in Model /\ model'.closed = model.closed /\ model'.waiting = model.waiting
          /\ model'.unloaded = model.unloaded /\ model'.streams = model.streams \ {s}
          /\ model'.active = IF model.active = s THEN None ELSE model.active
      BY <1>1, <2>1 DEF Typed, Model
    <2>5. "none" \notin RunGens  BY DEF RunGens
    <2> QED BY <1>1, <1>2, <2>2, <2>3, <2>4, <2>5 DEF ModelFits
  <1> QED BY <1>3, <1>4

LEMMA CloseInv ==
  ASSUME StreamInv, NEW t \in Threads, NEW s \in Streams, Close(t, s)
  PROVE  StreamInv'
  <1> DEFINE th == [Idle EXCEPT !.op = "close", !.s = s, !.at = "close"]
  <1>1. /\ stream[s].made /\ thread' = [thread EXCEPT ![t] = th] /\ thread[t].at = "idle"
        /\ stream' = stream /\ native' = native /\ model' = model
    BY IdleThread DEF Close
  <1>2. th \in Thread /\ th.s = s /\ th.op = "close" /\ th.at = "close" /\ th.todo = {}
    BY DEF Idle, Thread, Ops, Places
  <1> HIDE DEF th
  <1>3. /\ thread'[t] = th /\ model \in Model /\ (model.unloaded => model.closed /\ model.active = None)
    BY <1>1 DEF StreamInv, Typed, ModelFits
  <1>4. Fits(t)'  BY <1>1, <1>2, <1>3 DEF Fits, Driving
  <1>5. "close" \notin Holding /\ "idle" \notin Holding  BY DEF Holding, Driving
  <1> QED BY <1>1, <1>2, <1>3, <1>4, <1>5, StayInv

LEMMA RequestCloseInv ==
  ASSUME StreamInv, NEW t \in Threads, RequestClose(t)
  PROVE  StreamInv'
  <1> DEFINE s == thread[t].s  x == stream[s]
  <1>1. thread[t].at = "close" /\ thread[t].at \notin Holding /\ thread[t].at \in Working
    BY DEF RequestClose, At, Working, Holding, Driving
  <1>2. s \in Streams /\ x \in Stream /\ x.made /\ thread[t] \in Thread /\ Fits(t) /\ Typed /\ Locked
    BY <1>1, DrivesOne DEF StreamInv
  <1>3. CASE Closed(t) /\ model' = AfterClose(t) /\ UNCHANGED stream
    <2>1. native' = native /\ stream' = stream  BY <1>3 DEF RequestClose
    <2>2. thread' = [thread EXCEPT ![t] = After(t)] /\ thread'[t] = After(t)  BY <1>3, AfterThread
    <2>3. model.closed => model'.closed  BY <1>1, <1>3, AfterModel
    <2>4. Fits(t)'
      BY <2>1, <2>2, <2>3, AfterThread DEF Fits, Working, Holding, Driving
    <2>5. After(t) \in Thread /\ After(t).at \notin Holding /\ After(t).at \notin Working  BY AfterThread
    <2>6. /\ model' \in Model /\ (model.closed => model'.closed) /\ model'.waiting = model.waiting
          /\ model'.streams \subseteq model.streams
          /\ model'.unloaded => model'.closed /\ model'.active = None
          /\ \/ model'.active = model.active
             \/ /\ model'.active = None /\ model.active \in Streams
                /\ stream[model.active].gen \notin RunGens
                /\ \A r \in Threads \ {t} : thread[r].at = "inspect" => thread[r].s # model.active
      BY <1>1, <1>3, AfterModel
    <2> QED BY <1>1, <2>1, <2>2, <2>4, <2>5, <2>6, StayInv
  <1>4. CASE /\ Update(t, [My(t) EXCEPT !.closing = TRUE, !.cancel = TRUE])
             /\ GoTo(t, "try") /\ UNCHANGED model
    <2> DEFINE y == [x EXCEPT !.closing = TRUE, !.cancel = TRUE]
               th == [thread[t] EXCEPT !.at = "try"]
    <2>1. /\ stream' = [stream EXCEPT ![s] = y] /\ thread' = [thread EXCEPT ![t] = th]
          /\ native' = native /\ model' = model
      BY <1>4 DEF RequestClose, Update, My, GoTo
    <2>2. /\ th \in Thread /\ th.at = "try" /\ th.s = s /\ th.op = thread[t].op /\ th.todo = thread[t].todo
      BY <1>2 DEF Thread, Places
    <2>3. y \in Stream /\ Flagged(x, y) /\ y.lock = x.lock /\ y.owner = x.owner
      <3> HIDE DEF x
      <3> QED BY <1>2 DEF Stream, Flagged, Alike
    <2> HIDE DEF y, th
    <2>4. /\ stream'[s] = y /\ thread'[t] = th
          /\ \A r \in Streams : r # s => stream'[r] = stream[r]
      BY <1>2, <2>1 DEF Typed
    <2>5. /\ Alike(x, y) /\ y.gen = x.gen /\ y.result = x.result /\ y.failed = x.failed /\ y.told = x.told
          /\ y.made = x.made /\ y.counts = x.counts
      BY <2>3 DEF Flagged, Alike
    <2>6. "try" \notin Holding /\ "try" \notin Driving  BY DEF Holding, Driving
    <2>7. \A r \in Streams : stream'[r].lock # t
      BY <1>1, <1>2, <2>3, <2>4 DEF Locked
    <2>8. Fits(t)'
      <3>1. thread[t].todo \subseteq Streams  BY <1>2 DEF Thread
      <3>2. \A q \in thread[t].todo : stream'[q].made  BY <1>2, <2>4, <2>5, <3>1 DEF Fits
      <3>3. /\ stream'[s].made /\ (thread[t].op = "count" => stream'[s].counts)
            /\ thread[t].op = "unload" => model'.closed
        BY <1>1, <1>2, <2>1, <2>4, <2>5 DEF Fits
      <3> QED BY <1>2, <2>2, <2>4, <2>6, <3>2, <3>3 DEF Fits
    <2>9. th.op = "count" => Counting(t) /\ th.s = thread[t].s  BY <1>1, <2>2 DEF Counting
    <2>10. model \in Model /\ (model.unloaded => model.closed /\ model.active = None)
      BY DEF StreamInv, Typed, ModelFits
    <2>11. y.owner \in {x.owner, t} /\ th.at \notin Holding  BY <2>2, <2>3, <2>6
    <2> QED BY <1>2, <2>1, <2>2, <2>3, <2>5, <2>7, <2>8, <2>9, <2>10, <2>11, FrameInv
  <1> QED BY <1>3, <1>4 DEF RequestClose

LEMMA TryLockInv ==
  ASSUME StreamInv, NEW t \in Threads, TryLock(t)
  PROVE  StreamInv'
  <1> DEFINE s == thread[t].s  x == stream[s]
  <1>1. thread[t].at = "try" /\ thread[t].at \notin Holding /\ thread[t].at \in Working
    BY DEF TryLock, At, Working, Holding, Driving
  <1>2. s \in Streams /\ x \in Stream /\ x.made /\ thread[t] \in Thread /\ Fits(t) /\ Typed /\ Locked
    BY <1>1, DrivesOne DEF StreamInv
  <1>3. \A r \in Streams : stream[r].lock # t  BY <1>1, <1>2 DEF Locked
  <1>4. model \in Model /\ (model.unloaded => model.closed /\ model.active = None) /\ native' = native
    BY DEF StreamInv, Typed, ModelFits, TryLock
  <1>5. CASE /\ My(t).lock = None /\ Update(t, [My(t) EXCEPT !.lock = t])
             /\ GoTo(t, "cleanup") /\ UNCHANGED model
    <2> DEFINE y == [x EXCEPT !.lock = t]
               th == [thread[t] EXCEPT !.at = "cleanup"]
    <2>1. /\ stream' = [stream EXCEPT ![s] = y] /\ thread' = [thread EXCEPT ![t] = th]
          /\ model' = model /\ x.lock = None
      BY <1>5 DEF Update, My, GoTo
    <2>2. /\ th \in Thread /\ th.at = "cleanup" /\ th.s = s /\ th.op = thread[t].op /\ th.todo = thread[t].todo
      BY <1>2 DEF Thread, Places
    <2>3. y \in Stream /\ Flagged(x, y) /\ y.lock = t /\ y.owner = x.owner
      <3> HIDE DEF x
      <3> QED BY <1>2 DEF Stream, Flagged, Alike
    <2> HIDE DEF y, th
    <2>4. /\ stream'[s] = y /\ thread'[t] = th
          /\ \A r \in Streams : r # s => stream'[r] = stream[r]
      BY <1>2, <2>1 DEF Typed
    <2>5. /\ Alike(x, y) /\ y.gen = x.gen /\ y.result = x.result /\ y.failed = x.failed /\ y.told = x.told
          /\ y.made = x.made /\ y.counts = x.counts
      BY <2>3 DEF Flagged, Alike
    <2>6. "cleanup" \in Holding /\ "cleanup" \notin Driving  BY DEF Holding, Driving
    <2>7. \A r \in Streams : stream'[r].lock = t <=> th.s = r /\ th.at \in Holding
      BY <1>3, <2>2, <2>3, <2>4, <2>6
    <2>8. Fits(t)'
      <3>1. thread[t].todo \subseteq Streams  BY <1>2 DEF Thread
      <3>2. \A q \in thread[t].todo : stream'[q].made  BY <1>2, <2>4, <2>5, <3>1 DEF Fits
      <3>3. /\ stream'[s].made /\ (thread[t].op = "count" => stream'[s].counts)
            /\ thread[t].op = "unload" => model'.closed
        BY <1>1, <1>2, <2>1, <2>4, <2>5 DEF Fits
      <3> QED BY <1>2, <2>2, <2>4, <2>6, <3>2, <3>3 DEF Fits
    <2>9. th.op = "count" => Counting(t) /\ th.s = thread[t].s  BY <1>1, <2>2 DEF Counting
    <2>10. y.owner \in {x.owner, t} /\ {x.lock, y.lock} \subseteq {t, None}  BY <2>1, <2>3
    <2> QED BY <1>2, <1>4, <2>1, <2>2, <2>3, <2>5, <2>7, <2>8, <2>9, <2>10, FrameInv
  <1>6. CASE /\ Closed(t) /\ model' = AfterClose(t)
             /\ Update(t, [My(t) EXCEPT !.missed = @ \/ (PastLook(My(t).lock) /\ ~Settled(My(t)))])
    <2> DEFINE b == x.missed \/ (PastLook(x.lock) /\ ~Settled(x))
               y == [x EXCEPT !.missed = b]
               th == After(t)
    <2>1. stream' = [stream EXCEPT ![s] = y]  BY <1>6 DEF Update, My
    <2>2. thread' = [thread EXCEPT ![t] = th] /\ thread'[t] = th  BY <1>6, AfterThread
    <2>3. b \in BOOLEAN  OBVIOUS
    <2> HIDE DEF b
    <2>4. y \in Stream /\ Flagged(x, y) /\ y.lock = x.lock /\ y.owner = x.owner
      <3> HIDE DEF x
      <3> QED BY <1>2, <2>3 DEF Stream, Flagged, Alike
    <2> HIDE DEF y
    <2>5. /\ stream'[s] = y /\ \A r \in Streams : r # s => stream'[r] = stream[r]
      BY <1>2, <2>1 DEF Typed
    <2>6. /\ Alike(x, y) /\ y.gen = x.gen /\ y.result = x.result /\ y.failed = x.failed /\ y.told = x.told
          /\ y.made = x.made /\ y.owner \in {x.owner, t}
      BY <2>4 DEF Flagged, Alike
    <2>7. \A r \in Streams : stream'[r].lock # t  BY <1>2, <1>3, <2>4, <2>5
    <2>8. /\ model' \in Model /\ (model.closed => model'.closed) /\ model'.waiting = model.waiting
          /\ model'.streams \subseteq model.streams
          /\ model'.unloaded => model'.closed /\ model'.active = None
          /\ \/ model'.active = model.active
             \/ /\ model'.active = None /\ model.active \in Streams
                /\ stream[model.active].gen \notin RunGens
                /\ \A r \in Threads \ {t} : thread[r].at = "inspect" => thread[r].s # model.active
      BY <1>1, <1>6, AfterModel
    <2>9. th \in Thread /\ th.at \notin Holding /\ th.at \notin Working  BY AfterThread
    <2>10. Fits(t)'
      <3>1. \A q \in th.todo : stream'[q].made
        <4>1. \A q \in th.todo : q \in Streams /\ stream[q].made  BY AfterThread
        <4> QED BY <2>5, <2>6, <4>1
      <3>2. th.op = "unload" => model'.closed  BY <2>8, AfterThread
      <3>3. (th.at = "unloading" => th.op = "unload") /\ th.at \in {"unloading", "idle"}  BY AfterThread
      <3> HIDE DEF th
      <3> QED BY <2>2, <2>9, <3>1, <3>2, <3>3 DEF Fits, Driving
    <2> HIDE DEF th
    <2> QED BY <1>2, <1>4, <2>1, <2>2, <2>4, <2>6, <2>7, <2>8, <2>9, <2>10, FrameInv
  <1> QED BY <1>5, <1>6 DEF TryLock

\* close() cleans up the stream whose lock it took.
LEMMA CloseCleanupInv ==
  ASSUME StreamInv, NEW t \in Threads, CloseCleanup(t)
  PROVE  StreamInv'
  <1> DEFINE s == thread[t].s  x == stream[s]  c == Cancelled(x)  y == [c EXCEPT !.lock = None]
             th == After(t)
  <1>1. thread[t].at = "cleanup" /\ thread[t].at \in Holding
    BY DEF CloseCleanup, At, Holding
  <1>2. s \in Streams /\ x.made /\ Sound(x) /\ thread[t] \in Thread /\ Typed
    BY <1>1, DrivesOne DEF Working, StreamInv
  <1>3. /\ stream' = [stream EXCEPT ![s] = y] /\ model' = Release(model, s) /\ native' = native \ {s}
        /\ Closed(t)
    BY DEF CloseCleanup, Update, My
  <1>4. thread' = [thread EXCEPT ![t] = th] /\ thread'[t] = th  BY <1>3, AfterThread
  <1>5. Closes(x, c)  BY <1>2, CancelledCloses
  <1> HIDE DEF c
  <1>6. /\ c \in Stream /\ Sound(c) /\ c.made = x.made /\ c.counts = x.counts /\ c.owner = x.owner
        /\ c.gen = IF x.gen = "none" THEN "none" ELSE "over"
    BY <1>5 DEF Closes, Sound
  <1>7. y \in Stream /\ Flagged(c, y) /\ y.lock = None /\ y.owner = c.owner
    BY <1>6 DEF Stream, Flagged, Alike
  <1> HIDE DEF y
  <1>8. /\ Sound(y) /\ y.gen \notin RunGens
        /\ y.made = stream[thread[t].s].made /\ y.counts = stream[thread[t].s].counts
        /\ y.owner = stream[thread[t].s].owner
    BY <1>6, <1>7, FrameSound DEF Flagged, Alike, RunGens
  <1>9. /\ stream'[s] = y /\ \A r \in Streams : r # s => stream'[r] = stream[r]
    BY <1>2, <1>3 DEF Typed
  <1>10. th \in Thread /\ th.at \notin Holding /\ th.at \notin Working  BY AfterThread
  <1>11. Fits(t)'
    <2>1. \A q \in th.todo : stream'[q].made
      <3>1. \A q \in th.todo : q \in Streams /\ stream[q].made  BY AfterThread
      <3> QED BY <1>2, <1>8, <1>9, <3>1
    <2>2. th.op = "unload" => model'.closed
      <3>1. model'.closed = model.closed  BY <1>2, <1>3, ReleaseModel DEF Typed
      <3> QED BY <3>1, AfterThread
    <2>3. (th.at = "unloading" => th.op = "unload") /\ th.at \in {"unloading", "idle"}  BY AfterThread
    <2> HIDE DEF th
    <2> QED BY <1>4, <1>10, <2>1, <2>2, <2>3 DEF Fits, Driving
  <1> HIDE DEF th
  <1>12. y.lock \in {t, None} /\ (y.lock = t <=> th.at \in Holding)  BY <1>7, <1>10
  <1> QED BY <1>1, <1>3, <1>4, <1>8, <1>10, <1>11, <1>12, EndedInv

LEMMA UnloadInv ==
  ASSUME StreamInv, NEW t \in Threads, Unload(t)
  PROVE  StreamInv'
  <1> DEFINE th == [Idle EXCEPT !.op = "unload", !.at = "unloading", !.todo = model.streams]
  <1>1. model \in Model /\ ModelFits /\ Typed  BY DEF StreamInv, Typed
  <1>2. /\ thread' = [thread EXCEPT ![t] = th] /\ stream' = stream /\ native' = native
        /\ thread[t].at = "idle" /\ model' = [model EXCEPT !.closed = TRUE]
    BY IdleThread DEF Unload
  <1>3. /\ th \in Thread /\ th.at = "unloading" /\ th.op = "unload" /\ th.todo = model.streams
    BY <1>1 DEF Model, Idle, Thread, Ops, Places
  <1> HIDE DEF th
  <1>4. /\ model' \in Model /\ model'.closed /\ model'.waiting = model.waiting
        /\ model'.streams = model.streams /\ model'.unloaded = model.unloaded
        /\ model'.active = model.active
    BY <1>1, <1>2 DEF Model
  <1>5. thread'[t] = th  BY <1>1, <1>2 DEF Typed
  <1>6. th.at \notin Holding /\ th.at \notin Working /\ thread[t].at \notin Holding
    BY <1>2, <1>3, IdleThread DEF Working
  <1>7. Fits(t)'  BY <1>1, <1>2, <1>3, <1>4, <1>5, <1>6 DEF Fits, ModelFits, Driving
  <1>8. model'.unloaded => model'.closed /\ model'.active = None  BY <1>1, <1>4 DEF ModelFits
  <1> QED BY <1>2, <1>3, <1>4, <1>6, <1>7, <1>8, StayInv

LEMMA UnloadClosesInv ==
  ASSUME StreamInv, NEW t \in Threads, UnloadCloses(t)
  PROVE  StreamInv'
  <1>1. /\ thread[t].at = "unloading" /\ thread[t] \in Thread /\ Fits(t) /\ Typed /\ ModelFits
    BY DEF UnloadCloses, At, StreamInv, Typed
  <1>2. PICK s \in thread[t].todo :
          thread' = [thread EXCEPT ![t].at = "close", ![t].s = s, ![t].todo = @ \ {s}]
    BY DEF UnloadCloses
  <1> DEFINE th == [thread[t] EXCEPT !.at = "close", !.s = s, !.todo = @ \ {s}]
  <1>3. s \in Streams /\ stream[s].made /\ thread[t].op = "unload" /\ model.closed
    BY <1>1 DEF Fits, Thread
  <1>4. /\ th \in Thread /\ th.at = "close" /\ th.s = s /\ th.op = "unload"
        /\ th.todo = thread[t].todo \ {s}
    BY <1>1, <1>3 DEF Thread, Places
  <1>5. thread' = [thread EXCEPT ![t] = th] /\ thread'[t] = th  BY <1>1, <1>2 DEF Typed
  <1> HIDE DEF th
  <1>6. stream' = stream /\ native' = native /\ model' = model  BY DEF UnloadCloses
  <1>7. "close" \notin Holding /\ "unloading" \notin Holding /\ "close" \notin Driving
    BY DEF Holding, Driving
  <1>8. Fits(t)'
    <2>1. \A q \in th.todo : stream[q].made  BY <1>1, <1>4 DEF Fits
    <2> QED BY <1>3, <1>4, <1>5, <1>6, <1>7, <2>1 DEF Fits
  <1>9. model \in Model /\ (model.unloaded => model.closed /\ model.active = None)
    BY <1>1 DEF Typed, ModelFits
  <1> QED BY <1>1, <1>4, <1>5, <1>6, <1>7, <1>8, <1>9, StayInv

LEMMA UnloadsInv ==
  ASSUME StreamInv, NEW t \in Threads, Unloads(t)
  PROVE  StreamInv'
  <1>1. /\ thread[t].at = "unloading" /\ Fits(t) /\ Typed /\ ModelFits /\ model \in Model
        /\ model.active = None
    BY DEF Unloads, At, StreamInv, Typed
  <1>2. PICK done \in BOOLEAN : model' = [model EXCEPT !.unloaded = @ \/ done]
    BY DEF Unloads
  <1>3. model.closed  BY <1>1 DEF Fits
  <1>4. /\ model' \in Model /\ model'.closed = model.closed /\ model'.waiting = model.waiting
        /\ model'.streams = model.streams /\ model'.active = model.active
    BY <1>1, <1>2 DEF Model
  <1>5. stream' = stream /\ native' = native /\ thread' = [thread EXCEPT ![t] = Idle]
    BY DEF Unloads, Leave
  <1>6. thread'[t] = Idle  BY <1>1, <1>5 DEF Typed
  <1>7. Fits(t)'  BY <1>6, IdleThread DEF Fits, Working, Holding, Driving
  <1>8. "unloading" \notin Holding /\ Idle.at \notin Holding  BY IdleThread DEF Working
  <1> QED BY <1>1, <1>3, <1>4, <1>5, <1>7, <1>8, IdleThread, StayInv

----------------------------------------------------------------------------
(* Streams made and cancelled, and tools that end.                         *)

\* A stream that was not made has no calls yet.
LEMMA MadeSound ==
  ASSUME NEW x, Sound(x), ~x.made, NEW o \in Option, NEW c \in BOOLEAN
  PROVE  LET y == [x EXCEPT !.made = TRUE, !.counts = c, !.opt = o] IN
         Sound(y) /\ y.made /\ y.gen = "none" /\ x.gen = "none" /\ y.lock = x.lock /\ y.owner = x.owner
  <1> DEFINE y == [x EXCEPT !.made = TRUE, !.counts = c, !.opt = o]
  <1>x. x \in Stream /\ x.gen = "none" /\ x.calls = <<>>  BY DEF Sound
  <1>1. /\ y \in Stream /\ y.made /\ y.counts = c /\ y.opt = o /\ y.gen = "none" /\ y.calls = <<>>
        /\ y.completed = x.completed /\ y.lock = x.lock /\ y.owner = x.owner
        /\ y.result = x.result /\ y.failed = x.failed /\ y.told = x.told
    BY <1>x DEF Stream
  <1> HIDE DEF y
  <1>2. CallsFit(y)  BY <1>1 DEF CallsFit
  <1>3. Cardinality(Running(y)) <= y.opt.limit
    <2>1. Running(y) = {}  BY <1>1 DEF Running
    <2>2. Cardinality(Running(y)) = 0  BY <2>1, FS_EmptySet
    <2>3. y.opt.limit \in Nat  BY <1>1 DEF Option
    <2> QED BY <2>2, <2>3
  <1>4. Settled(y) <=> Settled(x)  BY <1>1 DEF Settled
  <1>5. y.told # None => Told(y)  BY <1>x, <1>1 DEF Sound, Told
  <1>6. \A k \in DOMAIN y.completed : y.completed[k].call \in DOMAIN y.calls
    BY <1>x, <1>1 DEF Sound
  <1>7. "none" \notin RunGens  BY DEF RunGens
  <1>8. Sound(y)  BY <1>1, <1>2, <1>3, <1>4, <1>5, <1>6, <1>7 DEF Sound
  <1> QED BY <1>x, <1>1, <1>8 DEF y

LEMMA CreateInv ==
  ASSUME StreamInv, NEW s \in Streams, Create(s)
  PROVE  StreamInv'
  <1> DEFINE x == stream[s]
  <1>1. Typed /\ Locked /\ ModelFits /\ Sound(x) /\ ~x.made /\ x \in Stream
    BY DEF StreamInv, Create, Typed
  <1>2. PICK o \in Options[s] : stream' = [stream EXCEPT ![s].made = TRUE, ![s].opt = o]
    BY DEF Create
  <1>3. o \in Option  OBVIOUS
  <1> DEFINE c == x.counts
             y == [x EXCEPT !.made = TRUE, !.counts = c, !.opt = o]
  <1>4. stream' = [stream EXCEPT ![s] = y]
    <2>1. y = [x EXCEPT !.made = TRUE, !.opt = o]
      <3> HIDE DEF x
      <3> QED BY <1>1 DEF Stream, x
    <2> QED BY <1>1, <1>2, <2>1 DEF Typed
  <1>5. Sound(y) /\ y.made /\ y.gen = "none" /\ x.gen = "none" /\ y.lock = x.lock /\ y.owner = x.owner
    <2>1. c \in BOOLEAN  BY <1>1 DEF Stream
    <2> HIDE DEF x, c
    <2> QED BY <1>1, <1>3, <2>1, MadeSound
  <1>6. Settled(y) <=> Settled(x)  BY <1>1 DEF Settled, Stream
  <1> HIDE DEF y
  <1>7. /\ stream' \in [Streams -> Stream] /\ stream'[s] = y
        /\ \A r \in Streams : r # s => stream'[r] = stream[r]
    BY <1>1, <1>4, <1>5 DEF Typed, Sound
  <1>8. /\ model' = [model EXCEPT !.streams = @ \cup {s}] /\ thread' = thread /\ native' = native
    BY DEF Create
  <1>9. /\ model' \in Model /\ model'.active = model.active /\ model'.waiting = model.waiting
        /\ model'.closed = model.closed /\ model'.unloaded = model.unloaded
        /\ model'.streams = model.streams \cup {s}
    BY <1>1, <1>8 DEF Typed, Model
  <1>10. Typed'  BY <1>1, <1>7, <1>8, <1>9 DEF Typed
  <1>11. Apart(None)
    <2>1. \A r \in Streams : InQueue(r) => InQueue(r)'  BY <1>9 DEF InQueue
    <2>2. \A r \in Streams : /\ r # s => stream'[r] = stream[r]
                             /\ stream'[r].owner = stream[r].owner /\ stream'[r].lock = stream[r].lock
                             /\ stream'[r].gen = stream[r].gen
                             /\ Settled(stream'[r]) <=> Settled(stream[r])
      BY <1>5, <1>6, <1>7
    <2> HIDE DEF x
    <2> QED BY <1>1, <1>8, <1>9, <2>1, <2>2 DEF Apart, x
  <1>12. ModelFits'
    <2>1. \A q \in model'.streams : stream'[q].made
      <3> SUFFICES ASSUME NEW q \in model.streams \cup {s} PROVE stream'[q].made  BY <1>9
      <3>1. CASE q = s  BY <1>5, <1>7, <3>1
      <3>2. CASE q # s
        <4>1. q \in Streams /\ stream[q].made  BY <1>1, <3>2 DEF Typed, Model, ModelFits
        <4> QED BY <1>7, <3>2, <4>1
      <3> QED BY <3>1, <3>2
    <2>2. \A q \in Streams : stream'[q].gen = stream[q].gen  BY <1>5, <1>7
    <2> QED BY <1>1, <1>8, <1>9, <2>1, <2>2 DEF ModelFits
  <1>13. \A r \in Streams : Sound(stream'[r]) /\ stream'[r].lock = stream[r].lock
    BY <1>5, <1>7 DEF StreamInv
  <1> QED BY <1>8, <1>10, <1>11, <1>12, <1>13, QuietInv

LEMMA CountTokensInv ==
  ASSUME StreamInv, NEW t \in Threads, NEW s \in Streams, CountTokens(t, s)
  PROVE  StreamInv'
  <1> DEFINE x == stream[s]
             o == x.opt
             y == [x EXCEPT !.made = TRUE, !.counts = TRUE, !.opt = o]
             th == [Idle EXCEPT !.op = "count", !.s = s, !.at = "enter"]
  <1>1. Typed /\ Locked /\ ModelFits /\ Sound(x) /\ ~x.made /\ x \in Stream /\ thread[t].at = "idle"
    BY IdleThread DEF StreamInv, CountTokens, Typed
  <1>2. thread' = [thread EXCEPT ![t] = th] /\ native' = native
        /\ model' = [model EXCEPT !.streams = @ \cup {s}]
        /\ stream' = [stream EXCEPT ![s].made = TRUE, ![s].counts = TRUE]
    BY DEF CountTokens
  <1>3. o \in Option  BY <1>1 DEF Stream
  <1>4. stream' = [stream EXCEPT ![s] = y]
    <2>1. y = [x EXCEPT !.made = TRUE, !.counts = TRUE]
      <3> HIDE DEF x
      <3> QED BY <1>1 DEF Stream
    <2> QED BY <1>1, <1>2, <2>1 DEF Typed
  <1>5. Sound(y) /\ y.made /\ y.gen = "none" /\ x.gen = "none" /\ y.lock = x.lock /\ y.owner = x.owner
    <2> HIDE DEF x, o
    <2> QED BY <1>1, <1>3, MadeSound
  <1>6. (Settled(y) <=> Settled(x)) /\ y.counts  BY <1>1 DEF Settled, Stream
  <1> HIDE DEF y
  <1>7. /\ stream' \in [Streams -> Stream] /\ stream'[s] = y
        /\ \A r \in Streams : r # s => stream'[r] = stream[r]
    BY <1>1, <1>4, <1>5 DEF Typed, Sound
  <1>8. th \in Thread /\ th.op = "count" /\ th.s = s /\ th.at = "enter" /\ th.todo = {}
    BY DEF Idle, Thread, Ops, Places
  <1> HIDE DEF th
  <1>9. /\ thread' \in [Threads -> Thread] /\ thread'[t] = th
        /\ \A r \in Threads : r # t => thread'[r] = thread[r]
    BY <1>1, <1>2, <1>8 DEF Typed
  <1>10. /\ model' \in Model /\ model'.active = model.active /\ model'.waiting = model.waiting
         /\ model'.closed = model.closed /\ model'.unloaded = model.unloaded
         /\ model'.streams = model.streams \cup {s}
    BY <1>1, <1>2 DEF Typed, Model
  <1>11. Typed'  BY <1>1, <1>2, <1>7, <1>9, <1>10 DEF Typed
  <1>12. Apart(t)
    <2>1. \A r \in Streams : InQueue(r) => InQueue(r)'  BY <1>10 DEF InQueue
    <2>2. \A r \in Streams : /\ r # s => stream'[r] = stream[r]
                             /\ stream'[r].owner = stream[r].owner /\ stream'[r].lock = stream[r].lock
                             /\ stream'[r].gen = stream[r].gen
                             /\ Settled(stream'[r]) <=> Settled(stream[r])
      BY <1>5, <1>6, <1>7
    <2> HIDE DEF x
    <2> QED BY <1>1, <1>9, <1>10, <2>1, <2>2 DEF Apart, x
  <1>13. ModelFits'
    <2>1. \A q \in model'.streams : stream'[q].made
      <3> SUFFICES ASSUME NEW q \in model.streams \cup {s} PROVE stream'[q].made  BY <1>10
      <3>1. CASE q = s  BY <1>5, <1>7, <3>1
      <3>2. CASE q # s
        <4>1. q \in Streams /\ stream[q].made  BY <1>1, <3>2 DEF Typed, Model, ModelFits
        <4> QED BY <1>7, <3>2, <4>1
      <3> QED BY <3>1, <3>2
    <2>2. \A q \in Streams : stream'[q].gen = stream[q].gen  BY <1>5, <1>7
    <2> QED BY <1>1, <1>2, <1>10, <2>1, <2>2 DEF ModelFits
  <1>14. \A r \in Streams : Sound(stream'[r])  BY <1>5, <1>7 DEF StreamInv
  <1>15. \A r \in Streams : stream'[r].lock = t <=> thread'[t].s = r /\ thread'[t].at \in Holding
    <2>1. "enter" \notin Holding /\ "idle" \notin Holding  BY DEF Holding, Driving
    <2> QED BY <1>1, <1>5, <1>7, <1>8, <1>9, <2>1 DEF Locked
  <1>16. Fits(t)'
    <2>1. "enter" \notin Driving  BY DEF Driving
    <2> QED BY <1>5, <1>6, <1>7, <1>8, <1>9, <2>1 DEF Fits
  <1>17. thread'[t].s \in Streams /\ ~stream[thread'[t].s].made  BY <1>1, <1>8, <1>9
  <1> QED BY <1>11, <1>12, <1>13, <1>14, <1>15, <1>16, <1>17, StepInv

\* A step that changes one stream, but not who has it nor where it is.
LEMMA OneQuietInv ==
  ASSUME StreamInv, NEW s \in Streams, NEW y, Sound(y), Held(stream[s], y), y.gen = stream[s].gen,
         Settled(y) <=> Settled(stream[s]),
         stream' = [stream EXCEPT ![s] = y], UNCHANGED <<model, native, thread>>
  PROVE  StreamInv'
  <1>1. Typed /\ ModelFits  BY DEF StreamInv
  <1>2. /\ stream' \in [Streams -> Stream] /\ stream'[s] = y
        /\ \A r \in Streams : r # s => stream'[r] = stream[r]
    BY <1>1 DEF Typed, Sound
  <1>3. Typed'  BY <1>1, <1>2 DEF Typed
  <1>4. \A r \in Streams : /\ stream'[r].made = stream[r].made /\ stream'[r].counts = stream[r].counts
                           /\ stream'[r].owner = stream[r].owner /\ stream'[r].lock = stream[r].lock
                           /\ stream'[r].gen = stream[r].gen
                           /\ Settled(stream'[r]) <=> Settled(stream[r])
    BY <1>2 DEF Held
  <1>5. Apart(None)
    <2>1. \A r \in Streams : InQueue(r) => InQueue(r)'  BY DEF InQueue
    <2> QED BY <1>4, <2>1 DEF Apart
  <1>6. ModelFits'
    <2>1. \A q \in model.streams : q \in Streams /\ stream[q].made
      BY <1>1 DEF Typed, Model, ModelFits
    <2> QED BY <1>1, <1>4, <2>1 DEF ModelFits
  <1>7. \A r \in Streams : Sound(stream'[r]) /\ stream'[r].lock = stream[r].lock
    BY <1>2, <1>4 DEF StreamInv
  <1> QED BY <1>3, <1>5, <1>6, <1>7, QuietInv

LEMMA FlaggedInv ==
  ASSUME StreamInv, NEW s \in Streams, NEW y, Flagged(stream[s], y),
         y.lock = stream[s].lock, y.owner = stream[s].owner,
         stream' = [stream EXCEPT ![s] = y], UNCHANGED <<model, native, thread>>
  PROVE  StreamInv'
  <1>1. Sound(stream[s])  BY DEF StreamInv
  <1>2. Sound(y)  BY <1>1, FrameSound DEF Flagged
  <1>3. /\ Held(stream[s], y) /\ y.gen = stream[s].gen
        /\ Settled(y) <=> Settled(stream[s])
    BY DEF Flagged, Alike, Held, Settled
  <1> QED BY <1>2, <1>3, OneQuietInv

LEMMA CancelInv ==
  ASSUME StreamInv, NEW s \in Streams, Cancel(s)
  PROVE  StreamInv'
  <1> DEFINE x == stream[s]  y == [x EXCEPT !.cancel = TRUE]
  <1>1. stream' = [stream EXCEPT ![s] = y] /\ UNCHANGED <<model, native, thread>>  BY DEF Cancel
  <1>2. x \in Stream  BY DEF StreamInv, Typed
  <1>3. Flagged(x, y) /\ y.lock = x.lock /\ y.owner = x.owner
    <2> HIDE DEF x
    <2> QED BY <1>2 DEF Stream, Flagged, Alike
  <1> HIDE DEF y
  <1> QED BY <1>1, <1>3, FlaggedInv

LEMMA CallbackClosesInv ==
  ASSUME StreamInv, NEW t \in Threads, CallbackCloses(t)
  PROVE  StreamInv'
  <1> DEFINE s == thread[t].s  x == stream[s]  y == [x EXCEPT !.closing = TRUE, !.cancel = TRUE]
  <1>1. thread[t].at = "event" /\ thread[t].at \in Working
    BY DEF CallbackCloses, At, Working, Holding, Driving
  <1>2. s \in Streams /\ x \in Stream  BY <1>1, DrivesOne
  <1>3. stream' = [stream EXCEPT ![s] = y] /\ UNCHANGED <<model, native, thread>>
    BY DEF CallbackCloses, Update, My
  <1>4. Flagged(x, y) /\ y.lock = x.lock /\ y.owner = x.owner
    <2> HIDE DEF x
    <2> QED BY <1>2 DEF Stream, Flagged, Alike
  <1> HIDE DEF y
  <1> QED BY <1>2, <1>3, <1>4, FlaggedInv

LEMMA ToolReturnsInv ==
  ASSUME StreamInv, NEW s \in Streams, NEW i, NEW kind \in Kinds, ToolReturns(s, i, kind)
  PROVE  StreamInv'
  <1> DEFINE x == stream[s]
             y == [x EXCEPT !.calls[i].at = "returned",
                            !.completed = Append(@, [call |-> i, kind |-> kind])]
  <1>1. Sound(x) /\ x \in Stream /\ i \in DOMAIN x.calls /\ x.calls[i].at = "running" /\ Typed
    BY DEF StreamInv, Typed, ToolReturns
  <1>2. stream' = [stream EXCEPT ![s] = y] /\ UNCHANGED <<model, native, thread>>
    BY <1>1 DEF ToolReturns, Typed
  <1>3. Sound(y) /\ Held(x, y) /\ y.gen = x.gen /\ (Settled(y) <=> Settled(x))
    <2> HIDE DEF x
    <2> QED BY <1>1, ReturnSound
  <1> HIDE DEF y
  <1> QED BY <1>2, <1>3, OneQuietInv

----------------------------------------------------------------------------
(* The theorems.                                                           *)

\* What has no two elements counts at most one.
LEMMA AtMostOne ==
  ASSUME NEW S, NEW e, S = {} \/ S = {e}
  PROVE  Cardinality(S) <= 1
  <1>1. Cardinality({}) = 0  BY FS_EmptySet
  <1>2. Cardinality({e}) = 1  BY FS_Singleton
  <1>3. CASE S = {}  BY <1>1, <1>3
  <1>4. CASE S = {e}  BY <1>2, <1>4
  <1> QED BY <1>3, <1>4

\* A stream not made yet.
WithOptions(o) ==
  [made |-> FALSE, counts |-> FALSE, opt |-> o, lock |-> None, driver |-> None, owner |-> None,
   cancel |-> FALSE, closing |-> FALSE, gen |-> "none", round |-> 0, calls |-> <<>>,
   completed |-> <<>>, started |-> FALSE, result |-> None, failed |-> FALSE, told |-> None,
   missed |-> FALSE]

LEMMA InitStream == StreamInit => StreamInv
  <1> SUFFICES ASSUME StreamInit PROVE StreamInv  OBVIOUS
  <1> USE DEF StreamInit
  <1>1. model \in Model /\ ~model.unloaded /\ model.streams = {}
    BY DEF NewModel, Model
  <1>2. ASSUME NEW s \in Streams
        PROVE  /\ Sound(stream[s]) /\ stream[s] \in Stream /\ stream[s].lock = None
               /\ stream[s].gen = "none"
    <2> DEFINE x == NewStream(s)
    <2>1. PICK o \in Option : o = CHOOSE q \in Options[s] : TRUE
      <3>1. Options[s] # {} /\ Options[s] \subseteq Option  OBVIOUS
      <3>2. (CHOOSE q \in Options[s] : TRUE) \in Options[s]  BY <3>1
      <3> QED BY <3>1, <3>2
    <2>2. /\ x \in Stream /\ x.lock = None /\ x.gen = "none" /\ x.calls = <<>> /\ x.completed = <<>>
          /\ ~x.counts /\ x.result = None /\ ~x.failed /\ x.told = None /\ x.opt \in Option
      <3>1. x = WithOptions(o)
        BY <2>1, Zenon DEF NewStream, WithOptions
      <3>2. <<>> \in Seq(Call) /\ <<>> \in Seq([call : Nat, kind : Kinds])  OBVIOUS
      <3>3. WithOptions(o) \in Stream  BY <2>1, <3>2 DEF WithOptions, Stream, Gens
      <3> HIDE DEF x
      <3> QED BY <2>1, <3>1, <3>3 DEF WithOptions
    <2> HIDE DEF x
    <2>3. CallsFit(x)  BY <2>2 DEF CallsFit
    <2>4. Cardinality(Running(x)) <= x.opt.limit
      <3>1. Running(x) = {}  BY <2>2 DEF Running
      <3>2. Cardinality(Running(x)) = 0  BY <3>1, FS_EmptySet
      <3>3. x.opt.limit \in Nat  BY <2>2 DEF Option
      <3> QED BY <3>2, <3>3
    <2>5. "none" \notin RunGens  BY DEF RunGens
    <2>6. Sound(x)  BY <2>2, <2>3, <2>4, <2>5 DEF Sound, Settled
    <2>7. stream[s] = x  BY DEF x
    <2> QED BY <2>2, <2>6, <2>7
  <1>3. stream \in [Streams -> Stream]  BY <1>2
  <1>4. thread \in [Threads -> Thread] /\ \A t \in Threads : thread[t] = Idle
    BY IdleThread
  <1>5. "idle" \notin Holding  BY IdleThread DEF Working
  <1>6. Typed  BY <1>1, <1>3, <1>4 DEF Typed
  <1>7. Locked /\ OneCounts  BY <1>2, <1>4, <1>5, IdleThread DEF Locked, OneCounts, Counting
  <1>8. ModelFits  BY <1>1, <1>2 DEF ModelFits, RunGens
  <1>9. \A t \in Threads : Fits(t)
    BY <1>4, IdleThread DEF Fits, Working, Holding, Driving
  <1> QED BY <1>2, <1>6, <1>7, <1>8, <1>9 DEF StreamInv

LEMMA NextStream == StreamInv /\ [StreamNext]_lvars => StreamInv'
  <1> SUFFICES ASSUME StreamInv, [StreamNext]_lvars PROVE StreamInv'  OBVIOUS
  <1>1. CASE \E s \in Streams : Create(s) \/ Cancel(s)  BY <1>1, CreateInv, CancelInv
  <1>2. CASE \E t \in Threads, s \in Streams :
               CountTokens(t, s) \/ Close(t, s) \/ \E op \in {"next", "result"} : Drive(t, s, op)
    BY <1>2, CountTokensInv, CloseInv, DriveInv
  <1>3. ASSUME NEW t \in Threads, Advance(t) PROVE StreamInv'
    BY <1>3, CountEntersInv, ClaimInv, QueuedInv, InspectInv, GeneratorInv, NativeReturnsInv, EventInv,
       LeaveDriveInv, UnlockInv, RequestCloseInv, TryLockInv, CloseCleanupInv, UnloadClosesInv, UnloadsInv
    DEF Advance
  <1>4. CASE \E t \in Threads : CallbackCloses(t) \/ Unload(t)
    BY <1>4, CallbackClosesInv, UnloadInv
  <1>5. CASE \E s \in Streams, i \in 1..MaxCalls,
                kind \in {"output", "executor_error", "serialization_error"} : ToolReturns(s, i, kind)
    BY <1>5, ToolReturnsInv DEF Kinds
  <1>6. CASE UNCHANGED lvars
    <2>1. model' = model /\ stream' = stream /\ native' = native /\ thread' = thread
      BY <1>6 DEF lvars
    <2>2. Typed'  BY <2>1 DEF StreamInv, Typed
    <2>3. Apart(None)
      <3>1. \A r \in Streams : InQueue(r) => InQueue(r)'  BY <2>1 DEF InQueue
      <3> QED BY <2>1, <3>1 DEF Apart
    <2>4. ModelFits'  BY <2>1 DEF StreamInv, ModelFits
    <2>5. \A s \in Streams : Sound(stream'[s]) /\ stream'[s].lock = stream[s].lock
      BY <2>1 DEF StreamInv
    <2> QED BY <2>1, <2>2, <2>3, <2>4, <2>5, QuietInv
  <1> QED BY <1>1, <1>2, <1>3, <1>4, <1>5, <1>6 DEF StreamNext

THEOREM StreamInvariant == StreamSpec => []StreamInv
  BY InitStream, NextStream, PTL DEF StreamSpec

\* The lock of a stream is held by the one thread that is in its drive or
\* cleans it up (_enter_drive, _leave_drive, close), and the variables have
\* their types.
THEOREM StreamTypeCorrect == StreamSpec => []StreamTypeOK
  <1>1. StreamInv => StreamTypeOK
    <2> SUFFICES ASSUME StreamInv PROVE StreamTypeOK  OBVIOUS
    <2>1. /\ model.active \in Streams \cup {None} /\ model.streams \subseteq Streams
          /\ model.waiting \in Seq(Streams) /\ model.closed \in BOOLEAN /\ model.unloaded \in BOOLEAN
          /\ native \subseteq Streams
      BY DEF StreamInv, Typed, Model
    <2>2. \A t \in Threads : thread[t].at \in Places /\ thread[t].s \in Streams \cup {None}
      BY DEF StreamInv, Typed, Thread
    <2>3. \A s \in Streams : stream[s].calls \in Seq(Call)
      BY DEF StreamInv, Typed, Stream
    <2>4. \A s \in Streams, t \in Threads :
            stream[s].lock = t <=> thread[t].s = s /\ thread[t].at \in Driving \cup {"cleanup"}
      BY DEF StreamInv, Locked, Holding
    <2> QED BY <2>1, <2>2, <2>3, <2>4 DEF StreamTypeOK
  <1> QED BY <1>1, StreamInvariant, PTL

\* The native model runs one round or one count at a time, for the stream that
\* claimed it (_claim), and none once the model is unloaded.
THEOREM NativeExclusive == StreamSpec => []NativeIsExclusive
  <1>1. StreamInv => NativeIsExclusive
    <2> SUFFICES ASSUME StreamInv PROVE NativeIsExclusive  OBVIOUS
    <2>1. ASSUME NEW s \in native PROVE s \in Streams /\ s = model.active
      BY DEF StreamInv, Typed, ModelFits
    <2>2. ASSUME NEW t \in InNative
          PROVE  t \in Threads /\ thread[t].s \in Streams /\ thread[t].s = model.active
                 /\ stream[model.active].lock = t
      <3>1. t \in Threads /\ thread[t].at \in {"native", "inspect"}  BY DEF InNative
      <3>2. /\ thread[t].at \in Working /\ thread[t].at \in Holding /\ Fits(t)
        BY <3>1 DEF Working, Holding, Driving, StreamInv
      <3>3. thread[t].s \in Streams /\ stream[thread[t].s].lock = t
        BY <3>1, <3>2, DrivesOne
      <3>4. thread[t].s = model.active
        BY <3>1, <3>2, DrivesOne DEF Fits
      <3> QED BY <3>1, <3>3, <3>4
    <2>3. Cardinality(native) <= 1
      <3>1. native = {} \/ native = {model.active}  BY <2>1
      <3> QED BY <3>1, AtMostOne
    <2>4. Cardinality(InNative) <= 1
      <3>1. InNative = {} \/ InNative = {stream[model.active].lock}  BY <2>2
      <3> QED BY <3>1, AtMostOne
    <2>5. native \cup {thread[t].s : t \in InNative} \subseteq {model.active}  BY <2>1, <2>2
    <2>6. model.unloaded => native = {} /\ InNative = {}
      <3> SUFFICES ASSUME model.unloaded PROVE native = {} /\ InNative = {}  OBVIOUS
      <3>1. model.active = None  BY DEF StreamInv, ModelFits
      <3>2. \A s \in native : FALSE  BY <2>1, <3>1
      <3>3. \A t \in InNative : FALSE  BY <2>2, <3>1
      <3> QED BY <3>2, <3>3
    <2>7. \A t \in Threads : At(t, "queued") => ~OwnedBy(t)  BY DEF StreamInv, Fits, At
    <2> QED BY <2>3, <2>4, <2>5, <2>6, <2>7 DEF NativeIsExclusive
  <1> QED BY <1>1, StreamInvariant, PTL

\* No more tools run than the limit, a round begins when the calls of the last
\* are answered (_pump, _drain, _run), and what a result says of a call stays true
\* (_partial_result).
THEOREM ToolsAccounted == StreamSpec => []ToolsAreAccounted
  <1>1. StreamInv => ToolsAreAccounted
    <2> SUFFICES ASSUME StreamInv, NEW s \in Streams
                 PROVE  LET x == stream[s] IN
                        /\ Cardinality(Running(x)) <= x.opt.limit
                        /\ s \in native =>
                             \A i \in DOMAIN x.calls : x.calls[i].round < x.round => x.calls[i].outcome # None
                        /\ x.told # None => Told(x)
      BY DEF ToolsAreAccounted, Told
    <2>1. Sound(stream[s])  BY DEF StreamInv
    <2>2. s \in native => stream[s].gen \in RunGens  BY DEF StreamInv, ModelFits
    <2> QED BY <2>1, <2>2 DEF Sound, CallsFit
  <1> QED BY <1>1, StreamInvariant, PTL
=============================================================================
