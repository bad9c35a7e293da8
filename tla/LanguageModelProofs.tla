------------------------- MODULE LanguageModelProofs --------------------------
(***************************************************************************)
(* Theorems about the language model, for any number of generations, tool  *)
(* calls and options: its types, who owns the queue and the native round,  *)
(* the truth of what a generation reports, and the limit on running tools. *)
(***************************************************************************)
EXTENDS LanguageModel, FiniteSetTheorems, SequenceTheorems, TLAPS

----------------------------------------------------------------------------
(* One generation.                                                         *)

\* What a generation that has ended says of its calls.
Truthful(r) ==
  /\ Len(r.report) = Len(r.calls)
  /\ \A i \in DOMAIN r.report :
       /\ r.report[i] = "notExecuted" => r.calls[i].state \notin Ran
       /\ r.report[i] \in {"completed", "failed", "invalid"}
            => r.calls[i].state = r.report[i]
       /\ r.opt.tools = "managed" => r.report[i] # "none"

\* What every operation on the state of a generation preserves: its type, the
\* truth of its report once it has ended, the limit on running tools, and
\* that the pending calls are calls.
Sound(r) ==
  /\ r \in Generation
  /\ Len(r.calls) <= MaxCalls
  /\ \A k \in DOMAIN r.pending : r.pending[k] \in 1 .. Len(r.calls)
  /\ Cardinality(Running(r)) <= r.opt.limit
  /\ r.ended # "no" => Truthful(r)

\* A generation that has ended only waits to start, or to leave the queue; one
\* that parses has a call to parse.
PhaseFits(r) ==
  /\ r.ended # "no" => r.phase \in {"queued", "leaving", "done"}
  /\ r.phase = "parse" => Len(r.calls) > 0

USE LanguageAssumption

Call == [round : Nat, state : CallStates]

LEMMA CallsTyped ==
  ASSUME NEW r \in Generation
  PROVE  /\ r.calls \in Seq(Call) /\ Len(r.calls) \in Nat
         /\ DOMAIN r.calls = 1 .. Len(r.calls)
         /\ \A i \in 1 .. Len(r.calls) : r.calls[i] \in Call
  <1>1. r.calls \in Seq(Call)
    BY DEF Generation, Call
  <1> QED BY <1>1, ElementOfSeq

LEMMA OptionFields ==
  ASSUME NEW o \in Options
  PROVE  /\ o.limit \in Nat \ {0} /\ o.corrections \in Nat /\ o.maxRounds \in Nat \ {0}
         /\ o.afterGeneration \in BOOLEAN /\ o.stopOnError \in BOOLEAN
         /\ o.schema \in BOOLEAN /\ o.stopWhen \in BOOLEAN
         /\ o.tools \in {"none", "managed", "manual"}
  BY DEF OptionRecord

LEMMA GotoSound ==
  ASSUME NEW r, Sound(r), NEW p \in Phases
  PROVE  /\ Sound(Goto(r, p)) /\ Goto(r, p).phase = p /\ Goto(r, p).settled = "no"
         /\ Goto(r, p).ended = r.ended /\ Goto(r, p).opt = r.opt
         /\ Goto(r, p).calls = r.calls /\ Goto(r, p).round = r.round
  BY DEF Sound, Goto, Generation, Truthful, Running

LEMMA FailSound ==
  ASSUME NEW r, Sound(r)
  PROVE  /\ Sound(Fail(r)) /\ Fail(r).phase = r.phase /\ Fail(r).settled = r.settled
         /\ Fail(r).ended = r.ended /\ Fail(r).opt = r.opt /\ Fail(r).calls = r.calls
  BY DEF Sound, Fail, Generation, Truthful, Running

LEMMA ReportType ==
  ASSUME NEW o \in Options, NEW s \in CallStates
  PROVE  Report(o, s) \in Reports
  BY DEF Report, Reports, CallStates, Ran

LEMMA SnapshotTruthful ==
  ASSUME NEW r, Sound(r)
  PROVE  /\ Snapshot(r) \in Seq(Reports) /\ Len(Snapshot(r)) = Len(r.calls)
         /\ \A i \in DOMAIN Snapshot(r) :
              /\ Snapshot(r)[i] = "notExecuted" => r.calls[i].state \notin Ran
              /\ Snapshot(r)[i] \in {"completed", "failed", "invalid"}
                   => r.calls[i].state = Snapshot(r)[i]
              /\ r.opt.tools = "managed" => Snapshot(r)[i] # "none"
  <1>1. r.opt \in Options
    BY DEF Sound, Generation
  <1>2. \A i \in 1 .. Len(r.calls) : r.calls[i].state \in CallStates
    BY CallsTyped DEF Sound, Call
  <1>4. DOMAIN r.calls = 1 .. Len(r.calls) /\ Len(r.calls) \in Nat
    BY CallsTyped DEF Sound
  <1>3. \A i \in DOMAIN r.calls : Report(r.opt, r.calls[i].state) \in Reports
    BY <1>1, <1>2, <1>4, ReportType
  <1>5. Snapshot(r) \in Seq(Reports) /\ Len(Snapshot(r)) = Len(r.calls)
    BY <1>3, <1>4 DEF Snapshot
  <1>6. ASSUME NEW i \in DOMAIN Snapshot(r)
        PROVE  Snapshot(r)[i] = Report(r.opt, r.calls[i].state)
    BY DEF Snapshot
  <1> QED BY <1>5, <1>6 DEF Report, Ran

LEMMA FinishSound ==
  ASSUME NEW r, Sound(r), NEW reason \in Reasons
  PROVE  /\ Sound(Finish(r, reason)) /\ PhaseFits(Finish(r, reason))
         /\ Finish(r, reason).phase = "leaving"
  <1> DEFINE q == Finish(r, reason)
  <1>1. q \in Generation
    BY SnapshotTruthful DEF Sound, Finish, Generation, Phases
  <1>2. /\ q.calls = r.calls /\ q.report = Snapshot(r) /\ q.opt = r.opt
        /\ q.pending = r.pending /\ q.phase = "leaving"
    BY DEF Sound, Finish, Generation
  <1>3. Truthful(q)
    BY <1>2, SnapshotTruthful DEF Truthful
  <1> QED
    BY <1>1, <1>2, <1>3 DEF Sound, PhaseFits, Running

LEMMA RejectSound ==
  ASSUME NEW r, Sound(r)
  PROVE  /\ Sound(Reject(r)) /\ PhaseFits(Reject(r)) /\ Reject(r).phase = "leaving"
  <1> DEFINE f == Fail(r)  q == Reject(r)
  <1>1. Sound(f) /\ f.calls = r.calls /\ f.opt = r.opt /\ f.pending = r.pending
    BY FailSound DEF Sound, Fail, Generation
  <1>2. q = [f EXCEPT !.ended = "rejected", !.report = Snapshot(r),
                      !.phase = "leaving", !.settled = "no"]
    BY DEF Reject
  <1>3. q \in Generation
    <2> HIDE DEF f, q
    <2> QED BY <1>1, <1>2, SnapshotTruthful DEF Sound, Generation, Phases
  <1>4. /\ q.calls = r.calls /\ q.report = Snapshot(r) /\ q.opt = r.opt
        /\ q.pending = r.pending /\ q.phase = "leaving"
    <2> HIDE DEF f, q
    <2> QED BY <1>1, <1>2 DEF Sound, Generation
  <1>5. Truthful(q)
    BY <1>4, SnapshotTruthful DEF Truthful
  <1> QED
    BY <1>3, <1>4, <1>5 DEF Sound, PhaseFits, Running

LEMMA RaiseSound ==
  ASSUME NEW r, Sound(r), r.ended = "no"
  PROVE  /\ Sound(Raise(r)) /\ PhaseFits(Raise(r))
         /\ Raise(r).phase \in {"bounded", "leaving"}
  <1>1. CASE r.failed
    BY <1>1, RejectSound DEF Raise
  <1>2. CASE ~r.failed /\ r.opt.schema /\ r.round > 0
    <2>1. Raise(r) = Goto(r, "bounded")
      BY <1>2 DEF Raise, Goto
    <2> QED BY <2>1, GotoSound DEF PhaseFits, Phases
  <1>3. CASE ~r.failed /\ ~(r.opt.schema /\ r.round > 0)
    BY <1>3, FinishSound DEF Raise, Reasons
  <1> QED BY <1>1, <1>2, <1>3

----------------------------------------------------------------------------
(* Tools.                                                                  *)

LEMMA RunningFinite ==
  ASSUME NEW r, r \in Generation
  PROVE  /\ IsFiniteSet(Running(r)) /\ Cardinality(Running(r)) \in Nat
         /\ Running(r) \subseteq 1 .. Len(r.calls)
  <1>1. DOMAIN r.calls = 1 .. Len(r.calls) /\ Len(r.calls) \in Nat
    BY DEF Generation
  <1>2. Running(r) \in SUBSET (1 .. Len(r.calls)) /\ IsFiniteSet(1 .. Len(r.calls))
    BY <1>1, FS_Interval DEF Running
  <1>3. IsFiniteSet(Running(r))
    BY <1>2, FS_Subset
  <1> QED BY <1>2, <1>3, FS_CardinalityType

\* A call that is not made to run leaves no more tools running.
LEMMA MarkSound ==
  ASSUME NEW r, Sound(r), NEW i \in 1 .. Len(r.calls), NEW s \in CallStates \ {"running"},
         r.ended # "no" => r.calls[i].state = "running" /\ s \in Ran
  PROVE  /\ Sound(Mark(r, i, s)) /\ Mark(r, i, s).phase = r.phase
         /\ Mark(r, i, s).settled = r.settled /\ Mark(r, i, s).ended = r.ended
         /\ Mark(r, i, s).opt = r.opt /\ Len(Mark(r, i, s).calls) = Len(r.calls)
         /\ Mark(r, i, s).pending = r.pending /\ Mark(r, i, s).aborted = r.aborted
  <1> DEFINE c == [r.calls EXCEPT ![i].state = s]  q == Mark(r, i, s)
  <1>1. /\ r.calls \in Seq(Call) /\ r.opt \in Options /\ r.calls[i] \in Call
        /\ Len(r.calls) \in Nat /\ DOMAIN r.calls = 1 .. Len(r.calls)
    BY CallsTyped DEF Sound, Generation
  <1>2. c \in Seq(Call) /\ Len(c) = Len(r.calls)
    <2>1. [r.calls[i] EXCEPT !.state = s] \in Call
      BY <1>1 DEF Call
    <2> QED BY <1>1, <2>1, ExceptSeq
  <1>3. \A k \in 1 .. Len(r.calls) : c[k].state = IF k = i THEN s ELSE r.calls[k].state
    <2>1. [r.calls[i] EXCEPT !.state = s].state = s
      BY <1>1 DEF Call
    <2>2. \A k \in 1 .. Len(r.calls) : c[k] = IF k = i THEN [r.calls[i] EXCEPT !.state = s] ELSE r.calls[k]
      BY <1>1
    <2> QED BY <2>1, <2>2
  <1>4. q = [r EXCEPT !.calls = c]
    BY DEF Mark, Sound, Generation
  <1>5. q \in Generation
    <2> HIDE DEF c, q
    <2> QED BY <1>2, <1>4 DEF Sound, Generation, Call
  <1>6. /\ q.calls = c /\ q.phase = r.phase /\ q.settled = r.settled /\ q.ended = r.ended
        /\ q.opt = r.opt /\ q.pending = r.pending /\ q.aborted = r.aborted /\ q.report = r.report
    <2> HIDE DEF c, q
    <2> QED BY <1>4 DEF Sound, Generation
  <1>7. Running(q) \in SUBSET Running(r)
    <2>1. DOMAIN c = 1 .. Len(r.calls) /\ DOMAIN r.calls = 1 .. Len(r.calls)
      BY <1>1, <1>2
    <2> HIDE DEF c, q
    <2> QED BY <1>3, <1>6, <2>1 DEF Running
  <1>8. Cardinality(Running(q)) <= r.opt.limit
    <2>1. Cardinality(Running(q)) <= Cardinality(Running(r))
      BY <1>7, RunningFinite, FS_Subset DEF Sound
    <2>2. Cardinality(Running(r)) \in Nat /\ Cardinality(Running(q)) \in Nat
      BY <1>5, RunningFinite DEF Sound
    <2> QED BY <2>1, <2>2, <1>1, OptionFields DEF Sound
  <1>9. ASSUME q.ended # "no" PROVE Truthful(q)
    <2>1. Truthful(r) /\ r.calls[i].state = "running" /\ s \in Ran
      BY <1>9, <1>6 DEF Sound
    <2>2. DOMAIN r.report = 1 .. Len(r.calls)
      BY <2>1 DEF Truthful, Sound, Generation
    <2> HIDE DEF c, q
    <2> QED BY <1>2, <1>3, <1>6, <2>1, <2>2 DEF Truthful, Ran
  <1> QED
    BY <1>2, <1>5, <1>6, <1>8, <1>9 DEF Sound

LEMMA AbortSound ==
  ASSUME NEW r, Sound(r)
  PROVE  LET q == [r EXCEPT !.aborted = TRUE] IN
         /\ Sound(q) /\ q.phase = r.phase /\ q.settled = r.settled /\ q.ended = r.ended
         /\ q.opt = r.opt /\ q.calls = r.calls /\ q.pending = r.pending
  BY DEF Sound, Generation, Truthful, Running

LEMMA RoomType ==
  ASSUME NEW r, Sound(r)
  PROVE  /\ Room(r) \in Nat /\ Room(r) + Cardinality(Running(r)) <= r.opt.limit
         /\ r.opt.limit \in Nat /\ Cardinality(Running(r)) \in Nat
  <1>1. r.opt.limit \in Nat /\ Cardinality(Running(r)) \in Nat
    BY RunningFinite, OptionFields DEF Sound, Generation
  <1> QED BY <1>1 DEF Room, Sound

\* The k-th element of a sequence takes at most one place each in its range.
LEMMA FewElements ==
  ASSUME NEW f, NEW k \in Nat
  PROVE  /\ IsFiniteSet({f[j] : j \in 1 .. k})
         /\ Cardinality({f[j] : j \in 1 .. k}) \in Nat
         /\ Cardinality({f[j] : j \in 1 .. k}) <= k
  <1> DEFINE S == {f[j] : j \in 1 .. k}  h == [j \in 1 .. k |-> f[j]]
  <1>1. h \in Surjection(1 .. k, S)
    BY DEF Surjection
  <1>2. IsFiniteSet(1 .. k) /\ Cardinality(1 .. k) = k
    BY FS_Interval
  <1>3. IsFiniteSet(S) /\ Cardinality(S) <= k
    BY <1>1, <1>2, FS_Surjection
  <1> QED BY <1>3, FS_CardinalityType

\* Pending calls that fit into the room are executed within the limit.
LEMMA ExecuteSound ==
  ASSUME NEW r, Sound(r), r.ended = "no", NEW k \in 0 .. Len(r.pending), k <= Room(r)
  PROVE  LET q == Execute(r, k) IN
         /\ Sound(q) /\ q.phase = r.phase /\ q.settled = r.settled /\ q.ended = "no"
         /\ q.opt = r.opt /\ Len(q.calls) = Len(r.calls) /\ q.aborted = r.aborted
  <1> DEFINE q == Execute(r, k)
             c == [i \in DOMAIN r.calls |->
                     IF \E j \in 1 .. k : r.pending[j] = i
                     THEN [r.calls[i] EXCEPT !.state = "running"] ELSE r.calls[i]]
             p == SubSeq(r.pending, k + 1, Len(r.pending))
             S == {r.pending[j] : j \in 1 .. k}
  <1>1. /\ r.pending \in Seq(Nat) /\ Len(r.pending) \in Nat /\ k \in Nat
        /\ DOMAIN r.pending = 1 .. Len(r.pending)
    BY DEF Sound, Generation
  <1>2. /\ r.calls \in Seq(Call) /\ Len(r.calls) \in Nat /\ DOMAIN r.calls = 1 .. Len(r.calls)
        /\ \A i \in 1 .. Len(r.calls) : r.calls[i] \in Call
    BY CallsTyped DEF Sound
  <1>3. c \in Seq(Call) /\ Len(c) = Len(r.calls)
    <2>1. \A i \in DOMAIN r.calls : c[i] \in Call
      BY <1>2 DEF Call, CallStates, Ran
    <2>2. c \in [1 .. Len(r.calls) -> Call]
      BY <1>2, <2>1
    <2> HIDE DEF c
    <2> QED BY <1>2, <2>2
  <1>4. p \in Seq(Nat) /\ \A j \in DOMAIN p : p[j] \in 1 .. Len(r.calls)
    <2>1. /\ p \in Seq(Nat) /\ Len(p) = Len(r.pending) - k
          /\ \A j \in 1 .. Len(p) : p[j] = r.pending[k + j]
      BY <1>1, SubSeqProperties
    <2>2. \A j \in 1 .. Len(p) : k + j \in DOMAIN r.pending
      BY <1>1, <2>1
    <2> QED BY <2>1, <2>2 DEF Sound
  <1>5. q = [r EXCEPT !.pending = p, !.calls = c]
    BY DEF Execute, Sound, Generation
  <1>6. /\ q \in Generation
        /\ q.calls = c /\ q.pending = p /\ q.phase = r.phase /\ q.settled = r.settled
        /\ q.ended = "no" /\ q.opt = r.opt /\ q.aborted = r.aborted
    <2> HIDE DEF c, p, q
    <2> QED BY <1>3, <1>4, <1>5 DEF Sound, Generation, Call
  <1>7. Running(q) \in SUBSET (Running(r) \cup S)
    <2>1. \A i \in DOMAIN r.calls : i \notin S => c[i] = r.calls[i]
      OBVIOUS
    <2>2. DOMAIN c = DOMAIN r.calls
      OBVIOUS
    <2> HIDE DEF c, p, q, S
    <2> QED BY <1>6, <2>1, <2>2 DEF Running
  <1>8. Cardinality(Running(q)) <= r.opt.limit
    <2>1. /\ IsFiniteSet(Running(r)) /\ IsFiniteSet(S) /\ Cardinality(S) \in Nat /\ Cardinality(S) <= k
      BY <1>1, RunningFinite, FewElements DEF Sound
    <2>2. IsFiniteSet(Running(r) \cap S)
      BY <2>1, FS_Subset
    <2>3. /\ Cardinality(Running(r) \cap S) \in Nat
          /\ IsFiniteSet(Running(r) \cup S)
          /\ Cardinality(Running(r) \cup S) = Cardinality(Running(r)) + Cardinality(S) - Cardinality(Running(r) \cap S)
      BY <2>1, <2>2, FS_Union, FS_CardinalityType
    <2>4. Cardinality(Running(q)) <= Cardinality(Running(r) \cup S)
      BY <1>7, <2>3, FS_Subset
    <2>5. Cardinality(Running(q)) \in Nat
      BY <1>6, RunningFinite
    <2> HIDE DEF c, p, q, S
    <2> QED BY <1>1, <2>1, <2>3, <2>4, <2>5, RoomType
  <1>9. Sound(q) /\ Len(q.calls) = Len(r.calls)
    <2> HIDE DEF c, p, q, S
    <2> QED BY <1>3, <1>4, <1>6, <1>8 DEF Sound
  <1> QED BY <1>6, <1>9

LEMMA PumpedSound ==
  ASSUME NEW r, Sound(r), NEW q \in Pumped(r)
  PROVE  /\ Sound(q) /\ q.phase = r.phase /\ q.settled = r.settled /\ q.ended = r.ended
         /\ Len(q.calls) = Len(r.calls)
  <1>1. CASE ~MayPump(r)
    BY <1>1 DEF Pumped
  <1>2. CASE MayPump(r)
    <2> DEFINE n == IF Room(r) < Len(r.pending) THEN Room(r) ELSE Len(r.pending)
    <2>1. /\ r.ended = "no" /\ Len(r.pending) \in Nat
          /\ DOMAIN r.pending = 1 .. Len(r.pending)
      BY <1>2 DEF MayPump, Sound, Generation
    <2>2. n \in Nat /\ n <= Len(r.pending) /\ n <= Room(r)
      BY <2>1, RoomType
    <2>3. ASSUME NEW k \in 0 .. n
          PROVE  LET e == Execute(r, k) IN
                 /\ Sound(e) /\ e.phase = r.phase /\ e.settled = r.settled /\ e.ended = "no"
                 /\ e.opt = r.opt /\ Len(e.calls) = Len(r.calls) /\ e.aborted = r.aborted
      <3>1. k \in 0 .. Len(r.pending) /\ k <= Room(r)
        BY <2>1, <2>2, RoomType
      <3> QED BY <2>1, <3>1, ExecuteSound
    <2>4. ASSUME NEW k \in 1 .. n, NEW s \in {"dropped", "failed"}
          PROVE  LET m == Mark(Execute(r, k), r.pending[k], s) IN
                 /\ Sound(m) /\ m.phase = r.phase /\ m.settled = r.settled /\ m.ended = "no"
                 /\ Len(m.calls) = Len(r.calls)
      <3> DEFINE e == Execute(r, k)
      <3>1. /\ Sound(e) /\ e.phase = r.phase /\ e.settled = r.settled /\ e.ended = "no"
            /\ Len(e.calls) = Len(r.calls)
        BY <2>2, <2>3
      <3>2. r.pending[k] \in 1 .. Len(e.calls)
        BY <2>1, <2>2, <3>1 DEF Sound
      <3>3. s \in CallStates \ {"running"}
        BY DEF CallStates, Ran
      <3> HIDE DEF e
      <3>4. LET m == Mark(e, r.pending[k], s) IN
            /\ Sound(m) /\ m.phase = e.phase /\ m.settled = e.settled /\ m.ended = e.ended
            /\ Len(m.calls) = Len(e.calls)
        BY <3>1, <3>2, <3>3, MarkSound
      <3> QED BY <3>1, <3>4 DEF e
    <2>5. CASE q = Execute(r, n)
      BY <2>1, <2>2, <2>3, <2>5
    <2>6. ASSUME NEW k \in 1 .. n,
                 q = [Mark(Execute(r, k), r.pending[k], "dropped") EXCEPT !.aborted = TRUE]
          PROVE  /\ Sound(q) /\ q.phase = r.phase /\ q.settled = r.settled /\ q.ended = r.ended
                 /\ Len(q.calls) = Len(r.calls)
      BY <2>1, <2>4, <2>6, AbortSound
    <2>7. ASSUME NEW k \in 1 .. n, q = [Execute(r, k) EXCEPT !.aborted = TRUE]
          PROVE  /\ Sound(q) /\ q.phase = r.phase /\ q.settled = r.settled /\ q.ended = r.ended
                 /\ Len(q.calls) = Len(r.calls)
      <3>1. k \in 0 .. n
        BY <2>2
      <3> QED BY <2>1, <2>3, <2>7, <3>1, AbortSound
    <2>8. ASSUME NEW k \in 1 .. n, q = Fail(Mark(Execute(r, k), r.pending[k], "failed"))
          PROVE  /\ Sound(q) /\ q.phase = r.phase /\ q.settled = r.settled /\ q.ended = r.ended
                 /\ Len(q.calls) = Len(r.calls)
      BY <2>1, <2>4, <2>8, FailSound
    <2>9. \/ q = Execute(r, n)
          \/ \E k \in 1 .. n : q = [Mark(Execute(r, k), r.pending[k], "dropped") EXCEPT !.aborted = TRUE]
          \/ \E k \in 1 .. n : q = [Execute(r, k) EXCEPT !.aborted = TRUE]
          \/ \E k \in 1 .. n : q = Fail(Mark(Execute(r, k), r.pending[k], "failed"))
      BY <1>2 DEF Pumped
    <2> QED BY <2>5, <2>6, <2>7, <2>8, <2>9
  <1> QED BY <1>1, <1>2

\* A call joins the conversation without running.
LEMMA ReceiveCallSound ==
  ASSUME NEW r, Sound(r), r.ended = "no", Len(r.calls) < MaxCalls, NEW known \in BOOLEAN
  PROVE  LET q == ReceiveCall(r, known) IN
         /\ Sound(q) /\ PhaseFits(q) /\ q.phase \in {"next", "parse"} /\ q.settled = "no"
  <1> DEFINE e == [round |-> r.round, state |-> IF known THEN "parsing" ELSE "invalid"]
             h == Goto(r, IF known THEN "parse" ELSE "next")
             c == Append(r.calls, e)
             q == ReceiveCall(r, known)
  <1>1. /\ Sound(h) /\ h.calls = r.calls /\ h.ended = "no" /\ h.opt = r.opt /\ h.settled = "no"
        /\ h.phase \in {"next", "parse"} /\ h.round = r.round /\ h.pending = r.pending
    <2>1. (IF known THEN "parse" ELSE "next") \in Phases
      BY DEF Phases, Waits
    <2> QED BY <2>1, GotoSound DEF Goto, Sound, Generation
  <1>2. /\ r.calls \in Seq(Call) /\ Len(r.calls) \in Nat
        /\ DOMAIN r.calls = 1 .. Len(r.calls) /\ r.round \in Nat
    BY CallsTyped DEF Sound, Generation
  <1>3. /\ c \in Seq(Call) /\ Len(c) = Len(r.calls) + 1
        /\ \A i \in 1 .. Len(r.calls) : c[i] = r.calls[i]
        /\ c[Len(c)] = e
    <2>1. e \in Call
      BY <1>2 DEF Call, CallStates
    <2> QED BY <1>2, <2>1, AppendProperties
  <1>4. q = [h EXCEPT !.calls = c]
    BY <1>1 DEF ReceiveCall, Sound, Generation
  <1>5. /\ q \in Generation /\ q.calls = c /\ q.ended = "no" /\ q.phase = h.phase
        /\ q.settled = "no" /\ q.opt = r.opt /\ q.pending = r.pending
    <2> HIDE DEF c, h, q
    <2> QED BY <1>1, <1>3, <1>4 DEF Sound, Generation, Call
  <1>6. Running(q) \in SUBSET Running(r)
    <2>1. e.state # "running" /\ DOMAIN c = 1 .. Len(c)
      BY <1>3
    <2> HIDE DEF c, h, q, e
    <2> QED BY <1>2, <1>3, <1>5, <2>1 DEF Running
  <1>7. Cardinality(Running(q)) <= r.opt.limit
    <2>1. Cardinality(Running(q)) <= Cardinality(Running(r))
      BY <1>6, RunningFinite, FS_Subset DEF Sound
    <2> HIDE DEF q
    <2>2. Cardinality(Running(q)) \in Nat
      BY <1>5, RunningFinite
    <2> QED BY <2>1, <2>2, RoomType DEF Sound
  <1>8. \A k \in DOMAIN q.pending : q.pending[k] \in 1 .. Len(q.calls)
    <2> HIDE DEF c, h, q
    <2> QED BY <1>2, <1>3, <1>5 DEF Sound
  <1>9. Sound(q) /\ PhaseFits(q)
    <2> HIDE DEF c, h, q
    <2> QED BY <1>2, <1>3, <1>5, <1>7, <1>8 DEF Sound, PhaseFits
  <1> QED BY <1>1, <1>5, <1>9

LEMMA AcceptSound ==
  ASSUME NEW r, Sound(r), r.ended = "no", Len(r.calls) > 0, NEW q \in Accept(r)
  PROVE  Sound(q) /\ q.phase = r.phase /\ q.settled = r.settled /\ q.ended = "no"
  <1> DEFINE a == Append(r.pending, Len(r.calls))
             b == [r EXCEPT !.pending = a]
  <1>1. r.pending \in Seq(Nat) /\ Len(r.calls) \in Nat /\ DOMAIN r.pending = 1 .. Len(r.pending)
    BY CallsTyped DEF Sound, Generation
  <1>2. a \in Seq(Nat) /\ \A k \in DOMAIN a : a[k] \in 1 .. Len(r.calls)
    <2>1. /\ a \in Seq(Nat) /\ Len(a) = Len(r.pending) + 1
          /\ \A k \in 1 .. Len(r.pending) : a[k] = r.pending[k]
          /\ a[Len(a)] = Len(r.calls)
      BY <1>1, AppendProperties
    <2> QED BY <1>1, <2>1 DEF Sound
  <1>3. Sound(b) /\ b.phase = r.phase /\ b.settled = r.settled /\ b.ended = "no"
    <2> HIDE DEF a
    <2> QED BY <1>2 DEF Sound, Generation, Running, Truthful
  <1>4. q = b \/ q \in Pumped(b)
    BY DEF Accept
  <1> HIDE DEF b
  <1> QED BY <1>3, <1>4, PumpedSound

----------------------------------------------------------------------------
(* Between the awaits.                                                     *)

LEMMA SettleSound ==
  ASSUME NEW r, Sound(r), NEW how \in {"no", "value", "error"}
  PROVE  LET q == [r EXCEPT !.settled = how] IN
         /\ Sound(q) /\ q.phase = r.phase /\ q.settled = how /\ q.ended = r.ended
         /\ q.calls = r.calls
  BY DEF Sound, Generation, Truthful, Running

LEMMA NextRoundSound ==
  ASSUME NEW r, Sound(r), r.ended = "no"
  PROVE  /\ Sound(NextRound(r)) /\ PhaseFits(NextRound(r))
         /\ NextRound(r).phase \in {"begin", "leaving"}
  <1>1. "begin" \in Phases /\ "maxRounds" \in Reasons
    BY DEF Phases, Reasons
  <1>2. CASE r.round < r.opt.maxRounds
    BY <1>1, <1>2, GotoSound DEF NextRound, PhaseFits
  <1>3. CASE ~(r.round < r.opt.maxRounds)
    BY <1>1, <1>3, FinishSound DEF NextRound
  <1> QED BY <1>2, <1>3

LEMMA CorrectSound ==
  ASSUME NEW r, Sound(r), r.ended = "no"
  PROVE  /\ Sound(Correct(r)) /\ PhaseFits(Correct(r))
         /\ Correct(r).phase \in {"begin", "leaving"}
  <1> DEFINE b == [r EXCEPT !.corrections = @ + 1]
  <1>1. Sound(b) /\ b.ended = "no"
    BY DEF Sound, Generation, Truthful, Running
  <1>2. CASE r.corrections >= r.opt.corrections
    BY <1>2, RejectSound DEF Correct
  <1>3. CASE ~(r.corrections >= r.opt.corrections)
    <2>1. Correct(r) = NextRound(b)
      BY <1>3 DEF Correct
    <2> HIDE DEF b
    <2> QED BY <1>1, <2>1, NextRoundSound
  <1> QED BY <1>2, <1>3

LEMMA ConcludeSound ==
  ASSUME NEW r, Sound(r), r.ended = "no", NEW invalid \in BOOLEAN
  PROVE  /\ Sound(Conclude(r, invalid)) /\ PhaseFits(Conclude(r, invalid))
         /\ Conclude(r, invalid).phase \in {"begin", "leaving"}
  <1>1. r.stop \in Reasons /\ "toolCalls" \in Reasons /\ "complete" \in Reasons
    BY DEF Sound, Generation, Reasons
  <1>2. \/ Conclude(r, invalid) = Correct(r)
        \/ Conclude(r, invalid) = NextRound(r)
        \/ \E reason \in Reasons : Conclude(r, invalid) = Finish(r, reason)
    BY <1>1 DEF Conclude
  <1> QED BY <1>2, CorrectSound, NextRoundSound, FinishSound

LEMMA AfterStopSound ==
  ASSUME NEW r, Sound(r), r.ended = "no"
  PROVE  /\ Sound(AfterStop(r)) /\ PhaseFits(AfterStop(r))
         /\ AfterStop(r).phase \in {"begin", "leaving", "validate"}
  <1>1. "validate" \in Phases
    BY DEF Phases, Waits
  <1>2. CASE r.opt.schema
    BY <1>1, <1>2, GotoSound DEF AfterStop, PhaseFits
  <1>3. CASE ~r.opt.schema
    BY <1>3, ConcludeSound DEF AfterStop
  <1> QED BY <1>2, <1>3

Decided == {"begin", "leaving", "bounded", "validate", "stopWhen"}

LEMMA AfterDrainSound ==
  ASSUME NEW r, Sound(r), r.ended = "no"
  PROVE  /\ Sound(AfterDrain(r)) /\ PhaseFits(AfterDrain(r))
         /\ AfterDrain(r).phase \in Decided
  <1>1. "stopWhen" \in Phases
    BY DEF Phases, Waits
  <1>2. \/ AfterDrain(r) = Raise(r)
        \/ AfterDrain(r) = Goto(r, "stopWhen")
        \/ AfterDrain(r) = AfterStop(r)
    BY DEF AfterDrain
  <1> QED BY <1>1, <1>2, RaiseSound, GotoSound, AfterStopSound DEF PhaseFits, Decided

LEMMA WaitForJobsSound ==
  ASSUME NEW r, Sound(r), r.ended = "no"
  PROVE  LET q == [Goto(r, "drain") EXCEPT !.awaited = Running(r)] IN
         Sound(q) /\ PhaseFits(q) /\ q.phase = "drain"
  <1> DEFINE h == Goto(r, "drain")
  <1>1. Sound(h) /\ h.phase = "drain" /\ h.ended = "no"
    BY GotoSound DEF Phases, Waits
  <1>2. Running(r) \in SUBSET (1 .. MaxCalls)
    BY RunningFinite, CallsTyped DEF Sound
  <1> HIDE DEF h
  <1>3. LET q == [h EXCEPT !.awaited = Running(r)] IN
        Sound(q) /\ PhaseFits(q) /\ q.phase = "drain"
    BY <1>1, <1>2 DEF Sound, Generation, Truthful, Running, PhaseFits
  <1> QED BY <1>3 DEF h

LEMMA DrainedSound ==
  ASSUME NEW r, Sound(r), r.ended = "no"
  PROVE  /\ Sound(Drained(r)) /\ PhaseFits(Drained(r))
         /\ Drained(r).phase \in Decided \cup {"drain"}
  BY AfterDrainSound, WaitForJobsSound DEF Drained

----------------------------------------------------------------------------
(* The queue and the native round.                                         *)

NativeRound == [gen : Gens \cup {None}, abort : BOOLEAN, done : BOOLEAN]
Outside == {"idle", "done"}

\* A generation that may own the native round.
Holding(r) == /\ r.phase \in {"next", "parse", "closing", "bounded", "leaving"}
              /\ ~(r.phase = "closing" /\ r.settled = "value")

\* The queue holds each generation that is not over once; only its head runs;
\* and only a running generation owns the native round, from the begin of a
\* round until the wait for its end is over.
Owned ==
  /\ queue \in Seq(Gens)
  /\ \A i, j \in 1 .. Len(queue) : queue[i] = queue[j] => i = j
  /\ \A g \in Gens : gens[g].phase \notin Outside <=> \E i \in 1 .. Len(queue) : queue[i] = g
  /\ \A g \in Gens : gens[g].phase \notin Outside \cup {"queued"} => queue # <<>> /\ queue[1] = g
  /\ native \in NativeRound
  /\ \A g \in Gens : native.gen = g => Holding(gens[g])
  /\ unload \in {"no", "waiting", "done"} /\ closed = (unload # "no")
  /\ unload = "done" => queue = <<>>

GensSound ==
  /\ gens \in [Gens -> Generation]
  /\ \A g \in Gens : Sound(gens[g]) /\ PhaseFits(gens[g])

LanguageInv == GensSound /\ Owned

\* The parts of Owned that a step of one generation g, which becomes q, may
\* disturb while the queue and the unload stay as they are.
LEMMA OneMoves ==
  ASSUME LanguageInv, NEW g \in Gens, NEW q, Sound(q), PhaseFits(q),
         gens' = [gens EXCEPT ![g] = q],
         queue' = queue, closed' = closed, unload' = unload,
         q.phase \in Outside <=> gens[g].phase \in Outside,
         q.phase \notin Outside \cup {"queued"} => queue # <<>> /\ queue[1] = g,
         native' \in NativeRound, native'.gen \in {native.gen, g, None},
         native'.gen = g => Holding(q)
  PROVE  LanguageInv'
  <1>1. /\ gens' \in [Gens -> Generation] /\ gens'[g] = q
        /\ \A h \in Gens \ {g} : gens'[h] = gens[h]
    BY DEF LanguageInv, GensSound, Sound
  <1>2. GensSound'
    BY <1>1 DEF LanguageInv, GensSound
  <1>3. \A h \in Gens : gens'[h].phase \in Outside <=> gens[h].phase \in Outside
    BY <1>1
  <1>4. \A h \in Gens : gens'[h].phase \notin Outside \cup {"queued"} => queue # <<>> /\ queue[1] = h
    BY <1>1 DEF LanguageInv, Owned
  <1>5. \A h \in Gens : native'.gen = h => Holding(gens'[h])
    BY <1>1 DEF LanguageInv, Owned
  <1>6. Owned'
    BY <1>3, <1>4, <1>5 DEF LanguageInv, Owned
  <1> QED BY <1>2, <1>6 DEF LanguageInv

LEMMA BecomeMoves ==
  ASSUME LanguageInv, NEW g \in Gens, NEW q, Sound(q), PhaseFits(q), Become(g, q),
         q.phase \in Outside <=> gens[g].phase \in Outside,
         q.phase \notin Outside \cup {"queued"} => queue # <<>> /\ queue[1] = g,
         native.gen = g => Holding(q)
  PROVE  LanguageInv'
  <1>1. native' \in NativeRound /\ native'.gen = native.gen
    BY DEF Become, LanguageInv, Owned, NativeRound
  <1> QED BY <1>1, OneMoves DEF Become

\* A generation that is running is the head of the queue, and has not ended
\* before it leaves.
LEMMA RunningHead ==
  ASSUME LanguageInv, NEW g \in Gens, gens[g].phase \notin {"idle", "queued", "done"}
  PROVE  /\ queue # <<>> /\ queue[1] = g /\ Sound(gens[g])
         /\ gens[g].phase # "leaving" => gens[g].ended = "no"
  BY DEF LanguageInv, GensSound, Owned, Outside, PhaseFits

LEMMA FreshSound ==
  ASSUME NEW o \in Options
  PROVE  Sound(Fresh(o)) /\ Fresh(o).ended = "no" /\ Fresh(o).phase = "idle"
  <1> DEFINE f == Fresh(o)
  <1>1. f \in Generation /\ f.calls = <<>> /\ f.pending = <<>> /\ f.ended = "no" /\ f.phase = "idle" /\ f.opt = o
    BY DEF Fresh, Generation, Phases, Reasons
  <1>2. Running(f) = {}
    BY <1>1 DEF Running
  <1>3. Cardinality(Running(f)) = 0
    BY <1>2, FS_EmptySet
  <1> HIDE DEF f
  <1>4. Sound(f) /\ f.ended = "no" /\ f.phase = "idle"
    BY <1>1, <1>3, OptionFields DEF Sound
  <1> QED BY <1>4 DEF f

LEMMA PhaseSound ==
  ASSUME NEW r, Sound(r), NEW p \in Phases
  PROVE  LET q == [r EXCEPT !.phase = p] IN
         /\ Sound(q) /\ q.phase = p /\ q.ended = r.ended /\ q.settled = r.settled
         /\ q.calls = r.calls
  BY DEF Sound, Generation, Truthful, Running

LEMMA InitInv == LanguageInit => LanguageInv
  <1> SUFFICES ASSUME LanguageInit PROVE LanguageInv  OBVIOUS
  <1>1. PICK o \in Options : gens = [g \in Gens |-> Fresh(o)]
    BY DEF LanguageInit
  <1>5. Sound(Fresh(o)) /\ Fresh(o).ended = "no" /\ Fresh(o).phase = "idle"
    BY FreshSound
  <1>6. GensSound
    BY <1>1, <1>5 DEF GensSound, PhaseFits, Sound
  <1>7. Owned
    <2>1. \A g \in Gens : gens[g].phase \in Outside
      BY <1>1, <1>5 DEF Outside
    <2>2. queue \in Seq(Gens) /\ 1 .. Len(queue) = {}
      BY DEF LanguageInit
    <2>3. native \in NativeRound /\ \A g \in Gens : native.gen # g
      BY DEF LanguageInit, NativeRound, NoRound
    <2> QED BY <2>1, <2>2, <2>3 DEF LanguageInit, Owned
  <1> QED BY <1>6, <1>7 DEF LanguageInv

\* Steps of the queue.
LEMMA GenerateInv ==
  ASSUME LanguageInv, NEW g \in Gens, Generate(g)
  PROVE  LanguageInv'
  <1>1. PICK o \in Options : gens' = [gens EXCEPT ![g] = [Fresh(o) EXCEPT !.phase = "queued"]]
    BY DEF Generate
  <1> DEFINE f == [Fresh(o) EXCEPT !.phase = "queued"]
  <1>2. Sound(f) /\ f.phase = "queued" /\ f.ended = "no"
    BY FreshSound, PhaseSound DEF Phases
  <1>4. PhaseFits(f)
    BY <1>2 DEF PhaseFits
  <1>5. gens'[g] = f /\ gens' \in [Gens -> Generation] /\ \A h \in Gens \ {g} : gens'[h] = gens[h]
    <2> HIDE DEF f
    <2> QED BY <1>1, <1>2 DEF LanguageInv, GensSound, Sound, f
  <1> HIDE DEF f
  <1>6. GensSound'
    BY <1>2, <1>4, <1>5 DEF LanguageInv, GensSound
  <1>7. /\ queue \in Seq(Gens) /\ queue' = Append(queue, g) /\ gens[g].phase = "idle"
        /\ ~closed /\ UNCHANGED <<closed, unload, native>>
    BY DEF Generate, LanguageInv, Owned
  <1>8. /\ queue' \in Seq(Gens) /\ Len(queue') = Len(queue) + 1 /\ Len(queue) \in Nat
        /\ \A i \in 1 .. Len(queue) : queue'[i] = queue[i]
        /\ queue'[Len(queue')] = g
    BY <1>7, AppendProperties
  <1>9. \A i \in 1 .. Len(queue) : queue[i] # g
    BY <1>7 DEF LanguageInv, Owned, Outside
  <1>10. \A i, j \in 1 .. Len(queue') : queue'[i] = queue'[j] => i = j
    BY <1>8, <1>9 DEF LanguageInv, Owned
  <1>11. \A h \in Gens : gens'[h].phase \notin Outside <=> \E i \in 1 .. Len(queue') : queue'[i] = h
    <2>2. ASSUME NEW h \in Gens \ {g}
          PROVE  gens'[h].phase \notin Outside <=> \E i \in 1 .. Len(queue') : queue'[i] = h
      BY <1>5, <1>8 DEF LanguageInv, Owned
    <2>3. gens'[g].phase \notin Outside /\ \E i \in 1 .. Len(queue') : queue'[i] = g
      BY <1>2, <1>5, <1>8 DEF Outside
    <2> QED BY <2>2, <2>3
  <1>12. \A h \in Gens : gens'[h].phase \notin Outside \cup {"queued"} => queue' # <<>> /\ queue'[1] = h
    <2>1. ASSUME NEW h \in Gens \ {g}, gens'[h].phase \notin Outside \cup {"queued"}
          PROVE  queue' # <<>> /\ queue'[1] = h
      <3>1. queue # <<>> /\ queue[1] = h
        BY <1>5, <2>1 DEF LanguageInv, Owned
      <3>2. Len(queue) > 0
        BY <1>7, <3>1, EmptySeq
      <3> QED BY <1>8, <3>1, <3>2
    <2> QED BY <1>2, <1>5, <2>1 DEF Outside
  <1>13. \A h \in Gens : native'.gen = h => Holding(gens'[h])
    BY <1>5, <1>7 DEF LanguageInv, Owned, Holding
  <1>14. Owned'
    <2>1. native' \in NativeRound /\ unload' # "done"
      BY <1>7 DEF LanguageInv, Owned
    <2> QED BY <1>7, <1>8, <1>10, <1>11, <1>12, <1>13, <2>1 DEF LanguageInv, Owned
  <1> QED BY <1>6, <1>14 DEF LanguageInv

LEMMA LeaveInv ==
  ASSUME LanguageInv, NEW g \in Gens, Leave(g)
  PROVE  LanguageInv'
  <1> DEFINE q == [gens[g] EXCEPT !.phase = "done"]
  <1>1. /\ gens[g].phase = "leaving" /\ native.gen # g /\ UNCHANGED <<closed, unload, native>>
        /\ queue' = Tail(queue)
    BY DEF Leave, Left
  <1>2. queue # <<>> /\ queue[1] = g /\ Sound(gens[g]) /\ queue \in Seq(Gens)
    BY <1>1, RunningHead DEF LanguageInv, Owned
  <1>3. Sound(q) /\ PhaseFits(q) /\ q.phase = "done"
    <2>1. "done" \in Phases
      BY DEF Phases
    <2>2. Sound(q) /\ q.phase = "done"
      BY <1>2, <2>1, PhaseSound
    <2> HIDE DEF q
    <2> QED BY <2>2 DEF PhaseFits
  <1>4. gens'[g] = q /\ gens' \in [Gens -> Generation] /\ \A h \in Gens \ {g} : gens'[h] = gens[h]
    <2>1. gens' = [gens EXCEPT ![g] = q]
      BY DEF Leave, LanguageInv, GensSound
    <2> HIDE DEF q
    <2> QED BY <1>3, <2>1 DEF LanguageInv, GensSound, Sound
  <1> HIDE DEF q
  <1>5. GensSound'
    BY <1>3, <1>4 DEF LanguageInv, GensSound
  <1>6. /\ queue' \in Seq(Gens) /\ Len(queue) \in Nat /\ Len(queue) > 0 /\ Len(queue') = Len(queue) - 1
        /\ \A i \in 1 .. Len(queue') : queue'[i] = queue[i + 1]
    BY <1>1, <1>2, HeadTailProperties, EmptySeq
  <1>7. \A i, j \in 1 .. Len(queue') : queue'[i] = queue'[j] => i = j
    <2> SUFFICES ASSUME NEW i \in 1 .. Len(queue'), NEW j \in 1 .. Len(queue'), queue'[i] = queue'[j]
                 PROVE  i = j
      OBVIOUS
    <2>1. i + 1 \in 1 .. Len(queue) /\ j + 1 \in 1 .. Len(queue) /\ queue[i + 1] = queue[j + 1]
      BY <1>6
    <2>2. i + 1 = j + 1
      BY <2>1 DEF LanguageInv, Owned
    <2> QED BY <1>6, <2>2
  <1>8. \A h \in Gens : gens'[h].phase \notin Outside <=> \E i \in 1 .. Len(queue') : queue'[i] = h
    <2>1. ASSUME NEW h \in Gens \ {g}
          PROVE  gens'[h].phase \notin Outside <=> \E i \in 1 .. Len(queue') : queue'[i] = h
      <3>1. gens[h].phase \notin Outside <=> \E i \in 1 .. Len(queue) : queue[i] = h
        BY DEF LanguageInv, Owned
      <3>2. ASSUME NEW i \in 1 .. Len(queue), queue[i] = h
            PROVE  \E k \in 1 .. Len(queue') : queue'[k] = h
        <4>1. i # 1
          BY <1>2, <3>2
        <4>2. i - 1 \in 1 .. Len(queue') /\ queue'[i - 1] = queue[(i - 1) + 1] /\ (i - 1) + 1 = i
          BY <1>6, <4>1
        <4> QED BY <3>2, <4>2
      <3>3. ASSUME NEW i \in 1 .. Len(queue'), queue'[i] = h
            PROVE  \E k \in 1 .. Len(queue) : queue[k] = h
        <4>1. i + 1 \in 1 .. Len(queue) /\ queue[i + 1] = h
          BY <1>6, <3>3
        <4> QED BY <4>1
      <3> QED BY <1>4, <3>1, <3>2, <3>3
    <2>2. ASSUME NEW i \in 1 .. Len(queue'), queue'[i] = g PROVE FALSE
      <3>1. i + 1 \in 1 .. Len(queue) /\ 1 \in 1 .. Len(queue) /\ queue[i + 1] = queue[1]
        BY <1>2, <1>6, <2>2
      <3>2. i + 1 = 1
        BY <3>1 DEF LanguageInv, Owned
      <3> QED BY <3>2
    <2>3. gens'[g].phase \in Outside
      BY <1>3, <1>4 DEF Outside
    <2> QED BY <2>1, <2>2, <2>3
  <1>9. \A h \in Gens \ {g} : gens[h].phase \in Outside \cup {"queued"}
    BY <1>2 DEF LanguageInv, Owned
  <1>10. \A h \in Gens : native'.gen = h => Holding(gens'[h])
    BY <1>1, <1>4 DEF LanguageInv, Owned
  <1>11. Owned'
    <2>1. unload' # "done"
      BY <1>1, <1>2 DEF LanguageInv, Owned
    <2>2. \A h \in Gens : gens'[h].phase \in Outside \cup {"queued"}
      BY <1>3, <1>4, <1>9 DEF Outside
    <2> QED BY <1>1, <1>6, <1>7, <1>8, <1>10, <2>1, <2>2 DEF LanguageInv, Owned
  <1> QED BY <1>5, <1>11 DEF LanguageInv

LEMMA CancelledSound ==
  ASSUME NEW r, Sound(r), PhaseFits(r)
  PROVE  LET q == Cancelled(r) IN
         Sound(q) /\ PhaseFits(q) /\ q.phase = r.phase /\ q.settled = r.settled
  BY AbortSound DEF Cancelled, PhaseFits

LEMMA CancelInv ==
  ASSUME LanguageInv, NEW g \in Gens, Cancel(g)
  PROVE  LanguageInv'
  <1>1. Sound(gens[g]) /\ PhaseFits(gens[g])
    BY DEF LanguageInv, GensSound
  <1> DEFINE q == Cancelled(gens[g])
  <1>2. Sound(q) /\ PhaseFits(q) /\ q.phase = gens[g].phase /\ q.settled = gens[g].settled
    BY <1>1, CancelledSound
  <1>3. gens' = [gens EXCEPT ![g] = q] /\ UNCHANGED <<closed, unload, queue, native>>
    BY DEF Cancel
  <1> HIDE DEF q
  <1> QED BY <1>2, <1>3, OneMoves DEF LanguageInv, Owned, Holding

LEMMA CancelledUnstartedInv ==
  ASSUME LanguageInv, NEW g \in Gens, CancelledUnstarted(g)
  PROVE  LanguageInv'
  <1> DEFINE f == Finish(gens[g], "cancelled")  q == [f EXCEPT !.phase = "queued"]
  <1>1. Sound(f)
    BY FinishSound DEF LanguageInv, GensSound, Reasons
  <1>2. Sound(q) /\ q.phase = "queued" /\ PhaseFits(q)
    <2> HIDE DEF f
    <2> QED BY <1>1, PhaseSound DEF Phases, PhaseFits
  <1>3. Become(g, q) /\ gens[g].phase = "queued"
    BY DEF CancelledUnstarted
  <1>4. native.gen # g
    BY <1>3 DEF LanguageInv, Owned, Holding
  <1> HIDE DEF q
  <1> QED BY <1>2, <1>3, <1>4, BecomeMoves DEF Outside

LEMMA RunInv ==
  ASSUME LanguageInv, NEW g \in Gens, Run(g)
  PROVE  LanguageInv'
  <1> DEFINE r == gens[g]
             q == IF r.ended # "no" THEN [r EXCEPT !.phase = "leaving"]
                  ELSE IF r.aborted THEN Finish(r, "cancelled") ELSE [r EXCEPT !.phase = "prepare"]
  <1>1. r.phase = "queued" /\ Head(queue) = g /\ Become(g, q) /\ Sound(r)
    BY DEF Run, LanguageInv, GensSound
  <1>2. Sound(q) /\ PhaseFits(q) /\ q.phase \in {"leaving", "prepare"}
    <2> "leaving" \in Phases /\ "prepare" \in Phases
      BY DEF Phases, Waits
    <2>1. CASE r.ended # "no"
      <3>1. q = [r EXCEPT !.phase = "leaving"]
        BY <2>1
      <3> HIDE DEF q
      <3> QED BY <1>1, <3>1, PhaseSound DEF PhaseFits
    <2>2. CASE r.ended = "no" /\ r.aborted
      BY <1>1, <2>2, FinishSound DEF Reasons
    <2>3. CASE r.ended = "no" /\ ~r.aborted
      <3>1. q = [r EXCEPT !.phase = "prepare"]
        BY <2>3
      <3> HIDE DEF q
      <3> QED BY <1>1, <2>3, <3>1, PhaseSound DEF PhaseFits
    <2> QED BY <2>1, <2>2, <2>3
  <1>3. queue # <<>> /\ queue[1] = g
    <2>1. \E i \in 1 .. Len(queue) : queue[i] = g
      BY <1>1 DEF LanguageInv, Owned, Outside
    <2>2. queue # <<>> /\ queue \in Seq(Gens)
      BY <2>1 DEF LanguageInv, Owned
    <2> QED BY <1>1, <2>2, HeadTailProperties
  <1>4. native.gen # g
    BY <1>1 DEF LanguageInv, Owned, Holding
  <1> HIDE DEF q
  <1> QED BY <1>1, <1>2, <1>3, <1>4, BecomeMoves DEF Outside

LEMMA UnloadInv == LanguageInv /\ Unload => LanguageInv'
  <1> SUFFICES ASSUME LanguageInv, Unload PROVE LanguageInv'  OBVIOUS
  <1>1. /\ ~closed /\ closed' = TRUE /\ unload' = "waiting" /\ UNCHANGED <<queue, native>>
        /\ gens' = [g \in Gens |-> gens'[g]]
        /\ \A g \in Gens : gens'[g] = gens[g] \/ gens'[g] = Cancelled(gens[g])
    BY DEF Unload
  <1>2. \A g \in Gens : Sound(gens[g]) /\ PhaseFits(gens[g])
    BY DEF LanguageInv, GensSound
  <1>3. \A g \in Gens : /\ Sound(gens'[g]) /\ PhaseFits(gens'[g])
                        /\ gens'[g].phase = gens[g].phase /\ gens'[g].settled = gens[g].settled
    BY <1>1, <1>2, CancelledSound
  <1>4. GensSound'
    <2>1. gens' \in [Gens -> Generation]
      BY <1>1, <1>3 DEF Sound
    <2> QED BY <1>3, <2>1 DEF GensSound
  <1>5. closed' = (unload' # "no") /\ unload' \in {"no", "waiting", "done"} /\ unload' # "done"
    BY <1>1
  <1>6. \A g \in Gens : native'.gen = g => Holding(gens'[g])
    BY <1>1, <1>3 DEF LanguageInv, Owned, Holding
  <1>7. Owned'
    BY <1>1, <1>3, <1>5, <1>6 DEF LanguageInv, Owned
  <1> QED BY <1>4, <1>7 DEF LanguageInv

LEMMA BackendUnloadInv == LanguageInv /\ BackendUnload => LanguageInv'
  BY DEF BackendUnload, TailSettled, LanguageInv, GensSound, Owned

LEMMA NativeEndsInv == LanguageInv /\ NativeEnds => LanguageInv'
  BY DEF NativeEnds, NoRound, LanguageInv, GensSound, Owned, NativeRound

\* A wait settles.  The wait for the end of a round does so only when the
\* native round is not this generation's any more.
LEMMA SettleInv ==
  ASSUME LanguageInv, NEW g \in Gens, NEW how \in {"value", "error"}, Settle(g, how),
         gens[g].phase = "closing" => native.gen # g
  PROVE  LanguageInv'
  <1> DEFINE q == [gens[g] EXCEPT !.settled = how]
  <1>1. Sound(gens[g]) /\ PhaseFits(gens[g])
    BY DEF LanguageInv, GensSound
  <1>2. Sound(q) /\ PhaseFits(q) /\ q.phase = gens[g].phase
    <2>1. how \in {"no", "value", "error"}
      OBVIOUS
    <2> QED BY <1>1, <2>1, SettleSound DEF PhaseFits
  <1>3. gens' = [gens EXCEPT ![g] = q] /\ UNCHANGED <<closed, unload, queue, native>>
    BY DEF Settle, LanguageInv, GensSound
  <1> HIDE DEF q
  <1> QED BY <1>2, <1>3, OneMoves DEF LanguageInv, Owned, Holding

LEMMA NativeFailsInv ==
  ASSUME LanguageInv, NEW g \in Gens, NativeFails(g)
  PROVE  LanguageInv'
  <1> DEFINE q == [gens[g] EXCEPT !.settled = "error"]
  <1>1. Sound(gens[g]) /\ PhaseFits(gens[g])
    BY DEF LanguageInv, GensSound
  <1>2. Sound(q) /\ PhaseFits(q) /\ q.phase = gens[g].phase
    BY <1>1, SettleSound DEF PhaseFits
  <1>3. /\ gens' = [gens EXCEPT ![g] = q] /\ UNCHANGED <<closed, unload, queue>>
        /\ native' \in NativeRound /\ native'.gen = None
    BY DEF NativeFails, NoRound, NativeRound
  <1> HIDE DEF q
  <1> QED BY <1>2, <1>3, OneMoves DEF LanguageInv, Owned

\* The end of a tool, of a generation in any phase, also one that is over.
LEMMA ToolEndsInv ==
  ASSUME LanguageInv, NEW g \in Gens, NEW i \in 1 .. MaxCalls, ToolEnds(g, i)
  PROVE  LanguageInv'
  <1> DEFINE r == gens[g]
  <1>1. Sound(r) /\ PhaseFits(r) /\ i \in Running(r)
    BY DEF ToolEnds, LanguageInv, GensSound
  <1>2. i \in 1 .. Len(r.calls) /\ r.calls[i].state = "running"
    BY <1>1, RunningFinite DEF Sound, Running
  <1>3. ASSUME NEW s \in {"completed", "failed", "unanswered"}
        PROVE  LET m == Mark(r, i, s) IN
               /\ Sound(m) /\ m.phase = r.phase /\ m.settled = r.settled /\ m.ended = r.ended
               /\ Len(m.calls) = Len(r.calls)
    <2>1. s \in CallStates \ {"running"} /\ s \in Ran
      BY DEF CallStates, Ran
    <2> QED BY <1>1, <1>2, <2>1, MarkSound
  <1>4. PICK s, q : /\ \/ s = Mark(r, i, "completed")
                       \/ s = Fail(Mark(r, i, "failed")) \/ s = Mark(r, i, "failed")
                       \/ s = Fail(Mark(r, i, "unanswered"))
                    /\ q \in Pumped(s) /\ Become(g, q)
    BY DEF ToolEnds
  <1>5. /\ Sound(s) /\ s.phase = r.phase /\ s.settled = r.settled /\ s.ended = r.ended
        /\ Len(s.calls) = Len(r.calls)
    BY <1>3, <1>4, FailSound
  <1>6. /\ Sound(q) /\ q.phase = r.phase /\ q.settled = r.settled /\ q.ended = r.ended
        /\ Len(q.calls) = Len(r.calls)
    BY <1>4, <1>5, PumpedSound
  <1>7. PhaseFits(q)
    BY <1>1, <1>6 DEF PhaseFits
  <1> QED BY <1>4, <1>6, <1>7, BecomeMoves DEF LanguageInv, Owned, Holding

\* A step of the running generation that does not end the round it may own.
LEMMA RunningMoves ==
  ASSUME LanguageInv, NEW g \in Gens, gens[g].phase \notin {"idle", "queued", "done"},
         NEW q, Sound(q), PhaseFits(q), Become(g, q), q.phase \notin {"idle", "queued", "done"},
         native.gen = g => Holding(q)
  PROVE  LanguageInv'
  BY RunningHead, BecomeMoves DEF Outside

\* Outside the phases that may own the native round, the step may do anything.
LEMMA FreeMoves ==
  ASSUME LanguageInv, NEW g \in Gens, gens[g].phase \notin {"idle", "queued", "done"},
         ~Holding(gens[g]),
         NEW q, Sound(q), PhaseFits(q), Become(g, q), q.phase \notin {"idle", "queued", "done"}
  PROVE  LanguageInv'
  <1>1. native.gen # g
    BY DEF LanguageInv, Owned
  <1> QED BY <1>1, RunningMoves

LEMMA RaisedInv ==
  ASSUME LanguageInv, NEW g \in Gens, Raised(g)
  PROVE  LanguageInv'
  <1>1. gens[g].phase \in Waits /\ Sound(gens[g]) /\ gens[g].ended = "no"
    BY RunningHead DEF Raised, Waits
  <1>2. PICK q : Become(g, q) /\ (q = Raise(gens[g]) \/ q = Reject(gens[g]))
    BY DEF Raised
  <1>3. Sound(q) /\ PhaseFits(q) /\ q.phase \in {"bounded", "leaving"}
    BY <1>1, <1>2, RaiseSound, RejectSound
  <1> QED BY <1>1, <1>2, <1>3, RunningMoves DEF Holding, Waits

LEMMA BoundedInv ==
  ASSUME LanguageInv, NEW g \in Gens, Bounded(g)
  PROVE  LanguageInv'
  <1>1. gens[g].phase = "bounded" /\ Sound(gens[g])
    BY RunningHead DEF Bounded
  <1>2. PICK v \in BOOLEAN : Become(g, Finish([gens[g] EXCEPT !.output = v], "cancelled"))
    BY DEF Bounded
  <1> DEFINE f == [gens[g] EXCEPT !.output = v]  q == Finish(f, "cancelled")
  <1>3. Sound(f)
    BY <1>1 DEF Sound, Generation, Truthful, Running
  <1>4. Sound(q) /\ PhaseFits(q) /\ q.phase = "leaving"
    <2> HIDE DEF f
    <2> QED BY <1>3, FinishSound DEF Reasons
  <1> HIDE DEF f, q
  <1> QED BY <1>1, <1>2, <1>4, RunningMoves DEF Holding, f, q

LEMMA PreparedInv ==
  ASSUME LanguageInv, NEW g \in Gens, Prepared(g)
  PROVE  LanguageInv'
  <1>1. gens[g].phase = "prepare" /\ Sound(gens[g]) /\ gens[g].ended = "no"
    BY RunningHead DEF Prepared, Resumed
  <1>2. Become(g, Goto(gens[g], "begin"))
    BY DEF Prepared
  <1>3. LET q == Goto(gens[g], "begin") IN Sound(q) /\ PhaseFits(q) /\ q.phase = "begin"
    BY <1>1, GotoSound DEF Phases, PhaseFits
  <1> QED BY <1>1, <1>2, <1>3, FreeMoves DEF Holding

\* Nobody owns the native round when one is begun.
LEMMA BeginFindsNone ==
  ASSUME LanguageInv, NEW g \in Gens, gens[g].phase = "begin"
  PROVE  native.gen = None
  <1>1. ASSUME NEW h \in Gens, native.gen = h PROVE FALSE
    <2>1. Holding(gens[h])
      BY <1>1 DEF LanguageInv, Owned
    <2>2. queue[1] = h /\ queue[1] = g
      BY <2>1, RunningHead DEF Holding
    <2> QED BY <2>1, <2>2 DEF Holding
  <1> QED BY <1>1 DEF LanguageInv, Owned, NativeRound

LEMMA BeginRoundInv ==
  ASSUME LanguageInv, NEW g \in Gens, BeginRound(g)
  PROVE  LanguageInv'
  <1> DEFINE r == gens[g]
  <1>1. r.phase = "begin" /\ Sound(r) /\ r.ended = "no" /\ queue # <<>> /\ queue[1] = g
    BY RunningHead DEF BeginRound
  <1>2. CASE r.aborted
    <2>1. Become(g, Raise(r))
      BY <1>2 DEF BeginRound
    <2>2. Sound(Raise(r)) /\ PhaseFits(Raise(r)) /\ Raise(r).phase \in {"bounded", "leaving"}
      BY <1>1, RaiseSound
    <2> QED BY <1>1, <2>1, <2>2, FreeMoves DEF Holding
  <1>3. CASE ~r.aborted
    <2> DEFINE h == Goto(r, "next")  q == [h EXCEPT !.round = @ + 1, !.stop = "complete"]
    <2>1. Sound(h) /\ h.phase = "next" /\ h.ended = "no"
      BY <1>1, GotoSound DEF Phases, Waits
    <2>2. Sound(q) /\ PhaseFits(q) /\ q.phase = "next"
      <3>1. "complete" \in Reasons
        BY DEF Reasons
      <3> HIDE DEF h
      <3>2. /\ q \in Generation /\ q.phase = "next" /\ q.ended = "no" /\ q.opt = h.opt
            /\ q.calls = h.calls /\ q.pending = h.pending
        <4> DEFINE a == [h EXCEPT !.round = @ + 1]
        <4>1. /\ a \in Generation /\ a.phase = "next" /\ a.ended = "no" /\ a.opt = h.opt
              /\ a.calls = h.calls /\ a.pending = h.pending
          <5>1. h \in Generation /\ h.round \in Nat
            BY <2>1 DEF Sound, Generation
          <5>2. h.round + 1 \in Nat /\ a = [h EXCEPT !.round = h.round + 1]
            BY <5>1
          <5> DEFINE n == h.round + 1
          <5> HIDE DEF a, n
          <5> QED BY <2>1, <5>1, <5>2 DEF Generation, n
        <4>2. q = [a EXCEPT !.stop = "complete"]
          BY <2>1 DEF Sound, Generation
        <4> HIDE DEF a, q
        <4> QED BY <3>1, <4>1, <4>2 DEF Generation
      <3> HIDE DEF q
      <3> QED BY <2>1, <3>2 DEF Sound, Running, PhaseFits
    <2>3. gens' = [gens EXCEPT ![g] = q] /\ native' = [NoRound EXCEPT !.gen = g] /\ UNCHANGED <<closed, unload, queue>>
      BY <1>3 DEF BeginRound
    <2>4. native' \in NativeRound /\ native'.gen = g
      BY <2>3 DEF NoRound, NativeRound
    <2> HIDE DEF q
    <2> QED BY <1>1, <2>2, <2>3, <2>4, OneMoves DEF Holding, Outside
  <1> QED BY <1>2, <1>3

LEMMA NextEventInv ==
  ASSUME LanguageInv, NEW g \in Gens, NextEvent(g)
  PROVE  LanguageInv'
  <1> DEFINE r == gens[g]
  <1>1. r.phase = "next" /\ Sound(r) /\ r.ended = "no" /\ queue # <<>> /\ queue[1] = g
    BY RunningHead DEF NextEvent, Resumed
  <1>2. CASE native.gen # g /\ Become(g, Goto(r, "closing"))
    <2>1. LET q == Goto(r, "closing") IN Sound(q) /\ PhaseFits(q) /\ q.phase = "closing"
      BY <1>1, GotoSound DEF Phases, Waits, PhaseFits
    <2> QED BY <1>1, <1>2, <2>1, RunningMoves
  <1>3. ASSUME NEW known \in BOOLEAN, Len(r.calls) < MaxCalls, Become(g, ReceiveCall(r, known))
        PROVE  LanguageInv'
    <2> DEFINE q == ReceiveCall(r, known)
    <2>1. Sound(q) /\ PhaseFits(q) /\ q.phase \in {"next", "parse"}
      BY <1>1, <1>3, ReceiveCallSound
    <2> HIDE DEF q
    <2> QED BY <1>1, <1>3, <2>1, RunningMoves DEF Holding, q
  <1>4. ASSUME NEW s \in Reasons, gens' = [gens EXCEPT ![g] = [Goto(r, "next") EXCEPT !.stop = s]],
               native' \in NativeRound, native'.gen = native.gen, UNCHANGED <<closed, unload, queue>>
        PROVE  LanguageInv'
    <2> DEFINE h == Goto(r, "next")  q == [h EXCEPT !.stop = s]
    <2>1. Sound(h) /\ h.phase = "next" /\ h.ended = "no"
      BY <1>1, GotoSound DEF Phases, Waits
    <2>2. Sound(q) /\ PhaseFits(q) /\ q.phase = "next"
      <3> HIDE DEF h
      <3> QED BY <2>1 DEF Sound, Generation, Truthful, Running, PhaseFits
    <2>3. gens' = [gens EXCEPT ![g] = q]
      BY <1>4
    <2> HIDE DEF q
    <2> QED BY <1>1, <1>4, <2>2, <2>3, OneMoves DEF Holding, Outside
  <1>5. CASE /\ gens' = [gens EXCEPT ![g] = [Goto(r, "next") EXCEPT !.stop = "stopString"]]
             /\ native' = [native EXCEPT !.abort = TRUE]
             /\ UNCHANGED <<closed, unload, queue>>
    <2>1. native' \in NativeRound /\ native'.gen = native.gen
      BY <1>5 DEF LanguageInv, Owned, NativeRound
    <2> QED BY <1>4, <1>5, <2>1 DEF Reasons
  <1>6. ASSUME NEW s \in {"complete", "maxTokens"},
               gens' = [gens EXCEPT ![g] = [Goto(r, "next") EXCEPT
                          !.stop = IF @ = "stopString" THEN @ ELSE s]],
               native' = [native EXCEPT !.done = TRUE], UNCHANGED <<closed, unload, queue>>
        PROVE  LanguageInv'
    <2> DEFINE t == IF Goto(r, "next").stop = "stopString" THEN Goto(r, "next").stop ELSE s
    <2>1. native' \in NativeRound /\ native'.gen = native.gen
      BY <1>6 DEF LanguageInv, Owned, NativeRound
    <2>2. t \in Reasons /\ gens' = [gens EXCEPT ![g] = [Goto(r, "next") EXCEPT !.stop = t]]
      BY <1>6 DEF Reasons
    <2> HIDE DEF t
    <2> QED BY <1>4, <1>6, <2>1, <2>2
  <1>7. {r.opt.tools # "none", FALSE} \subseteq BOOLEAN
    OBVIOUS
  <1> QED BY <1>2, <1>3, <1>5, <1>6, <1>7 DEF NextEvent

LEMMA ParsedInv ==
  ASSUME LanguageInv, NEW g \in Gens, Parsed(g)
  PROVE  LanguageInv'
  <1> DEFINE r == Goto(gens[g], "next")  i == Len(r.calls)
  <1>1. /\ gens[g].phase = "parse" /\ Sound(gens[g]) /\ gens[g].ended = "no"
        /\ Len(gens[g].calls) > 0
    BY RunningHead DEF Parsed, Resumed, LanguageInv, GensSound, PhaseFits
  <1>2. Sound(r) /\ r.phase = "next" /\ r.ended = "no" /\ r.calls = gens[g].calls
    BY <1>1, GotoSound DEF Phases, Waits
  <1>3. i \in 1 .. Len(r.calls)
    BY <1>1, <1>2, CallsTyped DEF Sound
  <1>4. \/ Become(g, Raise(r))
        \/ \E s \in {"invalid", "manual"} : Become(g, Mark(r, i, s))
        \/ \E q \in Accept(Mark(r, i, "pending")) : Become(g, q)
    BY DEF Parsed
  <1> HIDE DEF r
  <1>5. ASSUME NEW s \in {"invalid", "manual", "pending"}
        PROVE  LET m == Mark(r, i, s) IN
               Sound(m) /\ m.phase = "next" /\ m.ended = "no" /\ Len(m.calls) > 0
    <2>1. s \in CallStates \ {"running"}
      BY DEF CallStates, Ran
    <2> QED BY <1>2, <1>3, <2>1, MarkSound
  <1>6. ASSUME NEW q, Sound(q), q.phase = "next", q.ended = "no", Become(g, q)
        PROVE  LanguageInv'
    BY <1>1, <1>6, RunningMoves DEF PhaseFits, Holding
  <1>7. CASE Become(g, Raise(r))
    <2>1. Sound(Raise(r)) /\ PhaseFits(Raise(r)) /\ Raise(r).phase \in {"bounded", "leaving"}
      BY <1>2, RaiseSound
    <2> QED BY <1>1, <1>7, <2>1, RunningMoves DEF Holding
  <1>8. ASSUME NEW s \in {"invalid", "manual"}, Become(g, Mark(r, i, s))
        PROVE  LanguageInv'
    BY <1>5, <1>6, <1>8
  <1>9. ASSUME NEW q \in Accept(Mark(r, i, "pending")), Become(g, q)
        PROVE  LanguageInv'
    <2> DEFINE m == Mark(r, i, "pending")
    <2>1. Sound(m) /\ m.phase = "next" /\ m.ended = "no" /\ Len(m.calls) > 0
      BY <1>5
    <2> HIDE DEF m
    <2>2. Sound(q) /\ q.phase = "next" /\ q.ended = "no"
      BY <1>9, <2>1, AcceptSound DEF m
    <2> QED BY <1>6, <1>9, <2>2
  <1> QED BY <1>4, <1>7, <1>8, <1>9

LEMMA ClosedInv ==
  ASSUME LanguageInv, NEW g \in Gens, Closed(g)
  PROVE  LanguageInv'
  <1>1. /\ gens[g].phase = "closing" /\ gens[g].settled = "value"
        /\ Sound(gens[g]) /\ gens[g].ended = "no"
    BY RunningHead DEF Closed, Resumed
  <1>2. PICK r \in Pumped(gens[g]) :
          \/ Become(g, AfterDrain(r))
          \/ Become(g, [Goto(r, "drain") EXCEPT !.awaited = Running(r)])
    BY DEF Closed
  <1>3. Sound(r) /\ r.ended = "no"
    BY <1>1, <1>2, PumpedSound
  <1>4. PICK q : Become(g, q) /\ Sound(q) /\ PhaseFits(q) /\ q.phase \in Decided \cup {"drain"}
    BY <1>2, <1>3, AfterDrainSound, WaitForJobsSound
  <1> QED BY <1>1, <1>4, FreeMoves DEF Holding, Decided

LEMMA DrainEndsInv ==
  ASSUME LanguageInv, NEW g \in Gens, DrainEnds(g)
  PROVE  LanguageInv'
  <1>1. gens[g].phase = "drain" /\ Sound(gens[g]) /\ gens[g].ended = "no" /\ Become(g, Drained(gens[g]))
    BY RunningHead DEF DrainEnds, Resumed
  <1>2. /\ Sound(Drained(gens[g])) /\ PhaseFits(Drained(gens[g]))
        /\ Drained(gens[g]).phase \in Decided \cup {"drain"}
    BY <1>1, DrainedSound
  <1> QED BY <1>1, <1>2, FreeMoves DEF Holding, Decided

LEMMA StoppedInv ==
  ASSUME LanguageInv, NEW g \in Gens, Stopped(g)
  PROVE  LanguageInv'
  <1>1. gens[g].phase = "stopWhen" /\ Sound(gens[g]) /\ gens[g].ended = "no"
    BY RunningHead DEF Stopped, Resumed
  <1>2. PICK stop \in Reasons : Become(g, AfterStop([gens[g] EXCEPT !.stop = stop]))
    BY DEF Stopped, Reasons
  <1> DEFINE r == [gens[g] EXCEPT !.stop = stop]
  <1>3. Sound(r) /\ r.ended = "no"
    BY <1>1 DEF Sound, Generation, Truthful, Running
  <1> HIDE DEF r
  <1>4. /\ Sound(AfterStop(r)) /\ PhaseFits(AfterStop(r))
        /\ AfterStop(r).phase \in {"begin", "leaving", "validate"}
    BY <1>3, AfterStopSound
  <1> QED BY <1>1, <1>2, <1>4, FreeMoves DEF Holding, r

LEMMA ValidatedInv ==
  ASSUME LanguageInv, NEW g \in Gens, Validated(g)
  PROVE  LanguageInv'
  <1>1. gens[g].phase = "validate" /\ Sound(gens[g]) /\ gens[g].ended = "no"
    BY RunningHead DEF Validated, Resumed
  <1> DEFINE r == [gens[g] EXCEPT !.output = TRUE]
  <1>2. Sound(r) /\ r.ended = "no"
    BY <1>1 DEF Sound, Generation, Truthful, Running
  <1>3. \/ Become(g, Conclude(r, FALSE)) \/ Become(g, Conclude(gens[g], TRUE))
        \/ Become(g, Raise(gens[g]))
    BY DEF Validated
  <1> HIDE DEF r
  <1>4. PICK q : Become(g, q) /\ Sound(q) /\ PhaseFits(q) /\ q.phase \in {"begin", "leaving", "bounded"}
    BY <1>1, <1>2, <1>3, ConcludeSound, RaiseSound
  <1> QED BY <1>1, <1>4, FreeMoves DEF Holding

LEMMA WorkInv ==
  ASSUME LanguageInv, NEW g \in Gens, Work(g)
  PROVE  LanguageInv'
  <1>1. CASE WorkSettles(g)
    BY <1>1, SettleInv DEF WorkSettles
  <1>2. CASE EventArrives(g)
    BY <1>2, SettleInv DEF EventArrives
  <1>3. CASE ReturnSettles(g)
    BY <1>3, SettleInv DEF ReturnSettles
  <1>4. CASE JobsSettle(g)
    BY <1>4, SettleInv DEF JobsSettle
  <1>5. ASSUME NEW i \in 1 .. MaxCalls, ToolEnds(g, i) PROVE LanguageInv'
    BY <1>5, ToolEndsInv
  <1> QED BY <1>1, <1>2, <1>3, <1>4, <1>5 DEF Work

LEMMA ResumeInv ==
  ASSUME LanguageInv, NEW g \in Gens, Resume(g)
  PROVE  LanguageInv'
  BY CancelledUnstartedInv, RunInv, LeaveInv, RaisedInv, BoundedInv, PreparedInv, BeginRoundInv,
     NextEventInv, ParsedInv, ClosedInv, DrainEndsInv, StoppedInv, ValidatedInv DEF Resume

LEMMA StepInv == LanguageInv /\ [LanguageNext]_lvars => LanguageInv'
  <1> SUFFICES ASSUME LanguageInv, [LanguageNext]_lvars PROVE LanguageInv'  OBVIOUS
  <1>1. CASE UNCHANGED lvars
    BY <1>1 DEF lvars, LanguageInv, GensSound, Owned
  <1>2. ASSUME NEW g \in Gens, Generate(g) \/ Cancel(g) \/ NativeFails(g) PROVE LanguageInv'
    BY <1>2, GenerateInv, CancelInv, NativeFailsInv
  <1>3. ASSUME NEW g \in Gens, Resume(g) \/ Work(g) PROVE LanguageInv'
    BY <1>3, ResumeInv, WorkInv
  <1>4. CASE Unload \/ BackendUnload \/ NativeEnds
    BY <1>4, UnloadInv, BackendUnloadInv, NativeEndsInv
  <1> QED BY <1>1, <1>2, <1>3, <1>4 DEF LanguageNext

LEMMA AlwaysInv == LanguageSpec => []LanguageInv
  BY InitInv, StepInv, PTL DEF LanguageSpec

----------------------------------------------------------------------------
(* The theorems.                                                           *)

\* Every variable, and every field of every generation, keeps its type.
THEOREM LanguageTyped == LanguageSpec => []LanguageTypeOK
  <1>1. LanguageInv => LanguageTypeOK
    BY DEF LanguageInv, GensSound, Owned, NativeRound, LanguageTypeOK
  <1> QED BY <1>1, AlwaysInv, PTL

\* The conversation a generation ends with pairs every managed call with one
\* outcome and stays true of the calls, although tools go on running, and
\* settle, after the end.
THEOREM ReportsTrue == LanguageSpec => []ReportsAreTrue
  <1>1. LanguageInv => ReportsAreTrue
    BY DEF LanguageInv, GensSound, Sound, Truthful, ReportsAreTrue
  <1> QED BY <1>1, AlwaysInv, PTL

\* No generation runs more tools at a time than its limit.
THEOREM ToolsLimited == LanguageSpec => []ToolLimit
  <1>1. LanguageInv => ToolLimit
    BY DEF LanguageInv, GensSound, Sound, ToolLimit
  <1> QED BY <1>1, AlwaysInv, PTL

\* The backend is unloaded when no generation is under way and no native round
\* is left.
THEOREM UnloadedLast == LanguageSpec => []UnloadIsLast
  <1>1. ASSUME LanguageInv, unload = "done"
        PROVE  native.gen = None /\ \A g \in Gens : gens[g].phase \in Outside
    <2>1. \A g \in Gens : gens[g].phase \in Outside
      <3>1. queue = <<>> /\ 1 .. Len(queue) = {}
        BY <1>1 DEF LanguageInv, Owned
      <3> QED BY <1>1, <3>1 DEF LanguageInv, Owned
    <2>2. \A g \in Gens : native.gen # g
      BY <1>1, <2>1 DEF LanguageInv, Owned, Outside, Holding
    <2> QED BY <1>1, <2>1, <2>2 DEF LanguageInv, Owned, NativeRound
  <1>2. LanguageInv => UnloadIsLast
    BY <1>1 DEF UnloadIsLast, Outside
  <1> QED BY <1>2, AlwaysInv, PTL

\* All steps but the begin of a round leave the native round to its owner, or
\* to nobody.
LEMMA RoundKept ==
  ASSUME native \in NativeRound, [LanguageNext]_lvars, \A g \in Gens : ~BeginRound(g)
  PROVE  native'.gen \in {native.gen, None}
  <1>1. \A g \in Gens : \A q : Become(g, q) => native'.gen = native.gen
    BY DEF Become, NativeRound
  <1>2. ASSUME NEW g \in Gens, Resume(g) PROVE native'.gen \in {native.gen, None}
    <2>1. CASE CancelledUnstarted(g) \/ Run(g) \/ Raised(g) \/ Bounded(g) \/ Prepared(g)
      BY <1>1, <2>1 DEF CancelledUnstarted, Run, Raised, Bounded, Prepared
    <2>2. CASE Parsed(g) \/ Closed(g) \/ DrainEnds(g) \/ Stopped(g) \/ Validated(g)
      BY <1>1, <2>2 DEF Parsed, Closed, DrainEnds, Stopped, Validated
    <2>3. CASE Leave(g)
      BY <2>3 DEF Leave
    <2>4. CASE NextEvent(g)
      BY <1>1, <2>4 DEF NextEvent, NativeRound
    <2> QED BY <1>2, <2>1, <2>2, <2>3, <2>4 DEF Resume
  <1>3. ASSUME NEW g \in Gens, Work(g) PROVE native'.gen \in {native.gen, None}
    BY <1>1, <1>3 DEF Work, WorkSettles, EventArrives, ReturnSettles, JobsSettle, Settle, ToolEnds
  <1>4. CASE \E g \in Gens : Generate(g) \/ Cancel(g) \/ NativeFails(g)
    BY <1>4 DEF Generate, Cancel, NativeFails, NoRound
  <1>5. CASE Unload \/ BackendUnload \/ NativeEnds
    BY <1>5 DEF Unload, BackendUnload, NativeEnds, NoRound
  <1>6. CASE UNCHANGED lvars
    BY <1>6 DEF lvars
  <1> QED BY <1>2, <1>3, <1>4, <1>5, <1>6 DEF LanguageNext

\* No native round begins while another has not ended.
THEOREM RoundsOneAtATime == LanguageSpec => OneRoundAtATime
  <1>1. ASSUME LanguageInv, [LanguageNext]_lvars
        PROVE  [RoundBeginsAlone]_lvars
    <2>1. CASE \E g \in Gens : BeginRound(g)
      BY <1>1, <2>1, BeginFindsNone DEF BeginRound, RoundBeginsAlone
    <2>2. CASE \A g \in Gens : ~BeginRound(g)
      BY <1>1, <2>2, RoundKept DEF LanguageInv, Owned, RoundBeginsAlone
    <2> QED BY <2>1, <2>2
  <1> QED BY <1>1, AlwaysInv, PTL DEF LanguageSpec, OneRoundAtATime

\* The backend sees the rounds of all generations one after the other, and is
\* unloaded after them, for any number of generations.
THEOREM BackendStaysSerial == LanguageSpec => BackendIsSerial
  BY RoundsOneAtATime, UnloadedLast, PTL DEF OneRoundAtATime, BackendIsSerial

-----------------------------------------------------------------------------
(***************************************************************************)
(* More theorems about the language model: a failure reaches the caller, a *)
(* structured generation completes only with a valid output, and a round   *)
(* is asked only with the outcomes of all earlier calls.  All three follow *)
(* from an invariant of one generation, on top of LanguageInv.             *)
(***************************************************************************)

USE LanguageAssumption

Final == {"completed", "failed", "invalid"}
Early == {"idle", "queued", "prepare"}
Quiet == {"begin", "stopWhen", "validate"}
Over == {"bounded", "leaving", "done"}

\* A failure aborts, and ends what has not ended with a rejection; the reason
\* "complete" is one of a valid output.
FlagsFit(r) ==
  /\ r.failed => r.aborted
  /\ r.failed /\ r.ended # "no" => r.ended = "rejected"
  /\ r.reason = "complete" /\ r.opt.schema => r.output

\* A call of an earlier round is final; an abort explains a call that is
\* dropped or unanswered, the option a manual one; the pending calls are those
\* of the list.
CallFits(r, i) ==
  /\ r.calls[i].round <= r.round
  /\ r.calls[i].round < r.round => r.calls[i].state \in Final
  /\ r.calls[i].state \in {"dropped", "unanswered"} => r.aborted \/ r.ended # "no"
  /\ r.calls[i].state = "manual" => r.opt.tools = "manual"
  /\ r.calls[i].state = "pending" => \E k \in 1 .. Len(r.pending) : r.pending[k] = i
CallsFit(r) == \A i \in 1 .. Len(r.calls) : CallFits(r, i)

PendingFits(r) ==
  /\ \A k \in 1 .. Len(r.pending) : r.calls[r.pending[k]].state = "pending"
  /\ \A j, k \in 1 .. Len(r.pending) : r.pending[j] = r.pending[k] => j = k

AllFinal(r) == \A i \in 1 .. Len(r.calls) : r.calls[i].state \in Final

\* What holds where: before the first round there are no calls; between the
\* rounds all calls are final, or the generation is aborted, and no failure is
\* left to tell; only the last call is being parsed, while it is awaited.
Placed(r) ==
  /\ r.phase \in Early => r.calls = <<>> /\ ~r.failed
  /\ r.phase \in Quiet => ~r.failed /\ (r.aborted \/ AllFinal(r))
  /\ r.phase = "bounded" => ~r.failed /\ r.aborted
  /\ r.phase = "parse" => r.calls[Len(r.calls)].state = "parsing"
  /\ \A i \in 1 .. Len(r.calls) : r.calls[i].state = "parsing" =>
       (r.phase = "parse" /\ i = Len(r.calls)) \/ r.phase \in Over

\* What every operation on a generation preserves, and what a step does.
Fits(r) == FlagsFit(r) /\ CallsFit(r) /\ PendingFits(r)
Honest(r) == Fits(r) /\ Placed(r)

EndingsInv == \A g \in Gens : Honest(gens[g])

----------------------------------------------------------------------------
(* How a generation ends.                                                  *)

\* Fits reads neither phase nor settled, nor stop, report or awaited.
Alike(r, q) ==
  /\ q.failed = r.failed /\ q.aborted = r.aborted /\ q.ended = r.ended
  /\ q.reason = r.reason /\ q.opt = r.opt /\ q.output = r.output
  /\ q.round = r.round /\ q.calls = r.calls /\ q.pending = r.pending

LEMMA AlikeFits ==
  ASSUME NEW r, NEW q, Fits(r), Alike(r, q)
  PROVE  Fits(q)
  BY DEF Fits, FlagsFit, CallsFit, CallFits, PendingFits, Alike

LEMMA GotoFits ==
  ASSUME NEW r, Sound(r), Fits(r), NEW p
  PROVE  Fits(Goto(r, p)) /\ Alike(r, Goto(r, p)) /\ Goto(r, p).phase = p
  <1>1. Alike(r, Goto(r, p)) /\ Goto(r, p).phase = p
    BY DEF Goto, Sound, Generation, Alike
  <1> QED BY <1>1, AlikeFits

LEMMA OverPlaced ==
  ASSUME NEW r, r.phase \in {"leaving", "done"}
  PROVE  Placed(r)
  BY DEF Placed, Early, Quiet, Over

LEMMA FinishAny ==
  ASSUME NEW r, Sound(r), CallsFit(r), PendingFits(r), ~r.failed, NEW reason,
         reason = "complete" /\ r.opt.schema => r.output
  PROVE  Honest(Finish(r, reason))
  <1> DEFINE q == Finish(r, reason)
  <1>1. /\ q.failed = r.failed /\ q.aborted = r.aborted /\ q.ended = "resolved"
        /\ q.reason = reason /\ q.opt = r.opt /\ q.output = r.output
        /\ q.round = r.round /\ q.calls = r.calls /\ q.pending = r.pending
        /\ q.phase = "leaving"
    BY DEF Finish, Sound, Generation
  <1> HIDE DEF q
  <1>2. FlagsFit(q) /\ CallsFit(q) /\ PendingFits(q)
    BY <1>1 DEF FlagsFit, CallsFit, CallFits, PendingFits
  <1>3. Placed(q)
    BY <1>1, OverPlaced
  <1> QED BY <1>2, <1>3 DEF Honest, Fits, q

LEMMA FinishHonest ==
  ASSUME NEW r, Sound(r), Fits(r), ~r.failed, NEW reason,
         reason = "complete" /\ r.opt.schema => r.output
  PROVE  Honest(Finish(r, reason))
  BY FinishAny DEF Fits

LEMMA RejectHonest ==
  ASSUME NEW r, Sound(r), Fits(r), r.ended = "no"
  PROVE  Honest(Reject(r))
  <1> DEFINE f == Fail(r)  q == Reject(r)
  <1>1. /\ f.failed => f.aborted
        /\ r.aborted => f.aborted
        /\ f.reason = r.reason /\ f.opt = r.opt /\ f.output = r.output
        /\ f.round = r.round /\ f.calls = r.calls /\ f.pending = r.pending
    BY DEF Fail, Sound, Generation, Fits, FlagsFit
  <1>2. f \in Generation
    BY FailSound DEF Sound
  <1>3. /\ q.failed = f.failed /\ q.aborted = f.aborted /\ q.ended = "rejected"
        /\ q.reason = f.reason /\ q.opt = f.opt /\ q.output = f.output
        /\ q.round = f.round /\ q.calls = f.calls /\ q.pending = f.pending
        /\ q.phase = "leaving"
    <2>1. q = [f EXCEPT !.ended = "rejected", !.report = Snapshot(r),
                        !.phase = "leaving", !.settled = "no"]
      BY DEF Reject
    <2> HIDE DEF f, q
    <2> QED BY <1>2, <2>1 DEF Generation
  <1> HIDE DEF f, q
  <1>4. FlagsFit(q) /\ CallsFit(q) /\ PendingFits(q)
    BY <1>1, <1>3 DEF Fits, FlagsFit, CallsFit, CallFits, PendingFits
  <1>5. Placed(q)
    BY <1>3, OverPlaced
  <1> QED BY <1>4, <1>5 DEF Honest, Fits, q

\* A cancellation is raised as a failure if one caused it.
LEMMA RaiseHonest ==
  ASSUME NEW r, Sound(r), Fits(r), r.ended = "no", r.aborted
  PROVE  Honest(Raise(r))
  <1>1. CASE r.failed
    BY <1>1, RejectHonest DEF Raise
  <1>2. CASE ~r.failed /\ r.opt.schema /\ r.round > 0
    <2> DEFINE q == Goto(r, "bounded")
    <2>1. Raise(r) = q
      BY <1>2 DEF Raise, Goto
    <2>2. Fits(q) /\ Alike(r, q) /\ q.phase = "bounded"
      BY GotoFits
    <2> HIDE DEF q
    <2>3. Placed(q)
      BY <1>2, <2>2 DEF Placed, Alike, Early, Quiet, Over
    <2> QED BY <2>1, <2>2, <2>3 DEF Honest
  <1>3. CASE ~r.failed /\ ~(r.opt.schema /\ r.round > 0)
    BY <1>3, FinishHonest DEF Raise
  <1> QED BY <1>1, <1>2, <1>3

----------------------------------------------------------------------------
(* Tools.                                                                  *)

\* What tools that start and end may change: calls that wait or run come to
\* run, end or are dropped, and the first failure aborts.
Advances(r, q) ==
  /\ q.ended = r.ended /\ q.reason = r.reason /\ q.opt = r.opt /\ q.output = r.output
  /\ q.round = r.round /\ q.phase = r.phase
  /\ r.aborted => q.aborted /\ q.failed = r.failed
  /\ q.failed => r.failed \/ (q.aborted /\ r.ended = "no")
  /\ Len(q.calls) = Len(r.calls)
  /\ \A i \in 1 .. Len(r.calls) :
       /\ q.calls[i].round = r.calls[i].round
       /\ \/ q.calls[i].state = r.calls[i].state
          \/ r.calls[i].state \in {"pending", "running"} /\ q.calls[i].state \in Ran \cup {"dropped"}

LEMMA AdvancesTwice ==
  ASSUME NEW r, NEW q, NEW s, Advances(r, q), Advances(q, s)
  PROVE  Advances(r, s)
  BY DEF Advances, Ran

LEMMA AdvancesNot ==
  ASSUME NEW r, Fits(r)
  PROVE  Advances(r, r)
  BY DEF Advances

\* The pending calls, once each.
LEMMA PendingCalls ==
  ASSUME NEW r, Sound(r), Fits(r)
  PROVE  /\ r.pending \in Seq(Nat) /\ Len(r.pending) \in Nat
         /\ \A k \in 1 .. Len(r.pending) :
              r.pending[k] \in 1 .. Len(r.calls) /\ r.calls[r.pending[k]].state = "pending"
         /\ \A j, k \in 1 .. Len(r.pending) : r.pending[j] = r.pending[k] => j = k
  <1>1. /\ r.pending \in Seq(Nat)
        /\ \A k \in DOMAIN r.pending : r.pending[k] \in 1 .. Len(r.calls)
    BY DEF Sound, Generation
  <1>2. Len(r.pending) \in Nat /\ DOMAIN r.pending = 1 .. Len(r.pending)
    BY <1>1
  <1>3. PendingFits(r)
    BY DEF Fits
  <1> QED BY <1>1, <1>2, <1>3 DEF PendingFits

\* A call that has no outcome is of this round.
LEMMA CallIsOfRound ==
  ASSUME NEW r, Fits(r), NEW i \in 1 .. Len(r.calls), r.calls[i].state \notin Final
  PROVE  ~(r.calls[i].round < r.round)
  BY DEF Fits, CallsFit, CallFits

\* m is r with call i in state s.
Marked(r, i, s, m) ==
  /\ m \in Generation /\ m.pending = r.pending
  /\ m.ended = r.ended /\ m.reason = r.reason
  /\ m.opt = r.opt /\ m.output = r.output /\ m.round = r.round /\ m.phase = r.phase
  /\ m.aborted = r.aborted /\ m.failed = r.failed
  /\ Len(m.calls) = Len(r.calls)
  /\ \A k \in 1 .. Len(r.calls) :
       /\ m.calls[k].round = r.calls[k].round
       /\ m.calls[k].state = IF k = i THEN s ELSE r.calls[k].state

LEMMA MarkFields ==
  ASSUME NEW r, Sound(r), NEW i \in 1 .. Len(r.calls), NEW s \in CallStates
  PROVE  Marked(r, i, s, Mark(r, i, s))
  <1> DEFINE c == [r.calls EXCEPT ![i].state = s]  m == Mark(r, i, s)
  <1>1. m = [r EXCEPT !.calls = c]
    BY DEF Mark, Sound, Generation
  <1>2. /\ r.calls \in Seq(Call) /\ DOMAIN r.calls = 1 .. Len(r.calls)
        /\ \A k \in 1 .. Len(r.calls) : r.calls[k] \in Call
    BY CallsTyped DEF Sound
  <1>3. c \in Seq(Call) /\ Len(c) = Len(r.calls)
    <2>1. [r.calls[i] EXCEPT !.state = s] \in Call
      BY <1>2 DEF Call
    <2> QED BY <1>2, <2>1, ExceptSeq
  <1>4. \A k \in 1 .. Len(r.calls) :
          /\ c[k].round = r.calls[k].round
          /\ c[k].state = IF k = i THEN s ELSE r.calls[k].state
    <2>1. [r.calls[i] EXCEPT !.state = s].state = s /\ [r.calls[i] EXCEPT !.state = s].round = r.calls[i].round
      BY <1>2 DEF Call
    <2>2. \A k \in 1 .. Len(r.calls) : c[k] = IF k = i THEN [r.calls[i] EXCEPT !.state = s] ELSE r.calls[k]
      BY <1>2
    <2> QED BY <2>1, <2>2
  <1> HIDE DEF c, m
  <1>5. /\ m \in Generation /\ m.calls = c /\ m.pending = r.pending
        /\ m.ended = r.ended /\ m.reason = r.reason
        /\ m.opt = r.opt /\ m.output = r.output /\ m.round = r.round /\ m.phase = r.phase
        /\ m.aborted = r.aborted /\ m.failed = r.failed
    BY <1>1, <1>3 DEF Sound, Generation, Call
  <1>6. Len(m.calls) = Len(r.calls)
    BY <1>3, <1>5
  <1>7. \A k \in 1 .. Len(r.calls) :
          /\ m.calls[k].round = r.calls[k].round
          /\ m.calls[k].state = IF k = i THEN s ELSE r.calls[k].state
    BY <1>4, <1>5
  <1> QED BY <1>5, <1>6, <1>7 DEF Marked, m

\* A running call ends, or turns out not to have been started.
LEMMA MarkFits ==
  ASSUME NEW r, Sound(r), Fits(r), NEW i \in 1 .. Len(r.calls), r.calls[i].state = "running",
         NEW s \in {"completed", "failed", "unanswered", "dropped"},
         NEW q, q.calls = Mark(r, i, s).calls, q.pending = r.pending,
         q.ended = r.ended, q.reason = r.reason, q.opt = r.opt, q.output = r.output,
         q.round = r.round, q.phase = r.phase,
         r.aborted => q.aborted /\ q.failed = r.failed,
         q.failed => r.failed \/ (q.aborted /\ r.ended = "no"),
         s \in {"unanswered", "dropped"} => q.aborted \/ r.ended # "no"
  PROVE  Fits(q) /\ Advances(r, q)
  <1>1. s \in CallStates
    BY DEF CallStates, Ran
  <1>2. Marked(r, i, s, Mark(r, i, s))
    BY <1>1, MarkFields
  <1>3. /\ Len(q.calls) = Len(r.calls)
        /\ \A k \in 1 .. Len(r.calls) :
             /\ q.calls[k].round = r.calls[k].round
             /\ q.calls[k].state = IF k = i THEN s ELSE r.calls[k].state
    BY <1>2 DEF Marked
  <1>4. FlagsFit(q)
    BY DEF Fits, FlagsFit
  <1>5. CallsFit(q)
    <2>1. ~ (r.calls[i].round < r.round)
      BY CallIsOfRound DEF Final
    <2>2. ASSUME NEW k \in 1 .. Len(r.calls) PROVE CallFits(q, k)
      <3>1. CallFits(r, k)
        BY DEF Fits, CallsFit
      <3> QED BY <1>3, <2>1, <3>1 DEF CallFits, Final
    <2> QED BY <1>3, <2>2 DEF CallsFit
  <1>6. PendingFits(q)
    <2>1. ASSUME NEW k \in 1 .. Len(r.pending) PROVE q.calls[r.pending[k]].state = "pending"
      <3>1. r.pending[k] \in 1 .. Len(r.calls) /\ r.calls[r.pending[k]].state = "pending"
        BY PendingCalls
      <3> QED BY <1>3, <3>1
    <2> QED BY <2>1 DEF Fits, PendingFits
  <1>7. Advances(r, q)
    BY <1>3 DEF Advances, Ran
  <1> QED BY <1>4, <1>5, <1>6, <1>7 DEF Fits

LEMMA ExecuteFits ==
  ASSUME NEW r, Sound(r), Fits(r), NEW k \in 0 .. Len(r.pending)
  PROVE  LET q == Execute(r, k) IN
         /\ Fits(q) /\ Advances(r, q) /\ q.aborted = r.aborted /\ q.failed = r.failed
         /\ \A j \in 1 .. k : q.calls[r.pending[j]].state = "running"
  <1> DEFINE q == Execute(r, k)
             c == [i \in DOMAIN r.calls |->
                     IF \E j \in 1 .. k : r.pending[j] = i
                     THEN [r.calls[i] EXCEPT !.state = "running"] ELSE r.calls[i]]
             p == SubSeq(r.pending, k + 1, Len(r.pending))
  <1>1. /\ r.pending \in Seq(Nat) /\ Len(r.pending) \in Nat /\ k \in Nat
        /\ \A j \in 1 .. Len(r.pending) :
             r.pending[j] \in 1 .. Len(r.calls) /\ r.calls[r.pending[j]].state = "pending"
    BY PendingCalls
  <1>once. \A j, m \in 1 .. Len(r.pending) : r.pending[j] = r.pending[m] => j = m
    BY PendingCalls
  <1>2. /\ r.calls \in Seq(Call) /\ Len(r.calls) \in Nat /\ DOMAIN r.calls = 1 .. Len(r.calls)
        /\ \A i \in 1 .. Len(r.calls) : r.calls[i] \in Call
    BY CallsTyped DEF Sound
  <1>3. Len(c) = Len(r.calls)
    BY <1>2
  <1>4. /\ Len(p) = Len(r.pending) - k
        /\ \A j \in 1 .. Len(p) : p[j] = r.pending[k + j]
    BY <1>1, SubSeqProperties
  <1>5. /\ q.calls = c /\ q.pending = p /\ q.phase = r.phase /\ q.ended = r.ended
        /\ q.reason = r.reason /\ q.opt = r.opt /\ q.output = r.output /\ q.round = r.round
        /\ q.aborted = r.aborted /\ q.failed = r.failed
    <2>1. q = [r EXCEPT !.pending = p, !.calls = c]
      BY DEF Execute, Sound, Generation
    <2> HIDE DEF c, p, q
    <2> QED BY <2>1 DEF Sound, Generation
  <1> DEFINE Started(i) == \E j \in 1 .. k : r.pending[j] = i
  <1>6. \A i \in 1 .. Len(r.calls) :
          /\ c[i].round = r.calls[i].round
          /\ c[i].state = IF Started(i) THEN "running" ELSE r.calls[i].state
    BY <1>2 DEF Call
  <1>7. \A i \in 1 .. Len(r.calls) : Started(i) => r.calls[i].state = "pending"
    <2>1. \A j \in 1 .. k : j \in 1 .. Len(r.pending)
      BY <1>1
    <2> QED BY <1>1, <2>1
  <1> HIDE DEF c, p, q
  <1>8. FlagsFit(q)
    BY <1>5 DEF Fits, FlagsFit
  <1>9. CallsFit(q)
    <2>1. ASSUME NEW i \in 1 .. Len(r.calls), ~Started(i), r.calls[i].state = "pending"
          PROVE  \E j \in 1 .. Len(p) : p[j] = i
      <3>1. PICK m \in 1 .. Len(r.pending) : r.pending[m] = i
        BY <2>1 DEF Fits, CallsFit, CallFits
      <3>2. m \notin 1 .. k
        BY <2>1, <3>1
      <3>3. m - k \in 1 .. Len(p) /\ k + (m - k) = m
        BY <1>1, <1>4, <3>1, <3>2
      <3> QED BY <1>4, <3>1, <3>3
    <2> HIDE DEF Started
    <2>2. ASSUME NEW i \in 1 .. Len(r.calls) PROVE CallFits(q, i)
      BY <1>5, <1>6, <1>7, <2>1, <2>2 DEF Fits, CallsFit, CallFits, Final
    <2> QED BY <1>3, <1>5, <2>2 DEF CallsFit
  <1>10. PendingFits(q)
    <2>1. ASSUME NEW j \in 1 .. Len(p)
          PROVE  k + j \in 1 .. Len(r.pending) /\ ~Started(p[j])
      <3>1. k + j \in 1 .. Len(r.pending) /\ k + j > k
        BY <1>1, <1>4
      <3>2. ASSUME NEW m \in 1 .. k, r.pending[m] = p[j] PROVE FALSE
        <4>1. m \in 1 .. Len(r.pending) /\ r.pending[m] = r.pending[k + j] /\ m # k + j
          BY <1>1, <1>4, <3>1, <3>2
        <4> QED BY <1>once, <3>1, <4>1
      <3> QED BY <3>1, <3>2
    <2> HIDE DEF Started
    <2>2. \A j \in 1 .. Len(p) : q.calls[q.pending[j]].state = "pending"
      <3> SUFFICES ASSUME NEW j \in 1 .. Len(p) PROVE q.calls[q.pending[j]].state = "pending"
        OBVIOUS
      <3>1. p[j] = r.pending[k + j] /\ k + j \in 1 .. Len(r.pending)
        BY <1>4, <2>1
      <3>2. p[j] \in 1 .. Len(r.calls) /\ r.calls[p[j]].state = "pending"
        BY <1>1, <3>1
      <3> QED BY <1>5, <1>6, <2>1, <3>2
    <2>3. ASSUME NEW j \in 1 .. Len(p), NEW m \in 1 .. Len(p), p[j] = p[m] PROVE j = m
      <3>1. r.pending[k + j] = r.pending[k + m]
        BY <1>4, <2>3
      <3>2. k + j = k + m
        BY <1>once, <2>1, <3>1
      <3> QED BY <1>1, <1>4, <3>2
    <2> QED BY <1>5, <2>2, <2>3 DEF PendingFits
  <1>11. Advances(r, q)
    <2> HIDE DEF Started
    <2>1. ASSUME NEW i \in 1 .. Len(r.calls)
          PROVE  /\ c[i].round = r.calls[i].round
                 /\ \/ c[i].state = r.calls[i].state
                    \/ r.calls[i].state = "pending" /\ c[i].state = "running"
      BY <1>6, <1>7
    <2> QED BY <1>3, <1>5, <2>1 DEF Advances, Ran
  <1>12. ASSUME NEW j \in 1 .. k PROVE q.calls[r.pending[j]].state = "running"
    <2>1. j \in 1 .. Len(r.pending)
      BY <1>1
    <2>2. r.pending[j] \in 1 .. Len(r.calls) /\ Started(r.pending[j])
      BY <1>1, <2>1
    <2> QED BY <1>5, <1>6, <2>2
  <1> QED BY <1>5, <1>8, <1>9, <1>10, <1>11, <1>12 DEF Fits, q

LEMMA AbortFits ==
  ASSUME NEW r, Sound(r), Fits(r)
  PROVE  LET q == [r EXCEPT !.aborted = TRUE] IN Fits(q) /\ Advances(r, q)
  BY DEF Sound, Generation, Fits, FlagsFit, CallsFit, CallFits, PendingFits, Advances

\* A running call ends with an error that fails the generation.
LEMMA FailedCallFits ==
  ASSUME NEW r, Sound(r), Fits(r), NEW i \in 1 .. Len(r.calls), r.calls[i].state = "running",
         NEW s \in {"failed", "unanswered"}
  PROVE  LET q == Fail(Mark(r, i, s)) IN Fits(q) /\ Advances(r, q)
  <1> DEFINE m == Mark(r, i, s)  q == Fail(m)
  <1>1. s \in CallStates /\ s \in {"completed", "failed", "unanswered", "dropped"}
    BY DEF CallStates, Ran
  <1>2. Marked(r, i, s, m)
    BY <1>1, MarkFields
  <1> HIDE DEF m
  <1>3. /\ q.calls = m.calls /\ q.pending = r.pending /\ q.ended = r.ended /\ q.reason = r.reason
        /\ q.opt = r.opt /\ q.output = r.output /\ q.round = r.round /\ q.phase = r.phase
        /\ r.aborted => q.aborted /\ q.failed = r.failed
        /\ q.failed => r.failed \/ (q.aborted /\ r.ended = "no")
        /\ q.aborted \/ r.ended # "no"
    <2>1. CASE m.aborted \/ m.ended # "no"
      BY <1>2, <2>1 DEF Fail, Marked
    <2>2. CASE ~(m.aborted \/ m.ended # "no")
      BY <1>2, <2>2 DEF Fail, Marked, Generation
    <2> QED BY <2>1, <2>2
  <1> HIDE DEF q
  <1>4. Fits(q) /\ Advances(r, q)
    BY <1>1, <1>3, MarkFits DEF m
  <1> QED BY <1>4 DEF q, m

\* ... with an error that is an outcome, or an output; or it is dropped.
LEMMA EndedCallFits ==
  ASSUME NEW r, Sound(r), Fits(r), NEW i \in 1 .. Len(r.calls), r.calls[i].state = "running"
  PROVE  /\ \A s \in {"completed", "failed"} :
              Fits(Mark(r, i, s)) /\ Advances(r, Mark(r, i, s))
         /\ LET q == [Mark(r, i, "dropped") EXCEPT !.aborted = TRUE]
            IN  r.ended = "no" => Fits(q) /\ Advances(r, q)
  <1>1. {"completed", "failed", "dropped"} \subseteq CallStates
    BY DEF CallStates, Ran
  <1>2. ASSUME NEW s \in {"completed", "failed"}
        PROVE  Fits(Mark(r, i, s)) /\ Advances(r, Mark(r, i, s))
    <2> DEFINE m == Mark(r, i, s)
    <2>1. Marked(r, i, s, m) /\ m.calls = Mark(r, i, s).calls
      BY <1>1, MarkFields
    <2> HIDE DEF m
    <2>2. s \in {"completed", "failed", "unanswered", "dropped"} /\ s \notin {"unanswered", "dropped"}
      OBVIOUS
    <2>3. Fits(m) /\ Advances(r, m)
      BY <2>1, <2>2, MarkFits DEF Marked
    <2> QED BY <2>3 DEF m
  <1>3. ASSUME r.ended = "no"
        PROVE  LET q == [Mark(r, i, "dropped") EXCEPT !.aborted = TRUE]
               IN  Fits(q) /\ Advances(r, q)
    <2> DEFINE m == Mark(r, i, "dropped")  q == [m EXCEPT !.aborted = TRUE]
    <2>1. Marked(r, i, "dropped", m)
      BY <1>1, MarkFields
    <2> HIDE DEF m
    <2>2. /\ q.calls = m.calls /\ q.pending = r.pending
          /\ q.ended = r.ended /\ q.reason = r.reason
          /\ q.opt = r.opt /\ q.output = r.output /\ q.round = r.round /\ q.phase = r.phase
          /\ q.aborted /\ q.failed = r.failed
      BY <2>1 DEF Marked, Generation
    <2> HIDE DEF q
    <2>3. Fits(q) /\ Advances(r, q)
      BY <1>3, <2>2, MarkFits DEF m
    <2> QED BY <2>3 DEF q, m
  <1> QED BY <1>2, <1>3

LEMMA PumpedFits ==
  ASSUME NEW r, Sound(r), Fits(r), NEW q \in Pumped(r)
  PROVE  Fits(q) /\ Advances(r, q) /\ (r.aborted => q = r)
  <1>1. CASE ~MayPump(r)
    BY <1>1, AdvancesNot DEF Pumped
  <1>2. CASE MayPump(r)
    <2> DEFINE n == IF Room(r) < Len(r.pending) THEN Room(r) ELSE Len(r.pending)
    <2>1. r.ended = "no" /\ ~r.aborted /\ Len(r.pending) \in Nat
      BY <1>2 DEF MayPump, Sound, Generation
    <2>2. n \in Nat /\ n <= Len(r.pending) /\ n <= Room(r)
      BY <2>1, RoomType
    <2>3. ASSUME NEW k \in 0 .. n
          PROVE  LET e == Execute(r, k) IN
                 /\ Sound(e) /\ Fits(e) /\ Advances(r, e) /\ e.ended = "no"
                 /\ Len(e.calls) = Len(r.calls)
                 /\ \A j \in 1 .. k : e.calls[r.pending[j]].state = "running"
      <3>1. k \in 0 .. Len(r.pending) /\ k <= Room(r)
        BY <2>1, <2>2, RoomType
      <3> QED BY <2>1, <3>1, ExecuteSound, ExecuteFits
    <2>4. ASSUME NEW k \in 1 .. n
          PROVE  LET e == Execute(r, k) IN
                 /\ Sound(e) /\ Fits(e) /\ Advances(r, e) /\ e.ended = "no"
                 /\ r.pending[k] \in 1 .. Len(e.calls)
                 /\ e.calls[r.pending[k]].state = "running"
      <3>1. k \in 0 .. n /\ k \in 1 .. k /\ k \in DOMAIN r.pending
        BY <2>1, <2>2 DEF Sound, Generation
      <3> QED BY <2>3, <3>1 DEF Sound
    <2>5. CASE q = Execute(r, n)
      <3>1. n \in 0 .. n
        BY <2>2
      <3> QED BY <2>1, <2>3, <2>5, <3>1
    <2>6. ASSUME NEW k \in 1 .. n,
                 q = [Mark(Execute(r, k), r.pending[k], "dropped") EXCEPT !.aborted = TRUE]
          PROVE  Fits(q) /\ Advances(r, q)
      <3> DEFINE e == Execute(r, k)
      <3>1. Sound(e) /\ Fits(e) /\ Advances(r, e) /\ e.ended = "no" /\ r.pending[k] \in 1 .. Len(e.calls)
            /\ e.calls[r.pending[k]].state = "running" /\ q = [Mark(e, r.pending[k], "dropped") EXCEPT !.aborted = TRUE]
        BY <2>4, <2>6
      <3> HIDE DEF e
      <3> QED BY <3>1, EndedCallFits, AdvancesTwice
    <2>7. ASSUME NEW k \in 1 .. n, q = [Execute(r, k) EXCEPT !.aborted = TRUE]
          PROVE  Fits(q) /\ Advances(r, q)
      BY <2>4, <2>7, AbortFits, AdvancesTwice
    <2>8. ASSUME NEW k \in 1 .. n, q = Fail(Mark(Execute(r, k), r.pending[k], "failed"))
          PROVE  Fits(q) /\ Advances(r, q)
      <3> DEFINE e == Execute(r, k)
      <3>1. Sound(e) /\ Fits(e) /\ Advances(r, e) /\ r.pending[k] \in 1 .. Len(e.calls)
            /\ e.calls[r.pending[k]].state = "running" /\ q = Fail(Mark(e, r.pending[k], "failed"))
        BY <2>4, <2>8
      <3> HIDE DEF e
      <3> QED BY <3>1, FailedCallFits, AdvancesTwice
    <2>9. \/ q = Execute(r, n)
          \/ \E k \in 1 .. n : q = [Mark(Execute(r, k), r.pending[k], "dropped") EXCEPT !.aborted = TRUE]
          \/ \E k \in 1 .. n : q = [Execute(r, k) EXCEPT !.aborted = TRUE]
          \/ \E k \in 1 .. n : q = Fail(Mark(Execute(r, k), r.pending[k], "failed"))
      BY <1>2 DEF Pumped
    <2> QED BY <2>1, <2>5, <2>6, <2>7, <2>8, <2>9
  <1> QED BY <1>1, <1>2

\* The place of the generation stays right.
LEMMA AdvancesPlaced ==
  ASSUME NEW r, Sound(r), PhaseFits(r), NEW q, Advances(r, q), Placed(r), r.phase \notin Early,
         r.phase \in Quiet \cup {"bounded"} => r.aborted
  PROVE  Placed(q)
  <1>1. Len(r.calls) \in Nat
    BY CallsTyped DEF Sound
  <1>2. ASSUME r.phase = "parse" PROVE q.calls[Len(q.calls)].state = "parsing"
    <2>1. Len(r.calls) \in 1 .. Len(r.calls)
      BY <1>1, <1>2 DEF PhaseFits
    <2> QED BY <1>2, <2>1 DEF Advances, Placed
  <1> QED BY <1>2 DEF Advances, Placed, Early, Quiet, Over, Ran

----------------------------------------------------------------------------
(* Between the awaits.                                                     *)

\* No call is left to wait for; a call may be the application's to execute.
Drawn(r) == /\ ~r.failed
            /\ \/ r.aborted
               \/ \A i \in 1 .. Len(r.calls) : r.calls[i].state \in Final \cup {"manual"}

\* Only the calls of this round can be manual.
LEMMA ManualIsLast ==
  ASSUME NEW r, Sound(r), Fits(r), Drawn(r), ~Manual(r)
  PROVE  r.aborted \/ AllFinal(r)
  <1>1. DOMAIN r.calls = 1 .. Len(r.calls) /\ r.round \in Nat
    BY CallsTyped DEF Sound, Generation
  <1>2. \A i \in 1 .. Len(r.calls) : r.calls[i].round \in Nat
    BY CallsTyped DEF Sound, Call
  <1>3. ASSUME NEW i \in 1 .. Len(r.calls), r.calls[i].state = "manual" PROVE FALSE
    <2>1. r.opt.tools = "manual" /\ r.calls[i].round <= r.round /\ ~ (r.calls[i].round < r.round)
      BY <1>3 DEF Fits, CallsFit, CallFits, Final
    <2>2. r.calls[i].round = r.round
      BY <1>1, <1>2, <2>1
    <2> QED BY <1>1, <2>1, <2>2 DEF Manual, Called
  <1> QED BY <1>3 DEF Drawn, AllFinal

LEMMA QuietPlaced ==
  ASSUME NEW r, NEW q, r.aborted \/ AllFinal(r), ~r.failed, Alike(r, q), q.phase \in Quiet,
         \A i \in 1 .. Len(r.calls) : r.calls[i].state # "parsing"
  PROVE  Placed(q)
  BY DEF Placed, Alike, AllFinal, Quiet, Early, Over

LEMMA NextRoundHonest ==
  ASSUME NEW r, Sound(r), Fits(r), ~r.failed, r.aborted \/ AllFinal(r),
         \A i \in 1 .. Len(r.calls) : r.calls[i].state # "parsing"
  PROVE  Honest(NextRound(r))
  <1>1. CASE r.round < r.opt.maxRounds
    <2>1. NextRound(r) = Goto(r, "begin")
      BY <1>1 DEF NextRound
    <2>2. Fits(Goto(r, "begin")) /\ Alike(r, Goto(r, "begin")) /\ Goto(r, "begin").phase = "begin"
      BY GotoFits
    <2>3. Placed(Goto(r, "begin"))
      BY <2>2, QuietPlaced DEF Quiet
    <2> QED BY <2>1, <2>2, <2>3 DEF Honest
  <1>2. CASE ~(r.round < r.opt.maxRounds)
    BY <1>2, FinishHonest DEF NextRound
  <1> QED BY <1>1, <1>2

LEMMA CorrectHonest ==
  ASSUME NEW r, Sound(r), Fits(r), r.ended = "no", ~r.failed, r.aborted \/ AllFinal(r),
         \A i \in 1 .. Len(r.calls) : r.calls[i].state # "parsing"
  PROVE  Honest(Correct(r))
  <1> DEFINE b == [r EXCEPT !.corrections = @ + 1]
  <1>1. CASE r.corrections >= r.opt.corrections
    BY <1>1, RejectHonest DEF Correct
  <1>2. CASE ~(r.corrections >= r.opt.corrections)
    <2>1. Correct(r) = NextRound(b)
      BY <1>2 DEF Correct
    <2>2. Sound(b) /\ Alike(r, b)
      <3>1. b = [r EXCEPT !.corrections = r.corrections + 1] /\ r.corrections + 1 \in Nat
        BY DEF Sound, Generation
      <3> HIDE DEF b
      <3>2. Alike(r, b) /\ b \in Generation
        BY <3>1 DEF Sound, Generation, Alike
      <3>3. Running(b) = Running(r) /\ b.report = r.report
        BY <3>1, <3>2 DEF Running, Alike, Sound, Generation
      <3> QED BY <3>2, <3>3 DEF Sound, Alike, Truthful
    <2> HIDE DEF b
    <2>3. /\ Fits(b) /\ ~b.failed /\ (b.aborted \/ AllFinal(b))
          /\ \A i \in 1 .. Len(b.calls) : b.calls[i].state # "parsing"
      BY <2>2, AlikeFits DEF Alike, AllFinal
    <2> QED BY <2>1, <2>2, <2>3, NextRoundHonest
  <1> QED BY <1>1, <1>2

LEMMA ConcludeHonest ==
  ASSUME NEW r, Sound(r), Fits(r), r.ended = "no", Drawn(r), NEW invalid \in BOOLEAN,
         \A i \in 1 .. Len(r.calls) : r.calls[i].state # "parsing",
         invalid => r.aborted \/ AllFinal(r),
         ~invalid /\ r.opt.schema => r.output
  PROVE  Honest(Conclude(r, invalid))
  <1>1. CASE invalid /\ r.stop = "complete"
    <2>1. Conclude(r, invalid) = Correct(r)
      BY <1>1 DEF Conclude
    <2> QED BY <1>1, <2>1, CorrectHonest DEF Drawn
  <1>2. CASE r.stop # "complete"
    <2>1. Conclude(r, invalid) = Finish(r, r.stop)
      BY <1>2 DEF Conclude
    <2> QED BY <1>2, <2>1, FinishHonest DEF Drawn
  <1>3. CASE ~invalid /\ r.stop = "complete" /\ Manual(r)
    <2>1. Conclude(r, invalid) = Finish(r, "toolCalls")
      BY <1>3 DEF Conclude
    <2> QED BY <2>1, FinishHonest DEF Drawn
  <1>4. CASE ~invalid /\ r.stop = "complete" /\ ~Manual(r) /\ ~Called(r)
    <2>1. Conclude(r, invalid) = Finish(r, "complete")
      BY <1>4 DEF Conclude
    <2> QED BY <1>4, <2>1, FinishHonest DEF Drawn
  <1>5. CASE ~invalid /\ r.stop = "complete" /\ ~Manual(r) /\ Called(r)
    <2>1. Conclude(r, invalid) = NextRound(r)
      BY <1>5 DEF Conclude
    <2> QED BY <1>5, <2>1, ManualIsLast, NextRoundHonest DEF Drawn
  <1> QED BY <1>1, <1>2, <1>3, <1>4, <1>5

\* Without structured output, or with nothing but final calls.
LEMMA AfterStopHonest ==
  ASSUME NEW r, Sound(r), Fits(r), r.ended = "no", Drawn(r),
         \A i \in 1 .. Len(r.calls) : r.calls[i].state # "parsing"
  PROVE  Honest(AfterStop(r))
  <1>1. CASE r.opt.schema
    <2>1. AfterStop(r) = Goto(r, "validate")
      BY <1>1 DEF AfterStop
    <2>2. ~Manual(r)
      BY <1>1 DEF Sound, Generation, Manual
    <2>3. Fits(Goto(r, "validate")) /\ Alike(r, Goto(r, "validate")) /\ Goto(r, "validate").phase = "validate"
      BY GotoFits
    <2>4. Placed(Goto(r, "validate"))
      BY <2>2, <2>3, ManualIsLast, QuietPlaced DEF Quiet, Drawn
    <2> QED BY <2>1, <2>3, <2>4 DEF Honest
  <1>2. CASE ~r.opt.schema
    BY <1>2, ConcludeHonest DEF AfterStop
  <1> QED BY <1>1, <1>2

\* When no tool runs or waits, and no call is parsed, all calls are answered.
LEMMA AfterDrainHonest ==
  ASSUME NEW r, Sound(r), Fits(r), r.ended = "no", Running(r) = {}, r.pending = <<>>,
         \A i \in 1 .. Len(r.calls) : r.calls[i].state # "parsing"
  PROVE  Honest(AfterDrain(r))
  <1>1. CASE r.aborted
    BY <1>1, RaiseHonest DEF AfterDrain
  <1>2. CASE ~r.aborted
    <2>1. Drawn(r)
      <3>1. ASSUME NEW i \in 1 .. Len(r.calls) PROVE r.calls[i].state \in Final \cup {"manual"}
        <4>1. r.calls[i].state \in CallStates /\ i \in DOMAIN r.calls
          BY CallsTyped DEF Sound, Call
        <4>2. r.calls[i].state \notin {"running", "pending", "dropped", "unanswered"}
          BY <1>2, <4>1 DEF Running, Fits, CallsFit, CallFits
        <4> QED BY <4>1, <4>2 DEF CallStates, Ran, Final
      <3> QED BY <1>2, <3>1 DEF Drawn, Fits, FlagsFit
    <2>2. CASE r.stop = "complete" /\ ~Manual(r) /\ r.opt.stopWhen
      <3>1. AfterDrain(r) = Goto(r, "stopWhen")
        BY <1>2, <2>2 DEF AfterDrain
      <3>2. Fits(Goto(r, "stopWhen")) /\ Alike(r, Goto(r, "stopWhen")) /\ Goto(r, "stopWhen").phase = "stopWhen"
        BY GotoFits
      <3>3. Placed(Goto(r, "stopWhen"))
        BY <2>1, <2>2, <3>2, ManualIsLast, QuietPlaced DEF Quiet, Drawn
      <3> QED BY <3>1, <3>2, <3>3 DEF Honest
    <2>3. CASE ~(r.stop = "complete" /\ ~Manual(r) /\ r.opt.stopWhen)
      <3>1. AfterDrain(r) = AfterStop(r)
        BY <1>2, <2>3 DEF AfterDrain
      <3> QED BY <2>1, <3>1, AfterStopHonest
    <2> QED BY <2>2, <2>3
  <1> QED BY <1>1, <1>2

LEMMA WaitForJobsHonest ==
  ASSUME NEW r, Sound(r), Fits(r),
         \A i \in 1 .. Len(r.calls) : r.calls[i].state # "parsing"
  PROVE  Honest([Goto(r, "drain") EXCEPT !.awaited = Running(r)])
  <1> DEFINE q == [Goto(r, "drain") EXCEPT !.awaited = Running(r)]
  <1>1. Alike(r, q) /\ q.phase = "drain"
    BY DEF Alike, Goto, Sound, Generation
  <1> HIDE DEF q
  <1>2. Fits(q)
    BY <1>1, AlikeFits
  <1>3. Placed(q)
    BY <1>1 DEF Placed, Alike, Early, Quiet, Over
  <1> QED BY <1>2, <1>3 DEF Honest, q

----------------------------------------------------------------------------
(* The steps.                                                              *)

LEMMA HonestMoves ==
  ASSUME LanguageInv, EndingsInv, NEW g \in Gens, NEW q, Honest(q),
         gens' = [gens EXCEPT ![g] = q]
  PROVE  EndingsInv'
  <1>1. \A h \in Gens : gens'[h] = IF h = g THEN q ELSE gens[h]
    BY DEF LanguageInv, GensSound
  <1> QED BY <1>1 DEF EndingsInv

LEMMA BecomesHonest ==
  ASSUME LanguageInv, EndingsInv, NEW g \in Gens, NEW q, Honest(q), Become(g, q)
  PROVE  EndingsInv'
  BY HonestMoves DEF Become

LEMMA Here ==
  ASSUME LanguageInv, EndingsInv, NEW g \in Gens
  PROVE  /\ Sound(gens[g]) /\ PhaseFits(gens[g]) /\ Fits(gens[g]) /\ Placed(gens[g])
         /\ gens[g].phase \notin {"queued", "leaving", "done"} => gens[g].ended = "no"
         /\ gens[g].phase \notin Over \cup {"parse"} =>
              \A i \in 1 .. Len(gens[g].calls) : gens[g].calls[i].state # "parsing"
  BY DEF LanguageInv, GensSound, EndingsInv, Honest, PhaseFits, Placed

\* A step that changes neither what Fits nor what Placed reads.
LEMMA SettledHonest ==
  ASSUME NEW r, Sound(r), Fits(r), Placed(r), NEW how
  PROVE  Honest([r EXCEPT !.settled = how])
  <1> DEFINE q == [r EXCEPT !.settled = how]
  <1>1. Alike(r, q) /\ q.phase = r.phase
    BY DEF Alike, Sound, Generation
  <1> HIDE DEF q
  <1>2. Placed(q)
    BY <1>1 DEF Placed, Alike, AllFinal
  <1> QED BY <1>1, <1>2, AlikeFits DEF Honest, q

LEMMA CancelledHonest ==
  ASSUME NEW r, Sound(r), Fits(r), Placed(r)
  PROVE  Honest(Cancelled(r))
  <1>1. CASE r.ended # "no"
    BY <1>1 DEF Cancelled, Honest
  <1>2. CASE r.ended = "no"
    <2> DEFINE q == [r EXCEPT !.aborted = TRUE]
    <2>1. /\ q.aborted /\ q.failed = r.failed /\ q.calls = r.calls /\ q.phase = r.phase
          /\ Fits(q)
      BY AbortFits DEF Sound, Generation
    <2>2. Cancelled(r) = q
      BY <1>2 DEF Cancelled
    <2> HIDE DEF q
    <2>3. Placed(q)
      BY <2>1 DEF Placed
    <2> QED BY <2>1, <2>2, <2>3 DEF Honest
  <1> QED BY <1>1, <1>2

LEMMA EmptyHonest ==
  ASSUME NEW q, ~q.failed, q.reason = "none", q.calls = <<>>, q.pending = <<>>,
         q.phase \in {"idle", "queued"}
  PROVE  Honest(q)
  <1>1. Len(q.calls) = 0 /\ Len(q.pending) = 0
    OBVIOUS
  <1>2. Fits(q)
    BY <1>1 DEF Fits, FlagsFit, CallsFit, PendingFits
  <1>3. Placed(q)
    BY <1>1 DEF Placed, Quiet
  <1> QED BY <1>2, <1>3 DEF Honest

LEMMA FreshHonest ==
  ASSUME NEW o
  PROVE  Honest(Fresh(o)) /\ Honest([Fresh(o) EXCEPT !.phase = "queued"])
  <1>1. LET q == Fresh(o) IN /\ ~q.failed /\ q.reason = "none" /\ q.calls = <<>>
                             /\ q.pending = <<>> /\ q.phase = "idle"
    BY DEF Fresh
  <1>2. LET q == [Fresh(o) EXCEPT !.phase = "queued"]
        IN  /\ ~q.failed /\ q.reason = "none" /\ q.calls = <<>>
            /\ q.pending = <<>> /\ q.phase = "queued"
    BY DEF Fresh
  <1>3. Honest(Fresh(o))
    BY <1>1, EmptyHonest
  <1>4. Honest([Fresh(o) EXCEPT !.phase = "queued"])
    BY <1>2, EmptyHonest
  <1> QED BY <1>3, <1>4

LEMMA EndingsInit == LanguageInit => EndingsInv
  <1> SUFFICES ASSUME LanguageInit PROVE EndingsInv  OBVIOUS
  <1>1. PICK o \in Options : gens = [g \in Gens |-> Fresh(o)]
    BY DEF LanguageInit
  <1> QED BY <1>1, FreshHonest DEF EndingsInv

LEMMA QueueEndings ==
  ASSUME LanguageInv, EndingsInv, NEW g \in Gens,
         Generate(g) \/ Cancel(g) \/ CancelledUnstarted(g) \/ Run(g) \/ Leave(g)
  PROVE  EndingsInv'
  <1> DEFINE r == gens[g]
  <1>1. CASE Generate(g)
    BY <1>1, FreshHonest, HonestMoves DEF Generate
  <1>2. CASE Cancel(g)
    <2>1. gens' = [gens EXCEPT ![g] = Cancelled(r)]
      BY <1>2 DEF Cancel, LanguageInv, GensSound
    <2> QED BY <2>1, Here, CancelledHonest, HonestMoves
  <1>3. CASE CancelledUnstarted(g)
    <2> DEFINE f == Finish(r, "cancelled")  q == [f EXCEPT !.phase = "queued"]
    <2>1. Sound(r) /\ Fits(r) /\ Placed(r) /\ r.calls = <<>> /\ ~r.failed /\ Become(g, q)
      BY <1>3, Here DEF CancelledUnstarted, Placed, Early
    <2>2. Sound(f) /\ Fits(f) /\ f.calls = <<>> /\ ~f.failed
      <3>1. "cancelled" \in Reasons
        BY DEF Reasons
      <3>2. f.calls = <<>> /\ ~f.failed
        BY <2>1 DEF Finish, Sound, Generation
      <3> QED BY <2>1, <3>1, <3>2, FinishSound, FinishHonest DEF Honest
    <2> HIDE DEF f
    <2>3. Alike(f, q) /\ q.phase = "queued"
      BY <2>2 DEF Alike, Sound, Generation
    <2> HIDE DEF q
    <2>4. Fits(q)
      BY <2>2, <2>3, AlikeFits
    <2>5. Placed(q)
      <3>1. q.calls = <<>> /\ ~q.failed /\ Len(q.calls) = 0
        BY <2>2, <2>3 DEF Alike
      <3> QED BY <2>3, <3>1 DEF Placed, Quiet
    <2> QED BY <2>1, <2>4, <2>5, BecomesHonest DEF Honest
  <1>4. CASE Run(g)
    <2>1. Sound(r) /\ Fits(r) /\ Placed(r) /\ r.calls = <<>> /\ ~r.failed /\ r.phase = "queued"
      BY <1>4, Here DEF Run, Placed, Early
    <2>2. ASSUME NEW p \in {"leaving", "prepare"}, Become(g, [r EXCEPT !.phase = p]) PROVE EndingsInv'
      <3> DEFINE q == [r EXCEPT !.phase = p]
      <3>1. Alike(r, q) /\ q.phase = p
        BY <2>1 DEF Alike, Sound, Generation
      <3> HIDE DEF q
      <3>2. Fits(q) /\ q.calls = <<>> /\ ~q.failed /\ Len(q.calls) = 0
        BY <2>1, <3>1, AlikeFits DEF Alike
      <3>3. Placed(q)
        BY <3>1, <3>2 DEF Placed, Quiet
      <3> QED BY <2>2, <3>2, <3>3, BecomesHonest DEF Honest, q
    <2>3. CASE Become(g, Finish(r, "cancelled"))
      BY <2>1, <2>3, FinishHonest, BecomesHonest
    <2> QED BY <1>4, <2>2, <2>3 DEF Run
  <1>5. CASE Leave(g)
    <2> DEFINE q == [r EXCEPT !.phase = "done"]
    <2>1. Sound(r) /\ Fits(r)
      BY Here
    <2>2. Alike(r, q) /\ q.phase = "done"
      BY <2>1 DEF Alike, Sound, Generation
    <2>3. gens' = [gens EXCEPT ![g] = q]
      BY <1>5 DEF Leave, LanguageInv, GensSound
    <2> HIDE DEF q
    <2>4. Honest(q)
      BY <2>1, <2>2, AlikeFits, OverPlaced DEF Honest
    <2> QED BY <2>3, <2>4, HonestMoves
  <1> QED BY <1>1, <1>2, <1>3, <1>4, <1>5

LEMMA UnloadEndings ==
  ASSUME LanguageInv, EndingsInv, Unload
  PROVE  EndingsInv'
  <1>1. \A g \in Gens : gens'[g] \in {gens[g], Cancelled(gens[g])}
    BY DEF Unload
  <1>2. \A g \in Gens : Honest(gens[g]) /\ Honest(Cancelled(gens[g]))
    BY Here, CancelledHonest DEF Honest
  <1> QED BY <1>1, <1>2 DEF EndingsInv

LEMMA WaitEndings ==
  ASSUME LanguageInv, EndingsInv, NEW g \in Gens, NEW how, gens' = [gens EXCEPT ![g].settled = how]
  PROVE  EndingsInv'
  <1>1. gens' = [gens EXCEPT ![g] = [gens[g] EXCEPT !.settled = how]]
    BY DEF LanguageInv, GensSound
  <1>2. Honest([gens[g] EXCEPT !.settled = how])
    BY Here, SettledHonest
  <1> QED BY <1>1, <1>2, HonestMoves

LEMMA RaisedEndings ==
  ASSUME LanguageInv, EndingsInv, NEW g \in Gens, Raised(g)
  PROVE  EndingsInv'
  <1> DEFINE r == gens[g]
  <1>1. Sound(r) /\ Fits(r) /\ r.ended = "no"
    BY Here DEF Raised, Waits
  <1>2. \/ r.aborted /\ Become(g, Raise(r))
        \/ Become(g, Reject(r))
    BY DEF Raised, Interrupted
  <1> HIDE DEF r
  <1> QED BY <1>1, <1>2, RaiseHonest, RejectHonest, BecomesHonest

LEMMA BoundedEndings ==
  ASSUME LanguageInv, EndingsInv, NEW g \in Gens, Bounded(g)
  PROVE  EndingsInv'
  <1> DEFINE r == gens[g]
  <1>1. Sound(r) /\ Fits(r) /\ ~r.failed /\ r.ended = "no"
    BY Here DEF Bounded, Placed, Over
  <1>2. PICK v \in BOOLEAN : Become(g, Finish([r EXCEPT !.output = v], "cancelled"))
    BY DEF Bounded
  <1> DEFINE b == [r EXCEPT !.output = v]
  <1>3. /\ Sound(b) /\ b.failed = r.failed /\ b.aborted = r.aborted /\ b.ended = r.ended
        /\ b.opt = r.opt /\ b.round = r.round /\ b.calls = r.calls /\ b.pending = r.pending
    BY <1>1 DEF Sound, Generation, Running
  <1> HIDE DEF r, b
  <1>4. CallsFit(b) /\ PendingFits(b)
    BY <1>1, <1>3 DEF Fits, CallsFit, CallFits, PendingFits
  <1> QED BY <1>1, <1>2, <1>3, <1>4, FinishAny, BecomesHonest DEF b

\* The end of a tool, also of a generation that is over.
LEMMA ToolEndings ==
  ASSUME LanguageInv, EndingsInv, NEW g \in Gens, NEW i \in 1 .. MaxCalls, ToolEnds(g, i)
  PROVE  EndingsInv'
  <1> DEFINE r == gens[g]
  <1>1. Sound(r) /\ PhaseFits(r) /\ Fits(r) /\ Placed(r) /\ i \in Running(r)
    BY Here DEF ToolEnds
  <1>2. i \in 1 .. Len(r.calls) /\ r.calls[i].state = "running"
    BY <1>1, RunningFinite DEF Sound, Running
  <1>3. PICK s, q : /\ \/ s \in {Mark(r, i, "completed"), Mark(r, i, "failed")}
                       \/ s \in {Fail(Mark(r, i, "failed")), Fail(Mark(r, i, "unanswered"))}
                    /\ q \in Pumped(s) /\ Become(g, q)
    BY DEF ToolEnds
  <1> HIDE DEF r
  <1>4. Fits(s) /\ Advances(r, s)
    BY <1>1, <1>2, <1>3, EndedCallFits, FailedCallFits
  <1>5. Sound(s)
    <2>1. ASSUME NEW x \in {"completed", "failed", "unanswered"} PROVE Sound(Mark(r, i, x))
      <3>1. x \in CallStates \ {"running"} /\ x \in Ran
        BY DEF CallStates, Ran
      <3> QED BY <1>1, <1>2, <3>1, MarkSound
    <2> QED BY <1>3, <2>1, FailSound
  <1>6. Fits(q) /\ Advances(r, q)
    BY <1>3, <1>4, <1>5, PumpedFits, AdvancesTwice
  <1>7. r.phase \notin Early /\ (r.phase \in Quiet \cup {"bounded"} => r.aborted)
    <2>1. r.calls # <<>>
      BY <1>2
    <2>2. ~AllFinal(r)
      BY <1>2 DEF AllFinal, Final
    <2> QED BY <1>1, <2>1, <2>2 DEF Placed
  <1>8. Placed(q)
    BY <1>1, <1>6, <1>7, AdvancesPlaced
  <1> QED BY <1>3, <1>6, <1>8, BecomesHonest DEF Honest

LEMMA PreparedEndings ==
  ASSUME LanguageInv, EndingsInv, NEW g \in Gens, Prepared(g)
  PROVE  EndingsInv'
  <1> DEFINE r == gens[g]  q == Goto(r, "begin")
  <1>1. Sound(r) /\ Fits(r) /\ r.calls = <<>> /\ ~r.failed /\ Become(g, q)
    BY Here DEF Prepared, Resumed, Placed, Early
  <1>2. Fits(q) /\ Alike(r, q) /\ q.phase = "begin"
    BY <1>1, GotoFits
  <1> HIDE DEF r, q
  <1>3. Len(r.calls) = 0
    BY <1>1
  <1>4. Placed(q)
    BY <1>1, <1>2, <1>3, QuietPlaced DEF AllFinal, Quiet
  <1> QED BY <1>1, <1>2, <1>4, BecomesHonest DEF Honest

LEMMA BeginEndings ==
  ASSUME LanguageInv, EndingsInv, NEW g \in Gens, BeginRound(g)
  PROVE  EndingsInv'
  <1> DEFINE r == gens[g]
  <1>1. Sound(r) /\ Fits(r) /\ r.ended = "no" /\ (r.aborted \/ AllFinal(r))
    BY Here DEF BeginRound, Placed, Quiet
  <1>2. CASE r.aborted
    BY <1>1, <1>2, RaiseHonest, BecomesHonest DEF BeginRound
  <1>3. CASE ~r.aborted
    <2> DEFINE q == [Goto(r, "next") EXCEPT !.round = @ + 1, !.stop = "complete"]
    <2>1. /\ q.failed = r.failed /\ q.aborted = r.aborted /\ q.ended = r.ended
          /\ q.reason = r.reason /\ q.opt = r.opt /\ q.output = r.output
          /\ q.round = r.round + 1 /\ q.calls = r.calls /\ q.pending = r.pending
          /\ q.phase = "next"
      BY <1>1 DEF Goto, Sound, Generation
    <2>2. gens' = [gens EXCEPT ![g] = q]
      BY <1>3 DEF BeginRound
    <2>3. r.round \in Nat /\ \A i \in 1 .. Len(r.calls) : r.calls[i].round \in Nat
      BY <1>1, CallsTyped DEF Sound, Generation, Call
    <2> HIDE DEF r, q
    <2>4. FlagsFit(q) /\ PendingFits(q)
      BY <1>1, <2>1 DEF Fits, FlagsFit, PendingFits
    <2>5. CallsFit(q)
      <3> SUFFICES ASSUME NEW i \in 1 .. Len(q.calls) PROVE CallFits(q, i)
        BY DEF CallsFit
      <3>1. r.calls[i].state \in Final /\ CallFits(r, i)
        BY <1>1, <1>3, <2>1 DEF AllFinal, Fits, CallsFit
      <3>2. q.calls[i].round <= q.round
        BY <2>1, <2>3, <3>1 DEF CallFits
      <3> QED BY <2>1, <3>1, <3>2 DEF CallFits, Final
    <2>6. Placed(q)
      BY <1>1, <1>3, <2>1 DEF Placed, AllFinal, Final, Early, Quiet, Over
    <2> QED BY <2>2, <2>4, <2>5, <2>6, HonestMoves DEF Honest, Fits
  <1> QED BY <1>2, <1>3

LEMMA ReceiveFits ==
  ASSUME NEW r, Sound(r), Fits(r), NEW known \in BOOLEAN,
         \A i \in 1 .. Len(r.calls) : r.calls[i].state # "parsing"
  PROVE  Honest(ReceiveCall(r, known))
  <1> DEFINE e == [round |-> r.round, state |-> IF known THEN "parsing" ELSE "invalid"]
             c == Append(r.calls, e)
             q == ReceiveCall(r, known)
  <1>1. r.calls \in Seq(Call) /\ Len(r.calls) \in Nat /\ r.round \in Nat
    <2>1. r.round \in Nat
      BY DEF Sound, Generation
    <2> QED BY <2>1, CallsTyped DEF Sound
  <1>2. /\ Len(c) = Len(r.calls) + 1
        /\ \A i \in 1 .. Len(r.calls) : c[i] = r.calls[i]
        /\ c[Len(c)] = e
    <2>1. e \in Call
      BY <1>1 DEF Call, CallStates
    <2> QED BY <1>1, <2>1, AppendProperties
  <1>3. /\ q.failed = r.failed /\ q.aborted = r.aborted /\ q.ended = r.ended
        /\ q.reason = r.reason /\ q.opt = r.opt /\ q.output = r.output
        /\ q.round = r.round /\ q.calls = c /\ q.pending = r.pending
        /\ q.phase = IF known THEN "parse" ELSE "next"
    BY DEF ReceiveCall, Goto, Sound, Generation
  <1>4. e.round = r.round /\ e.state = IF known THEN "parsing" ELSE "invalid"
    OBVIOUS
  <1> HIDE DEF e, c, q
  <1>5. FlagsFit(q)
    BY <1>3 DEF Fits, FlagsFit
  <1>6. PendingFits(q)
    <2>1. \A k \in 1 .. Len(r.pending) : c[r.pending[k]].state = "pending"
      <3> SUFFICES ASSUME NEW k \in 1 .. Len(r.pending) PROVE c[r.pending[k]].state = "pending"
        OBVIOUS
      <3>1. r.pending[k] \in 1 .. Len(r.calls)
        BY DEF Sound, Generation
      <3> QED BY <1>2, <3>1 DEF Fits, PendingFits
    <2> QED BY <1>3, <2>1 DEF Fits, PendingFits
  <1>7. CallsFit(q)
    <2> SUFFICES ASSUME NEW i \in 1 .. Len(q.calls) PROVE CallFits(q, i)
      BY DEF CallsFit
    <2>1. CASE i = Len(c)
      BY <1>1, <1>2, <1>3, <1>4, <2>1 DEF CallFits
    <2>2. CASE i \in 1 .. Len(r.calls)
      <3>1. CallFits(r, i) /\ c[i] = r.calls[i]
        BY <1>2, <2>2 DEF Fits, CallsFit
      <3> QED BY <1>3, <3>1 DEF CallFits
    <2> QED BY <1>1, <1>2, <1>3, <2>1, <2>2
  <1>8. Placed(q)
    <2>1. ASSUME NEW i \in 1 .. Len(c), c[i].state = "parsing" PROVE known /\ i = Len(c)
      <3>1. i \in 1 .. Len(r.calls) \/ i = Len(c)
        BY <1>1, <1>2
      <3> QED BY <1>2, <1>4, <2>1, <3>1
    <2> QED BY <1>2, <1>3, <1>4, <2>1 DEF Placed, Early, Quiet
  <1> QED BY <1>5, <1>6, <1>7, <1>8 DEF Honest, Fits, q

LEMMA NextEventEndings ==
  ASSUME LanguageInv, EndingsInv, NEW g \in Gens, NextEvent(g)
  PROVE  EndingsInv'
  <1> DEFINE r == gens[g]
  <1>1. Sound(r) /\ Fits(r) /\ \A i \in 1 .. Len(r.calls) : r.calls[i].state # "parsing"
    BY Here DEF NextEvent, Resumed, Over
  <1>2. ASSUME NEW q, Alike(r, q), q.phase \in {"next", "closing"} PROVE Honest(q)
    <2>1. Fits(q)
      BY <1>1, <1>2, AlikeFits
    <2>2. Placed(q)
      BY <1>1, <1>2 DEF Placed, Alike, Early, Quiet
    <2> QED BY <2>1, <2>2 DEF Honest
  <1>3. CASE Become(g, Goto(r, "closing"))
    <2>1. Alike(r, Goto(r, "closing")) /\ Goto(r, "closing").phase = "closing"
      BY <1>1, GotoFits
    <2> QED BY <1>2, <1>3, <2>1, BecomesHonest
  <1>4. ASSUME NEW known \in BOOLEAN, Become(g, ReceiveCall(r, known)) PROVE EndingsInv'
    BY <1>1, <1>4, ReceiveFits, BecomesHonest
  <1>5. ASSUME NEW s, gens' = [gens EXCEPT ![g] = [Goto(r, "next") EXCEPT !.stop = s]]
        PROVE  EndingsInv'
    <2> DEFINE q == [Goto(r, "next") EXCEPT !.stop = s]
    <2>1. Alike(r, q) /\ q.phase = "next"
      BY <1>1 DEF Goto, Alike, Sound, Generation
    <2> HIDE DEF q
    <2>2. Honest(q)
      BY <1>2, <2>1
    <2> QED BY <1>5, <2>2, HonestMoves DEF q
  <1>6. ASSUME NEW s, gens' = [gens EXCEPT ![g] = [Goto(r, "next") EXCEPT
                                 !.stop = IF @ = "stopString" THEN @ ELSE s]]
        PROVE  EndingsInv'
    <2> DEFINE x == IF Goto(r, "next").stop = "stopString" THEN Goto(r, "next").stop ELSE s
    <2>1. gens' = [gens EXCEPT ![g] = [Goto(r, "next") EXCEPT !.stop = x]]
      BY <1>6
    <2> HIDE DEF x
    <2> QED BY <1>5, <2>1
  <1>7. {r.opt.tools # "none", FALSE} \subseteq BOOLEAN
    OBVIOUS
  <1> QED BY <1>3, <1>4, <1>5, <1>6, <1>7 DEF NextEvent

\* The last call is parsed: it is no call, or the application's.
LEMMA ParsedCallHonest ==
  ASSUME NEW r, Sound(r), Fits(r), r.phase = "next", NEW s \in {"invalid", "manual"},
         Len(r.calls) > 0, r.calls[Len(r.calls)].state = "parsing",
         \A i \in 1 .. Len(r.calls) : r.calls[i].state = "parsing" => i = Len(r.calls),
         s = "manual" => r.opt.tools = "manual"
  PROVE  Honest(Mark(r, Len(r.calls), s))
  <1> DEFINE n == Len(r.calls)  q == Mark(r, n, s)
  <1>1. n \in 1 .. n
    BY CallsTyped DEF Sound
  <1>2. Marked(r, n, s, q)
    <2>1. s \in CallStates
      BY DEF CallStates
    <2> QED BY <1>1, <2>1, MarkFields
  <1> HIDE DEF q
  <1>3. FlagsFit(q)
    BY <1>2 DEF Fits, FlagsFit, Marked
  <1>4. CallsFit(q)
    <2> SUFFICES ASSUME NEW i \in 1 .. Len(r.calls) PROVE CallFits(q, i)
      BY <1>2 DEF CallsFit, Marked
    <2>1. CallFits(r, i) /\ ~(r.calls[n].round < r.round)
      BY <1>1, CallIsOfRound DEF Fits, CallsFit, Final
    <2> QED BY <1>2, <2>1 DEF Marked, CallFits
  <1>5. PendingFits(q)
    <2>1. ASSUME NEW k \in 1 .. Len(r.pending) PROVE q.calls[r.pending[k]].state = "pending"
      <3>1. r.pending[k] \in 1 .. Len(r.calls) /\ r.calls[r.pending[k]].state = "pending"
        BY PendingCalls
      <3> QED BY <1>2, <3>1 DEF Marked
    <2> QED BY <1>2, <2>1 DEF Fits, PendingFits, Marked
  <1>6. Placed(q)
    BY <1>2 DEF Placed, Marked, Early, Quiet
  <1> QED BY <1>3, <1>4, <1>5, <1>6 DEF Honest, Fits, q

\* ... or one of a managed tool, which is queued and may start at once.
LEMMA AcceptHonest ==
  ASSUME NEW r, Sound(r), Fits(r), r.phase = "next", r.ended = "no",
         Len(r.calls) > 0, r.calls[Len(r.calls)].state = "parsing",
         \A i \in 1 .. Len(r.calls) : r.calls[i].state = "parsing" => i = Len(r.calls),
         NEW q \in Accept(Mark(r, Len(r.calls), "pending"))
  PROVE  Honest(q)
  <1> DEFINE n == Len(r.calls)  m == Mark(r, n, "pending")
             a == Append(r.pending, n)  b == [m EXCEPT !.pending = a]
  <1>1. n \in 1 .. n
    BY CallsTyped DEF Sound
  <1>2. Marked(r, n, "pending", m) /\ Sound(m)
    <2>1. "pending" \in CallStates \ {"running"}
      BY DEF CallStates, Ran
    <2> QED BY <1>1, <2>1, MarkFields, MarkSound
  <1>3. /\ Len(r.pending) \in Nat /\ r.pending \in Seq(Nat)
        /\ \A k \in 1 .. Len(r.pending) :
             r.pending[k] \in 1 .. n /\ r.pending[k] # n /\ r.calls[r.pending[k]].state = "pending"
    BY PendingCalls
  <1>once. \A j, k \in 1 .. Len(r.pending) : r.pending[j] = r.pending[k] => j = k
    BY PendingCalls
  <1>4. /\ a \in Seq(Nat) /\ Len(a) = Len(r.pending) + 1
        /\ \A k \in 1 .. Len(r.pending) : a[k] = r.pending[k]
        /\ a[Len(a)] = n
    BY <1>1, <1>3, AppendProperties
  <1>5. q = b \/ q \in Pumped(b)
    BY <1>2 DEF Accept, Marked
  <1> HIDE DEF m, a
  <1>6. /\ b \in Generation /\ b.pending = a /\ b.calls = m.calls /\ b.phase = "next"
        /\ b.failed = r.failed /\ b.aborted = r.aborted /\ b.ended = "no"
        /\ b.reason = r.reason /\ b.opt = r.opt /\ b.output = r.output /\ b.round = r.round
    BY <1>2, <1>4 DEF Marked, Generation
  <1> HIDE DEF b
  <1>7. Sound(b)
    <2>1. \A k \in DOMAIN b.pending : b.pending[k] \in 1 .. Len(b.calls)
      <3> SUFFICES ASSUME NEW k \in 1 .. Len(a) PROVE a[k] \in 1 .. n
        BY <1>2, <1>4, <1>6 DEF Marked
      <3>1. k \in 1 .. Len(r.pending) \/ k = Len(a)
        BY <1>3, <1>4
      <3> QED BY <1>1, <1>3, <1>4, <3>1
    <2>2. Running(b) = Running(m) /\ b.opt = m.opt
      BY <1>2, <1>6 DEF Running, Marked
    <2> QED BY <1>2, <1>6, <2>1, <2>2 DEF Sound
  <1>8. FlagsFit(b)
    BY <1>6 DEF Fits, FlagsFit
  <1>9. CallsFit(b)
    <2> SUFFICES ASSUME NEW i \in 1 .. Len(r.calls) PROVE CallFits(b, i)
      BY <1>2, <1>6 DEF CallsFit, Marked
    <2>1. CallFits(r, i) /\ ~(r.calls[n].round < r.round)
      BY <1>1, CallIsOfRound DEF Fits, CallsFit, Final
    <2>2. CASE i = n
      <3>1. Len(a) \in 1 .. Len(b.pending) /\ b.pending[Len(a)] = n
        BY <1>3, <1>4, <1>6
      <3> QED BY <1>2, <1>6, <2>1, <2>2, <3>1 DEF Marked, CallFits
    <2>3. CASE i # n
      <3>1. ASSUME r.calls[i].state = "pending"
            PROVE  \E k \in 1 .. Len(b.pending) : b.pending[k] = i
        <4>1. PICK k \in 1 .. Len(r.pending) : r.pending[k] = i
          BY <2>1, <3>1 DEF CallFits
        <4>2. a[k] = i
          BY <1>4, <4>1
        <4>3. k \in 1 .. Len(a)
          BY <1>3, <1>4
        <4> QED BY <1>6, <4>2, <4>3
      <3> QED BY <1>2, <1>6, <2>1, <2>3, <3>1 DEF Marked, CallFits
    <2> QED BY <2>2, <2>3
  <1>10. PendingFits(b)
    <2>1. ASSUME NEW k \in 1 .. Len(a) PROVE b.calls[a[k]].state = "pending"
      <3>1. CASE k = Len(a)
        BY <1>1, <1>2, <1>4, <1>6, <3>1 DEF Marked
      <3>2. CASE k \in 1 .. Len(r.pending)
        <4>1. a[k] \in 1 .. n /\ a[k] # n /\ r.calls[a[k]].state = "pending"
          BY <1>3, <1>4, <3>2
        <4> QED BY <1>2, <1>6, <4>1 DEF Marked
      <3> QED BY <1>3, <1>4, <3>1, <3>2
    <2>2. ASSUME NEW j \in 1 .. Len(a), NEW k \in 1 .. Len(a), a[j] = a[k] PROVE j = k
      <3>1. \A x \in 1 .. Len(a) : x = Len(a) \/ x \in 1 .. Len(r.pending)
        BY <1>3, <1>4
      <3>2. CASE j \in 1 .. Len(r.pending) /\ k \in 1 .. Len(r.pending)
        BY <1>4, <1>once, <2>2, <3>2
      <3> QED BY <1>3, <1>4, <2>2, <3>1, <3>2
    <2> QED BY <1>6, <2>1, <2>2 DEF PendingFits
  <1>11. Placed(b)
    BY <1>2, <1>6 DEF Placed, Marked, Early, Quiet
  <1>12. CASE q = b
    BY <1>8, <1>9, <1>10, <1>11, <1>12 DEF Honest, Fits
  <1>13. CASE q \in Pumped(b)
    <2>1. Fits(q) /\ Advances(b, q)
      BY <1>7, <1>8, <1>9, <1>10, <1>13, PumpedFits DEF Fits
    <2>2. PhaseFits(b) /\ b.phase \notin Early /\ b.phase \notin Quiet \cup {"bounded"}
      BY <1>6 DEF PhaseFits, Early, Quiet
    <2> QED BY <1>7, <1>11, <2>1, <2>2, AdvancesPlaced DEF Honest
  <1> QED BY <1>5, <1>12, <1>13

LEMMA ParsedEndings ==
  ASSUME LanguageInv, EndingsInv, NEW g \in Gens, Parsed(g)
  PROVE  EndingsInv'
  <1> DEFINE h == gens[g]  r == Goto(h, "next")
  <1>1. /\ Sound(h) /\ Fits(h) /\ h.ended = "no" /\ Len(h.calls) > 0
        /\ h.calls[Len(h.calls)].state = "parsing"
        /\ \A i \in 1 .. Len(h.calls) : h.calls[i].state = "parsing" => i = Len(h.calls)
    BY Here DEF Parsed, Resumed, Placed, Over, PhaseFits
  <1>2. Sound(r) /\ Fits(r) /\ r.phase = "next" /\ r.ended = "no" /\ r.calls = h.calls
    BY <1>1, GotoFits, GotoSound DEF Phases, Waits
  <1>3. \/ r.aborted /\ Become(g, Raise(r))
        \/ Become(g, Mark(r, Len(r.calls), "invalid"))
        \/ r.opt.tools = "manual" /\ Become(g, Mark(r, Len(r.calls), "manual"))
        \/ \E q \in Accept(Mark(r, Len(r.calls), "pending")) : Become(g, q)
    BY DEF Parsed
  <1>4. ASSUME NEW s \in {"invalid", "manual"}, s = "manual" => r.opt.tools = "manual",
               Become(g, Mark(r, Len(r.calls), s))
        PROVE  EndingsInv'
    <2> HIDE DEF r
    <2>1. Honest(Mark(r, Len(r.calls), s))
      BY <1>1, <1>2, <1>4, ParsedCallHonest
    <2> QED BY <1>4, <2>1, BecomesHonest
  <1>5. ASSUME NEW q \in Accept(Mark(r, Len(r.calls), "pending")), Become(g, q)
        PROVE  EndingsInv'
    <2> HIDE DEF r
    <2>1. Honest(q)
      BY <1>1, <1>2, AcceptHonest
    <2> QED BY <1>5, <2>1, BecomesHonest
  <1>6. CASE r.aborted /\ Become(g, Raise(r))
    <2> HIDE DEF r
    <2>1. Honest(Raise(r))
      BY <1>2, <1>6, RaiseHonest
    <2> QED BY <1>6, <2>1, BecomesHonest
  <1> HIDE DEF r
  <1> QED BY <1>3, <1>4, <1>5, <1>6

LEMMA ClosedEndings ==
  ASSUME LanguageInv, EndingsInv, NEW g \in Gens, Closed(g) \/ DrainEnds(g)
  PROVE  EndingsInv'
  <1>1. /\ Sound(gens[g]) /\ Fits(gens[g]) /\ gens[g].ended = "no"
        /\ \A i \in 1 .. Len(gens[g].calls) : gens[g].calls[i].state # "parsing"
    BY Here DEF Closed, DrainEnds, Resumed, Over
  <1>2. PICK r : /\ r = gens[g] \/ r \in Pumped(gens[g])
                 /\ \/ Running(r) = {} /\ r.pending = <<>> /\ Become(g, AfterDrain(r))
                    \/ Become(g, [Goto(r, "drain") EXCEPT !.awaited = Running(r)])
    BY DEF Closed, DrainEnds, Drained
  <1>3. /\ Sound(r) /\ Fits(r) /\ r.ended = "no"
        /\ \A i \in 1 .. Len(r.calls) : r.calls[i].state # "parsing"
    <2>1. CASE r = gens[g]
      BY <1>1, <2>1
    <2>2. CASE r \in Pumped(gens[g])
      BY <1>1, <2>2, PumpedSound, PumpedFits DEF Advances, Ran
    <2> QED BY <1>2, <2>1, <2>2
  <1> QED BY <1>2, <1>3, AfterDrainHonest, WaitForJobsHonest, BecomesHonest

LEMMA StoppedEndings ==
  ASSUME LanguageInv, EndingsInv, NEW g \in Gens, Stopped(g)
  PROVE  EndingsInv'
  <1>1. /\ Sound(gens[g]) /\ Fits(gens[g]) /\ gens[g].ended = "no" /\ ~gens[g].failed
        /\ gens[g].aborted \/ AllFinal(gens[g])
        /\ \A i \in 1 .. Len(gens[g].calls) : gens[g].calls[i].state # "parsing"
    BY Here DEF Stopped, Resumed, Placed, Quiet, Over
  <1>2. PICK stop \in Reasons : Become(g, AfterStop([gens[g] EXCEPT !.stop = stop]))
    BY DEF Stopped, Reasons
  <1> DEFINE r == [gens[g] EXCEPT !.stop = stop]
  <1>3. Sound(r) /\ Alike(gens[g], r)
    BY <1>1 DEF Sound, Generation, Truthful, Running, Alike
  <1> HIDE DEF r
  <1>4. /\ Fits(r) /\ r.ended = "no" /\ Drawn(r)
        /\ \A i \in 1 .. Len(r.calls) : r.calls[i].state # "parsing"
    BY <1>1, <1>3, AlikeFits DEF Alike, Drawn, AllFinal
  <1> QED BY <1>2, <1>3, <1>4, AfterStopHonest, BecomesHonest DEF r

LEMMA ValidatedEndings ==
  ASSUME LanguageInv, EndingsInv, NEW g \in Gens, Validated(g)
  PROVE  EndingsInv'
  <1> DEFINE h == gens[g]  r == [h EXCEPT !.output = TRUE]
  <1>1. /\ Sound(h) /\ Fits(h) /\ h.ended = "no" /\ ~h.failed
        /\ h.aborted \/ AllFinal(h)
        /\ \A i \in 1 .. Len(h.calls) : h.calls[i].state # "parsing"
    BY Here DEF Validated, Resumed, Placed, Quiet, Over
  <1>2. /\ Sound(r) /\ r.output /\ r.ended = h.ended /\ r.failed = h.failed /\ r.aborted = h.aborted
        /\ r.calls = h.calls /\ r.pending = h.pending /\ r.opt = h.opt /\ r.round = h.round
        /\ r.reason = h.reason
    BY <1>1 DEF Sound, Generation, Truthful, Running
  <1>3. \/ Become(g, Conclude(r, FALSE))
        \/ ~h.aborted /\ Become(g, Conclude(h, TRUE))
        \/ h.aborted /\ Become(g, Raise(h))
    BY DEF Validated
  <1> HIDE DEF h, r
  <1>4. Drawn(h)
    BY <1>1 DEF Drawn, AllFinal
  <1>5. CASE Become(g, Conclude(r, FALSE))
    <2>1. Fits(r)
      BY <1>1, <1>2 DEF Fits, FlagsFit, CallsFit, CallFits, PendingFits
    <2>2. Drawn(r)
      BY <1>2, <1>4 DEF Drawn
    <2>3. Honest(Conclude(r, FALSE))
      BY <1>1, <1>2, <2>1, <2>2, ConcludeHonest
    <2> QED BY <1>5, <2>3, BecomesHonest
  <1>6. CASE Become(g, Conclude(h, TRUE))
    <2>1. Honest(Conclude(h, TRUE))
      BY <1>1, <1>4, ConcludeHonest
    <2> QED BY <1>6, <2>1, BecomesHonest
  <1>7. CASE h.aborted /\ Become(g, Raise(h))
    BY <1>1, <1>7, RaiseHonest, BecomesHonest
  <1> QED BY <1>3, <1>5, <1>6, <1>7

LEMMA EndingsStep == LanguageInv /\ EndingsInv /\ [LanguageNext]_lvars => EndingsInv'
  <1> SUFFICES ASSUME LanguageInv, EndingsInv, [LanguageNext]_lvars PROVE EndingsInv'  OBVIOUS
  <1>1. CASE UNCHANGED gens
    BY <1>1 DEF EndingsInv
  <1>2. ASSUME NEW g \in Gens, Generate(g) \/ Cancel(g) \/ NativeFails(g) PROVE EndingsInv'
    BY <1>2, QueueEndings, WaitEndings DEF NativeFails
  <1>3. ASSUME NEW g \in Gens, Resume(g) PROVE EndingsInv'
    BY <1>3, QueueEndings, RaisedEndings, BoundedEndings, PreparedEndings, BeginEndings,
       NextEventEndings, ParsedEndings, ClosedEndings, StoppedEndings, ValidatedEndings DEF Resume
  <1>4. ASSUME NEW g \in Gens, Work(g) PROVE EndingsInv'
    BY <1>4, WaitEndings, ToolEndings
       DEF Work, WorkSettles, EventArrives, ReturnSettles, JobsSettle, Settle
  <1>5. CASE Unload
    BY <1>5, UnloadEndings
  <1>6. CASE BackendUnload \/ NativeEnds \/ UNCHANGED lvars
    BY <1>1, <1>6 DEF BackendUnload, NativeEnds, lvars
  <1> QED BY <1>2, <1>3, <1>4, <1>5, <1>6 DEF LanguageNext

LEMMA AlwaysEndings == LanguageSpec => []EndingsInv
  BY AlwaysInv, EndingsInit, EndingsStep, PTL DEF LanguageSpec

----------------------------------------------------------------------------
(* The theorems.                                                           *)

\* A failure of a tool, a callback or the engine that comes before any
\* cancellation rejects the result, although it ends the generation through
\* the same abort signal; and a generation with structured output completes
\* only with an output that was validated.
THEOREM EndingsTrue == LanguageSpec => []EndingsAreTrue
  <1>1. EndingsInv => EndingsAreTrue
    BY DEF EndingsInv, Honest, Fits, FlagsFit, EndingsAreTrue, FailuresSurface, CompleteIsValid
  <1> QED BY <1>1, AlwaysEndings, PTL

\* A native round runs for a generation that has not ended only when all calls
\* of its earlier rounds have an outcome.
THEOREM HistoryPaired == LanguageSpec => []HistoryIsPaired
  <1>1. LanguageInv /\ EndingsInv => HistoryIsPaired
    <2> SUFFICES ASSUME LanguageInv, EndingsInv, NEW g \in Gens, NEW i \in DOMAIN gens[g].calls,
                        gens[g].calls[i].round < gens[g].round
                 PROVE  gens[g].calls[i].state \in {"completed", "failed", "invalid"}
      BY DEF HistoryIsPaired
    <2>1. i \in 1 .. Len(gens[g].calls)
      BY CallsTyped DEF LanguageInv, GensSound
    <2> QED BY <2>1 DEF EndingsInv, Honest, Fits, CallsFit, CallFits, Final
  <1> QED BY <1>1, AlwaysInv, AlwaysEndings, PTL

\* Tools are never too many, and never late for the next round.
THEOREM ToolsScheduled == LanguageSpec => []ToolsAreScheduled
  BY HistoryPaired, ToolsLimited, PTL DEF ToolsAreScheduled
=============================================================================
