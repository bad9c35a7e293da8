----------------------------- MODULE SpeechProofs -----------------------------
(***************************************************************************)
(* Theorems about the speeches of a model: one voice at a time, whatever   *)
(* the callers, the pump, the backend, the audio context and the timers do *)
(* and in which order, for any generations, chunk length and lookahead.    *)
(* The invariant says what a speech is when it is the active one and what  *)
(* it is when it is not; the operators on a speech are described by lemmas.*)
(***************************************************************************)
EXTENDS SpeechModel, TLAPS, SequenceTheorems, FiniteSetTheorems, NaturalsInduction

Fields ==
  {"job", "paused", "terminal", "driver", "index", "scheduled", "saved", "started", "ticking",
   "start", "stale", "running", "position", "elapsed", "end", "pending", "sources"}

\* A record with the fields of a speech, and flags that are flags.
Shaped(p) == DOMAIN p = Fields /\ p.paused \in BOOLEAN /\ p.terminal \in BOOLEAN

\* Nothing is scheduled, no timer runs and no start is under way.
Silent(p) == p.sources = {} /\ p.ticking = FALSE /\ p.start = "none"

\* A speech that may be active, and one that may not.
Live(p) == Shaped(p) /\ p.terminal = FALSE /\ p.paused = FALSE
Inactive(p) == Shaped(p) /\ Silent(p) /\ (p.terminal = TRUE \/ p.paused = TRUE)
Ended(p) == Shaped(p) /\ Silent(p) /\ p.terminal = TRUE

\* q differs from p in neither flag.
SameFlags(p, q) == Shaped(q) /\ q.paused = p.paused /\ q.terminal = p.terminal

Listed(ss) == \E S : ss \in Seq(S)

VoiceInv ==
  /\ Listed(speeches)
  /\ active \in DOMAIN speeches \cup {None}
  /\ \A s \in DOMAIN speeches :
       IF s = active THEN Live(speeches[s]) ELSE Inactive(speeches[s])

----------------------------------------------------------------------------
(* The operators on a speech.                                              *)

LEMMA NewSpeechShape ==
  ASSUME NEW j, NEW d
  PROVE  /\ Inactive(NewSpeech(j, d)) /\ NewSpeech(j, d).paused = TRUE
         /\ NewSpeech(j, d).terminal = FALSE /\ NewSpeech(j, d).job = j
BY DEF NewSpeech, Inactive, Shaped, Silent, Fields

LEMMA OverShape == ASSUME NEW p PROVE Ended(Over(p))
BY DEF Over, NewSpeech, Ended, Shaped, Silent, Fields

LEMMA StoppedShape ==
  ASSUME NEW p, Shaped(p)
  PROVE  SameFlags(p, Stopped(p)) /\ Silent(Stopped(p))
BY DEF Stopped, NewSpeech, SameFlags, Shaped, Silent, Fields

LEMMA PausedShape ==
  ASSUME NEW p, Shaped(p)
  PROVE  Inactive(Paused(p)) /\ Paused(p).paused = TRUE
<1>1. SameFlags(p, Stopped(p)) /\ Silent(Stopped(p)) BY StoppedShape
<1> QED BY <1>1 DEF Paused, Inactive, SameFlags, Shaped, Silent, Fields

LEMMA ScheduledShape ==
  ASSUME NEW p, Shaped(p), NEW chunks
  PROVE  SameFlags(p, Scheduled(p, chunks)) /\ Scheduled(p, chunks).start = p.start
BY DEF Scheduled, SameFlags, Shaped, Fields

LEMMA AppendedShape ==
  ASSUME NEW p, Shaped(p), NEW chunks
  PROVE  SameFlags(p, Appended(p, chunks))
BY ScheduledShape DEF Appended, SameFlags, Shaped, Fields

LEMMA StartedShape ==
  ASSUME NEW p, Shaped(p), NEW chunks
  PROVE  SameFlags(p, Started(p, chunks))
<1>1. SameFlags(p, Stopped(p)) BY StoppedShape
<1> QED BY <1>1 DEF Started, SameFlags, Shaped, Fields

LEMMA AdvancedShape ==
  ASSUME NEW p, Shaped(p), NEW x
  PROVE  SameFlags(p, Advanced(p, x))
BY DEF Advanced, SameFlags, Shaped, Fields

LEMMA TickedShape ==
  ASSUME NEW p, Shaped(p), NEW x
  PROVE  SameFlags(p, Ticked(p, x))
<1> DEFINE q == [p EXCEPT !.saved = Position(p)]
<1>1. SameFlags(p, q) BY DEF SameFlags, Shaped, Fields
<1>2. SameFlags(q, Stopped(q)) BY <1>1, StoppedShape DEF SameFlags
<1> QED BY <1>1, <1>2 DEF Ticked, SameFlags, Shaped

LEMMA UpdatedShape ==
  ASSUME NEW p, Live(p), NEW x, NEW c
  PROVE  Live(Updated(p, x, c)) \/ Ended(Updated(p, x, c))
<1>1. Ended(Over(p)) BY OverShape
<1>2. CASE p.started
  <2> DEFINE chunks == Lookahead(p, x)
             q == [p EXCEPT !.scheduled = @ + Cardinality(chunks)]
  <2>1. Live(q) BY DEF Live, Shaped, Fields
  <2>2. Live(Appended(q, chunks)) BY <2>1, AppendedShape DEF Live, SameFlags
  <2>3. Updated(p, x, c) = Over(p) \/ Updated(p, x, c) = Appended(q, chunks)
    BY <1>2 DEF Updated
  <2> QED BY <1>1, <2>2, <2>3
<1>3. CASE ~p.started /\ HasChunk(p, x)
  <2>1. Live(Started(p, Lookahead(p, x))) BY StartedShape DEF Live, SameFlags
  <2> QED BY <1>3, <2>1 DEF Updated
<1>4. CASE ~p.started /\ ~HasChunk(p, x) BY <1>1, <1>4 DEF Updated
<1> QED BY <1>2, <1>3, <1>4

----------------------------------------------------------------------------
(* Sequences of speeches, and the turns that change them.                  *)

LEMMA ListedDomain ==
  ASSUME NEW ss, Listed(ss)
  PROVE  Len(ss) \in Nat /\ DOMAIN ss = 1 .. Len(ss) /\ None \notin DOMAIN ss
<1>1. PICK S : ss \in Seq(S) BY DEF Listed
<1>2. Len(ss) \in Nat /\ DOMAIN ss = 1 .. Len(ss) BY <1>1, LenProperties
<1> QED BY <1>2, SpeechAssumption

LEMMA ListedLike ==
  ASSUME NEW ss, Listed(ss), NEW rr, DOMAIN rr = DOMAIN ss,
         rr = [s \in DOMAIN rr |-> rr[s]]
  PROVE  Listed(rr)
<1>1. Len(ss) \in Nat /\ DOMAIN ss = 1 .. Len(ss) BY ListedDomain
<1> DEFINE S == {rr[s] : s \in DOMAIN rr}
<1>2. rr \in [1 .. Len(ss) -> S] BY <1>1
<1>3. rr \in Seq(S) BY <1>1, <1>2, SeqDef
<1> QED BY <1>3 DEF Listed

LEMMA ListedExcept ==
  ASSUME NEW ss, Listed(ss), NEW s, NEW p
  PROVE  Listed([ss EXCEPT ![s] = p])
BY ListedLike

LEMMA ListedAppend ==
  ASSUME NEW ss, Listed(ss), NEW p
  PROVE  /\ Listed(Append(ss, p))
         /\ Len(Append(ss, p)) = Len(ss) + 1
         /\ DOMAIN Append(ss, p) = DOMAIN ss \cup {Len(ss) + 1}
         /\ Len(ss) + 1 \notin DOMAIN ss
         /\ \A s \in DOMAIN ss : Append(ss, p)[s] = ss[s]
         /\ Append(ss, p)[Len(ss) + 1] = p
<1>1. PICK S : ss \in Seq(S) BY DEF Listed
<1> DEFINE T == S \cup {p}
<1>2. ss \in Seq(T) BY <1>1, SeqMonotonic
<1>3. /\ Append(ss, p) \in Seq(T)
      /\ Len(Append(ss, p)) = Len(ss) + 1
      /\ \A i \in 1 .. Len(ss) : Append(ss, p)[i] = ss[i]
      /\ Append(ss, p)[Len(ss) + 1] = p
  BY <1>2, AppendProperties
<1>4. Len(ss) \in Nat /\ DOMAIN ss = 1 .. Len(ss) BY ListedDomain
<1>5. DOMAIN Append(ss, p) = 1 .. Len(ss) + 1 BY <1>3, LenProperties
<1>6. Listed(Append(ss, p)) BY <1>3 DEF Listed
<1> QED BY <1>3, <1>4, <1>5, <1>6

\* One speech takes over from the active one: whatever it becomes, the others
\* are inactive.
LEMMA BecomesKeeps ==
  ASSUME NEW js, NEW ss, Listed(ss), NEW s \in DOMAIN ss, NEW p, Live(p) \/ Ended(p),
         \A t \in DOMAIN ss : t # s => Inactive(ss[t]),
         Becomes(js, ss, s, p)
  PROVE  VoiceInv'
<1>1. speeches' = [ss EXCEPT ![s] = p] /\ active' = IF p.terminal THEN None ELSE s
  BY DEF Becomes
<1>2. Listed(speeches') BY <1>1, ListedExcept
<1>3. DOMAIN speeches' = DOMAIN ss /\ None \notin DOMAIN ss BY <1>1, ListedDomain
<1>4. \A t \in DOMAIN ss : speeches'[t] = IF t = s THEN p ELSE ss[t] BY <1>1
<1>5. Ended(p) => Inactive(p) BY DEF Ended, Inactive
<1>6. CASE p.terminal = TRUE
  <2>1. Ended(p) BY <1>6 DEF Live
  <2> QED BY <1>1, <1>2, <1>3, <1>4, <1>5, <1>6, <2>1 DEF VoiceInv
<1>7. CASE p.terminal = FALSE
  <2>1. Live(p) BY <1>7 DEF Ended
  <2> QED BY <1>1, <1>2, <1>3, <1>4, <1>7, <2>1 DEF VoiceInv
<1> QED BY <1>6, <1>7 DEF Live, Ended, Shaped

LEMMA SignalKeeps ==
  ASSUME VoiceInv, NEW js, NEW j, NEW c, Signal(js, j, c)
  PROVE  VoiceInv'
<1>1. CASE active # None /\ speeches[active].job = j
  <2>1. active \in DOMAIN speeches /\ Live(speeches[active]) BY <1>1 DEF VoiceInv
  <2> DEFINE p == Updated(speeches[active], js[j], c)
             ks == [js EXCEPT ![j] = Signalled(@)]
  <2>2. Becomes(ks, speeches, active, p) BY <1>1 DEF Signal
  <2>3. Live(p) \/ Ended(p) BY <2>1, UpdatedShape
  <2>4. Listed(speeches) /\ \A t \in DOMAIN speeches : t # active => Inactive(speeches[t])
    BY DEF VoiceInv
  <2> HIDE DEF p, ks
  <2> QED BY <2>1, <2>2, <2>3, <2>4, BecomesKeeps
<1>2. CASE ~(active # None /\ speeches[active].job = j)
  BY <1>2 DEF Signal, VoiceInv, Listed
<1> QED BY <1>1, <1>2

LEMMA EndKeeps ==
  ASSUME VoiceInv, NEW S, NEW D, End(S, D)
  PROVE  VoiceInv'
<1>1. /\ speeches' = [s \in DOMAIN speeches |-> IF s \in S THEN Over(speeches[s]) ELSE speeches[s]]
      /\ active' = IF active \in S THEN None ELSE active
  BY DEF End
<1>2. Listed(speeches') BY <1>1, ListedLike DEF VoiceInv
<1>3. \A s : Inactive(Over(speeches[s])) BY OverShape DEF Ended, Inactive
<1>4. None \notin DOMAIN speeches BY ListedDomain DEF VoiceInv
<1> QED BY <1>1, <1>2, <1>3, <1>4 DEF VoiceInv

\* A speech that exists or was just attached becomes the active one.
LEMMA ActivateKeeps ==
  ASSUME NEW ss, Listed(ss), active \in DOMAIN ss \cup {None},
         \A t \in DOMAIN ss : IF t = active THEN Live(ss[t]) ELSE Shaped(ss[t]),
         NEW s \in DOMAIN ss, ss[s].terminal = FALSE,
         \A t \in DOMAIN ss : t # active /\ t # s => Inactive(ss[t]),
         NEW js, NEW c, Activate(js, ss, s, c)
  PROVE  VoiceInv'
<1> DEFINE q == [ss[s] EXCEPT !.paused = FALSE]
           p == Updated(q, js[ss[s].job], c)
           rr == [t \in DOMAIN ss |-> IF t = active /\ t # s THEN Paused(ss[t]) ELSE ss[t]]
<1>1. Becomes(js, rr, s, p) BY DEF Activate
<1>2. Live(q)
  <2>1. Shaped(ss[s]) BY DEF Live
  <2> QED BY <2>1 DEF Live, Shaped, Fields
<1>3. Live(p) \/ Ended(p) BY <1>2, UpdatedShape
<1>4. Listed(rr) BY ListedLike
<1>5. \A t \in DOMAIN ss : t # s => Inactive(rr[t])
  <2> SUFFICES ASSUME NEW t \in DOMAIN ss, t # s PROVE Inactive(rr[t]) OBVIOUS
  <2>1. CASE t = active BY <2>1, PausedShape DEF Live
  <2>2. CASE t # active BY <2>2
  <2> QED BY <2>1, <2>2
<1>6. DOMAIN rr = DOMAIN ss OBVIOUS
<1> HIDE DEF q, p, rr
<1> QED BY <1>1, <1>3, <1>4, <1>5, <1>6, BecomesKeeps

----------------------------------------------------------------------------
(* The callers.                                                            *)

LEMMA AttachKeeps ==
  ASSUME VoiceInv, NEW js, NEW j, NEW d, NEW c, Attach(js, j, d, c)
  PROVE  VoiceInv'
<1> DEFINE n == Len(speeches) + 1
           p == NewSpeech(j, d)
           ss == Append(speeches, p)
           ks == [js EXCEPT ![j].spoken = TRUE]
<1>1. Activate(ks, ss, n, c) BY DEF Attach
<1>2. /\ Listed(ss) /\ DOMAIN ss = DOMAIN speeches \cup {n} /\ n \notin DOMAIN speeches
      /\ \A s \in DOMAIN speeches : ss[s] = speeches[s]
      /\ ss[n] = p
  BY ListedAppend DEF VoiceInv
<1>3. Inactive(p) /\ p.terminal = FALSE BY NewSpeechShape
<1>4. n # None
  <2>1. Len(speeches) \in Nat BY ListedDomain DEF VoiceInv
  <2> QED BY <2>1, SpeechAssumption
<1> HIDE DEF n, p, ss, ks
<1>5. active # n BY <1>2, <1>4 DEF VoiceInv
<1>6. \A t \in DOMAIN ss : IF t = active THEN Live(ss[t]) ELSE Inactive(ss[t])
  BY <1>2, <1>3, <1>5 DEF VoiceInv
<1>7. \A t \in DOMAIN ss : IF t = active THEN Live(ss[t]) ELSE Shaped(ss[t])
  BY <1>6 DEF Inactive
<1>8. active \in DOMAIN ss \cup {None} BY <1>2 DEF VoiceInv
<1> QED BY <1>1, <1>2, <1>3, <1>6, <1>7, <1>8, ActivateKeeps

LEMMA CallerResumesKeeps ==
  ASSUME VoiceInv, NEW s \in DOMAIN speeches, NEW c, CallerResumes(s, c)
  PROVE  VoiceInv'
<1>1. Activate(jobs, speeches, s, c) /\ ~speeches[s].terminal BY DEF CallerResumes
<1>2. \A t \in DOMAIN speeches :
        /\ IF t = active THEN Live(speeches[t]) ELSE Shaped(speeches[t])
        /\ t # active /\ t # s => Inactive(speeches[t])
  BY DEF VoiceInv, Inactive
<1>3. speeches[s].terminal = FALSE BY <1>1, <1>2 DEF Live, Shaped
<1> QED BY <1>1, <1>2, <1>3, ActivateKeeps DEF VoiceInv

LEMMA CallerPausesKeeps ==
  ASSUME VoiceInv, NEW s \in DOMAIN speeches, CallerPauses(s)
  PROVE  VoiceInv'
<1>1. /\ speeches' = [speeches EXCEPT ![s] = Paused(@)]
      /\ active' = IF active = s THEN None ELSE active
  BY DEF CallerPauses
<1>2. Inactive(Paused(speeches[s]))
  <2>1. Shaped(speeches[s]) BY DEF VoiceInv, Live, Inactive
  <2> QED BY <2>1, PausedShape
<1>3. Listed(speeches') BY <1>1, ListedExcept DEF VoiceInv
<1>4. None \notin DOMAIN speeches BY ListedDomain DEF VoiceInv
<1> QED BY <1>1, <1>2, <1>3, <1>4 DEF VoiceInv

LEMMA CallsKeep ==
  ASSUME VoiceInv, Calls
  PROVE  VoiceInv'
<1>1. CASE \E o \in Options : Generate(o) BY <1>1 DEF Generate, VoiceInv, Listed
<1>2. CASE \E o \in Options, d \in BOOLEAN, c \in Conditions : Speak(o, d, c)
  BY <1>2, AttachKeeps DEF Speak
<1>3. CASE \E j \in DOMAIN jobs, d \in BOOLEAN, c \in Conditions : SpeakGeneration(j, d, c)
  BY <1>3, AttachKeeps DEF SpeakGeneration
<1>4. CASE \E j \in DOMAIN jobs : CallerDisposes(j) BY <1>4, EndKeeps DEF CallerDisposes
<1>5. CASE \E s \in DOMAIN speeches : CallerPauses(s) BY <1>5, CallerPausesKeeps
<1>6. CASE \E s \in DOMAIN speeches : CallerCancels(s)
  BY <1>6, EndKeeps DEF CallerCancels, Finish
<1>7. CASE \E s \in DOMAIN speeches, c \in Conditions : CallerResumes(s, c)
  BY <1>7, CallerResumesKeeps
<1>8. CASE \E j \in DOMAIN jobs : AwaitChunk(j) BY <1>8 DEF AwaitChunk, VoiceInv, Listed
<1>9. CASE Unload BY <1>9, EndKeeps DEF Unload
<1> QED BY <1>1, <1>2, <1>3, <1>4, <1>5, <1>6, <1>7, <1>8, <1>9 DEF Calls

----------------------------------------------------------------------------
(* The pump and the backend.                                               *)

LEMMA PumpKeeps ==
  ASSUME VoiceInv, PumpTurns
  PROVE  VoiceInv'
<1>1. CASE PumpStops BY <1>1 DEF PumpStops, VoiceInv, Listed
<1>2. CASE PumpAsks BY <1>2 DEF PumpAsks, VoiceInv, Listed
<1>3. ASSUME NEW c \in Conditions, PumpSteps(c) PROVE VoiceInv'
  <2>1. PICK j \in Chosen :
          IF jobs[j].silence > 0
          THEN AddChunk([jobs EXCEPT ![j].silence = @ - 1], j, c)
          ELSE NextSegment(j, c)
    BY <1>3 DEF PumpSteps
  <2>2. ASSUME AddChunk([jobs EXCEPT ![j].silence = @ - 1], j, c) PROVE VoiceInv'
    BY <2>2, SignalKeeps DEF AddChunk
  <2>3. ASSUME NextSegment(j, c) PROVE VoiceInv'
    BY <2>3, SignalKeeps DEF NextSegment, VoiceInv, Listed
  <2> QED BY <2>1, <2>2, <2>3
<1> QED BY <1>1, <1>2, <1>3 DEF PumpTurns

LEMMA StepFailsKeeps ==
  ASSUME VoiceInv, StepFails
  PROVE  VoiceInv'
<1> DEFINE j == pump.job
           D == {i \in DOMAIN jobs : FALSE}
<1>1. CASE UNCHANGED <<jobs, speeches, active>> BY <1>1 DEF VoiceInv, Listed
<1>2. CASE End(Children(j), {j}) BY <1>2, EndKeeps
<1>3. CASE /\ speeches' = [s \in DOMAIN speeches |->
                             IF s \in Children(j) THEN Over(speeches[s]) ELSE speeches[s]]
           /\ active' = IF active \in Children(j) THEN None ELSE active
  <2>1. Listed(speeches') BY <1>3, ListedLike DEF VoiceInv
  <2>2. \A s : Inactive(Over(speeches[s])) BY OverShape DEF Ended, Inactive
  <2>3. None \notin DOMAIN speeches BY ListedDomain DEF VoiceInv
  <2> HIDE DEF j
  <2> QED BY <1>3, <2>1, <2>2, <2>3 DEF VoiceInv
<1> QED BY <1>1, <1>2, <1>3 DEF StepFails

LEMMA BackendKeeps ==
  ASSUME VoiceInv, BackendAnswers
  PROVE  VoiceInv'
<1>1. ASSUME NEW n \in UnitCounts, Prepared(n) PROVE VoiceInv'
  BY <1>1 DEF Prepared, VoiceInv, Listed
<1>2. ASSUME NEW c \in Conditions, Synthesized(c) PROVE VoiceInv'
  BY <1>2, SignalKeeps DEF Synthesized, AddChunk, VoiceInv, Listed
<1> QED BY <1>1, <1>2, StepFailsKeeps DEF BackendAnswers

----------------------------------------------------------------------------
(* The driver, the clock and the timer.                                    *)

LEMMA ContextKeeps ==
  ASSUME VoiceInv, NEW s \in DOMAIN speeches, DriverResumes(s)
  PROVE  VoiceInv'
<1> DEFINE p == speeches[s]
           r == [p EXCEPT !.running = TRUE, !.elapsed = p.position, !.pending = {}]
           w == Scheduled(r, p.pending)
<1>1. p.start = "resuming" /\ active' = active BY DEF DriverResumes, ContextResumes
<1>2. s = active /\ Live(p) BY <1>1 DEF VoiceInv, Inactive, Silent
<1>3. Live(r) BY <1>2 DEF Live, Shaped, Fields
<1>4. Live(w) BY <1>3, ScheduledShape DEF Live, SameFlags
<1>5. \A q : Live(q) => Live([q EXCEPT !.start = "rejected"]) /\ Live([q EXCEPT !.start = "resolved"])
  BY DEF Live, Shaped, Fields
<1>6. PICK q : Live(q) /\ speeches' = [speeches EXCEPT ![s] = q]
  <2>1. PICK resumed \in BOOLEAN, c \in Conditions : ContextResumes(s, resumed, c)
    BY DEF DriverResumes
  <2>2. \/ speeches' = [speeches EXCEPT ![s] = [p EXCEPT !.start = "rejected"]]
        \/ speeches' = [speeches EXCEPT ![s] = [r EXCEPT !.start = "rejected"]]
        \/ speeches' = [speeches EXCEPT ![s] = [w EXCEPT !.start = "resolved"]]
    BY <2>1 DEF ContextResumes
  <2> HIDE DEF p, r, w
  <2> QED BY <1>2, <1>3, <1>4, <1>5, <2>2
<1>7. Listed(speeches') BY <1>6, ListedExcept DEF VoiceInv
<1> QED BY <1>1, <1>2, <1>6, <1>7 DEF VoiceInv

LEMMA StaleKeeps ==
  ASSUME VoiceInv, NEW s \in DOMAIN speeches, StaleStart(s)
  PROVE  VoiceInv'
<1>1. PICK v : speeches' = [speeches EXCEPT ![s] = [speeches[s] EXCEPT !.stale = v]]
  BY DEF StaleStart
<1>2. active' = active BY DEF StaleStart
<1> DEFINE q == [speeches[s] EXCEPT !.stale = v]
<1>3. Live(speeches[s]) => Live(q) BY DEF Live, Shaped, Fields
<1>4. Inactive(speeches[s]) => Inactive(q) BY DEF Inactive, Silent, Shaped, Fields
<1>5. Listed(speeches') BY <1>1, ListedExcept DEF VoiceInv
<1> HIDE DEF q
<1>6. speeches' = [speeches EXCEPT ![s] = q] BY <1>1 DEF q
<1> QED BY <1>2, <1>3, <1>4, <1>5, <1>6 DEF VoiceInv

LEMMA ClockKeeps ==
  ASSUME VoiceInv, NEW s \in DOMAIN speeches, Clock(s)
  PROVE  VoiceInv'
<1>1. PICK v : speeches' = [speeches EXCEPT ![s] = [speeches[s] EXCEPT !.elapsed = v]]
  BY DEF Clock
<1>2. active' = active BY DEF Clock
<1> DEFINE q == [speeches[s] EXCEPT !.elapsed = v]
<1>3. Live(speeches[s]) => Live(q) BY DEF Live, Shaped, Fields
<1>4. Inactive(speeches[s]) => Inactive(q) BY DEF Inactive, Silent, Shaped, Fields
<1>5. Listed(speeches') BY <1>1, ListedExcept DEF VoiceInv
<1>6. speeches' = [speeches EXCEPT ![s] = q] BY <1>1
<1> HIDE DEF q
<1> QED BY <1>2, <1>3, <1>4, <1>5, <1>6 DEF VoiceInv

LEMMA TickKeeps ==
  ASSUME VoiceInv, NEW s \in DOMAIN speeches, s = active, NEW c, NEW begins \in BOOLEAN,
         Tick(s, c, begins)
  PROVE  VoiceInv'
<1>1. Live(speeches[s]) BY DEF VoiceInv
<1> DEFINE q == Advanced(speeches[s], jobs[speeches[s].job])
           x == Released(jobs[q.job], q.index)
           r == Ticked(q, x)
           u == [r EXCEPT !.start = IF begins THEN "none" ELSE @]
           p == Updated(u, x, c)
           z == [p EXCEPT !.ticking = ~p.terminal /\ p.started /\ (begins \/ r.ticking)]
           ks == [jobs EXCEPT ![q.job] = x]
<1>2. Becomes(ks, speeches, s, z) BY DEF Tick
<1>3. Live(q) BY <1>1, AdvancedShape DEF Live, SameFlags
<1> HIDE DEF q, x
<1>4. Live(r) BY <1>3, TickedShape DEF Live, SameFlags
<1> HIDE DEF r
<1>5. Live(u) BY <1>4 DEF Live, Shaped, Fields
<1> HIDE DEF u
<1>6. Live(p) \/ Ended(p) BY <1>5, UpdatedShape
<1> HIDE DEF p
<1>7. Live(z) \/ Ended(z) BY <1>6 DEF Live, Ended, Shaped, Silent, Fields
<1> HIDE DEF z, ks
<1>8. Listed(speeches) /\ \A t \in DOMAIN speeches : t # s => Inactive(speeches[t])
  BY DEF VoiceInv
<1> QED BY <1>2, <1>7, <1>8, BecomesKeeps

LEMMA SettlesKeeps ==
  ASSUME VoiceInv, NEW s \in DOMAIN speeches, NEW c, StartSettles(s, c)
  PROVE  VoiceInv'
<1>1. CASE speeches[s].start = "resolved" /\ Tick(s, c, TRUE)
  <2>1. s = active BY <1>1 DEF VoiceInv, Inactive, Silent
  <2> QED BY <1>1, <2>1, TickKeeps
<1>2. CASE Finish(s) BY <1>2, EndKeeps DEF Finish
<1> QED BY <1>1, <1>2 DEF StartSettles

LEMMA TimerKeeps ==
  ASSUME VoiceInv, NEW s \in DOMAIN speeches, NEW c, TimerTicks(s, c)
  PROVE  VoiceInv'
<1>1. s = active BY DEF TimerTicks, VoiceInv, Inactive, Silent
<1> QED BY <1>1, TickKeeps DEF TimerTicks

LEMMA NoDriverKeeps ==
  ASSUME VoiceInv, NEW s \in DOMAIN speeches, NoDriver(s)
  PROVE  VoiceInv'
BY EndKeeps DEF NoDriver, Finish

----------------------------------------------------------------------------

LEMMA VoiceInit == SpeechInit => VoiceInv
<1> SUFFICES ASSUME SpeechInit PROVE VoiceInv OBVIOUS
<1>1. speeches = <<>> /\ active = None BY DEF SpeechInit
<1>2. speeches \in Seq({}) /\ DOMAIN speeches = {} BY <1>1
<1> QED BY <1>1, <1>2 DEF VoiceInv, Listed

LEMMA VoiceStep == VoiceInv /\ [SpeechNext]_svars => VoiceInv'
<1> SUFFICES ASSUME VoiceInv, [SpeechNext]_svars PROVE VoiceInv' OBVIOUS
<1>1. CASE UNCHANGED svars BY <1>1 DEF svars, VoiceInv, Listed
<1>2. CASE Calls BY <1>2, CallsKeep
<1>3. CASE PumpTurns BY <1>3, PumpKeeps
<1>4. CASE BackendAnswers BY <1>4, BackendKeeps
<1>5. ASSUME NEW s \in DOMAIN speeches,
             \/ Clock(s) \/ StaleStart(s) \/ NoDriver(s) \/ DriverResumes(s)
             \/ \E c \in Conditions : StartSettles(s, c) \/ TimerTicks(s, c)
      PROVE  VoiceInv'
  BY <1>5, ClockKeeps, StaleKeeps, NoDriverKeeps, ContextKeeps, SettlesKeeps, TimerKeeps
<1> QED BY <1>1, <1>2, <1>3, <1>4, <1>5 DEF SpeechNext

\* The active speech may play, and no other one has anything under way
\* (TextToSpeechModel.activate, Speech.pause and finish).
THEOREM VoiceInvariant == SpeechSpec => []VoiceInv
BY VoiceInit, VoiceStep, PTL DEF SpeechSpec

\* "New speech on the same instance pauses its previous playback": the active
\* speech is the one that is neither paused nor over, and no other one has
\* audio scheduled or a timer (activate, pause, finish of tts-next/model.ts).
THEOREM SpeechHasOneVoice == SpeechSpec => []OneVoice
<1>1. VoiceInv => OneVoice BY DEF VoiceInv, OneVoice, Live, Inactive, Silent, Shaped
<1> QED BY <1>1, VoiceInvariant, PTL

-----------------------------------------------------------------------------
(***************************************************************************)
(* The audio of the speeches of a model: how the fields of a generation    *)
(* and of a speech belong together, and that only the clock moves a        *)
(* position.  Both follow from an invariant of the audio of one speech,    *)
(* which says what is scheduled in each of the states its driver can be    *)
(* in, whatever the length of a chunk and the lookahead are.               *)
(***************************************************************************)

\* The driver is not started; it awaits the audio context; the context resumed
\* but the nodes refused to start; it plays all that is scheduled.
Stood(p) ==
  /\ p.started = FALSE /\ p.running = FALSE /\ p.ticking = FALSE /\ p.start = "none"
  /\ p.scheduled = p.index /\ p.pending = {} /\ p.sources = {}
Starting(p) ==
  /\ p.started = TRUE /\ p.running = FALSE /\ p.ticking = FALSE
  /\ p.start \in {"resuming", "rejected"} /\ p.sources = {}
  /\ p.pending = p.index .. p.scheduled - 1
  /\ p.end = p.position /\ p.position <= StartOf(p.scheduled)
Refused(p) ==
  /\ p.started = TRUE /\ p.running = TRUE /\ p.ticking = FALSE /\ p.start = "rejected"
  /\ p.pending = {} /\ p.elapsed = p.position
  /\ p.position <= p.end /\ p.end <= StartOf(p.scheduled)
Playing(p) ==
  /\ p.started = TRUE /\ p.running = TRUE /\ p.start \in {"none", "resolved"}
  /\ p.pending = {} /\ p.position <= p.elapsed /\ p.elapsed <= p.end + 1
  /\ p.position <= p.end /\ p.end = StartOf(p.scheduled)
  /\ \A i \in 0 .. p.scheduled - 1 : EndOf(i) > Position(p) => i \in p.sources

\* What a speech that is not over has of its generation.
Placed(p, x) ==
  /\ x.base <= p.index /\ p.index <= p.scheduled /\ p.scheduled <= x.made
  /\ StartOf(p.index) <= Position(p) /\ Position(p) <= StartOf(x.made)
Fit(p, x) ==
  Placed(p, x) /\ (Stood(p) \/ Starting(p) \/ Refused(p) \/ Playing(p))

----------------------------------------------------------------------------
(* Chunks, and the largest and the smallest of a set.                      *)

LEMMA ChunkFacts ==
  ASSUME NEW i \in Nat
  PROVE  /\ StartOf(i) \in Nat /\ EndOf(i) \in Nat
         /\ EndOf(i) = StartOf(i + 1) /\ EndOf(i) = StartOf(i) + ChunkLength
BY SpeechAssumption DEF StartOf, EndOf

LEMMA ChunkOrder ==
  ASSUME NEW i \in Nat, NEW j \in Nat
  PROVE  i <= j <=> StartOf(i) <= StartOf(j)
BY SpeechAssumption DEF StartOf

LEMMA ChunkAt ==
  ASSUME NEW t \in Nat
  PROVE  /\ t \div ChunkLength \in Nat
         /\ StartOf(t \div ChunkLength) <= t /\ t < EndOf(t \div ChunkLength)
BY SpeechAssumption DEF StartOf, EndOf

\* Chunk i begins not later than t iff it is not after the chunk at t.
LEMMA ChunkBefore ==
  ASSUME NEW t \in Nat, NEW i \in Nat
  PROVE  /\ StartOf(i) <= t <=> i <= t \div ChunkLength
         /\ EndOf(i) > t <=> t \div ChunkLength <= i
<1> DEFINE k == t \div ChunkLength
<1>1. k \in Nat /\ StartOf(k) <= t /\ t < StartOf(k + 1) BY ChunkAt, ChunkFacts
<1>2. i + 1 \in Nat /\ k + 1 \in Nat BY <1>1
<1>3. EndOf(i) = StartOf(i + 1) BY ChunkFacts
<1>4. StartOf(i) \in Nat /\ StartOf(i + 1) \in Nat /\ StartOf(k) \in Nat /\ StartOf(k + 1) \in Nat
  BY <1>1, <1>2, ChunkFacts
<1>5. i <= k <=> StartOf(i) <= StartOf(k) BY <1>1, ChunkOrder
<1>6. k + 1 <= i <=> StartOf(k + 1) <= StartOf(i) BY <1>2, ChunkOrder
<1>7. i + 1 <= k <=> StartOf(i + 1) <= StartOf(k) BY <1>1, <1>2, ChunkOrder
<1>8. k + 1 <= i + 1 <=> StartOf(k + 1) <= StartOf(i + 1) BY <1>2, ChunkOrder
<1> HIDE DEF k
<1>9. (StartOf(i) <= t <=> i <= k) /\ (EndOf(i) > t <=> k <= i)
  BY <1>1, <1>3, <1>4, <1>5, <1>6, <1>7, <1>8
<1> QED BY <1>9 DEF k

LEMMA MaxIs ==
  ASSUME NEW S \in SUBSET Int, NEW m \in S, \A y \in S : y <= m
  PROVE  Max(S) = m
<1>1. \A x \in S : (\A y \in S : x >= y) => x = m OBVIOUS
<1>2. \E x \in S : \A y \in S : x >= y OBVIOUS
<1> QED BY <1>1, <1>2 DEF Max

LEMMA MinIs ==
  ASSUME NEW S \in SUBSET Int, NEW m \in S, \A y \in S : m <= y
  PROVE  Min(S) = m
<1>1. \A x \in S : (\A y \in S : x =< y) => x = m OBVIOUS
<1>2. \E x \in S : \A y \in S : x =< y OBVIOUS
<1> QED BY <1>1, <1>2 DEF Min

LEMMA MaxOfTwo ==
  ASSUME NEW a \in Nat, NEW b \in Nat
  PROVE  Max({a, b}) = IF a <= b THEN b ELSE a
<1>1. CASE a <= b BY <1>1, MaxIs
<1>2. CASE ~(a <= b) BY <1>2, MaxIs
<1> QED BY <1>1, <1>2

LEMMA MinOfTwo ==
  ASSUME NEW a \in Nat, NEW b \in Nat
  PROVE  Min({a, b}) = IF a <= b THEN a ELSE b
<1>1. CASE a <= b BY <1>1, MinIs
<1>2. CASE ~(a <= b) BY <1>2, MinIs
<1> QED BY <1>1, <1>2

----------------------------------------------------------------------------
(* Positions.                                                              *)

LEMMA PositionIs ==
  ASSUME NEW p \in SpeechState
  PROVE  /\ Position(p) \in Nat
         /\ ~p.started => Position(p) = p.saved
         /\ p.started /\ ~p.running => Position(p) = p.position
         /\ p.started /\ p.running /\ p.position <= p.elapsed =>
              Position(p) = IF p.elapsed <= p.end THEN p.elapsed ELSE p.end
<1>1. /\ p.saved \in Nat /\ p.position \in Nat /\ p.elapsed \in Nat /\ p.end \in Nat
      /\ p.started \in BOOLEAN /\ p.running \in BOOLEAN
  BY DEF SpeechState
<1> DEFINE m == Max({p.position, p.elapsed})
<1>2. m \in Nat /\ m = IF p.position <= p.elapsed THEN p.elapsed ELSE p.position
  BY <1>1, MaxOfTwo
<1>3. Min({p.end, m}) = IF p.end <= m THEN p.end ELSE m BY <1>1, <1>2, MinOfTwo
<1>4. DriverPosition(p) = IF p.running THEN Min({p.end, m}) ELSE p.position
  BY DEF DriverPosition
<1> HIDE DEF m
<1> QED BY <1>1, <1>2, <1>3, <1>4 DEF Position

\* What the driver calls its position is that of a started speech.
LEMMA DriverPositionIs ==
  ASSUME NEW p, p.started
  PROVE  DriverPosition(p) = Position(p)
BY DEF Position

----------------------------------------------------------------------------
(* The operators on a speech.                                              *)

\* q is what p may become in a turn in which the clock does not move.
Follows(p, q, x) ==
  /\ q \in SpeechState /\ q.job = p.job /\ q.terminal = p.terminal
  /\ Fit(q, x) /\ Position(q) = Position(p)

LEMMA FitFields ==
  ASSUME NEW p \in SpeechState, NEW x \in Job, Fit(p, x)
  PROVE  /\ x.base \in Nat /\ p.index \in Nat /\ p.scheduled \in Nat /\ x.made \in Nat
         /\ x.base <= p.index /\ p.index <= p.scheduled /\ p.scheduled <= x.made
         /\ Position(p) \in Nat /\ p.position \in Nat /\ p.elapsed \in Nat /\ p.end \in Nat
         /\ p.saved \in Nat /\ p.running \in BOOLEAN /\ p.started \in BOOLEAN
         /\ p.terminal \in BOOLEAN
BY PositionIs DEF Fit, Placed, SpeechState, Job

\* The lookahead is what follows the scheduled chunks, up to what is made or
\* begins too late.
LEMMA LookaheadIs ==
  ASSUME NEW p \in SpeechState, NEW x \in Job, Fit(p, x)
  PROVE  \E b \in Nat : /\ p.scheduled <= b /\ b <= x.made
                        /\ Lookahead(p, x) = p.scheduled .. b - 1
                        /\ p.scheduled + Cardinality(Lookahead(p, x)) = b
                        /\ b = x.made \/ StartOf(b) > Position(p) + Ahead
<1> DEFINE t == Position(p) + Ahead
           k == t \div ChunkLength
           b == IF x.made <= k THEN x.made ELSE IF k + 1 <= p.scheduled THEN p.scheduled ELSE k + 1
<1>1. /\ p.scheduled \in Nat /\ x.made \in Nat /\ x.base <= p.scheduled /\ p.scheduled <= x.made
      /\ x.base \in Nat /\ Position(p) \in Nat /\ t \in Nat
  BY FitFields, SpeechAssumption
<1>2. k \in Nat BY <1>1, ChunkAt
<1>3. \A i \in Nat : StartOf(i) <= t <=> i <= k BY <1>1, ChunkBefore
<1>4. Lookahead(p, x) = {i \in p.scheduled .. x.made - 1 : x.base <= i /\ StartOf(i) <= t}
  BY DEF Lookahead
<1> HIDE DEF t, k
<1>5. b \in Nat /\ p.scheduled <= b /\ b <= x.made BY <1>1, <1>2
<1>6. \A i \in p.scheduled .. x.made - 1 : i <= k <=> i <= b - 1 BY <1>1, <1>2
<1>7. Lookahead(p, x) = p.scheduled .. b - 1
  <2>1. \A i \in p.scheduled .. x.made - 1 : i \in Nat /\ x.base <= i BY <1>1
  <2>2. Lookahead(p, x) = {i \in p.scheduled .. x.made - 1 : i <= b - 1}
    BY <1>3, <1>4, <1>6, <2>1
  <2> HIDE DEF b
  <2> QED BY <1>1, <1>5, <2>2
<1>8. Cardinality(p.scheduled .. b - 1) = b - p.scheduled
  <2> HIDE DEF b
  <2>1. p.scheduled \in Int /\ b - 1 \in Int BY <1>1, <1>5
  <2>2. Cardinality(p.scheduled .. b - 1)
          = IF p.scheduled > b - 1 THEN 0 ELSE (b - 1) - p.scheduled + 1
    BY <2>1, FS_Interval
  <2> QED BY <1>1, <1>5, <2>2
<1>9. b = x.made \/ StartOf(b) > t
  <2>1. CASE b = x.made BY <2>1
  <2>2. CASE b # x.made
    <3>1. ~(b <= k) BY <1>1, <1>2, <2>2
    <3>2. StartOf(b) \in Nat BY <1>5, ChunkFacts
    <3> QED BY <1>1, <1>3, <1>5, <3>1, <3>2
  <2> QED BY <2>1, <2>2
<1> HIDE DEF b
<1> QED BY <1>1, <1>5, <1>7, <1>8, <1>9 DEF t

\* append of a driver that runs: what is due of the chunks a .. b - 1 becomes
\* sources, and the position does not move.
SchedulesTo(p, q, a, b) ==
  /\ q \in SpeechState
  /\ \A f \in Fields \ {"sources", "end", "elapsed"} : q[f] = p[f]
  /\ Position(q) = Position(p)
  /\ q.sources = p.sources \cup {i \in a .. b - 1 : EndOf(i) > Position(p)}
  /\ p.end <= q.end /\ q.end <= StartOf(b) /\ q.position <= q.elapsed
  /\ p.elapsed <= p.end => q.elapsed = p.elapsed
  /\ q.elapsed <= q.end \/ q = p
  /\ (\E i \in a .. b - 1 : EndOf(i) > Position(p)) => q.end = StartOf(b)
  /\ (\A i \in a .. b - 1 : ~(EndOf(i) > Position(p))) => q = p

LEMMA ScheduledIs ==
  ASSUME NEW p \in SpeechState, p.started = TRUE, p.running = TRUE,
         NEW a \in Nat, NEW b \in Nat, a <= b,
         p.position <= p.elapsed, p.position <= p.end, p.end <= StartOf(b),
         p.elapsed > p.end => p.end = StartOf(a)
  PROVE  SchedulesTo(p, Scheduled(p, a .. b - 1), a, b)
<1> DEFINE t == Position(p)
           due == {i \in a .. b - 1 : EndOf(i) > t}
           q == Scheduled(p, a .. b - 1)
<1>1. /\ p.position \in Nat /\ p.elapsed \in Nat /\ p.end \in Nat /\ p.sources \in SUBSET Nat
      /\ t \in Nat /\ t = IF p.elapsed <= p.end THEN p.elapsed ELSE p.end
  BY PositionIs DEF SpeechState
<1>2. q = IF due = {} THEN p
          ELSE [p EXCEPT !.sources = @ \cup due, !.end = Max({@, EndOf(Max(due))}),
                         !.elapsed = IF Late(p, due) THEN p.end ELSE @]
  <2>1. DriverPosition(p) = Position(p) BY DriverPositionIs
  <2> QED BY <2>1 DEF Scheduled
<1>3. due \in SUBSET Nat /\ due \in SUBSET Int OBVIOUS
<1>4. StartOf(b) \in Nat BY ChunkFacts
<1>5. CASE due = {}
  <2>1. q = p BY <1>2, <1>5
  <2>3. p.sources \cup due = p.sources BY <1>5
  <2>4. ~(\E i \in a .. b - 1 : EndOf(i) > t) BY <1>5
  <2> HIDE DEF q
  <2>5. p.end <= p.end BY <1>1
  <2>6. q.sources = p.sources \cup due /\ Position(q) = Position(p) BY <2>1, <2>3
  <2> QED BY <2>1, <2>4, <2>5, <2>6 DEF q, SchedulesTo
<1>6. CASE due # {}
  <2>1. a <= b - 1 /\ b - 1 \in Nat BY <1>6
  <2>2. EndOf(b - 1) = StartOf(b) BY <2>1, ChunkFacts
  <2>3. b - 1 \in due
    <3>1. PICK i \in a .. b - 1 : EndOf(i) > t BY <1>6
    <3>2. t \div ChunkLength <= i BY <1>1, <3>1, ChunkBefore
    <3>3. t \div ChunkLength \in Nat BY <1>1, ChunkAt
    <3>4. t \div ChunkLength <= b - 1 BY <3>1, <3>2, <3>3
    <3>5. EndOf(b - 1) > t BY <1>1, <2>1, <3>4, ChunkBefore
    <3> QED BY <2>1, <3>5
  <2>4. Max(due) = b - 1
    <3>1. \A y \in due : y <= b - 1 OBVIOUS
    <3> QED BY <1>3, <2>3, <3>1, MaxIs
  <2>5. Max({p.end, EndOf(Max(due))}) = StartOf(b)
    BY <1>1, <1>4, <2>2, <2>4, MaxOfTwo
  <2>6. p.elapsed > p.end => Late(p, due)
    <3> SUFFICES ASSUME p.elapsed > p.end PROVE Late(p, due) OBVIOUS
    <3>1. p.end = StartOf(a) /\ t = p.end BY <1>1
    <3>2. \A i \in Nat : i >= a => EndOf(i) > t
      <4> SUFFICES ASSUME NEW i \in Nat, i >= a PROVE EndOf(i) > t OBVIOUS
      <4>1. StartOf(a) \in Nat /\ StartOf(i) \in Nat /\ EndOf(i) = StartOf(i) + ChunkLength
        BY ChunkFacts
      <4>2. StartOf(a) <= StartOf(i) BY ChunkOrder
      <4> HIDE DEF t
      <4> QED BY <3>1, <4>1, <4>2, SpeechAssumption
    <3>3. a \in due BY <2>1, <3>2
    <3>4. Min(due) = a
      <4>1. \A y \in due : a <= y OBVIOUS
      <4> QED BY <1>3, <3>3, <4>1, MinIs
    <3>5. StartOf(a) \in Nat BY ChunkFacts
    <3>6. Max({StartOf(Min(due)), p.position}) = StartOf(a)
      BY <1>1, <3>1, <3>4, <3>5, MaxOfTwo
    <3> HIDE DEF due
    <3> QED BY <1>1, <3>1, <3>6 DEF Late
  <2>7. Late(p, due) => p.elapsed > p.end BY DEF Late
  <2>8. /\ q.sources = p.sources \cup due /\ q.end = StartOf(b)
        /\ q.elapsed = IF p.elapsed > p.end THEN p.end ELSE p.elapsed
        /\ q = [p EXCEPT !.sources = q.sources, !.end = q.end, !.elapsed = q.elapsed]
    <3>1. q = [p EXCEPT !.sources = p.sources \cup due, !.end = StartOf(b),
                        !.elapsed = IF p.elapsed > p.end THEN p.end ELSE p.elapsed]
      BY <1>2, <1>6, <2>5, <2>6, <2>7
    <3> HIDE DEF due, q
    <3> QED BY <3>1 DEF SpeechState
  <2>9. q \in SpeechState
    <3>1. q.sources \in SUBSET Nat /\ q.end \in Nat /\ q.elapsed \in Nat
      BY <1>1, <1>3, <1>4, <2>8
    <3> HIDE DEF due, q, t
    <3> QED BY <2>8, <3>1 DEF SpeechState
  <2> HIDE DEF due, q
  <2>10. q.position = p.position /\ q.started = TRUE /\ q.running = TRUE
    BY <2>8 DEF SpeechState
  <2>11. q.position <= q.elapsed /\ q.elapsed <= q.end BY <1>1, <1>4, <2>8, <2>10
  <2>12. Position(q) = q.elapsed BY <2>9, <2>10, <2>11, PositionIs
  <2>13. Position(q) = t BY <1>1, <2>8, <2>12
  <2> HIDE DEF t
  <2>14. p.end <= q.end /\ q.end <= StartOf(b) BY <1>4, <2>8
  <2>15. p.elapsed <= p.end => q.elapsed = p.elapsed BY <1>1, <2>8
  <2>16. \E i \in a .. b - 1 : EndOf(i) > t BY <1>6 DEF due
  <2>17. \A f \in Fields \ {"sources", "end", "elapsed"} : q[f] = p[f]
    BY <2>8 DEF SpeechState, Fields
  <2> QED BY <2>8, <2>9, <2>11, <2>13, <2>14, <2>15, <2>16, <2>17 DEF q, t, due, SchedulesTo
<1> QED BY <1>5, <1>6

\* The states of a driver exclude one another as far as the operators ask.
LEMMA FitKind ==
  ASSUME NEW p \in SpeechState, NEW x, Fit(p, x)
  PROVE  /\ ~p.started => Stood(p)
         /\ p.started /\ ~p.running => Starting(p)
         /\ p.running => p.started = TRUE /\ (Refused(p) \/ Playing(p))
BY DEF Fit, Stood, Starting, Refused, Playing, SpeechState

LEMMA AppendedFollows ==
  ASSUME NEW p \in SpeechState, NEW x \in Job, Fit(p, x), p.started
  PROVE  LET chunks == Lookahead(p, x)
             q == Appended([p EXCEPT !.scheduled = @ + Cardinality(chunks)], chunks)
         IN Follows(p, q, x) /\ (Playing(p) => Playing(q))
<1> DEFINE chunks == Lookahead(p, x)
           r == [p EXCEPT !.scheduled = @ + Cardinality(chunks)]
           q == Appended(r, chunks)
<1>1. PICK b \in Nat : /\ p.scheduled <= b /\ b <= x.made
                       /\ chunks = p.scheduled .. b - 1
                       /\ p.scheduled + Cardinality(chunks) = b
  BY LookaheadIs
<1>2. r = [p EXCEPT !.scheduled = b] BY <1>1
<1>3. /\ x.base \in Nat /\ p.index \in Nat /\ p.scheduled \in Nat /\ x.made \in Nat
      /\ x.base <= p.index /\ p.index <= p.scheduled /\ p.scheduled <= x.made
      /\ Position(p) \in Nat /\ p.position \in Nat /\ p.elapsed \in Nat /\ p.end \in Nat
      /\ StartOf(p.index) <= Position(p) /\ Position(p) <= StartOf(x.made)
  BY FitFields DEF Fit, Placed
<1>4. StartOf(p.scheduled) \in Nat /\ StartOf(b) \in Nat /\ StartOf(p.scheduled) <= StartOf(b)
  BY <1>1, <1>3, ChunkFacts, ChunkOrder
<1> HIDE DEF chunks, r
<1>5. /\ r \in SpeechState /\ r.scheduled = b /\ r.job = p.job /\ r.terminal = p.terminal
      /\ r.index = p.index /\ r.started = TRUE /\ r.running = p.running /\ r.ticking = p.ticking
      /\ r.start = p.start /\ r.pending = p.pending /\ r.sources = p.sources
      /\ r.end = p.end /\ r.position = p.position /\ r.elapsed = p.elapsed /\ r.saved = p.saved
  BY <1>2 DEF SpeechState
<1>6. Position(r) = Position(p) BY <1>5 DEF Position, DriverPosition
<1>7. CASE ~p.running
  <2>1. Starting(p) BY <1>7, FitKind
  <2>2. q = [r EXCEPT !.pending = @ \cup chunks] BY <1>5, <1>7 DEF Appended
  <2>3. r.pending \cup chunks = p.index .. b - 1 BY <1>1, <1>3, <1>5, <2>1 DEF Starting
  <2>4. q = [r EXCEPT !.pending = p.index .. b - 1] BY <2>2, <2>3
  <2>5. p.index .. b - 1 \in SUBSET Nat BY <1>3
  <2> HIDE DEF q
  <2>6. /\ q \in SpeechState /\ q.scheduled = b /\ q.job = p.job /\ q.terminal = p.terminal
        /\ q.index = p.index /\ q.started = TRUE /\ q.running = p.running
        /\ q.ticking = p.ticking /\ q.start = p.start /\ q.pending = p.index .. b - 1
        /\ q.sources = p.sources /\ q.end = p.end /\ q.position = p.position
    BY <1>5, <2>4, <2>5 DEF SpeechState
  <2>7. Position(q) = Position(p) BY <1>7, <2>6 DEF Position, DriverPosition, Starting
  <2>8. Starting(q) BY <1>3, <1>4, <2>1, <2>6 DEF Starting
  <2>9. Placed(q, x) BY <1>1, <1>3, <2>6, <2>7 DEF Placed
  <2>10. ~Playing(p) BY <1>7 DEF Playing
  <2> QED BY <2>6, <2>7, <2>8, <2>9, <2>10 DEF Follows, Fit, q, r, chunks
<1>8. CASE p.running
  <2>1. Refused(p) \/ Playing(p) BY <1>8, FitKind
  <2>2. q = Scheduled(r, p.scheduled .. b - 1) BY <1>1, <1>5, <1>8 DEF Appended
  <2>3. r.running = TRUE BY <1>5, <1>8 DEF SpeechState
  <2>4. /\ r.position <= r.elapsed /\ r.position <= r.end /\ r.end <= StartOf(b)
        /\ r.elapsed > r.end => r.end = StartOf(p.scheduled)
    BY <1>3, <1>4, <1>5, <2>1 DEF Refused, Playing
  <2>5. SchedulesTo(r, q, p.scheduled, b)
    BY <1>1, <1>3, <1>5, <2>2, <2>3, <2>4, ScheduledIs
  <2> HIDE DEF q
  <2>6. /\ q.scheduled = b /\ q.job = p.job /\ q.terminal = p.terminal /\ q.index = p.index
        /\ q.started = TRUE /\ q.running = TRUE /\ q.ticking = p.ticking /\ q.start = p.start
        /\ q.pending = p.pending /\ q.position = p.position
    BY <1>5, <2>3, <2>5 DEF SchedulesTo, Fields
  <2>7. q \in SpeechState /\ q.end \in Nat /\ q.elapsed \in Nat
    BY <2>5 DEF SchedulesTo, SpeechState
  <2>8. Position(q) = Position(p) BY <1>6, <2>5 DEF SchedulesTo
  <2>9. Placed(q, x) BY <1>1, <1>3, <2>6, <2>8 DEF Placed
  <2>10. ASSUME Refused(p) PROVE Refused(q)
    <3>1. r.elapsed <= r.end BY <1>5, <2>10 DEF Refused
    <3> QED BY <1>3, <1>4, <1>5, <2>5, <2>6, <2>10, <3>1 DEF Refused, SchedulesTo
  <2>11. ASSUME Playing(p) PROVE Playing(q)
    <3>1. Position(p) <= p.end BY <1>3, <1>8, <2>11, PositionIs DEF Playing
    <3>2. \A i \in p.scheduled .. b - 1 : EndOf(i) > Position(r)
      <4> SUFFICES ASSUME NEW i \in p.scheduled .. b - 1 PROVE EndOf(i) > Position(r) OBVIOUS
      <4>1. i \in Nat /\ p.scheduled <= i BY <1>3
      <4>2. StartOf(p.scheduled) <= StartOf(i) BY <1>3, <4>1, ChunkOrder
      <4>3. StartOf(i) \in Nat /\ EndOf(i) = StartOf(i) + ChunkLength BY <4>1, ChunkFacts
      <4> QED BY <1>3, <1>4, <1>6, <2>11, <3>1, <4>2, <4>3, SpeechAssumption DEF Playing
    <3>3. q.end = StartOf(b)
      <4>1. CASE p.scheduled <= b - 1
        <5>1. p.scheduled \in p.scheduled .. b - 1 BY <1>3, <4>1
        <5> QED BY <2>5, <3>2, <5>1 DEF SchedulesTo
      <4>2. CASE ~(p.scheduled <= b - 1)
        <5>1. b = p.scheduled /\ p.scheduled .. b - 1 = {} BY <1>1, <1>3, <4>2
        <5> QED BY <1>5, <2>5, <2>11, <5>1 DEF Playing, SchedulesTo
      <4> QED BY <4>1, <4>2
    <3>4. q.elapsed <= q.end + 1
      <4>1. CASE q = r BY <1>5, <2>11, <4>1 DEF Playing
      <4>2. CASE q # r BY <2>5, <2>7, <4>2 DEF SchedulesTo
      <4> QED BY <4>1, <4>2
    <3>5. q.position <= q.end BY <1>3, <1>5, <2>5, <2>6, <2>11, <2>7 DEF Playing, SchedulesTo
    <3>6. \A i \in 0 .. b - 1 : EndOf(i) > Position(q) => i \in q.sources
      <4> SUFFICES ASSUME NEW i \in 0 .. b - 1, EndOf(i) > Position(q) PROVE i \in q.sources
        OBVIOUS
      <4>1. CASE i < p.scheduled
        <5>1. i \in 0 .. p.scheduled - 1 BY <1>3, <4>1
        <5> QED BY <1>5, <2>5, <2>8, <2>11, <5>1 DEF Playing, SchedulesTo
      <4>2. CASE ~(i < p.scheduled)
        <5>1. i \in p.scheduled .. b - 1 BY <1>3, <4>2
        <5> QED BY <2>5, <3>2, <5>1 DEF SchedulesTo
      <4> QED BY <4>1, <4>2
    <3> QED BY <2>5, <2>6, <2>11, <3>3, <3>4, <3>5, <3>6 DEF Playing, SchedulesTo
  <2> QED BY <2>1, <2>6, <2>8, <2>9, <2>10, <2>11, <2>7 DEF Follows, Fit, q, r, chunks
<1> QED BY <1>7, <1>8

\* stop of the driver: it stands where it was.
LEMMA StoppedStands ==
  ASSUME NEW p \in SpeechState, NEW x \in Job, Fit(p, x), NEW q,
         q.index = p.index, q.saved = Position(p), q \in SpeechState, q.job = p.job,
         q.terminal = p.terminal, Stood(q)
  PROVE  Follows(p, q, x)
<1>1. Position(q) = Position(p) BY DEF Stood, Position
<1>2. /\ p.index \in Nat /\ p.scheduled \in Nat /\ x.made \in Nat /\ Placed(p, x)
  BY FitFields DEF Fit
<1>3. Placed(q, x) BY <1>1, <1>2 DEF Placed, Stood
<1> QED BY <1>1, <1>3 DEF Follows, Fit

LEMMA SupersededType ==
  ASSUME NEW p \in SpeechState
  PROVE  Superseded(p) \in SUBSET {"resuming", "settled"}
BY DEF Superseded, SpeechState, Starts

LEMMA PausedFollows ==
  ASSUME NEW p \in SpeechState, NEW x \in Job, Fit(p, x)
  PROVE  Follows(p, Paused(p), x)
<1> DEFINE q == Paused(p)
<1>1. Position(p) \in Nat BY PositionIs
<1>2. q \in SpeechState BY <1>1, SupersededType DEF Paused, Stopped, NewSpeech, SpeechState
<1>3. /\ q.index = p.index /\ q.saved = Position(p) /\ q.job = p.job /\ q.terminal = p.terminal
      /\ Stood(q)
  BY DEF Paused, Stopped, NewSpeech, Stood
<1> HIDE DEF q
<1>4. Follows(p, q, x) BY <1>2, <1>3, StoppedStands
<1> QED BY <1>4 DEF q

LEMMA TickedFollows ==
  ASSUME NEW p \in SpeechState, NEW x \in Job, Fit(p, x)
  PROVE  /\ Follows(p, Ticked(p, x), x)
         /\ HasChunk(p, x) => Ticked(p, x) = p
         /\ ~HasChunk(p, x) => Stood(Ticked(p, x)) /\ ~HasChunk(Ticked(p, x), x)
<1>1. CASE HasChunk(p, x) BY <1>1 DEF Ticked, Follows
<1>2. CASE ~HasChunk(p, x)
  <2> DEFINE r == [p EXCEPT !.saved = Position(p)]
             q == Stopped(r)
  <2>1. Position(p) \in Nat BY PositionIs
  <2>2. /\ r \in SpeechState /\ r.index = p.index /\ r.saved = Position(p) /\ r.job = p.job
        /\ r.terminal = p.terminal
    BY <2>1 DEF SpeechState
  <2> HIDE DEF r
  <2>3. q \in SpeechState BY <2>2, SupersededType DEF Stopped, NewSpeech, SpeechState
  <2>4. /\ q.index = p.index /\ q.saved = Position(p) /\ q.job = p.job /\ q.terminal = p.terminal
        /\ Stood(q)
    BY <2>2 DEF Stopped, NewSpeech, Stood
  <2> HIDE DEF q
  <2>5. Follows(p, q, x) BY <2>3, <2>4, StoppedStands
  <2>6. Ticked(p, x) = q BY <1>2 DEF Ticked, q, r
  <2>7. ~HasChunk(q, x) BY <1>2, <2>4 DEF HasChunk
  <2> QED BY <1>2, <2>4, <2>5, <2>6, <2>7
<1> QED BY <1>1, <1>2

\* start of the driver: the lookahead waits for the audio context.
LEMMA StartedFollows ==
  ASSUME NEW p \in SpeechState, NEW x \in Job, Fit(p, x), ~p.started
  PROVE  Follows(p, Started(p, Lookahead(p, x)), x)
<1> DEFINE chunks == Lookahead(p, x)
           q == Started(p, chunks)
<1>1. Stood(p) BY FitKind
<1>2. PICK b \in Nat : /\ p.scheduled <= b /\ b <= x.made
                       /\ chunks = p.scheduled .. b - 1
                       /\ p.scheduled + Cardinality(chunks) = b
                       /\ b = x.made \/ StartOf(b) > Position(p) + Ahead
  BY LookaheadIs
<1>3. /\ x.base \in Nat /\ p.index \in Nat /\ x.made \in Nat /\ p.scheduled = p.index
      /\ x.base <= p.index /\ Position(p) \in Nat /\ Position(p) = p.saved /\ p.saved \in Nat
      /\ StartOf(p.index) <= Position(p) /\ Position(p) <= StartOf(x.made)
  BY <1>1, FitFields, PositionIs DEF Fit, Placed, Stood
<1>4. StartOf(b) \in Nat /\ Position(p) <= StartOf(b)
  <2>1. StartOf(b) \in Nat BY ChunkFacts
  <2>2. Ahead \in Nat BY SpeechAssumption
  <2> QED BY <1>2, <1>3, <2>1, <2>2
<1>5. p.index .. b - 1 \in SUBSET Nat BY <1>3
<1> HIDE DEF chunks
<1>6. /\ q.index = p.index /\ q.job = p.job /\ q.terminal = p.terminal /\ q.saved = p.saved
      /\ q.scheduled = p.index + Cardinality(chunks) /\ q.started = TRUE /\ q.running = FALSE
      /\ q.ticking = FALSE /\ q.start = "resuming" /\ q.sources = {} /\ q.pending = chunks
      /\ q.end = p.saved /\ q.position = p.saved
  BY DEF Started, Stopped, NewSpeech
<1>7. q.scheduled = b /\ q.pending = p.index .. b - 1 BY <1>2, <1>3, <1>6
<1>8. q \in SpeechState
  <2>1. q.scheduled \in Nat /\ q.pending \in SUBSET Nat BY <1>5, <1>7
  <2>2. q = [Stopped(p) EXCEPT !.position = p.saved, !.end = p.saved, !.pending = q.pending,
                     !.scheduled = q.scheduled, !.started = TRUE, !.start = "resuming"]
    BY <1>6 DEF Started, Stopped, NewSpeech
  <2>3. Stopped(p) \in SpeechState
    BY SupersededType DEF Stopped, NewSpeech, SpeechState
  <2> HIDE DEF q
  <2> QED BY <1>3, <2>1, <2>2, <2>3 DEF SpeechState, Starts
<1> HIDE DEF q
<1>9. Position(q) = Position(p) BY <1>3, <1>6 DEF Position, DriverPosition
<1>10. Starting(q) BY <1>3, <1>4, <1>6, <1>7 DEF Starting
<1>11. Placed(q, x) BY <1>2, <1>3, <1>6, <1>7, <1>9 DEF Placed
<1> QED BY <1>6, <1>8, <1>9, <1>10, <1>11 DEF Follows, Fit, q, chunks

\* A speech that is over has nothing left.
Silenced(p, q) ==
  /\ q \in SpeechState /\ q.job = p.job /\ q.terminal = TRUE
  /\ q.running = FALSE /\ q.pending = {}

LEMMA OverSilenced ==
  ASSUME NEW p \in SpeechState
  PROVE  Silenced(p, Over(p))
BY DEF Silenced, Over, NewSpeech, SpeechState

LEMMA UpdatedFollows ==
  ASSUME NEW p \in SpeechState, NEW x \in Job, Fit(p, x), NEW c
  PROVE  LET q == Updated(p, x, c) IN
         /\ Silenced(p, q) \/ Follows(p, q, x)
         /\ Playing(p) => q.terminal = TRUE \/ Playing(q)
         /\ Stood(p) /\ ~HasChunk(p, x) => q.terminal = TRUE \/ q = p
<1> DEFINE q == Updated(p, x, c)
<1>1. Silenced(p, Over(p)) BY OverSilenced
<1>2. CASE p.started
  <2> DEFINE chunks == Lookahead(p, x)
             w == Appended([p EXCEPT !.scheduled = @ + Cardinality(chunks)], chunks)
  <2>1. Follows(p, w, x) /\ (Playing(p) => Playing(w)) BY <1>2, AppendedFollows
  <2>2. q = Over(p) \/ q = w BY <1>2 DEF Updated
  <2>3. ~Stood(p) BY <1>2 DEF Stood
  <2> HIDE DEF w, q
  <2> QED BY <1>1, <2>1, <2>2, <2>3 DEF Silenced, q
<1>3. CASE ~p.started /\ HasChunk(p, x)
  <2>1. Follows(p, Started(p, Lookahead(p, x)), x) BY <1>3, StartedFollows
  <2>2. Follows(p, p, x) BY DEF Follows
  <2>3. q = Started(p, Lookahead(p, x)) \/ q = p BY <1>3 DEF Updated
  <2>4. ~Playing(p) BY <1>3 DEF Playing
  <2> HIDE DEF q
  <2> QED BY <1>3, <2>1, <2>2, <2>3, <2>4 DEF q
<1>4. CASE ~p.started /\ ~HasChunk(p, x)
  <2>1. Follows(p, p, x) BY DEF Follows
  <2>2. q = Over(p) \/ q = p BY <1>4 DEF Updated
  <2>3. ~Playing(p) BY <1>4 DEF Playing
  <2> HIDE DEF q
  <2> QED BY <1>1, <2>1, <2>2, <2>3 DEF Silenced, q
<1> QED BY <1>2, <1>3, <1>4

\* activate takes the pause away, which says nothing of the audio.
LEMMA UnpausedFollows ==
  ASSUME NEW p \in SpeechState, NEW x \in Job, Fit(p, x)
  PROVE  Follows(p, [p EXCEPT !.paused = FALSE], x)
<1> DEFINE q == [p EXCEPT !.paused = FALSE]
<1>1. q \in SpeechState /\ \A f \in Fields \ {"paused"} : q[f] = p[f]
  BY DEF SpeechState, Fields
<1> HIDE DEF q
<1>2. /\ q.job = p.job /\ q.terminal = p.terminal /\ q.index = p.index /\ q.saved = p.saved
      /\ q.scheduled = p.scheduled /\ q.started = p.started /\ q.running = p.running
      /\ q.ticking = p.ticking /\ q.start = p.start /\ q.sources = p.sources
      /\ q.pending = p.pending /\ q.end = p.end /\ q.position = p.position
      /\ q.elapsed = p.elapsed
  BY <1>1 DEF Fields
<1>3. Position(q) = Position(p) BY <1>2 DEF Position, DriverPosition
<1>4. Placed(q, x) BY <1>2, <1>3 DEF Fit, Placed
<1>5. (Stood(p) => Stood(q)) /\ (Starting(p) => Starting(q)) /\ (Refused(p) => Refused(q))
  BY <1>2 DEF Stood, Starting, Refused
<1>6. Playing(p) => Playing(q) BY <1>2, <1>3 DEF Playing
<1> QED BY <1>1, <1>2, <1>3, <1>4, <1>5, <1>6 DEF Follows, Fit, q

\* The index follows the position, and what it leaves may be released.
LEMMA AdvancedFollows ==
  ASSUME NEW p \in SpeechState, NEW x \in Job, Fit(p, x), Playing(p)
  PROVE  LET q == Advanced(p, x) IN
         Follows(p, q, x) /\ Playing(q) /\ p.index <= q.index /\ q.start = p.start
<1> DEFINE k == Position(p) \div ChunkLength
           m == Min({x.made, k})
           n == Max({p.index, m})
           q == Advanced(p, x)
<1>1. /\ x.base \in Nat /\ p.index \in Nat /\ p.scheduled \in Nat /\ x.made \in Nat
      /\ x.base <= p.index /\ p.index <= p.scheduled /\ p.scheduled <= x.made
      /\ Position(p) \in Nat /\ p.position \in Nat /\ p.elapsed \in Nat /\ p.end \in Nat
      /\ StartOf(p.index) <= Position(p) /\ Position(p) <= StartOf(x.made)
  BY FitFields DEF Fit, Placed
<1>2. k \in Nat /\ StartOf(k) <= Position(p) BY <1>1, ChunkAt
<1>3. Position(p) <= StartOf(p.scheduled) BY <1>1, PositionIs DEF Playing
<1>4. k <= p.scheduled
  <2>1. StartOf(k) \in Nat /\ StartOf(p.scheduled) \in Nat BY <1>1, <1>2, ChunkFacts
  <2>2. StartOf(k) <= StartOf(p.scheduled) BY <1>1, <1>2, <1>3, <2>1
  <2> QED BY <1>1, <1>2, <2>2, ChunkOrder
<1> HIDE DEF k
<1>5. m \in Nat /\ m <= k BY <1>1, <1>2, MinOfTwo
<1> HIDE DEF m
<1>6. n \in Nat /\ p.index <= n /\ n <= p.scheduled /\ (n = p.index \/ n = m)
  BY <1>1, <1>2, <1>4, <1>5, MaxOfTwo
<1>7. StartOf(n) <= Position(p)
  <2>1. StartOf(m) <= StartOf(k) /\ StartOf(m) \in Nat /\ StartOf(k) \in Nat
    BY <1>2, <1>5, ChunkOrder, ChunkFacts
  <2>2. StartOf(m) <= Position(p) BY <1>1, <1>2, <2>1
  <2> QED BY <1>1, <1>6, <2>2
<1>8. q = [p EXCEPT !.index = n] BY DEF Advanced, m, k
<1> HIDE DEF n, q
<1>9. q \in SpeechState /\ q.index = n /\ \A f \in Fields \ {"index"} : q[f] = p[f]
  BY <1>6, <1>8 DEF SpeechState, Fields
<1>10. /\ q.job = p.job /\ q.terminal = p.terminal /\ q.saved = p.saved
       /\ q.scheduled = p.scheduled /\ q.started = p.started /\ q.running = p.running
       /\ q.ticking = p.ticking /\ q.start = p.start /\ q.sources = p.sources
       /\ q.pending = p.pending /\ q.end = p.end /\ q.position = p.position
       /\ q.elapsed = p.elapsed
  BY <1>9 DEF Fields
<1>11. Position(q) = Position(p) BY <1>10 DEF Position, DriverPosition
<1>12. Playing(q) BY <1>10, <1>11 DEF Playing
<1>13. Placed(q, x) BY <1>1, <1>6, <1>7, <1>9, <1>10, <1>11 DEF Placed
<1> QED BY <1>6, <1>9, <1>10, <1>11, <1>12, <1>13 DEF Follows, Fit, q

\* The audio context resumes, or does not.
LEMMA ResumedFollows ==
  ASSUME NEW p \in SpeechState, NEW x \in Job, Fit(p, x), p.start = "resuming"
  PROVE  LET r == [p EXCEPT !.running = TRUE, !.elapsed = p.position, !.pending = {}] IN
         /\ Follows(p, [p EXCEPT !.start = "rejected"], x)
         /\ Follows(p, [r EXCEPT !.start = "rejected"], x)
         /\ Follows(p, [Scheduled(r, p.pending) EXCEPT !.start = "resolved"], x)
<1> DEFINE r == [p EXCEPT !.running = TRUE, !.elapsed = p.position, !.pending = {}]
           n == [p EXCEPT !.start = "rejected"]
           u == [r EXCEPT !.start = "rejected"]
           w == Scheduled(r, p.pending)
           q == [w EXCEPT !.start = "resolved"]
<1>1. Starting(p) /\ p.started BY DEF Fit, Stood, Starting, Refused, Playing
<1>2. /\ x.base \in Nat /\ p.index \in Nat /\ p.scheduled \in Nat /\ x.made \in Nat
      /\ x.base <= p.index /\ p.index <= p.scheduled /\ p.scheduled <= x.made
      /\ Position(p) \in Nat /\ p.position \in Nat /\ Position(p) = p.position
      /\ StartOf(p.index) <= Position(p) /\ Position(p) <= StartOf(x.made)
      /\ p.end = p.position /\ p.position <= StartOf(p.scheduled)
      /\ p.pending = p.index .. p.scheduled - 1
  BY <1>1, FitFields, PositionIs DEF Fit, Placed, Starting
<1>3. Follows(p, n, x)
  <2>1. /\ n \in SpeechState /\ n.start = "rejected"
        /\ \A f \in Fields \ {"start"} : n[f] = p[f]
    BY DEF SpeechState, Fields, Starts
  <2> HIDE DEF n
  <2>2. /\ n.job = p.job /\ n.terminal = p.terminal /\ n.saved = p.saved /\ n.index = p.index
        /\ n.scheduled = p.scheduled /\ n.started = p.started /\ n.running = p.running
        /\ n.ticking = p.ticking /\ n.sources = p.sources
        /\ n.pending = p.pending /\ n.end = p.end /\ n.position = p.position
        /\ n.elapsed = p.elapsed
    BY <2>1 DEF Fields
  <2>3. Position(n) = Position(p) BY <2>2 DEF Position, DriverPosition
  <2>4. Starting(n) BY <1>1, <2>1, <2>2 DEF Starting
  <2>5. Placed(n, x) BY <2>2, <2>3 DEF Fit, Placed
  <2> QED BY <2>1, <2>2, <2>3, <2>4, <2>5 DEF Follows, Fit
<1>4. /\ r \in SpeechState /\ r.running = TRUE /\ r.elapsed = p.position /\ r.pending = {}
      /\ \A f \in Fields \ {"running", "elapsed", "pending"} : r[f] = p[f]
  BY <1>2 DEF SpeechState, Fields
<1> HIDE DEF r
<1>5. /\ r.job = p.job /\ r.terminal = p.terminal /\ r.saved = p.saved /\ r.index = p.index
      /\ r.scheduled = p.scheduled /\ r.started = TRUE /\ r.ticking = FALSE /\ r.sources = {}
      /\ r.end = p.position /\ r.position = p.position
  BY <1>1, <1>2, <1>4 DEF Fields, Starting
<1>6. Position(r) = p.position BY <1>2, <1>4, <1>5, PositionIs
<1>7. Follows(p, u, x)
  <2>1. /\ u \in SpeechState /\ u.start = "rejected"
        /\ \A f \in Fields \ {"start"} : u[f] = r[f]
    BY <1>4 DEF SpeechState, Fields, Starts
  <2> HIDE DEF u
  <2>2. /\ u.job = p.job /\ u.terminal = p.terminal /\ u.saved = p.saved /\ u.index = p.index
        /\ u.scheduled = p.scheduled /\ u.started = TRUE /\ u.running = TRUE
        /\ u.ticking = FALSE /\ u.pending = {} /\ u.end = p.position
        /\ u.position = p.position /\ u.elapsed = p.position
    BY <1>4, <1>5, <2>1 DEF Fields
  <2>3. Position(u) = Position(p) BY <1>2, <2>1, <2>2, PositionIs
  <2>4. Refused(u) BY <1>2, <2>1, <2>2 DEF Refused
  <2>5. Placed(u, x) BY <1>2, <2>2, <2>3 DEF Placed
  <2> QED BY <2>1, <2>2, <2>3, <2>4, <2>5 DEF Follows, Fit
<1>8. Follows(p, q, x)
  <2>1. w = Scheduled(r, p.index .. p.scheduled - 1) BY <1>2
  <2>2. /\ r.position <= r.elapsed /\ r.position <= r.end /\ r.end <= StartOf(p.scheduled)
        /\ ~(r.elapsed > r.end)
    BY <1>2, <1>4, <1>5
  <2>3. SchedulesTo(r, w, p.index, p.scheduled)
    BY <1>2, <1>4, <1>5, <2>1, <2>2, ScheduledIs
  <2> HIDE DEF w
  <2>4. w.end = StartOf(p.scheduled)
    <3>1. CASE \E i \in p.index .. p.scheduled - 1 : EndOf(i) > Position(r)
      BY <2>3, <3>1 DEF SchedulesTo
    <3>2. CASE \A i \in p.index .. p.scheduled - 1 : ~(EndOf(i) > Position(r))
      <4>1. w = r BY <2>3, <3>2 DEF SchedulesTo
      <4>2. StartOf(p.scheduled) <= p.position
        <5>1. CASE p.index = p.scheduled BY <1>2, <5>1
        <5>2. CASE p.index # p.scheduled
          <6>1. p.scheduled - 1 \in p.index .. p.scheduled - 1 /\ p.scheduled - 1 \in Nat
            BY <1>2, <5>2
          <6>2. EndOf(p.scheduled - 1) = StartOf(p.scheduled) BY <1>2, <6>1, ChunkFacts
          <6>3. StartOf(p.scheduled) \in Nat BY <1>2, ChunkFacts
          <6> QED BY <1>2, <1>6, <3>2, <6>1, <6>2, <6>3
        <5> QED BY <5>1, <5>2
      <4>3. StartOf(p.scheduled) \in Nat BY <1>2, ChunkFacts
      <4> QED BY <1>2, <1>5, <4>1, <4>2, <4>3
    <3> QED BY <3>1, <3>2
  <2>5. /\ q \in SpeechState /\ q.start = "resolved"
        /\ \A f \in Fields \ {"start"} : q[f] = w[f]
    BY <2>3 DEF SpeechState, Fields, Starts, SchedulesTo
  <2> HIDE DEF q
  <2>6. \A f \in Fields \ {"sources", "end", "elapsed"} : w[f] = r[f]
    BY <2>3 DEF SchedulesTo
  <2>7. /\ q.job = p.job /\ q.terminal = p.terminal /\ q.index = p.index
        /\ q.scheduled = p.scheduled /\ q.started = TRUE /\ q.running = TRUE
        /\ q.ticking = FALSE /\ q.pending = {} /\ q.position = p.position
        /\ q.end = w.end /\ q.elapsed = w.elapsed /\ q.sources = w.sources
    BY <1>4, <1>5, <2>5, <2>6 DEF Fields
  <2>8. q.elapsed = p.position BY <1>2, <1>4, <1>5, <2>3, <2>7 DEF SchedulesTo
  <2>9. Position(q) = Position(p) BY <1>2, <2>4, <2>5, <2>7, <2>8, PositionIs
  <2>10. \A i \in 0 .. p.scheduled - 1 : EndOf(i) > p.position => i \in q.sources
    <3> SUFFICES ASSUME NEW i \in 0 .. p.scheduled - 1, EndOf(i) > p.position
                 PROVE  i \in q.sources
      OBVIOUS
    <3>1. i >= p.index
      <4> SUFFICES ASSUME ~(i >= p.index) PROVE FALSE OBVIOUS
      <4>1. i \in Nat /\ i + 1 \in Nat /\ i + 1 <= p.index BY <1>2
      <4>2. EndOf(i) = StartOf(i + 1) /\ StartOf(i + 1) <= StartOf(p.index)
        BY <1>2, <4>1, ChunkFacts, ChunkOrder
      <4>3. StartOf(i + 1) \in Nat /\ StartOf(p.index) \in Nat BY <1>2, <4>1, ChunkFacts
      <4> QED BY <1>2, <4>2, <4>3
    <3>2. i \in p.index .. p.scheduled - 1 BY <1>2, <3>1
    <3> QED BY <1>6, <2>3, <2>7, <3>2 DEF SchedulesTo
  <2>11. Playing(q)
    <3>1. StartOf(p.scheduled) \in Nat BY <1>2, ChunkFacts
    <3>2. q.position <= q.elapsed /\ q.elapsed <= q.end + 1 /\ q.position <= q.end
      BY <1>2, <2>4, <2>7, <2>8, <3>1
    <3> QED BY <1>2, <2>4, <2>5, <2>7, <2>9, <2>10, <3>2 DEF Playing
  <2>12. Placed(q, x) BY <1>2, <2>7, <2>9 DEF Placed
  <2> QED BY <2>5, <2>7, <2>9, <2>11, <2>12 DEF Follows, Fit
<1> QED BY <1>3, <1>7, <1>8 DEF r

\* The clock: the position moves by one at most, and over a scheduled chunk.
LEMMA ClockMoves ==
  ASSUME NEW p \in SpeechState, NEW x \in Job, Fit(p, x), p.running, p.elapsed <= p.end,
         p.start # "rejected"
  PROVE  LET q == [p EXCEPT !.elapsed = @ + 1] IN
         /\ q \in SpeechState /\ q.job = p.job /\ q.terminal = p.terminal /\ Fit(q, x)
         /\ Position(p) <= Position(q) /\ q.elapsed = p.elapsed + 1
         /\ Position(q) # Position(p) =>
              Position(q) = Position(p) + 1 /\ Position(p) \div ChunkLength \in q.sources
<1> DEFINE q == [p EXCEPT !.elapsed = @ + 1]
<1>1. Playing(p) /\ p.started /\ p.terminal \in BOOLEAN BY FitKind DEF Refused, SpeechState
<1>2. /\ x.base \in Nat /\ p.index \in Nat /\ p.scheduled \in Nat /\ x.made \in Nat
      /\ x.base <= p.index /\ p.index <= p.scheduled /\ p.scheduled <= x.made
      /\ Position(p) \in Nat /\ p.position \in Nat /\ p.elapsed \in Nat /\ p.end \in Nat
      /\ StartOf(p.index) <= Position(p) /\ Position(p) <= StartOf(x.made)
      /\ p.position <= p.elapsed /\ p.position <= p.end /\ p.end = StartOf(p.scheduled)
      /\ Position(p) = p.elapsed
  BY <1>1, FitFields, PositionIs DEF Fit, Placed, Playing
<1>3. /\ q \in SpeechState /\ q.elapsed = p.elapsed + 1
      /\ \A f \in Fields \ {"elapsed"} : q[f] = p[f]
  BY <1>2 DEF SpeechState, Fields
<1> HIDE DEF q
<1>4. /\ q.job = p.job /\ q.terminal = p.terminal /\ q.saved = p.saved /\ q.index = p.index
      /\ q.scheduled = p.scheduled /\ q.started = p.started /\ q.running = p.running
      /\ q.ticking = p.ticking /\ q.start = p.start /\ q.sources = p.sources
      /\ q.pending = p.pending /\ q.end = p.end /\ q.position = p.position
  BY <1>3 DEF Fields
<1>5. Position(q) = IF p.elapsed + 1 <= p.end THEN p.elapsed + 1 ELSE p.end
  <2>1. q.started = TRUE /\ q.running = TRUE BY <1>1, <1>4 DEF Playing
  <2>2. q.position <= q.elapsed BY <1>2, <1>3, <1>4
  <2> QED BY <1>3, <1>4, <2>1, <2>2, PositionIs
<1>6. StartOf(p.scheduled) \in Nat /\ StartOf(x.made) \in Nat
      /\ StartOf(p.scheduled) <= StartOf(x.made) /\ StartOf(p.index) \in Nat
  BY <1>2, ChunkFacts, ChunkOrder
<1>7. Placed(q, x) BY <1>2, <1>4, <1>5, <1>6 DEF Placed
<1>8. Playing(q)
  <2>1. \A i \in 0 .. p.scheduled - 1 : EndOf(i) > Position(q) => EndOf(i) > Position(p)
    <3> SUFFICES ASSUME NEW i \in 0 .. p.scheduled - 1, EndOf(i) > Position(q)
                 PROVE  EndOf(i) > Position(p)
      OBVIOUS
    <3>1. EndOf(i) \in Nat BY <1>2, ChunkFacts
    <3> QED BY <1>2, <1>5, <3>1
  <2> QED BY <1>1, <1>2, <1>3, <1>4, <2>1 DEF Playing
<1>9. Position(q) # Position(p) =>
        Position(q) = Position(p) + 1 /\ Position(p) \div ChunkLength \in q.sources
  <2> SUFFICES ASSUME Position(q) # Position(p)
               PROVE  /\ Position(q) = Position(p) + 1
                      /\ Position(p) \div ChunkLength \in q.sources
    OBVIOUS
  <2>1. p.elapsed < p.end /\ Position(q) = Position(p) + 1 BY <1>2, <1>5
  <2> DEFINE k == Position(p) \div ChunkLength
  <2>2. k \in Nat /\ StartOf(k) <= Position(p) /\ EndOf(k) > Position(p)
    BY <1>2, ChunkAt, ChunkFacts
  <2> HIDE DEF k
  <2>3. StartOf(k) \in Nat BY <2>2, ChunkFacts
  <2>4. ~(StartOf(p.scheduled) <= StartOf(k)) BY <1>2, <1>6, <2>1, <2>2, <2>3
  <2>5. k < p.scheduled BY <1>2, <2>2, <2>4, ChunkOrder
  <2>6. k \in 0 .. p.scheduled - 1 BY <1>2, <2>2, <2>5
  <2>7. k \in p.sources BY <1>1, <2>2, <2>6 DEF Playing
  <2> QED BY <1>4, <2>1, <2>7 DEF k
<1>10. Position(p) <= Position(q) BY <1>2, <1>5
<1> QED BY <1>3, <1>4, <1>7, <1>8, <1>9, <1>10 DEF Fit, q

\* More chunks, or fewer that are kept, leave a speech where it is.
LEMMA FitKeeps ==
  ASSUME NEW p \in SpeechState, NEW x \in Job, Fit(p, x), NEW y \in Job,
         x.made <= y.made, y.base <= p.index
  PROVE  Fit(p, y)
<1>1. /\ p.index \in Nat /\ p.scheduled \in Nat /\ x.made \in Nat /\ p.scheduled <= x.made
      /\ y.made \in Nat /\ Position(p) \in Nat /\ Placed(p, x)
  BY FitFields DEF Fit, Job
<1>2. StartOf(x.made) <= StartOf(y.made) /\ StartOf(x.made) \in Nat /\ StartOf(y.made) \in Nat
  BY <1>1, ChunkFacts, ChunkOrder
<1>3. Placed(p, y) BY <1>1, <1>2 DEF Placed
<1> QED BY <1>3 DEF Fit

----------------------------------------------------------------------------
(* The invariant, of any jobs, speeches and pump: the operations of a turn *)
(* are followed one after the other.                                       *)

JobFits(x) ==
  /\ x \in Job /\ x.base <= x.made /\ (x.opt.retained => x.base = 0)
  /\ ~x.done => x.segment \in 1 .. Len(x.opt.pauses)

SpeechFits(p, js) ==
  /\ p \in SpeechState /\ p.job \in DOMAIN js
  /\ IF p.terminal THEN p.running = FALSE /\ p.pending = {}
     ELSE Fit(p, js[p.job]) /\ ~js[p.job].disposed

\* Direct speech is not far ahead, and a synthesis is asked for what is needed.
Near(p, x, pm) ==
  ~x.opt.retained =>
    /\ Duration(x) < Position(p) + Ahead + ChunkLength
    /\ pm.at = "synthesize" /\ pm.job = p.job => Duration(x) < Position(p) + Ahead

PumpFits(js, pm) == pm \in {Idle, Queued} \cup [at : {"prepare", "synthesize"}, job : DOMAIN js]

\* A direct generation has one speech that is not over, at most.
World(js, ss, pm) ==
  /\ js \in Seq(Job) /\ \A j \in DOMAIN js : JobFits(js[j])
  /\ \A s \in DOMAIN ss : SpeechFits(ss[s], js)
  /\ \A s \in DOMAIN ss : ~ss[s].terminal => Near(ss[s], js[ss[s].job], pm)
  /\ \A s, t \in DOMAIN ss :
       /\ ~ss[s].terminal /\ ~ss[t].terminal /\ ss[s].job = ss[t].job
       /\ ~js[ss[s].job].opt.retained
       => s = t
  /\ PumpFits(js, pm)

PlaybackInv == World(jobs, speeches, pump)

\* No speech that goes on has moved, and each is still of its generation.
Kept(ss, rr) ==
  \A s \in DOMAIN ss :
    /\ s \in DOMAIN rr /\ rr[s].job = ss[s].job
    /\ ~rr[s].terminal => Position(rr[s]) = Position(ss[s])

LEMMA KeptTransitive ==
  ASSUME NEW ss, NEW rr, NEW tt, Kept(ss, rr), Kept(rr, tt),
         \A s \in DOMAIN ss : ss[s].terminal => rr[s].terminal,
         \A s \in DOMAIN rr : rr[s].terminal => tt[s].terminal
  PROVE  Kept(ss, tt)
BY DEF Kept

LEMMA JobFields ==
  ASSUME NEW x \in Job
  PROVE  /\ x.made \in Nat /\ x.base \in Nat /\ x.opt \in Options /\ x.opt \in OptionRecord
         /\ x.opt.retained \in BOOLEAN /\ x.opt.pauses \in Seq(Nat)
         /\ Len(x.opt.pauses) \in Nat \ {0} /\ Duration(x) = StartOf(x.made)
<1>1. x.made \in Nat /\ x.base \in Nat /\ x.opt \in Options BY DEF Job
<1>2. x.opt \in OptionRecord /\ x.opt.pauses # <<>> BY <1>1, SpeechAssumption
<1>3. x.opt.retained \in BOOLEAN /\ x.opt.pauses \in Seq(Nat) BY <1>2 DEF OptionRecord
<1>4. Len(x.opt.pauses) \in Nat \ {0} BY <1>2, <1>3, EmptySeq
<1> QED BY <1>1, <1>2, <1>3, <1>4 DEF Duration, StartOf

LEMMA NewJobFits ==
  ASSUME NEW o \in Options
  PROVE  /\ JobFits(NewJob(o)) /\ NewJob(o).opt = o /\ NewJob(o).made = 0
         /\ NewJob(o).disposed = FALSE
<1> DEFINE x == NewJob(o)
<1>1. x \in Job BY DEF NewJob, Job
<1>2. x.segment = 1 /\ x.made = 0 /\ x.base = 0 /\ x.opt = o /\ x.disposed = FALSE BY DEF NewJob
<1> HIDE DEF x
<1>3. Len(x.opt.pauses) \in Nat \ {0} BY <1>1, JobFields
<1> QED BY <1>1, <1>2, <1>3 DEF JobFits, x

LEMMA DisposedFits ==
  ASSUME NEW x, JobFits(x)
  PROVE  JobFits(Disposed(x)) /\ Disposed(x).opt = x.opt
<1>1. x \in Job /\ x.opt \in Options BY JobFields DEF JobFits
<1> DEFINE n == NewJob(x.opt)
           y == Disposed(x)
<1>2. JobFits(n) /\ n.opt = x.opt /\ n \in Job BY <1>1, NewJobFits DEF JobFits
<1>3. y = [[n EXCEPT !.disposed = TRUE, !.spoken = x.spoken] EXCEPT !.awaited = FALSE]
  BY DEF Disposed, Signalled
<1>4. x.spoken \in BOOLEAN BY <1>1 DEF Job
<1> HIDE DEF n, y
<1>5. /\ y \in Job /\ y.base = n.base /\ y.made = n.made /\ y.opt = n.opt /\ y.done = n.done
      /\ y.segment = n.segment
  BY <1>2, <1>3, <1>4 DEF Job
<1> QED BY <1>2, <1>5 DEF JobFits, y

\* Speeches go on, or are over.
LEMMA SpeechesTurn ==
  ASSUME NEW js, NEW ss, NEW pm, World(js, ss, pm), NEW rr, DOMAIN rr = DOMAIN ss,
         \A s \in DOMAIN ss :
           \/ rr[s] = ss[s] \/ Silenced(ss[s], rr[s])
           \/ ~ss[s].terminal /\ Follows(ss[s], rr[s], js[ss[s].job])
  PROVE  World(js, rr, pm) /\ Kept(ss, rr)
<1>1. \A s \in DOMAIN ss :
        /\ SpeechFits(rr[s], js) /\ rr[s].job = ss[s].job
        /\ ~rr[s].terminal => ~ss[s].terminal /\ Position(rr[s]) = Position(ss[s])
  <2> SUFFICES ASSUME NEW s \in DOMAIN ss
               PROVE  /\ SpeechFits(rr[s], js) /\ rr[s].job = ss[s].job
                      /\ ~rr[s].terminal => ~ss[s].terminal /\ Position(rr[s]) = Position(ss[s])
    OBVIOUS
  <2>1. SpeechFits(ss[s], js) BY DEF World
  <2>2. CASE rr[s] = ss[s] BY <2>1, <2>2
  <2>3. CASE Silenced(ss[s], rr[s]) BY <2>1, <2>3 DEF Silenced, SpeechFits
  <2>4. CASE ~ss[s].terminal /\ Follows(ss[s], rr[s], js[ss[s].job])
    BY <2>1, <2>4 DEF Follows, SpeechFits
  <2> QED BY <2>2, <2>3, <2>4
<1>2. \A s \in DOMAIN rr : ~rr[s].terminal => Near(rr[s], js[rr[s].job], pm)
  BY <1>1 DEF World, Near
<1>3. \A s, t \in DOMAIN rr :
       /\ ~rr[s].terminal /\ ~rr[t].terminal /\ rr[s].job = rr[t].job
       /\ ~js[rr[s].job].opt.retained
       => s = t
  BY <1>1 DEF World
<1>4. Kept(ss, rr) BY <1>1 DEF Kept
<1>5. js \in Seq(Job) /\ (\A j \in DOMAIN js : JobFits(js[j])) /\ PumpFits(js, pm) BY DEF World
<1> QED BY <1>1, <1>2, <1>3, <1>4, <1>5 DEF World

\* Jobs change, and leave what a speech that goes on has of them.
LEMMA JobsTurn ==
  ASSUME NEW js, NEW ss, NEW pm, World(js, ss, pm), NEW ks, DOMAIN ks = DOMAIN js,
         ks = [j \in DOMAIN ks |-> ks[j]],
         \A j \in DOMAIN js : JobFits(ks[j]) /\ ks[j].opt = js[j].opt,
         \A s \in DOMAIN ss : ~ss[s].terminal =>
           LET x == js[ss[s].job]  y == ks[ss[s].job] IN
           y.made = x.made /\ y.base <= ss[s].index /\ y.disposed = x.disposed
  PROVE  World(ks, ss, pm)
<1>1. Len(js) \in Nat /\ DOMAIN js = 1 .. Len(js) BY LenProperties DEF World
<1>2. \A j \in DOMAIN ks : ks[j] \in Job BY DEF JobFits
<1>3. ks \in [1 .. Len(js) -> Job] BY <1>1, <1>2
<1>4. ks \in Seq(Job) BY <1>1, <1>3, SeqDef
<1>5. \A s \in DOMAIN ss : SpeechFits(ss[s], ks)
  <2> SUFFICES ASSUME NEW s \in DOMAIN ss PROVE SpeechFits(ss[s], ks) OBVIOUS
  <2>1. SpeechFits(ss[s], js) BY DEF World
  <2>2. CASE ss[s].terminal BY <2>1, <2>2 DEF SpeechFits
  <2>3. CASE ~ss[s].terminal
    <3> DEFINE p == ss[s]
               x == js[p.job]
               y == ks[p.job]
    <3>1. /\ p \in SpeechState /\ p.job \in DOMAIN js /\ Fit(p, x) /\ ~x.disposed
          /\ x \in Job /\ y \in Job
      BY <1>2, <2>1, <2>3 DEF SpeechFits, World, JobFits
    <3>2. y.made = x.made /\ y.base <= p.index /\ y.disposed = x.disposed BY <2>3
    <3>3. x.made <= y.made BY <3>1, <3>2, JobFields
    <3> HIDE DEF x, y
    <3>4. Fit(p, y) BY <3>1, <3>2, <3>3, FitKeeps
    <3> QED BY <2>3, <3>1, <3>2, <3>4 DEF SpeechFits, x, y
  <2> QED BY <2>2, <2>3
<1>6. \A s \in DOMAIN ss : ss[s].job \in DOMAIN js BY DEF World, SpeechFits
<1>7. \A s \in DOMAIN ss : ~ss[s].terminal => Near(ss[s], ks[ss[s].job], pm)
  BY <1>6 DEF World, Near, Duration
<1>8. \A s, t \in DOMAIN ss :
       /\ ~ss[s].terminal /\ ~ss[t].terminal /\ ss[s].job = ss[t].job
       /\ ~ks[ss[s].job].opt.retained
       => s = t
  BY <1>6 DEF World
<1>9. PumpFits(ks, pm) BY DEF World, PumpFits
<1> QED BY <1>4, <1>5, <1>7, <1>8, <1>9 DEF World

\* One chunk more, of a generation that is kept or needed.
LEMMA ChunkTurn ==
  ASSUME NEW js, NEW ss, NEW pm, World(js, ss, pm), pm.at # "synthesize", NEW j \in DOMAIN js,
         \A s \in DOMAIN ss :
           ~ss[s].terminal /\ ss[s].job = j /\ ~js[j].opt.retained =>
             Duration(js[j]) < Position(ss[s]) + Ahead
  PROVE  World([js EXCEPT ![j].made = @ + 1], ss, pm)
<1> DEFINE ks == [js EXCEPT ![j].made = @ + 1]
           y == [js[j] EXCEPT !.made = @ + 1]
<1>1. Len(js) \in Nat /\ DOMAIN js = 1 .. Len(js) BY LenProperties DEF World
<1>2. JobFits(js[j]) /\ js[j] \in Job /\ js[j].made \in Nat BY JobFields DEF World, JobFits
<1>3. /\ y \in Job /\ y.made = js[j].made + 1 /\ y.base = js[j].base /\ y.opt = js[j].opt
      /\ y.disposed = js[j].disposed /\ y.done = js[j].done /\ y.segment = js[j].segment
  BY <1>2 DEF Job
<1>4. y.base \in Nat /\ y.base <= js[j].made BY <1>2, <1>3 DEF JobFits, Job
<1>5. JobFits(y) BY <1>2, <1>3, <1>4 DEF JobFits
<1>6. ks = [i \in DOMAIN js |-> IF i = j THEN y ELSE js[i]] OBVIOUS
<1> HIDE DEF y, ks
<1>7. \A i \in DOMAIN ks : JobFits(ks[i]) BY <1>5, <1>6 DEF World
<1>8. ks \in Seq(Job)
  <2>1. ks \in [1 .. Len(js) -> Job] BY <1>1, <1>6, <1>7 DEF JobFits
  <2> QED BY <1>1, <2>1, SeqDef
<1>9. \A s \in DOMAIN ss : SpeechFits(ss[s], ks)
  <2> SUFFICES ASSUME NEW s \in DOMAIN ss PROVE SpeechFits(ss[s], ks) OBVIOUS
  <2>1. SpeechFits(ss[s], js) BY DEF World
  <2>2. CASE ss[s].terminal \/ ss[s].job # j BY <1>6, <2>1, <2>2 DEF SpeechFits
  <2>3. CASE ~ss[s].terminal /\ ss[s].job = j
    <3>1. ss[s] \in SpeechState /\ Fit(ss[s], js[j]) /\ ~js[j].disposed
      BY <2>1, <2>3 DEF SpeechFits
    <3>2. y.base <= ss[s].index BY <1>3, <3>1 DEF Fit, Placed
    <3>3. js[j].made <= y.made BY <1>2, <1>3
    <3>4. Fit(ss[s], y) BY <1>2, <1>3, <3>1, <3>2, <3>3, FitKeeps
    <3>5. ks[j] = y BY <1>6
    <3> QED BY <1>3, <1>6, <2>1, <2>3, <3>1, <3>4, <3>5 DEF SpeechFits
  <2> QED BY <2>2, <2>3
<1>10. \A s \in DOMAIN ss : ~ss[s].terminal => Near(ss[s], ks[ss[s].job], pm)
  <2> SUFFICES ASSUME NEW s \in DOMAIN ss, ~ss[s].terminal
               PROVE  Near(ss[s], ks[ss[s].job], pm)
    OBVIOUS
  <2>1. Near(ss[s], js[ss[s].job], pm) /\ ss[s].job \in DOMAIN js BY DEF World, SpeechFits
  <2>2. CASE ss[s].job # j BY <1>6, <2>1, <2>2
  <2>3. CASE ss[s].job = j
    <3>1. Position(ss[s]) \in Nat BY PositionIs DEF World, SpeechFits
    <3>2. ks[j] = y /\ y.opt = js[j].opt BY <1>3, <1>6
    <3>3. Duration(y) = Duration(js[j]) + ChunkLength /\ Duration(js[j]) \in Nat
      BY <1>2, <1>3, SpeechAssumption DEF Duration
    <3>4. ~y.opt.retained => Duration(y) < Position(ss[s]) + Ahead + ChunkLength
      BY <2>3, <3>1, <3>2, <3>3, SpeechAssumption
    <3> QED BY <2>3, <3>2, <3>4 DEF Near
  <2> QED BY <2>2, <2>3
<1>11. \A i \in DOMAIN js : ks[i].opt = js[i].opt BY <1>3, <1>6
<1>12. \A s, t \in DOMAIN ss :
       /\ ~ss[s].terminal /\ ~ss[t].terminal /\ ss[s].job = ss[t].job
       /\ ~ks[ss[s].job].opt.retained
       => s = t
  BY <1>11 DEF World, SpeechFits
<1>13. PumpFits(ks, pm) BY <1>6 DEF World, PumpFits
<1> QED BY <1>7, <1>8, <1>9, <1>10, <1>12, <1>13 DEF World, ks

\* The pump rests or is woken.
LEMMA PumpTurn ==
  ASSUME NEW js, NEW ss, NEW pm, World(js, ss, pm), NEW qm \in {Idle, Queued, pm}
  PROVE  World(js, ss, qm)
<1>1. CASE qm = pm BY <1>1
<1>2. CASE qm \in {Idle, Queued}
  <2>1. qm.at # "synthesize" BY <1>2 DEF Idle, Queued
  <2>2. PumpFits(js, qm) BY <1>2 DEF PumpFits
  <2>3. \A s \in DOMAIN ss : ~ss[s].terminal => Near(ss[s], js[ss[s].job], qm)
    BY <2>1 DEF World, Near
  <2> QED BY <2>2, <2>3 DEF World
<1> QED BY <1>1, <1>2

----------------------------------------------------------------------------
(* The operations that end, signal and activate speeches.                  *)

\* Generations without a speech that goes on are disposed.
LEMMA DisposalTurn ==
  ASSUME NEW js, NEW ss, NEW pm, World(js, ss, pm), NEW D,
         \A s \in DOMAIN ss : ss[s].job \in D => ss[s].terminal
  PROVE  World([j \in DOMAIN js |-> IF j \in D THEN Disposed(js[j]) ELSE js[j]], ss, pm)
<1> DEFINE ks == [j \in DOMAIN js |-> IF j \in D THEN Disposed(js[j]) ELSE js[j]]
<1>1. \A j \in DOMAIN js : JobFits(ks[j]) /\ ks[j].opt = js[j].opt
  BY DisposedFits DEF World
<1>2. \A s \in DOMAIN ss : ~ss[s].terminal =>
        /\ ss[s].job \in DOMAIN js /\ ks[ss[s].job] = js[ss[s].job]
        /\ js[ss[s].job].base <= ss[s].index
  BY DEF World, SpeechFits, Fit, Placed
<1>3. DOMAIN ks = DOMAIN js /\ ks = [j \in DOMAIN ks |-> ks[j]] OBVIOUS
<1> HIDE DEF ks
<1>4. World(ks, ss, pm) BY <1>1, <1>2, <1>3, JobsTurn
<1> QED BY <1>4 DEF ks

LEMMA BecomesTurn ==
  ASSUME NEW js, NEW ss, NEW pm, World(js, ss, pm), NEW s \in DOMAIN ss, ~ss[s].terminal, NEW p,
         Silenced(ss[s], p) \/ Follows(ss[s], p, js[ss[s].job]), Becomes(js, ss, s, p)
  PROVE  World(jobs', speeches', pm) /\ Kept(ss, speeches')
<1> DEFINE rr == [ss EXCEPT ![s] = p]
           D == IF p.terminal /\ ~js[p.job].opt.retained THEN {p.job} ELSE {}
           ks == [j \in DOMAIN js |-> IF j \in D THEN Disposed(js[j]) ELSE js[j]]
<1>1. DOMAIN rr = DOMAIN ss /\ \A t \in DOMAIN ss : rr[t] = IF t = s THEN p ELSE ss[t] OBVIOUS
<1> HIDE DEF rr
<1>2. World(js, rr, pm) /\ Kept(ss, rr) BY <1>1, SpeechesTurn
<1>3. p.job = ss[s].job BY DEF Silenced, Follows
<1>4. \A t \in DOMAIN rr : rr[t].job \in D => rr[t].terminal
  BY <1>1, <1>3 DEF World
<1>5. World(ks, rr, pm) BY <1>2, <1>4, DisposalTurn
<1>6. speeches' = rr BY DEF Becomes, rr
<1>7. jobs' = ks
  <2>1. js = [j \in DOMAIN js |-> js[j]] BY DEF World
  <2>2. p.job \in DOMAIN js BY <1>3 DEF World, SpeechFits
  <2>3. CASE p.terminal /\ ~js[p.job].opt.retained BY <2>2, <2>3 DEF Becomes
  <2>4. CASE ~(p.terminal /\ ~js[p.job].opt.retained) BY <2>1, <2>4 DEF Becomes
  <2> QED BY <2>3, <2>4
<1> HIDE DEF ks
<1> QED BY <1>2, <1>5, <1>6, <1>7

LEMMA EndTurn ==
  ASSUME NEW pm, World(jobs, speeches, pm), NEW S, NEW D,
         \A s \in DOMAIN speeches : speeches[s].job \in D /\ ~speeches[s].terminal => s \in S,
         End(S, D)
  PROVE  World(jobs', speeches', pm) /\ Kept(speeches, speeches')
<1> DEFINE rr == [s \in DOMAIN speeches |-> IF s \in S THEN Over(speeches[s]) ELSE speeches[s]]
           ks == [j \in DOMAIN jobs |-> IF j \in D THEN Disposed(jobs[j]) ELSE jobs[j]]
<1>1. speeches' = rr /\ jobs' = ks BY DEF End
<1>2. \A s \in DOMAIN speeches : speeches[s] \in SpeechState BY DEF World, SpeechFits
<1>3. DOMAIN rr = DOMAIN speeches
      /\ \A s \in DOMAIN speeches : rr[s] = speeches[s] \/ Silenced(speeches[s], rr[s])
  BY <1>2, OverSilenced
<1>4. \A s \in DOMAIN rr : rr[s].job \in D => rr[s].terminal
  <2> SUFFICES ASSUME NEW s \in DOMAIN speeches, rr[s].job \in D PROVE rr[s].terminal OBVIOUS
  <2>1. CASE s \in S BY <1>2, <2>1, OverSilenced DEF Silenced
  <2>2. CASE s \notin S BY <2>2
  <2> QED BY <2>1, <2>2
<1> HIDE DEF rr
<1>5. World(jobs, rr, pm) /\ Kept(speeches, rr) BY <1>3, SpeechesTurn
<1>6. World(ks, rr, pm) BY <1>4, <1>5, DisposalTurn
<1> HIDE DEF ks
<1> QED BY <1>1, <1>5, <1>6

LEMMA FinishTurn ==
  ASSUME NEW pm, World(jobs, speeches, pm), NEW s \in DOMAIN speeches, ~speeches[s].terminal,
         Finish(s)
  PROVE  World(jobs', speeches', pm) /\ Kept(speeches, speeches')
<1> DEFINE D == {j \in DOMAIN jobs : j = speeches[s].job /\ ~jobs[j].opt.retained}
<1>1. \A t \in DOMAIN speeches : speeches[t].job \in D /\ ~speeches[t].terminal => t \in {s}
  BY DEF World
<1>2. End({s}, D) BY DEF Finish
<1> HIDE DEF D
<1> QED BY <1>1, <1>2, EndTurn

LEMMA SignalTurn ==
  ASSUME VoiceInv, NEW pm, NEW js, World(js, speeches, pm), NEW j \in DOMAIN js, NEW c,
         Signal(js, j, c)
  PROVE  World(jobs', speeches', pm) /\ Kept(speeches, speeches')
<1> DEFINE ks == [js EXCEPT ![j] = Signalled(@)]
<1>1. \A i \in DOMAIN js :
        /\ JobFits(ks[i]) /\ ks[i].opt = js[i].opt /\ ks[i].made = js[i].made
        /\ ks[i].base = js[i].base /\ ks[i].disposed = js[i].disposed
  <2> SUFFICES ASSUME NEW i \in DOMAIN js
               PROVE  /\ JobFits(ks[i]) /\ ks[i].opt = js[i].opt /\ ks[i].made = js[i].made
                      /\ ks[i].base = js[i].base /\ ks[i].disposed = js[i].disposed
    OBVIOUS
  <2>1. JobFits(js[i]) BY DEF World
  <2> QED BY <2>1 DEF Signalled, JobFits, Job
<1>2. DOMAIN ks = DOMAIN js /\ ks = [i \in DOMAIN ks |-> ks[i]] OBVIOUS
<1> HIDE DEF ks
<1>3. \A s \in DOMAIN speeches : ~speeches[s].terminal =>
        LET x == js[speeches[s].job]  y == ks[speeches[s].job] IN
        y.made = x.made /\ y.base <= speeches[s].index /\ y.disposed = x.disposed
  BY <1>1 DEF World, SpeechFits, Fit, Placed
<1>4. World(ks, speeches, pm) BY <1>1, <1>2, <1>3, JobsTurn
<1>5. CASE active # None /\ speeches[active].job = j
  <2> DEFINE p == Updated(speeches[active], js[j], c)
  <2>1. active \in DOMAIN speeches /\ ~speeches[active].terminal
    BY <1>5 DEF VoiceInv, Live
  <2>2. Becomes(ks, speeches, active, p) BY <1>5 DEF Signal, ks
  <2>3. /\ speeches[active] \in SpeechState /\ js[j] \in Job /\ ks[j] \in Job
        /\ Fit(speeches[active], js[j])
    BY <1>1, <1>5, <2>1 DEF World, SpeechFits, JobFits
  <2>4. Silenced(speeches[active], p) \/ Follows(speeches[active], p, js[j])
    BY <2>3, UpdatedFollows
  <2> HIDE DEF p
  <2>5. Follows(speeches[active], p, js[j]) => Follows(speeches[active], p, ks[j])
    <3> SUFFICES ASSUME Follows(speeches[active], p, js[j])
                 PROVE  Follows(speeches[active], p, ks[j])
      OBVIOUS
    <3>1. p \in SpeechState /\ Fit(p, js[j]) /\ js[j].base <= p.index
      BY DEF Follows, Fit, Placed
    <3>2. js[j].made <= ks[j].made /\ ks[j].base <= p.index BY <1>1, <2>3, <3>1, JobFields
    <3>3. Fit(p, ks[j]) BY <2>3, <3>1, <3>2, FitKeeps
    <3> QED BY <3>3 DEF Follows
  <2> QED BY <1>4, <1>5, <2>1, <2>2, <2>4, <2>5, BecomesTurn
<1>6. CASE ~(active # None /\ speeches[active].job = j)
  <2>1. jobs' = ks /\ speeches' = speeches BY <1>6 DEF Signal, ks
  <2> QED BY <1>4, <2>1 DEF Kept
<1> QED BY <1>5, <1>6

LEMMA ActivateTurn ==
  ASSUME NEW js, NEW ss, NEW pm, World(js, ss, pm), NEW s \in DOMAIN ss, ~ss[s].terminal,
         active \in DOMAIN ss => ~ss[active].terminal,
         NEW c, Activate(js, ss, s, c)
  PROVE  World(jobs', speeches', pm) /\ Kept(ss, speeches')
<1> DEFINE q == [ss[s] EXCEPT !.paused = FALSE]
           x == js[ss[s].job]
           p == Updated(q, x, c)
           rr == [t \in DOMAIN ss |-> IF t = active /\ t # s THEN Paused(ss[t]) ELSE ss[t]]
<1>1. Becomes(js, rr, s, p) BY DEF Activate
<1>2. \A t \in DOMAIN ss : ~ss[t].terminal =>
        ss[t] \in SpeechState /\ js[ss[t].job] \in Job /\ Fit(ss[t], js[ss[t].job])
  BY DEF World, SpeechFits, JobFits
<1>3. DOMAIN rr = DOMAIN ss
      /\ \A t \in DOMAIN ss : rr[t] = ss[t] \/ (~ss[t].terminal /\ Follows(ss[t], rr[t], js[ss[t].job]))
  <2>1. ASSUME NEW t \in DOMAIN ss, t = active
        PROVE  ~ss[t].terminal /\ Follows(ss[t], Paused(ss[t]), js[ss[t].job])
    BY <1>2, <2>1, PausedFollows
  <2>2. ASSUME NEW t \in DOMAIN ss
        PROVE  rr[t] = ss[t] \/ (~ss[t].terminal /\ Follows(ss[t], rr[t], js[ss[t].job]))
    <3>1. CASE t = active /\ t # s
      <4>1. rr[t] = Paused(ss[t]) BY <3>1
      <4> HIDE DEF rr
      <4> QED BY <2>1, <3>1, <4>1
    <3>2. CASE ~(t = active /\ t # s)
      <4>1. rr[t] = ss[t] BY <3>2
      <4> HIDE DEF rr
      <4> QED BY <4>1
    <3> QED BY <3>1, <3>2
  <2>3. DOMAIN rr = DOMAIN ss OBVIOUS
  <2> HIDE DEF rr
  <2> QED BY <2>2, <2>3
<1>4. rr[s] = ss[s] OBVIOUS
<1> HIDE DEF rr
<1>5. World(js, rr, pm) /\ Kept(ss, rr) BY <1>3, SpeechesTurn
<1>6. Follows(ss[s], q, x) BY <1>2, UnpausedFollows
<1> HIDE DEF q
<1>7. q \in SpeechState /\ x \in Job /\ Fit(q, x) BY <1>2, <1>6 DEF Follows
<1>8. Silenced(q, p) \/ Follows(q, p, x) BY <1>7, UpdatedFollows
<1> HIDE DEF p
<1>9. Silenced(ss[s], p) \/ Follows(ss[s], p, x) BY <1>6, <1>8 DEF Silenced, Follows
<1>10. s \in DOMAIN rr /\ ~rr[s].terminal /\ x = js[rr[s].job] BY <1>3, <1>4
<1> HIDE DEF x
<1>11. World(jobs', speeches', pm) /\ Kept(rr, speeches')
  BY <1>1, <1>4, <1>5, <1>9, <1>10, BecomesTurn
<1>12. Kept(ss, speeches')
  <2>1. \A t \in DOMAIN ss : ss[t].terminal => rr[t].terminal BY <1>3 DEF Follows
  <2>2. \A t \in DOMAIN rr : rr[t].terminal => speeches'[t].terminal
    BY <1>1, <1>4, <1>10 DEF Becomes
  <2> QED BY <1>5, <1>11, <2>1, <2>2, KeptTransitive
<1> QED BY <1>11, <1>12

----------------------------------------------------------------------------
(* The callers.                                                            *)

LEMMA AppendJobTurn ==
  ASSUME NEW js, NEW ss, NEW pm, World(js, ss, pm), NEW o \in Options
  PROVE  LET n == Len(js) + 1  ks == Append(js, NewJob(o)) IN
         /\ World(ks, ss, pm) /\ n \in DOMAIN ks /\ n \notin DOMAIN js /\ ks[n] = NewJob(o)
         /\ \A s \in DOMAIN ss : ss[s].job # n
<1> DEFINE n == Len(js) + 1
           ks == Append(js, NewJob(o))
<1>1. js \in Seq(Job) /\ Len(js) \in Nat /\ DOMAIN js = 1 .. Len(js)
  BY LenProperties DEF World
<1>2. JobFits(NewJob(o)) /\ NewJob(o) \in Job BY NewJobFits DEF JobFits
<1>3. /\ ks \in Seq(Job) /\ Len(ks) = n /\ ks[n] = NewJob(o)
      /\ \A i \in 1 .. Len(js) : ks[i] = js[i]
  BY <1>1, <1>2, AppendProperties
<1>4. DOMAIN ks = DOMAIN js \cup {n} /\ n \notin DOMAIN js
  <2>1. DOMAIN ks = 1 .. n BY <1>3, LenProperties
  <2> QED BY <1>1, <2>1
<1> HIDE DEF n, ks
<1>5. \A s \in DOMAIN ss : ss[s].job \in DOMAIN js /\ ks[ss[s].job] = js[ss[s].job]
  BY <1>1, <1>3 DEF World, SpeechFits
<1>6. \A j \in DOMAIN ks : JobFits(ks[j]) BY <1>1, <1>2, <1>3, <1>4 DEF World
<1>7. \A s \in DOMAIN ss : SpeechFits(ss[s], ks)
  BY <1>4, <1>5 DEF World, SpeechFits
<1>8. \A s \in DOMAIN ss : ~ss[s].terminal => Near(ss[s], ks[ss[s].job], pm)
  BY <1>5 DEF World
<1>9. \A s, t \in DOMAIN ss :
       /\ ~ss[s].terminal /\ ~ss[t].terminal /\ ss[s].job = ss[t].job
       /\ ~ks[ss[s].job].opt.retained
       => s = t
  BY <1>5 DEF World
<1>10. PumpFits(ks, pm) BY <1>4 DEF World, PumpFits
<1>11. World(ks, ss, pm) BY <1>3, <1>6, <1>7, <1>8, <1>9, <1>10 DEF World
<1> QED BY <1>3, <1>4, <1>5, <1>11 DEF n, ks

LEMMA NewSpeechFits ==
  ASSUME NEW x \in Job, x.base = 0, NEW j \in Nat, NEW d \in BOOLEAN
  PROVE  /\ NewSpeech(j, d) \in SpeechState /\ Fit(NewSpeech(j, d), x)
         /\ Position(NewSpeech(j, d)) = 0
<1> DEFINE p == NewSpeech(j, d)
<1>1. /\ p \in SpeechState /\ Stood(p) /\ p.index = 0 /\ p.scheduled = 0 /\ p.saved = 0
      /\ p.started = FALSE
  BY DEF NewSpeech, SpeechState, Stood
<1> HIDE DEF p
<1>2. Position(p) = 0 BY <1>1 DEF Position
<1>3. x.made \in Nat BY JobFields
<1>4. StartOf(0) = 0 BY SpeechAssumption DEF StartOf
<1>5. StartOf(x.made) \in Nat BY <1>3, ChunkFacts
<1>6. Placed(p, x) BY <1>1, <1>2, <1>3, <1>4, <1>5 DEF Placed
<1> QED BY <1>1, <1>2, <1>6 DEF Fit, p

LEMMA AttachTurn ==
  ASSUME VoiceInv, NEW js, World(js, speeches, pump), NEW j \in DOMAIN js, ~js[j].disposed,
         js[j].base = 0,
         ~js[j].opt.retained => js[j].made = 0 /\ \A s \in DOMAIN speeches : speeches[s].job # j,
         NEW d \in BOOLEAN, NEW c, Attach(js, j, d, c),
         ~js[j].opt.retained => ~(pump.at = "synthesize" /\ pump.job = j)
  PROVE  PlaybackInv' /\ Kept(speeches, speeches')
<1> DEFINE n == Len(speeches) + 1
           p == NewSpeech(j, d)
           ss == Append(speeches, p)
           ks == [js EXCEPT ![j].spoken = TRUE]
           y == [js[j] EXCEPT !.spoken = TRUE]
<1>1. Activate(ks, ss, n, c) BY DEF Attach
<1>2. pump' \in {Idle, Queued, pump} BY DEF Attach, Activate, Woken
<1>3. JobFits(js[j]) /\ js[j] \in Job /\ js[j].made \in Nat BY JobFields DEF World, JobFits
<1>4. /\ y \in Job /\ y.made = js[j].made /\ y.base = 0 /\ y.opt = js[j].opt
      /\ y.disposed = js[j].disposed /\ JobFits(y)
  BY <1>3 DEF Job, JobFits
<1>5. ks = [i \in DOMAIN js |-> IF i = j THEN y ELSE js[i]] OBVIOUS
<1> HIDE DEF y, ks
<1>6. World(ks, speeches, pump)
  <2>1. \A i \in DOMAIN js : JobFits(ks[i]) /\ ks[i].opt = js[i].opt
    BY <1>4, <1>5 DEF World
  <2>2. \A s \in DOMAIN speeches : ~speeches[s].terminal =>
          LET a == js[speeches[s].job]  b == ks[speeches[s].job] IN
          b.made = a.made /\ b.base <= speeches[s].index /\ b.disposed = a.disposed
    <3> SUFFICES ASSUME NEW s \in DOMAIN speeches, ~speeches[s].terminal
                 PROVE  LET a == js[speeches[s].job]  b == ks[speeches[s].job] IN
                        b.made = a.made /\ b.base <= speeches[s].index /\ b.disposed = a.disposed
      OBVIOUS
    <3>1. /\ speeches[s].job \in DOMAIN js
          /\ js[speeches[s].job].base <= speeches[s].index
      BY DEF World, SpeechFits, Fit, Placed
    <3> QED BY <1>4, <1>5, <3>1
  <2>3. DOMAIN ks = DOMAIN js /\ ks = [i \in DOMAIN ks |-> ks[i]] BY <1>5
  <2> QED BY <2>1, <2>2, <2>3, JobsTurn
<1>7. /\ Listed(ss) /\ DOMAIN ss = DOMAIN speeches \cup {n} /\ n \notin DOMAIN speeches
      /\ \A s \in DOMAIN speeches : ss[s] = speeches[s]
      /\ ss[n] = p
  BY ListedAppend DEF VoiceInv
<1>8. j \in Nat BY LenProperties DEF World
<1>9. /\ p.job = j /\ p.terminal = FALSE /\ p \in SpeechState /\ Fit(p, y) /\ Position(p) = 0
  BY <1>4, <1>8, NewSpeechFits, NewSpeechShape
<1> HIDE DEF p, ss, n
<1>10. ks[j] = y /\ j \in DOMAIN ks BY <1>5
<1>11. World(ks, ss, pump)
  <2>1. \A s \in DOMAIN ss : SpeechFits(ss[s], ks)
    <3>1. SpeechFits(p, ks) BY <1>4, <1>9, <1>10 DEF SpeechFits
    <3> QED BY <1>6, <1>7, <3>1 DEF World
  <2>2. \A s \in DOMAIN ss : ~ss[s].terminal => Near(ss[s], ks[ss[s].job], pump)
    <3>1. Near(p, y, pump)
      <4> SUFFICES ASSUME ~y.opt.retained PROVE Near(p, y, pump) BY DEF Near
      <4>1. y.made = 0 /\ ~(pump.at = "synthesize" /\ pump.job = j) BY <1>4
      <4>2. Duration(y) = 0 BY <4>1, SpeechAssumption DEF Duration
      <4>3. Duration(y) < Position(p) + Ahead + ChunkLength BY <1>9, <4>2, SpeechAssumption
      <4> QED BY <1>9, <4>1, <4>3 DEF Near
    <3> QED BY <1>6, <1>7, <1>9, <1>10, <3>1 DEF World
  <2>3. \A s, t \in DOMAIN ss :
       /\ ~ss[s].terminal /\ ~ss[t].terminal /\ ss[s].job = ss[t].job
       /\ ~ks[ss[s].job].opt.retained
       => s = t
    <3>1. ~y.opt.retained => \A s \in DOMAIN speeches : speeches[s].job # j BY <1>4
    <3> QED BY <1>6, <1>7, <1>9, <1>10, <3>1 DEF World
  <2> QED BY <1>6, <2>1, <2>2, <2>3 DEF World
<1>12. active \in DOMAIN ss => ~ss[active].terminal
  BY <1>7, <1>9 DEF VoiceInv, Live
<1>13. n \in DOMAIN ss /\ ~ss[n].terminal BY <1>7, <1>9
<1>14. World(jobs', speeches', pump) /\ Kept(ss, speeches')
  BY <1>1, <1>11, <1>12, <1>13, ActivateTurn
<1>15. World(jobs', speeches', pump') BY <1>2, <1>14, PumpTurn
<1>16. Kept(speeches, speeches') BY <1>7, <1>14 DEF Kept
<1> QED BY <1>15, <1>16 DEF PlaybackInv

LEMMA SpeakTurn ==
  ASSUME VoiceInv, PlaybackInv, NEW o \in Options, NEW d \in BOOLEAN, NEW c, Speak(o, d, c)
  PROVE  PlaybackInv' /\ Kept(speeches, speeches')
<1> DEFINE n == Len(jobs) + 1
           ks == Append(jobs, NewJob(o))
<1>1. Attach(ks, n, d, c) BY DEF Speak
<1>2. /\ World(ks, speeches, pump) /\ n \in DOMAIN ks /\ n \notin DOMAIN jobs
      /\ ks[n] = NewJob(o) /\ \A s \in DOMAIN speeches : speeches[s].job # n
  BY AppendJobTurn DEF PlaybackInv
<1>3. NewJob(o).base = 0 /\ NewJob(o).made = 0 /\ NewJob(o).disposed = FALSE BY DEF NewJob
<1>4. ~(pump.at = "synthesize" /\ pump.job = n)
  BY <1>2 DEF PlaybackInv, World, PumpFits, Idle, Queued
<1> HIDE DEF n, ks
<1> QED BY <1>1, <1>2, <1>3, <1>4, AttachTurn

LEMMA SpeakGenerationTurn ==
  ASSUME VoiceInv, PlaybackInv, NEW j \in DOMAIN jobs, NEW d \in BOOLEAN, NEW c,
         SpeakGeneration(j, d, c)
  PROVE  PlaybackInv' /\ Kept(speeches, speeches')
<1>1. Attach(jobs, j, d, c) /\ jobs[j].opt.retained /\ ~jobs[j].disposed BY DEF SpeakGeneration
<1>2. jobs[j].base = 0 BY <1>1 DEF PlaybackInv, World, JobFits
<1> QED BY <1>1, <1>2, AttachTurn DEF PlaybackInv

LEMMA CallerPausesTurn ==
  ASSUME VoiceInv, PlaybackInv, NEW s \in DOMAIN speeches, CallerPauses(s)
  PROVE  PlaybackInv' /\ Kept(speeches, speeches')
<1> DEFINE rr == [speeches EXCEPT ![s] = Paused(@)]
<1>1. speeches' = rr /\ jobs' = jobs /\ pump' \in {Idle, Queued, pump} /\ ~speeches[s].terminal
  BY DEF CallerPauses, Woken
<1>2. speeches[s] \in SpeechState /\ jobs[speeches[s].job] \in Job
      /\ Fit(speeches[s], jobs[speeches[s].job])
  BY <1>1 DEF PlaybackInv, World, SpeechFits, JobFits
<1>3. Follows(speeches[s], Paused(speeches[s]), jobs[speeches[s].job]) BY <1>2, PausedFollows
<1>4. DOMAIN rr = DOMAIN speeches
      /\ \A t \in DOMAIN speeches : rr[t] = IF t = s THEN Paused(speeches[s]) ELSE speeches[t]
  OBVIOUS
<1> HIDE DEF rr
<1>5. World(jobs, rr, pump) /\ Kept(speeches, rr)
  BY <1>1, <1>3, <1>4, SpeechesTurn DEF PlaybackInv
<1>6. World(jobs', speeches', pump') BY <1>1, <1>5, PumpTurn
<1> QED BY <1>1, <1>5, <1>6 DEF PlaybackInv

LEMMA CallerResumesTurn ==
  ASSUME VoiceInv, PlaybackInv, NEW s \in DOMAIN speeches, NEW c, CallerResumes(s, c)
  PROVE  PlaybackInv' /\ Kept(speeches, speeches')
<1>1. /\ Activate(jobs, speeches, s, c) /\ ~speeches[s].terminal
      /\ pump' \in {Idle, Queued, pump}
  BY DEF CallerResumes, Activate, Woken
<1>2. active \in DOMAIN speeches => ~speeches[active].terminal BY DEF VoiceInv, Live
<1>3. World(jobs', speeches', pump) /\ Kept(speeches, speeches')
  BY <1>1, <1>2, ActivateTurn DEF PlaybackInv
<1>4. World(jobs', speeches', pump') BY <1>1, <1>3, PumpTurn
<1> QED BY <1>3, <1>4 DEF PlaybackInv

\* Speeches of which every one of a disposed generation is among those that
\* end.
LEMMA EndingTurn ==
  ASSUME PlaybackInv, NEW S, NEW D, End(S, D), pump' \in {Idle, Queued, pump},
         \A s \in DOMAIN speeches : speeches[s].job \in D /\ ~speeches[s].terminal => s \in S
  PROVE  PlaybackInv' /\ Kept(speeches, speeches')
<1>1. World(jobs', speeches', pump) /\ Kept(speeches, speeches') BY EndTurn DEF PlaybackInv
<1>2. World(jobs', speeches', pump') BY <1>1, PumpTurn
<1> QED BY <1>1, <1>2 DEF PlaybackInv

LEMMA FinishingTurn ==
  ASSUME PlaybackInv, NEW s \in DOMAIN speeches, ~speeches[s].terminal, Finish(s),
         pump' \in {Idle, Queued, pump}
  PROVE  PlaybackInv' /\ Kept(speeches, speeches')
<1>1. World(jobs', speeches', pump) /\ Kept(speeches, speeches') BY FinishTurn DEF PlaybackInv
<1>2. World(jobs', speeches', pump') BY <1>1, PumpTurn
<1> QED BY <1>1, <1>2 DEF PlaybackInv

\* A turn that changes one job only, and nothing a speech relies on.
LEMMA OneJobTurn ==
  ASSUME NEW js, NEW ss, NEW pm, World(js, ss, pm), NEW j \in DOMAIN js, NEW y, JobFits(y),
         y.opt = js[j].opt, y.made = js[j].made, y.base = js[j].base,
         y.disposed = js[j].disposed
  PROVE  World([js EXCEPT ![j] = y], ss, pm)
<1> DEFINE ks == [js EXCEPT ![j] = y]
<1>1. /\ DOMAIN ks = DOMAIN js /\ ks = [i \in DOMAIN ks |-> ks[i]]
      /\ \A i \in DOMAIN js : ks[i] = IF i = j THEN y ELSE js[i]
  OBVIOUS
<1> HIDE DEF ks
<1>2. \A i \in DOMAIN js : JobFits(ks[i]) /\ ks[i].opt = js[i].opt BY <1>1 DEF World
<1>3. \A s \in DOMAIN ss : ~ss[s].terminal =>
        ss[s].job \in DOMAIN js /\ js[ss[s].job].base <= ss[s].index
  BY DEF World, SpeechFits, Fit, Placed
<1>4. \A s \in DOMAIN ss : ~ss[s].terminal =>
        LET a == js[ss[s].job]  b == ks[ss[s].job] IN
        b.made = a.made /\ b.base <= ss[s].index /\ b.disposed = a.disposed
  BY <1>1, <1>3
<1>5. World(ks, ss, pm) BY <1>1, <1>2, <1>4, JobsTurn
<1> QED BY <1>5 DEF ks

LEMMA CallsTurn ==
  ASSUME VoiceInv, PlaybackInv, Calls
  PROVE  PlaybackInv' /\ Kept(speeches, speeches')
<1>1. ASSUME NEW o \in Options, Generate(o) PROVE PlaybackInv' /\ Kept(speeches, speeches')
  <2>1. /\ jobs' = Append(jobs, NewJob(o)) /\ speeches' = speeches
        /\ pump' \in {Idle, Queued, pump}
    BY <1>1 DEF Generate, Woken
  <2>2. World(jobs', speeches', pump) BY <2>1, AppendJobTurn DEF PlaybackInv
  <2>3. World(jobs', speeches', pump') BY <2>1, <2>2, PumpTurn
  <2> QED BY <2>1, <2>3 DEF PlaybackInv, Kept
<1>2. CASE \E o \in Options, d \in BOOLEAN, c \in Conditions : Speak(o, d, c)
  BY <1>2, SpeakTurn
<1>3. CASE \E j \in DOMAIN jobs, d \in BOOLEAN, c \in Conditions : SpeakGeneration(j, d, c)
  BY <1>3, SpeakGenerationTurn
<1>4. ASSUME NEW j \in DOMAIN jobs, CallerDisposes(j)
      PROVE  PlaybackInv' /\ Kept(speeches, speeches')
  <2>1. End(Children(j), {j}) /\ pump' \in {Idle, Queued, pump}
    BY <1>4 DEF CallerDisposes, Woken
  <2>2. \A s \in DOMAIN speeches :
          speeches[s].job \in {j} /\ ~speeches[s].terminal => s \in Children(j)
    BY DEF Children
  <2> QED BY <2>1, <2>2, EndingTurn
<1>5. CASE \E s \in DOMAIN speeches : CallerPauses(s) BY <1>5, CallerPausesTurn
<1>6. CASE \E s \in DOMAIN speeches : CallerCancels(s)
  BY <1>6, FinishingTurn DEF CallerCancels, Woken
<1>7. CASE \E s \in DOMAIN speeches, c \in Conditions : CallerResumes(s, c)
  BY <1>7, CallerResumesTurn
<1>8. ASSUME NEW j \in DOMAIN jobs, AwaitChunk(j)
      PROVE  PlaybackInv' /\ Kept(speeches, speeches')
  <2> DEFINE y == [jobs[j] EXCEPT !.awaited = TRUE]
  <2>1. jobs' = [jobs EXCEPT ![j] = y] /\ speeches' = speeches /\ pump' = pump
    BY <1>8 DEF AwaitChunk
  <2>2. JobFits(jobs[j]) BY DEF PlaybackInv, World
  <2>3. /\ JobFits(y) /\ y.opt = jobs[j].opt /\ y.made = jobs[j].made /\ y.base = jobs[j].base
        /\ y.disposed = jobs[j].disposed
    BY <2>2 DEF JobFits, Job
  <2> HIDE DEF y
  <2>4. World([jobs EXCEPT ![j] = y], speeches, pump) BY <2>3, OneJobTurn DEF PlaybackInv
  <2> QED BY <2>1, <2>4 DEF PlaybackInv, Kept
<1>9. CASE Unload
  <2> DEFINE S == {s \in DOMAIN speeches : ~speeches[s].terminal}
             D == {j \in DOMAIN jobs : ~jobs[j].disposed}
  <2>1. End(S, D) /\ pump' = pump BY <1>9 DEF Unload
  <2>2. \A s \in DOMAIN speeches : speeches[s].job \in D /\ ~speeches[s].terminal => s \in S
    OBVIOUS
  <2> HIDE DEF S, D
  <2> QED BY <2>1, <2>2, EndingTurn
<1> QED BY <1>1, <1>2, <1>3, <1>4, <1>5, <1>6, <1>7, <1>8, <1>9 DEF Calls

----------------------------------------------------------------------------
(* The pump and the backend.                                               *)

LEMMA LeastExists ==
  ASSUME NEW S \in SUBSET Nat, S # {}
  PROVE  Min(S) \in S /\ \A y \in S : Min(S) <= y
<1>1. \E m \in S : \A y \in S : ~(<<y, m>> \in OpToRel(<, Nat))
  BY NatLessThanWellFounded, WFMin
<1>2. PICK m \in S : \A y \in S : ~(<<y, m>> \in OpToRel(<, Nat)) BY <1>1
<1>3. \A y \in S : m <= y
  <2> SUFFICES ASSUME NEW y \in S, ~(m <= y) PROVE FALSE OBVIOUS
  <2>1. y < m /\ y \in Nat /\ m \in Nat OBVIOUS
  <2>2. <<y, m>> \in OpToRel(<, Nat) BY <2>1 DEF OpToRel
  <2> QED BY <1>2, <2>2
<1>4. Min(S) = m BY <1>3, MinIs
<1> QED BY <1>3, <1>4

\* What the pump chooses can go on, and is kept or needed now.
LEMMA ChosenFacts ==
  ASSUME VoiceInv, PlaybackInv, NEW j \in Chosen
  PROVE  /\ j \in DOMAIN jobs /\ Runnable(jobs[j])
         /\ jobs[j].opt.retained \/ j \in Needed
         /\ \A s \in DOMAIN speeches :
              ~speeches[s].terminal /\ speeches[s].job = j /\ ~jobs[j].opt.retained =>
                Duration(jobs[j]) < Position(speeches[s]) + Ahead
<1>1. j \in Needed \/ j \in Background
  <2>1. CASE Needed # {} BY <2>1 DEF Chosen
  <2>2. CASE Needed = {} /\ Others # {}
    <3>1. Others \in SUBSET Nat
      <4>1. DOMAIN jobs = 1 .. Len(jobs) /\ Len(jobs) \in Nat
        BY LenProperties DEF PlaybackInv, World
      <4> QED BY <4>1 DEF Others, Background
    <3>2. Min(Others) \in Others BY <2>2, <3>1, LeastExists
    <3> QED BY <2>2, <3>2 DEF Chosen, Others
  <2>3. CASE Needed = {} /\ Others = {} BY <2>3 DEF Chosen
  <2> QED BY <2>1, <2>2, <2>3
<1>2. j \in DOMAIN jobs /\ Runnable(jobs[j]) BY <1>1 DEF Needed, Background
<1>3. jobs[j].opt.retained \/ j \in Needed BY <1>1 DEF Background
<1>4. ASSUME NEW s \in DOMAIN speeches, ~speeches[s].terminal, speeches[s].job = j,
             ~jobs[j].opt.retained
      PROVE  Duration(jobs[j]) < Position(speeches[s]) + Ahead
  <2>1. j \in Needed BY <1>3, <1>4
  <2>2. /\ active # None /\ speeches[active].job = j
        /\ Duration(jobs[j]) - Position(speeches[active]) < Ahead
    BY <2>1 DEF Needed, Foreground
  <2>3. active \in DOMAIN speeches /\ ~speeches[active].terminal BY <2>2 DEF VoiceInv, Live
  <2>4. s = active BY <1>4, <2>2, <2>3 DEF PlaybackInv, World
  <2>5. Position(speeches[s]) \in Nat BY PositionIs DEF PlaybackInv, World, SpeechFits
  <2>6. Duration(jobs[j]) \in Nat
    <3>1. jobs[j].made \in Nat BY <1>2, JobFields DEF PlaybackInv, World, JobFits
    <3> QED BY <3>1, SpeechAssumption DEF Duration
  <2>7. Ahead \in Nat BY SpeechAssumption
  <2> QED BY <2>2, <2>4, <2>5, <2>6, <2>7
<1> QED BY <1>2, <1>3, <1>4

LEMMA AddChunkTurn ==
  ASSUME VoiceInv, NEW js, NEW pm, World(js, speeches, pm), pm.at # "synthesize",
         NEW j \in DOMAIN js,
         \A s \in DOMAIN speeches :
           ~speeches[s].terminal /\ speeches[s].job = j /\ ~js[j].opt.retained =>
             Duration(js[j]) < Position(speeches[s]) + Ahead,
         NEW c, AddChunk(js, j, c)
  PROVE  World(jobs', speeches', pm) /\ Kept(speeches, speeches')
<1> DEFINE ks == [js EXCEPT ![j].made = @ + 1]
<1>1. World(ks, speeches, pm) BY ChunkTurn
<1>2. Signal(ks, j, c) BY DEF AddChunk
<1>3. j \in DOMAIN ks OBVIOUS
<1> HIDE DEF ks
<1> QED BY <1>1, <1>2, <1>3, SignalTurn

LEMMA PumpStepsTurn ==
  ASSUME VoiceInv, PlaybackInv, NEW c, PumpSteps(c)
  PROVE  PlaybackInv' /\ Kept(speeches, speeches')
<1>1. PICK j \in Chosen :
        IF jobs[j].silence > 0
        THEN AddChunk([jobs EXCEPT ![j].silence = @ - 1], j, c)
        ELSE NextSegment(j, c)
  BY DEF PumpSteps
<1>2. pump = Queued /\ pump' = pump /\ pump.at # "synthesize" BY DEF PumpSteps, Queued
<1>3. j \in DOMAIN jobs /\ Runnable(jobs[j]) BY ChosenFacts
<1>4. /\ JobFits(jobs[j]) /\ jobs[j] \in Job /\ ~jobs[j].done /\ jobs[j].silence \in Nat
      /\ jobs[j].segment \in 1 .. Len(jobs[j].opt.pauses) /\ Len(jobs[j].opt.pauses) \in Nat
  BY <1>3, JobFields DEF PlaybackInv, World, JobFits, Runnable, Job
<1>5. World(jobs, speeches, pump) BY DEF PlaybackInv
<1>6. ASSUME jobs[j].silence > 0, AddChunk([jobs EXCEPT ![j].silence = @ - 1], j, c)
      PROVE  World(jobs', speeches', pump) /\ Kept(speeches, speeches')
  <2> DEFINE y == [jobs[j] EXCEPT !.silence = @ - 1]
             ks == [jobs EXCEPT ![j] = y]
  <2>1. /\ JobFits(y) /\ y.opt = jobs[j].opt /\ y.made = jobs[j].made
        /\ y.base = jobs[j].base /\ y.disposed = jobs[j].disposed
    BY <1>4, <1>6 DEF JobFits, Job
  <2>2. [jobs EXCEPT ![j].silence = @ - 1] = ks OBVIOUS
  <2>3. ks[j] = y /\ j \in DOMAIN ks BY <1>3
  <2>4. AddChunk(ks, j, c) BY <1>6, <2>2
  <2> HIDE DEF y
  <2>5. World(ks, speeches, pump) BY <1>3, <1>5, <2>1, OneJobTurn
  <2> HIDE DEF ks
  <2>6. Duration(ks[j]) = Duration(jobs[j]) BY <2>1, <2>3 DEF Duration
  <2>7. \A s \in DOMAIN speeches :
          ~speeches[s].terminal /\ speeches[s].job = j /\ ~ks[j].opt.retained =>
            Duration(ks[j]) < Position(speeches[s]) + Ahead
    BY <2>1, <2>3, <2>6, ChosenFacts
  <2> QED BY <1>2, <2>3, <2>4, <2>5, <2>7, AddChunkTurn
<1>7. ASSUME NextSegment(j, c)
      PROVE  World(jobs', speeches', pump) /\ Kept(speeches, speeches')
  <2> DEFINE y == [jobs[j] EXCEPT !.segment = @ + 1, !.units = 0, !.unit = 0]
             z == [y EXCEPT !.done = TRUE]
  <2>1. /\ y \in Job /\ y.segment = jobs[j].segment + 1 /\ y.done = jobs[j].done
        /\ y.opt = jobs[j].opt /\ y.made = jobs[j].made
        /\ y.base = jobs[j].base /\ y.disposed = jobs[j].disposed
    <3> DEFINE a == [jobs[j] EXCEPT !.segment = @ + 1]
               b == [a EXCEPT !.units = 0]
    <3>1. /\ a \in Job /\ a.segment = jobs[j].segment + 1 /\ a.done = jobs[j].done
          /\ a.opt = jobs[j].opt /\ a.made = jobs[j].made
          /\ a.base = jobs[j].base /\ a.disposed = jobs[j].disposed
      BY <1>4 DEF Job
    <3> HIDE DEF a
    <3>2. /\ b \in Job /\ b.segment = a.segment /\ b.done = a.done /\ b.opt = a.opt
          /\ b.made = a.made /\ b.base = a.base /\ b.disposed = a.disposed
      BY <3>1 DEF Job
    <3>3. y = [b EXCEPT !.unit = 0] BY DEF a
    <3> HIDE DEF b, y
    <3> QED BY <3>1, <3>2, <3>3 DEF Job
  <2>2. CASE jobs[j].segment < Len(jobs[j].opt.pauses)
    <3>1. jobs' = [jobs EXCEPT ![j] = y] /\ speeches' = speeches BY <1>7, <2>2 DEF NextSegment
    <3>2. JobFits(y) BY <1>4, <2>1, <2>2 DEF JobFits
    <3> HIDE DEF y
    <3>3. World([jobs EXCEPT ![j] = y], speeches, pump) BY <1>3, <1>5, <2>1, <3>2, OneJobTurn
    <3> QED BY <3>1, <3>3 DEF Kept
  <2>3. CASE ~(jobs[j].segment < Len(jobs[j].opt.pauses))
    <3>1. Signal([jobs EXCEPT ![j] = z], j, c) BY <1>7, <2>3 DEF NextSegment
    <3>2. /\ z \in Job /\ z.done = TRUE /\ z.opt = y.opt /\ z.made = y.made
          /\ z.base = y.base /\ z.disposed = y.disposed
      BY <2>1 DEF Job
    <3> HIDE DEF z
    <3>3. JobFits(z) BY <1>4, <2>1, <3>2 DEF JobFits
    <3> HIDE DEF y
    <3>4. World([jobs EXCEPT ![j] = z], speeches, pump) BY <1>3, <1>5, <2>1, <3>2, <3>3, OneJobTurn
    <3>5. j \in DOMAIN [jobs EXCEPT ![j] = z] BY <1>3
    <3> QED BY <3>1, <3>4, <3>5, SignalTurn
  <2> QED BY <2>2, <2>3
<1>8. World(jobs', speeches', pump) /\ Kept(speeches, speeches')
  <2>1. CASE jobs[j].silence > 0 BY <1>1, <1>6, <2>1
  <2>2. CASE ~(jobs[j].silence > 0) BY <1>1, <1>7, <2>2
  <2> QED BY <2>1, <2>2
<1> QED BY <1>2, <1>8 DEF PlaybackInv

LEMMA PumpAsksTurn ==
  ASSUME VoiceInv, PlaybackInv, PumpAsks
  PROVE  PlaybackInv' /\ Kept(speeches, speeches')
<1>1. PICK j \in Chosen :
        pump' = [at |-> IF jobs[j].units = 0 THEN "prepare" ELSE "synthesize", job |-> j]
  BY DEF PumpAsks
<1>2. jobs' = jobs /\ speeches' = speeches BY DEF PumpAsks
<1>3. /\ j \in DOMAIN jobs
      /\ \A s \in DOMAIN speeches :
           ~speeches[s].terminal /\ speeches[s].job = j /\ ~jobs[j].opt.retained =>
             Duration(jobs[j]) < Position(speeches[s]) + Ahead
  BY ChosenFacts
<1>4. PumpFits(jobs, pump') BY <1>1, <1>3 DEF PumpFits
<1>5. pump'.job = j BY <1>1
<1>6. \A s \in DOMAIN speeches :
        ~speeches[s].terminal => Near(speeches[s], jobs[speeches[s].job], pump')
  BY <1>3, <1>5 DEF PlaybackInv, World, Near
<1> QED BY <1>2, <1>4, <1>6 DEF PlaybackInv, World, Kept

LEMMA PumpTurnsTurn ==
  ASSUME VoiceInv, PlaybackInv, PumpTurns
  PROVE  PlaybackInv' /\ Kept(speeches, speeches')
<1>1. CASE PumpStops
  <2>1. jobs' = jobs /\ speeches' = speeches /\ pump' \in {Idle, Queued, pump}
    BY <1>1 DEF PumpStops
  <2>2. World(jobs, speeches, pump') BY <2>1, PumpTurn DEF PlaybackInv
  <2> QED BY <2>1, <2>2 DEF PlaybackInv, Kept
<1> QED BY <1>1, PumpAsksTurn, PumpStepsTurn DEF PumpTurns

LEMMA PreparedTurn ==
  ASSUME PlaybackInv, NEW n \in UnitCounts, Prepared(n)
  PROVE  PlaybackInv' /\ Kept(speeches, speeches')
<1> DEFINE j == pump.job
           y == [jobs[j] EXCEPT !.units = n, !.silence = jobs[j].opt.pauses[jobs[j].segment]]
<1>1. /\ pump' \in {Idle, Queued, pump} /\ speeches' = speeches
      /\ jobs' = IF ~Runnable(jobs[j]) THEN jobs ELSE [jobs EXCEPT ![j] = y]
  BY DEF Prepared
<1>2. World(jobs, speeches, pump) BY DEF PlaybackInv
<1>3. j \in DOMAIN jobs
  <2>1. pump.at = "prepare" BY DEF Prepared
  <2> QED BY <1>2, <2>1 DEF World, PumpFits, Idle, Queued
<1>4. World(jobs', speeches', pump)
  <2>1. CASE ~Runnable(jobs[j]) BY <1>1, <1>2, <2>1
  <2>2. CASE Runnable(jobs[j])
    <3>1. JobFits(jobs[j]) /\ ~jobs[j].done BY <1>2, <1>3, <2>2 DEF World, Runnable
    <3>2. jobs[j].opt.pauses[jobs[j].segment] \in Nat
      <4>1. jobs[j].opt.pauses \in Seq(Nat) BY <3>1, JobFields DEF JobFits
      <4>2. jobs[j].segment \in 1 .. Len(jobs[j].opt.pauses) BY <3>1 DEF JobFits
      <4> QED BY <4>1, <4>2, ElementOfSeq
    <3>3. n \in Nat BY SpeechAssumption
    <3>4. /\ JobFits(y) /\ y.opt = jobs[j].opt /\ y.made = jobs[j].made
          /\ y.base = jobs[j].base /\ y.disposed = jobs[j].disposed
      BY <3>1, <3>2, <3>3 DEF JobFits, Job
    <3>5. jobs' = [jobs EXCEPT ![j] = y] BY <1>1, <2>2
    <3> HIDE DEF j, y
    <3>6. World([jobs EXCEPT ![j] = y], speeches, pump) BY <1>2, <1>3, <3>4, OneJobTurn
    <3> QED BY <1>1, <3>5, <3>6
  <2> QED BY <2>1, <2>2
<1>5. World(jobs', speeches', pump') BY <1>1, <1>4, PumpTurn
<1> QED BY <1>1, <1>5 DEF PlaybackInv, Kept

LEMMA SynthesizedTurn ==
  ASSUME VoiceInv, PlaybackInv, NEW c, Synthesized(c)
  PROVE  PlaybackInv' /\ Kept(speeches, speeches')
<1> DEFINE j == pump.job
           y == [jobs[j] EXCEPT !.unit = @ + 1]
           ks == [jobs EXCEPT ![j] = y]
<1>1. pump.at = "synthesize" /\ pump' = Queued BY DEF Synthesized
<1>2. World(jobs, speeches, Queued) /\ World(jobs, speeches, pump)
  BY PumpTurn DEF PlaybackInv
<1>3. j \in DOMAIN jobs BY <1>1, <1>2 DEF World, PumpFits, Idle, Queued
<1>4. Queued.at # "synthesize" BY DEF Queued
<1>5. CASE Runnable(jobs[j])
  <2>1. JobFits(jobs[j]) BY <1>2, <1>3 DEF World
  <2>2. /\ JobFits(y) /\ y.opt = jobs[j].opt /\ y.made = jobs[j].made
        /\ y.base = jobs[j].base /\ y.disposed = jobs[j].disposed
    BY <2>1 DEF JobFits, Job
  <2>3. [jobs EXCEPT ![j].unit = @ + 1] = ks OBVIOUS
  <2>4. AddChunk(ks, j, c) BY <1>5, <2>3 DEF Synthesized
  <2>5. ks[j] = y /\ j \in DOMAIN ks BY <1>3
  <2>6. \A s \in DOMAIN speeches :
          ~speeches[s].terminal /\ speeches[s].job = j /\ ~jobs[j].opt.retained =>
            Duration(jobs[j]) < Position(speeches[s]) + Ahead
    BY <1>1, <1>2 DEF World, Near
  <2> HIDE DEF j, y
  <2>7. World(ks, speeches, Queued) BY <1>2, <1>3, <2>2, OneJobTurn
  <2> HIDE DEF ks
  <2>8. Duration(ks[j]) = Duration(jobs[j]) BY <2>2, <2>5 DEF Duration
  <2>9. \A s \in DOMAIN speeches :
          ~speeches[s].terminal /\ speeches[s].job = j /\ ~ks[j].opt.retained =>
            Duration(ks[j]) < Position(speeches[s]) + Ahead
    BY <2>2, <2>5, <2>6, <2>8
  <2>10. World(jobs', speeches', Queued) /\ Kept(speeches, speeches')
    BY <1>4, <2>4, <2>5, <2>7, <2>9, AddChunkTurn
  <2> QED BY <1>1, <2>10 DEF PlaybackInv
<1>6. CASE ~Runnable(jobs[j])
  <2>1. jobs' = jobs /\ speeches' = speeches BY <1>6 DEF Synthesized
  <2> QED BY <1>1, <1>2, <2>1 DEF PlaybackInv, Kept
<1> QED BY <1>5, <1>6

LEMMA StepFailsTurn ==
  ASSUME PlaybackInv, StepFails
  PROVE  PlaybackInv' /\ Kept(speeches, speeches')
<1> DEFINE j == pump.job
<1>1. pump' \in {Idle, Queued, pump} BY DEF StepFails
<1>2. World(jobs, speeches, pump) BY DEF PlaybackInv
<1>3. j \in DOMAIN jobs
  <2>1. j # None BY DEF StepFails
  <2> QED BY <1>2, <2>1 DEF World, PumpFits, Idle, Queued
<1>4. CASE ~Runnable(jobs[j])
  <2>1. jobs' = jobs /\ speeches' = speeches BY <1>4 DEF StepFails
  <2>2. World(jobs, speeches, pump') BY <1>1, <1>2, PumpTurn
  <2> QED BY <2>1, <2>2 DEF PlaybackInv, Kept
<1>5. CASE Runnable(jobs[j]) /\ ~jobs[j].opt.retained
  <2>1. End(Children(j), {j}) BY <1>5 DEF StepFails
  <2>2. \A s \in DOMAIN speeches :
          speeches[s].job \in {j} /\ ~speeches[s].terminal => s \in Children(j)
    BY DEF Children
  <2> HIDE DEF j
  <2> QED BY <1>1, <2>1, <2>2, EndingTurn
<1>6. CASE Runnable(jobs[j]) /\ jobs[j].opt.retained
  <2> DEFINE rr == [s \in DOMAIN speeches |->
                      IF s \in Children(j) THEN Over(speeches[s]) ELSE speeches[s]]
             y == Signalled([jobs[j] EXCEPT !.error = TRUE])
  <2>1. speeches' = rr /\ jobs' = [jobs EXCEPT ![j] = y] BY <1>6 DEF StepFails
  <2>2. \A s \in DOMAIN speeches : speeches[s] \in SpeechState
    BY <1>2 DEF World, SpeechFits
  <2>3. DOMAIN rr = DOMAIN speeches
        /\ \A s \in DOMAIN speeches : rr[s] = speeches[s] \/ Silenced(speeches[s], rr[s])
    BY <2>2, OverSilenced
  <2>4. JobFits(jobs[j]) BY <1>2, <1>3 DEF World
  <2>5. /\ JobFits(y) /\ y.opt = jobs[j].opt /\ y.made = jobs[j].made
        /\ y.base = jobs[j].base /\ y.disposed = jobs[j].disposed
    BY <2>4 DEF JobFits, Job, Signalled
  <2> HIDE DEF rr, y, j
  <2>6. World(jobs, rr, pump) /\ Kept(speeches, rr) BY <1>2, <2>3, SpeechesTurn
  <2>7. World([jobs EXCEPT ![j] = y], rr, pump) BY <1>3, <2>5, <2>6, OneJobTurn
  <2>8. World([jobs EXCEPT ![j] = y], rr, pump') BY <1>1, <2>7, PumpTurn
  <2> QED BY <2>1, <2>6, <2>8 DEF PlaybackInv
<1> QED BY <1>4, <1>5, <1>6

----------------------------------------------------------------------------
(* The driver, the clock and the timer.                                    *)

\* One speech goes on or is over, and nothing else changes.
LEMMA OneSpeechTurn ==
  ASSUME PlaybackInv, NEW s \in DOMAIN speeches, NEW q,
         \/ Silenced(speeches[s], q)
         \/ ~speeches[s].terminal /\ Follows(speeches[s], q, jobs[speeches[s].job]),
         speeches' = [speeches EXCEPT ![s] = q], jobs' = jobs, pump' = pump
  PROVE  PlaybackInv' /\ Kept(speeches, speeches')
<1> DEFINE rr == [speeches EXCEPT ![s] = q]
<1>1. DOMAIN rr = DOMAIN speeches
      /\ \A t \in DOMAIN speeches : rr[t] = IF t = s THEN q ELSE speeches[t]
  OBVIOUS
<1> HIDE DEF rr
<1>2. World(jobs, rr, pump) /\ Kept(speeches, rr) BY <1>1, SpeechesTurn DEF PlaybackInv
<1> QED BY <1>2 DEF PlaybackInv, rr

LEMMA ContextTurn ==
  ASSUME VoiceInv, PlaybackInv, NEW s \in DOMAIN speeches, DriverResumes(s)
  PROVE  PlaybackInv' /\ Kept(speeches, speeches')
<1> DEFINE p == speeches[s]
           x == jobs[p.job]
           r == [p EXCEPT !.running = TRUE, !.elapsed = p.position, !.pending = {}]
           a == [p EXCEPT !.start = "rejected"]
           b == [r EXCEPT !.start = "rejected"]
           d == [Scheduled(r, p.pending) EXCEPT !.start = "resolved"]
<1>1. p.start = "resuming" /\ jobs' = jobs /\ pump' = pump BY DEF DriverResumes, ContextResumes
<1>2. ~p.terminal BY <1>1 DEF VoiceInv, Live, Inactive, Silent
<1>3. p \in SpeechState /\ x \in Job /\ Fit(p, x)
  BY <1>2 DEF PlaybackInv, World, SpeechFits, JobFits
<1>4. Follows(p, a, x) /\ Follows(p, b, x) /\ Follows(p, d, x) BY <1>1, <1>3, ResumedFollows
<1>5. \/ speeches' = [speeches EXCEPT ![s] = a] \/ speeches' = [speeches EXCEPT ![s] = b]
      \/ speeches' = [speeches EXCEPT ![s] = d]
  BY DEF DriverResumes, ContextResumes
<1> HIDE DEF a, b, d
<1> QED BY <1>1, <1>2, <1>4, <1>5, OneSpeechTurn

LEMMA StaleTurn ==
  ASSUME PlaybackInv, NEW s \in DOMAIN speeches, StaleStart(s)
  PROVE  PlaybackInv' /\ Kept(speeches, speeches')
<1> DEFINE p == speeches[s]
           x == jobs[p.job]
<1>1. PICK v \in SUBSET {"resuming", "settled"} :
        speeches' = [speeches EXCEPT ![s] = [p EXCEPT !.stale = v]]
  <2>1. PICK z \in p.stale :
          speeches' = [speeches EXCEPT ![s].stale =
                         (@ \ {z}) \cup (IF z = "resuming" THEN {"settled"} ELSE {})]
    BY DEF StaleStart
  <2> DEFINE v == (p.stale \ {z}) \cup (IF z = "resuming" THEN {"settled"} ELSE {})
  <2>2. v \in SUBSET {"resuming", "settled"}
    BY DEF PlaybackInv, World, SpeechFits, SpeechState
  <2>3. speeches' = [speeches EXCEPT ![s] = [p EXCEPT !.stale = v]] BY <2>1
  <2> HIDE DEF v
  <2> QED BY <2>2, <2>3
<1>2. jobs' = jobs /\ pump' = pump BY DEF StaleStart
<1> DEFINE q == [p EXCEPT !.stale = v]
<1>3. p \in SpeechState BY DEF PlaybackInv, World, SpeechFits
<1>4. q \in SpeechState /\ \A f \in Fields \ {"stale"} : q[f] = p[f]
  BY <1>3 DEF SpeechState, Fields
<1>5. speeches' = [speeches EXCEPT ![s] = q] BY <1>1
<1> HIDE DEF q
<1>6. /\ q.job = p.job /\ q.terminal = p.terminal /\ q.index = p.index /\ q.saved = p.saved
      /\ q.scheduled = p.scheduled /\ q.started = p.started /\ q.running = p.running
      /\ q.ticking = p.ticking /\ q.start = p.start /\ q.sources = p.sources
      /\ q.pending = p.pending /\ q.end = p.end /\ q.position = p.position
      /\ q.elapsed = p.elapsed
  BY <1>4 DEF Fields
<1>7. Silenced(p, q) \/ (~p.terminal /\ Follows(p, q, x))
  <2>1. CASE p.terminal
    BY <1>3, <1>4, <1>6, <2>1 DEF Silenced, PlaybackInv, World, SpeechFits, SpeechState
  <2>2. CASE ~p.terminal
    <3>1. Fit(p, x) BY <2>2 DEF PlaybackInv, World, SpeechFits
    <3> HIDE DEF p, x
    <3>2. Position(q) = Position(p) BY <1>6 DEF Position, DriverPosition
    <3>3. Placed(q, x) BY <1>6, <3>1, <3>2 DEF Fit, Placed
    <3>4. (Stood(p) => Stood(q)) /\ (Starting(p) => Starting(q)) /\ (Refused(p) => Refused(q))
      BY <1>6 DEF Stood, Starting, Refused
    <3>5. Playing(p) => Playing(q) BY <1>6, <3>2 DEF Playing
    <3> QED BY <1>4, <1>6, <2>2, <3>1, <3>2, <3>3, <3>4, <3>5 DEF Follows, Fit
  <2> QED BY <2>1, <2>2
<1> QED BY <1>2, <1>5, <1>7, OneSpeechTurn

\* The clock of one speech, which alone moves a position.
LEMMA ClockTurn ==
  ASSUME PlaybackInv, NEW s \in DOMAIN speeches, Clock(s)
  PROVE  /\ PlaybackInv'
         /\ \A t \in DOMAIN speeches : t # s => speeches'[t] = speeches[t]
         /\ LET p == speeches[s]  q == speeches'[s] IN
            Position(q) # Position(p) =>
              /\ Position(q) = Position(p) + 1 /\ q.elapsed = p.elapsed + 1
              /\ Position(p) \div ChunkLength \in q.sources
<1> DEFINE p == speeches[s]
           x == jobs[p.job]
           q == [p EXCEPT !.elapsed = @ + 1]
           rr == [speeches EXCEPT ![s] = q]
<1>1. /\ p.running /\ p.elapsed <= p.end /\ p.start # "rejected"
      /\ jobs' = jobs /\ pump' = pump /\ speeches' = rr
  BY DEF Clock
<1>2. ~p.terminal BY <1>1 DEF PlaybackInv, World, SpeechFits
<1>3. p \in SpeechState /\ x \in Job /\ Fit(p, x) /\ ~x.disposed /\ p.job \in DOMAIN jobs
  BY <1>2 DEF PlaybackInv, World, SpeechFits, JobFits
<1>4. /\ q \in SpeechState /\ q.job = p.job /\ q.terminal = p.terminal /\ Fit(q, x)
      /\ Position(p) <= Position(q) /\ q.elapsed = p.elapsed + 1
      /\ Position(q) # Position(p) =>
           Position(q) = Position(p) + 1 /\ Position(p) \div ChunkLength \in q.sources
  BY <1>1, <1>3, ClockMoves
<1>5. DOMAIN rr = DOMAIN speeches
      /\ \A t \in DOMAIN speeches : rr[t] = IF t = s THEN q ELSE speeches[t]
  OBVIOUS
<1> HIDE DEF q, rr
<1>6. \A t \in DOMAIN rr : SpeechFits(rr[t], jobs)
  <2>1. SpeechFits(q, jobs) BY <1>2, <1>3, <1>4 DEF SpeechFits
  <2> QED BY <1>5, <2>1 DEF PlaybackInv, World
<1>7. \A t \in DOMAIN rr : ~rr[t].terminal => Near(rr[t], jobs[rr[t].job], pump)
  <2>1. Near(p, x, pump) BY <1>2 DEF PlaybackInv, World
  <2>2. Position(p) \in Nat /\ Position(q) \in Nat BY <1>3, <1>4, PositionIs
  <2>3. Duration(x) \in Nat
    <3>1. x.made \in Nat BY <1>3, JobFields
    <3> QED BY <3>1, SpeechAssumption DEF Duration
  <2>4. Near(q, x, pump)
    <3> HIDE DEF p, x
    <3>1. Ahead \in Nat /\ ChunkLength \in Nat BY SpeechAssumption
    <3> QED BY <1>4, <2>1, <2>2, <2>3, <3>1 DEF Near
  <2> QED BY <1>4, <1>5, <2>4 DEF PlaybackInv, World
<1>8. \A t, u \in DOMAIN rr :
       /\ ~rr[t].terminal /\ ~rr[u].terminal /\ rr[t].job = rr[u].job
       /\ ~jobs[rr[t].job].opt.retained
       => t = u
  <2>1. \A t \in DOMAIN speeches : rr[t].job = speeches[t].job /\ rr[t].terminal = speeches[t].terminal
    BY <1>4, <1>5
  <2> QED BY <1>5, <2>1 DEF PlaybackInv, World
<1>9. World(jobs, rr, pump) BY <1>6, <1>7, <1>8 DEF PlaybackInv, World
<1>10. rr[s] = q BY <1>5
<1> QED BY <1>1, <1>4, <1>5, <1>9, <1>10 DEF PlaybackInv

LEMMA TickTurn ==
  ASSUME VoiceInv, PlaybackInv, NEW s \in DOMAIN speeches, s = active, Playing(speeches[s]),
         NEW c, NEW begins \in BOOLEAN, Tick(s, c, begins)
  PROVE  PlaybackInv' /\ Kept(speeches, speeches')
<1> DEFINE p0 == speeches[s]
           x0 == jobs[p0.job]
           q == Advanced(p0, x0)
           x == Released(jobs[q.job], q.index)
           r == Ticked(q, x)
           u == [r EXCEPT !.start = IF begins THEN "none" ELSE @]
           p == Updated(u, x, c)
           z == [p EXCEPT !.ticking = ~p.terminal /\ p.started /\ (begins \/ r.ticking)]
           ss == [speeches EXCEPT ![s] = q]
           ks == [jobs EXCEPT ![q.job] = x]
<1>1. ~p0.terminal BY DEF VoiceInv, Live
<1>2. p0 \in SpeechState /\ x0 \in Job /\ Fit(p0, x0) /\ p0.job \in DOMAIN jobs
  BY <1>1 DEF PlaybackInv, World, SpeechFits, JobFits
<1>3. Becomes(ks, speeches, s, z) /\ pump' \in {Idle, Queued, pump} BY DEF Tick, Woken
<1>4. Follows(p0, q, x0) /\ Playing(q) /\ p0.index <= q.index BY <1>2, AdvancedFollows
<1>5. DOMAIN ss = DOMAIN speeches
      /\ \A t \in DOMAIN speeches : ss[t] = IF t = s THEN q ELSE speeches[t]
  OBVIOUS
<1> HIDE DEF q, ss
<1>6. q.job = p0.job /\ q.terminal = p0.terminal /\ q \in SpeechState /\ Fit(q, x0)
  BY <1>4 DEF Follows
<1>7. World(jobs, ss, pump) /\ Kept(speeches, ss)
  BY <1>1, <1>4, <1>5, SpeechesTurn DEF PlaybackInv
<1>8. /\ JobFits(x) /\ x.opt = x0.opt /\ x.made = x0.made /\ x.disposed = x0.disposed
      /\ x.base <= q.index /\ (x0.opt.retained => x = x0)
  <2>1. JobFits(x0) BY <1>2 DEF PlaybackInv, World
  <2>2. /\ x0.base \in Nat /\ q.index \in Nat /\ q.index <= x0.made /\ x0.base <= q.index
        /\ x0.made \in Nat
    BY <1>2, <1>6, FitFields
  <2>3. CASE x0.opt.retained
    <3>1. x = x0 BY <1>6, <2>3 DEF Released
    <3> HIDE DEF x, x0
    <3> QED BY <2>1, <2>2, <3>1
  <2>4. CASE ~x0.opt.retained
    <3>1. x = [x0 EXCEPT !.base = q.index] BY <1>6, <2>2, <2>4, MaxOfTwo DEF Released
    <3> HIDE DEF x, x0
    <3>2. /\ x \in Job /\ x.base = q.index /\ x.opt = x0.opt /\ x.made = x0.made
          /\ x.disposed = x0.disposed /\ x.done = x0.done /\ x.segment = x0.segment
      BY <1>2, <2>2, <3>1 DEF Job
    <3> QED BY <2>1, <2>2, <2>4, <3>2 DEF JobFits
  <2> QED BY <2>3, <2>4
<1>9. DOMAIN ks = DOMAIN jobs /\ ks = [j \in DOMAIN ks |-> ks[j]]
      /\ \A j \in DOMAIN jobs : ks[j] = IF j = q.job THEN x ELSE jobs[j]
  OBVIOUS
<1> HIDE DEF x, ks
<1>10. World(ks, ss, pump)
  <2>1. \A j \in DOMAIN jobs : JobFits(ks[j]) /\ ks[j].opt = jobs[j].opt
    BY <1>6, <1>8, <1>9 DEF PlaybackInv, World
  <2>2. \A t \in DOMAIN ss : ~ss[t].terminal =>
          LET a == jobs[ss[t].job]  b == ks[ss[t].job] IN
          b.made = a.made /\ b.base <= ss[t].index /\ b.disposed = a.disposed
    <3> SUFFICES ASSUME NEW t \in DOMAIN ss, ~ss[t].terminal
                 PROVE  LET a == jobs[ss[t].job]  b == ks[ss[t].job] IN
                        b.made = a.made /\ b.base <= ss[t].index /\ b.disposed = a.disposed
      OBVIOUS
    <3>1. ss[t].job \in DOMAIN jobs /\ jobs[ss[t].job].base <= ss[t].index
      BY <1>7 DEF World, SpeechFits, Fit, Placed
    <3>2. CASE t = s BY <1>5, <1>6, <1>8, <1>9, <3>1, <3>2
    <3>3. CASE ss[t].job # q.job BY <1>9, <3>1, <3>3
    <3>4. CASE t # s /\ ss[t].job = q.job
      <4>1. ss[s] = q /\ s \in DOMAIN ss /\ ~ss[s].terminal BY <1>1, <1>5, <1>6
      <4>2. jobs[q.job].opt.retained BY <1>7, <3>4, <4>1 DEF World
      <4>3. ks[ss[t].job] = jobs[ss[t].job] BY <1>6, <1>8, <1>9, <3>1, <3>4, <4>2
      <4> QED BY <3>1, <4>3
    <3> QED BY <3>2, <3>3, <3>4
  <2> QED BY <1>7, <1>9, <2>1, <2>2, JobsTurn
<1>11. x \in Job /\ Fit(q, x)
  <2>1. ss[s] = q /\ s \in DOMAIN ss /\ ~q.terminal /\ ks[q.job] = x
    BY <1>1, <1>2, <1>5, <1>6, <1>9
  <2> QED BY <1>8, <1>10, <2>1 DEF World, SpeechFits, JobFits
<1>12. /\ Follows(q, r, x) /\ (HasChunk(q, x) => r = q)
       /\ ~HasChunk(q, x) => Stood(r) /\ ~HasChunk(r, x)
  BY <1>6, <1>11, TickedFollows
<1> HIDE DEF r
<1>13. Playing(r) \/ (Stood(r) /\ ~HasChunk(r, x)) BY <1>4, <1>12
<1>14. r \in SpeechState /\ Fit(r, x) /\ Position(r) = Position(q) BY <1>12 DEF Follows
<1>15. /\ u \in SpeechState /\ u.start \in {r.start, "none"}
       /\ \A f \in Fields \ {"start"} : u[f] = r[f]
  BY <1>14 DEF SpeechState, Fields
<1> HIDE DEF u
<1>16. /\ u.job = r.job /\ u.terminal = r.terminal /\ u.index = r.index /\ u.saved = r.saved
       /\ u.scheduled = r.scheduled /\ u.started = r.started /\ u.running = r.running
       /\ u.ticking = r.ticking /\ u.sources = r.sources
       /\ u.pending = r.pending /\ u.end = r.end /\ u.position = r.position
       /\ u.elapsed = r.elapsed
  BY <1>15 DEF Fields
<1>17. Position(u) = Position(r) BY <1>16 DEF Position, DriverPosition
<1>18. (Playing(r) => Playing(u)) /\ (Stood(r) => Stood(u))
  BY <1>15, <1>16, <1>17 DEF Playing, Stood
<1>19. Fit(u, x) BY <1>13, <1>14, <1>16, <1>17, <1>18 DEF Fit, Placed
<1>20. ~HasChunk(r, x) => ~HasChunk(u, x) BY <1>16 DEF HasChunk
<1>21. /\ Silenced(u, p) \/ Follows(u, p, x)
       /\ Playing(u) => p.terminal = TRUE \/ Playing(p)
       /\ Stood(u) /\ ~HasChunk(u, x) => p.terminal = TRUE \/ p = u
  BY <1>11, <1>15, <1>19, UpdatedFollows
<1> HIDE DEF p
<1>22. p \in SpeechState /\ r.ticking \in BOOLEAN
  BY <1>14, <1>21 DEF Silenced, Follows, SpeechState
<1>23. /\ z \in SpeechState /\ z.ticking = (~p.terminal /\ p.started /\ (begins \/ r.ticking))
       /\ \A f \in Fields \ {"ticking"} : z[f] = p[f]
  BY <1>22 DEF SpeechState, Fields
<1> HIDE DEF z
<1>24. /\ z.job = p.job /\ z.terminal = p.terminal /\ z.index = p.index /\ z.saved = p.saved
       /\ z.scheduled = p.scheduled /\ z.started = p.started /\ z.running = p.running
       /\ z.start = p.start /\ z.sources = p.sources
       /\ z.pending = p.pending /\ z.end = p.end /\ z.position = p.position
       /\ z.elapsed = p.elapsed
  BY <1>23 DEF Fields
<1>25. Position(z) = Position(p) BY <1>24 DEF Position, DriverPosition
<1>26. Silenced(q, z) \/ Follows(q, z, x)
  <2>1. u.job = q.job /\ u.terminal = q.terminal /\ Position(u) = Position(q)
    BY <1>12, <1>16, <1>17 DEF Follows
  <2>2. CASE Silenced(u, p) BY <1>23, <1>24, <2>1, <2>2 DEF Silenced
  <2>3. CASE Follows(u, p, x) /\ p.terminal # TRUE
    <3>1. Playing(p) \/ p = u BY <1>13, <1>18, <1>20, <1>21, <2>3
    <3>2. Placed(z, x) BY <1>24, <1>25, <2>3 DEF Follows, Fit, Placed
    <3>3. CASE Playing(p)
      <4>1. Playing(z) BY <1>24, <1>25, <3>3 DEF Playing
      <4> QED BY <1>23, <1>24, <1>25, <2>1, <2>3, <3>2, <4>1 DEF Follows, Fit
    <3>4. CASE ~Playing(p)
      <4>1. p = u /\ Stood(u) BY <1>13, <1>18, <3>1, <3>4
      <4>2. z.ticking = FALSE BY <1>23, <4>1 DEF Stood
      <4>3. Stood(z) BY <1>24, <4>1, <4>2 DEF Stood
      <4> QED BY <1>23, <1>24, <1>25, <2>1, <2>3, <3>2, <4>3 DEF Follows, Fit
    <3> QED BY <3>3, <3>4
  <2>4. CASE Follows(u, p, x) /\ p.terminal = TRUE
    BY <1>1, <1>6, <2>1, <2>4 DEF Follows
  <2> QED BY <1>21, <2>2, <2>3, <2>4
<1>27. Becomes(ks, ss, s, z)
  <2>1. [ss EXCEPT ![s] = z] = [speeches EXCEPT ![s] = z] BY <1>5 DEF ss
  <2> QED BY <1>3, <2>1 DEF Becomes
<1>28. ss[s] = q /\ s \in DOMAIN ss /\ ~q.terminal /\ ks[q.job] = x
  BY <1>1, <1>2, <1>5, <1>6, <1>9
<1>29. World(jobs', speeches', pump) /\ Kept(ss, speeches')
  BY <1>10, <1>26, <1>27, <1>28, BecomesTurn
<1>30. World(jobs', speeches', pump') BY <1>3, <1>29, PumpTurn
<1>31. Kept(speeches, speeches')
  <2>1. \A t \in DOMAIN speeches : speeches[t].terminal => ss[t].terminal BY <1>5, <1>6
  <2>2. \A t \in DOMAIN ss : ss[t].terminal => speeches'[t].terminal
    BY <1>27, <1>28 DEF Becomes
  <2> QED BY <1>7, <1>29, <2>1, <2>2, KeptTransitive
<1> QED BY <1>30, <1>31 DEF PlaybackInv

LEMMA SettlesTurn ==
  ASSUME VoiceInv, PlaybackInv, NEW s \in DOMAIN speeches, NEW c, StartSettles(s, c)
  PROVE  PlaybackInv' /\ Kept(speeches, speeches')
<1>1. s = active /\ ~speeches[s].terminal
  BY DEF StartSettles, VoiceInv, Live, Inactive, Silent
<1>2. CASE speeches[s].start = "resolved" /\ Tick(s, c, TRUE)
  <2>1. Fit(speeches[s], jobs[speeches[s].job])
    BY <1>1 DEF PlaybackInv, World, SpeechFits
  <2>2. Playing(speeches[s]) BY <1>2, <2>1 DEF Fit, Stood, Starting, Refused
  <2> QED BY <1>1, <1>2, <2>2, TickTurn
<1>3. CASE Finish(s) /\ pump' = Woken BY <1>1, <1>3, FinishingTurn DEF Woken
<1> QED BY <1>2, <1>3 DEF StartSettles

LEMMA TimerTurn ==
  ASSUME VoiceInv, PlaybackInv, NEW s \in DOMAIN speeches, NEW c, TimerTicks(s, c)
  PROVE  PlaybackInv' /\ Kept(speeches, speeches')
<1>1. s = active /\ ~speeches[s].terminal /\ speeches[s].ticking
  BY DEF TimerTicks, VoiceInv, Live, Inactive, Silent
<1>2. Fit(speeches[s], jobs[speeches[s].job]) BY <1>1 DEF PlaybackInv, World, SpeechFits
<1>3. Playing(speeches[s]) BY <1>1, <1>2 DEF Fit, Stood, Starting, Refused
<1> QED BY <1>1, <1>3, TickTurn DEF TimerTicks

LEMMA NoDriverTurn ==
  ASSUME PlaybackInv, NEW s \in DOMAIN speeches, NoDriver(s)
  PROVE  PlaybackInv' /\ Kept(speeches, speeches')
BY FinishingTurn DEF NoDriver, Woken

----------------------------------------------------------------------------
(* The theorems.                                                           *)

\* What a step of one clock does to positions, and every other step does not.
HonestMove(p, q) ==
  ~q.terminal /\ Position(q) # Position(p) =>
    /\ Position(q) = Position(p) + 1 /\ q.elapsed = p.elapsed + 1
    /\ Position(p) \div ChunkLength \in q.sources
HonestStep == \A s \in DOMAIN speeches : HonestMove(speeches[s], speeches'[s])

LEMMA KeptIsHonest == Kept(speeches, speeches') => HonestStep
BY DEF Kept, HonestStep, HonestMove

LEMMA PlaybackInit == SpeechInit => PlaybackInv
<1> SUFFICES ASSUME SpeechInit PROVE PlaybackInv OBVIOUS
<1>1. jobs = <<>> /\ speeches = <<>> /\ pump = Idle BY DEF SpeechInit
<1>2. jobs \in Seq(Job) /\ DOMAIN jobs = {} /\ DOMAIN speeches = {} BY <1>1
<1> QED BY <1>1, <1>2 DEF PlaybackInv, World, PumpFits

LEMMA PlaybackStep ==
  VoiceInv /\ PlaybackInv /\ [SpeechNext]_svars => PlaybackInv' /\ HonestStep
<1> SUFFICES ASSUME VoiceInv, PlaybackInv, [SpeechNext]_svars PROVE PlaybackInv' /\ HonestStep
  OBVIOUS
<1>1. CASE UNCHANGED svars BY <1>1 DEF svars, PlaybackInv, HonestStep, HonestMove
<1>2. CASE Calls BY <1>2, CallsTurn, KeptIsHonest
<1>3. CASE PumpTurns BY <1>3, PumpTurnsTurn, KeptIsHonest
<1>4. CASE BackendAnswers
  BY <1>4, PreparedTurn, SynthesizedTurn, StepFailsTurn, KeptIsHonest DEF BackendAnswers
<1>5. ASSUME NEW s \in DOMAIN speeches, Clock(s) PROVE PlaybackInv' /\ HonestStep
  BY <1>5, ClockTurn DEF HonestStep, HonestMove
<1>6. ASSUME NEW s \in DOMAIN speeches,
             \/ StaleStart(s) \/ NoDriver(s) \/ DriverResumes(s)
             \/ \E c \in Conditions : StartSettles(s, c) \/ TimerTicks(s, c)
      PROVE  PlaybackInv' /\ HonestStep
  BY <1>6, StaleTurn, NoDriverTurn, ContextTurn, SettlesTurn, TimerTurn, KeptIsHonest
<1> QED BY <1>1, <1>2, <1>3, <1>4, <1>5, <1>6 DEF SpeechNext

\* What a driver has scheduled is always what its speech accounts for, and direct
\* speech is never far ahead (WebAudioPlayback and Speech of tts-next).
THEOREM PlaybackInvariant == SpeechSpec => []PlaybackInv
BY PlaybackInit, PlaybackStep, VoiceInvariant, PTL DEF SpeechSpec

\* The fields of a generation and of a speech belong together: what is
\* released was made, what is scheduled exists and is not behind what is
\* played, and only a started driver has audio (the classes of model.ts).
THEOREM SpeechTypeCorrect == SpeechSpec => []SpeechTypeOK
<1>1. VoiceInv /\ PlaybackInv => SpeechTypeOK
  <2> SUFFICES ASSUME VoiceInv, PlaybackInv PROVE SpeechTypeOK OBVIOUS
  <2>1. \A j \in DOMAIN jobs : jobs[j] \in Job /\ jobs[j].base <= jobs[j].made
    BY DEF PlaybackInv, World, JobFits
  <2>2. ASSUME NEW s \in DOMAIN speeches
        PROVE  LET p == speeches[s] IN
               /\ p \in SpeechState /\ p.job \in DOMAIN jobs
               /\ ~p.terminal => /\ p.index <= p.scheduled /\ p.scheduled <= jobs[p.job].made
                                 /\ jobs[p.job].base <= p.index /\ ~jobs[p.job].disposed
               /\ p.running \/ p.pending # {} => p.started
    <3>1. SpeechFits(speeches[s], jobs) BY <2>2 DEF PlaybackInv, World
    <3>2. CASE speeches[s].terminal BY <3>1, <3>2 DEF SpeechFits
    <3>3. CASE ~speeches[s].terminal
      BY <3>1, <3>3 DEF SpeechFits, Fit, Placed, Stood, Starting, Refused, Playing
    <3> QED BY <3>2, <3>3
  <2>3. active \in DOMAIN speeches \cup {None} BY DEF VoiceInv
  <2>4. pump \in {Idle, Queued} \cup [at : {"prepare", "synthesize"}, job : DOMAIN jobs]
    BY DEF PlaybackInv, World, PumpFits
  <2> QED BY <2>1, <2>2, <2>3, <2>4 DEF SpeechTypeOK
<1> QED BY <1>1, VoiceInvariant, PlaybackInvariant, PTL

\* Through pauses, resumptions, superseded starts and underruns the position
\* of a speech only moves with the clock, and only over a chunk that is
\* scheduled (WebAudioPlayback.append and positionMs, Speech.stop and update).
THEOREM PositionIsHonest == SpeechSpec => PositionHonest
<1>1. VoiceInv /\ PlaybackInv /\ [SpeechNext]_svars =>
        [\A s \in DOMAIN speeches :
           LET p == speeches[s]  q == speeches'[s] IN
           ~q.terminal /\ Position(q) # Position(p) =>
             /\ Position(q) = Position(p) + 1 /\ q.elapsed = p.elapsed + 1
             /\ Position(p) \div ChunkLength \in q.sources]_svars
  BY PlaybackStep DEF HonestStep, HonestMove
<1> QED BY <1>1, VoiceInvariant, PlaybackInvariant, PTL DEF SpeechSpec, PositionHonest

-----------------------------------------------------------------------------
(***************************************************************************)
(* The order of the work of a model, proved: direct speech is synthesized  *)
(* a bounded time ahead, and raw generation is first in, first out,        *)
(* whatever is spoken, paused and resumed in between.                      *)
(***************************************************************************)

\* A generation that nobody speaks, and one that work was done for.
Raw(x) == x.opt.retained /\ ~x.spoken
Worked(x) == x.units > 0 \/ x.made > 0

\* Of the raw generations none before j can go on.
First(js, j) == Raw(js[j]) => \A i \in DOMAIN js : i < j /\ Raw(js[i]) => ~Runnable(js[i])

\* What has a speech is not raw; what was worked on, or is worked on, was the
\* first of the raw generations.
OrderInv ==
  /\ \A s \in DOMAIN speeches : jobs[speeches[s].job].spoken
  /\ \A j \in DOMAIN jobs : Worked(jobs[j]) \/ pump.job = j => First(jobs, j)

\* Generations are created, spoken and over, and work is done for those of K.
Advances(js, ks, K) ==
  /\ \A j \in DOMAIN js : /\ j \in DOMAIN ks /\ ks[j].opt = js[j].opt
                          /\ js[j].spoken => ks[j].spoken
                          /\ Runnable(ks[j]) => Runnable(js[j])
                          /\ Worked(ks[j]) => Worked(js[j]) \/ j \in K
  /\ \A j \in DOMAIN ks \ DOMAIN js : ~Worked(ks[j])

----------------------------------------------------------------------------
(* The operators on the generations.                                       *)

LEMMA AdvancesStill == ASSUME NEW js, NEW K PROVE Advances(js, js, K)
BY DEF Advances

LEMMA AdvancesFurther ==
  ASSUME NEW js, NEW ks, NEW ls, NEW K, NEW L, Advances(js, ks, K), Advances(ks, ls, L),
         L \subseteq DOMAIN js
  PROVE  Advances(js, ls, K \cup L)
BY DEF Advances

LEMMA OneAdvances ==
  ASSUME NEW js, NEW j \in DOMAIN js, NEW y, NEW K, y.opt = js[j].opt,
         js[j].spoken => y.spoken, Runnable(y) => Runnable(js[j]),
         Worked(y) => Worked(js[j]) \/ j \in K
  PROVE  Advances(js, [js EXCEPT ![j] = y], K)
BY DEF Advances

LEMMA DisposedAdvances ==
  ASSUME NEW x
  PROVE  /\ Disposed(x).opt = x.opt /\ Disposed(x).spoken = x.spoken
         /\ ~Runnable(Disposed(x)) /\ ~Worked(Disposed(x))
<1> DEFINE y == Disposed(x)
<1>1. /\ y.opt = x.opt /\ y.spoken = x.spoken /\ y.disposed = TRUE /\ y.units = 0 /\ y.made = 0
  BY DEF Disposed, Signalled, NewJob
<1> HIDE DEF y
<1> QED BY <1>1 DEF Runnable, Worked, y

LEMMA SignalledAdvances ==
  ASSUME NEW x \in Job
  PROVE  /\ Signalled(x).opt = x.opt /\ Signalled(x).spoken = x.spoken
         /\ Runnable(Signalled(x)) <=> Runnable(x)
         /\ Worked(Signalled(x)) <=> Worked(x)
BY DEF Signalled, Job, Runnable, Worked

LEMMA BecomesAdvances ==
  ASSUME NEW js, NEW ss, NEW s, NEW p, p.job \in DOMAIN js, Becomes(js, ss, s, p)
  PROVE  Advances(js, jobs', {})
<1> DEFINE y == Disposed(js[p.job])
<1>1. jobs' = js \/ jobs' = [js EXCEPT ![p.job] = y] BY DEF Becomes
<1>2. y.opt = js[p.job].opt /\ y.spoken = js[p.job].spoken /\ ~Runnable(y) /\ ~Worked(y)
  BY DisposedAdvances
<1> HIDE DEF y
<1>3. Advances(js, [js EXCEPT ![p.job] = y], {}) BY <1>2, OneAdvances
<1> QED BY <1>1, <1>3, AdvancesStill

LEMMA EndAdvances ==
  ASSUME NEW S, NEW D, End(S, D)
  PROVE  Advances(jobs, jobs', {}) /\ DOMAIN speeches' = DOMAIN speeches
<1>1. jobs' = [j \in DOMAIN jobs |-> IF j \in D THEN Disposed(jobs[j]) ELSE jobs[j]] BY DEF End
<1>2. Advances(jobs, jobs', {}) BY <1>1, DisposedAdvances DEF Advances
<1>3. DOMAIN speeches' = DOMAIN speeches BY DEF End
<1> QED BY <1>2, <1>3

\* A speech remains of its generation.
LEMMA StoppedJob == ASSUME NEW p PROVE Stopped(p).job = p.job
BY DEF Stopped, NewSpeech

LEMMA UpdatedJob ==
  ASSUME NEW p, Shaped(p), NEW x, NEW c
  PROVE  Updated(p, x, c).job = p.job
<1>1. Over(p).job = p.job BY DEF Over, NewSpeech
<1>2. \A chunks : Started(p, chunks).job = p.job
  <2>1. Stopped(p).job = p.job /\ Shaped(Stopped(p)) BY StoppedJob, StoppedShape DEF SameFlags
  <2> QED BY <2>1 DEF Started, Shaped, Fields
<1>3. \A chunks, n : Appended([p EXCEPT !.scheduled = n], chunks).job = p.job
  BY DEF Appended, Scheduled, Shaped, Fields
<1>4. CASE p.started BY <1>1, <1>3, <1>4 DEF Updated
<1>5. CASE ~p.started /\ HasChunk(p, x) BY <1>2, <1>5 DEF Updated
<1>6. CASE ~p.started /\ ~HasChunk(p, x) BY <1>1, <1>6 DEF Updated
<1> QED BY <1>4, <1>5, <1>6

LEMMA SignalAdvances ==
  ASSUME VoiceInv, NEW js, NEW j \in DOMAIN js, js[j] \in Job, NEW c, Signal(js, j, c)
  PROVE  Advances(js, jobs', {}) /\ DOMAIN speeches' = DOMAIN speeches
<1> DEFINE y == Signalled(js[j])
           ks == [js EXCEPT ![j] = y]
<1>1. /\ y.opt = js[j].opt /\ y.spoken = js[j].spoken
      /\ Runnable(y) => Runnable(js[j])
      /\ Worked(y) => Worked(js[j])
  BY SignalledAdvances
<1> HIDE DEF y
<1>2. Advances(js, ks, {}) BY <1>1, OneAdvances
<1>3. [js EXCEPT ![j] = Signalled(@)] = ks BY DEF y
<1>4. DOMAIN ks = DOMAIN js OBVIOUS
<1> HIDE DEF ks
<1>5. CASE active # None /\ speeches[active].job = j
  <2> DEFINE p == Updated(speeches[active], js[j], c)
  <2>1. Becomes(ks, speeches, active, p) BY <1>3, <1>5 DEF Signal
  <2>2. Shaped(speeches[active]) BY <1>5 DEF VoiceInv, Live
  <2>3. p.job \in DOMAIN ks BY <1>4, <1>5, <2>2, UpdatedJob
  <2> HIDE DEF p
  <2>4. Advances(ks, jobs', {}) BY <2>1, <2>3, BecomesAdvances
  <2>5. DOMAIN speeches' = DOMAIN speeches BY <2>1 DEF Becomes
  <2> QED BY <1>2, <2>4, <2>5, AdvancesFurther
<1>6. CASE ~(active # None /\ speeches[active].job = j)
  BY <1>2, <1>3, <1>6 DEF Signal
<1> QED BY <1>5, <1>6

LEMMA AddChunkAdvances ==
  ASSUME VoiceInv, NEW js, NEW j \in DOMAIN js, js[j] \in Job, NEW c, AddChunk(js, j, c)
  PROVE  Advances(js, jobs', {j}) /\ DOMAIN speeches' = DOMAIN speeches
<1> DEFINE y == [js[j] EXCEPT !.made = @ + 1]
           ks == [js EXCEPT ![j] = y]
<1>1. /\ y.opt = js[j].opt /\ y.spoken = js[j].spoken /\ y \in Job
      /\ Runnable(y) <=> Runnable(js[j])
  BY DEF Job, Runnable
<1>2. [js EXCEPT ![j].made = @ + 1] = ks OBVIOUS
<1>3. Signal(ks, j, c) BY <1>2 DEF AddChunk
<1> HIDE DEF y
<1>4. j \in DOMAIN ks /\ ks[j] = y OBVIOUS
<1>5. Advances(js, ks, {j}) BY <1>1, OneAdvances
<1> HIDE DEF ks
<1>6. Advances(ks, jobs', {}) /\ DOMAIN speeches' = DOMAIN speeches
  BY <1>1, <1>3, <1>4, SignalAdvances
<1>7. Advances(js, jobs', {j} \cup {}) BY <1>5, <1>6, AdvancesFurther
<1> QED BY <1>6, <1>7

LEMMA ActivateAdvances ==
  ASSUME NEW js, NEW ss, NEW s \in DOMAIN ss, Shaped(ss[s]), ss[s].job \in DOMAIN js, NEW c,
         Activate(js, ss, s, c)
  PROVE  /\ Advances(js, jobs', {}) /\ DOMAIN speeches' = DOMAIN ss
         /\ speeches'[s].job = ss[s].job
<1> DEFINE q == [ss[s] EXCEPT !.paused = FALSE]
           p == Updated(q, js[ss[s].job], c)
           rr == [t \in DOMAIN ss |-> IF t = active /\ t # s THEN Paused(ss[t]) ELSE ss[t]]
<1>1. Becomes(js, rr, s, p) BY DEF Activate
<1>2. Shaped(q) /\ q.job = ss[s].job BY DEF Shaped, Fields
<1> HIDE DEF q
<1>3. p.job = ss[s].job BY <1>2, UpdatedJob
<1> HIDE DEF p
<1>4. Advances(js, jobs', {}) BY <1>1, <1>3, BecomesAdvances
<1>5. speeches' = [rr EXCEPT ![s] = p] BY <1>1 DEF Becomes
<1>6. DOMAIN speeches' = DOMAIN ss /\ speeches'[s] = p BY <1>5
<1> QED BY <1>3, <1>4, <1>6

----------------------------------------------------------------------------
(* The order, after a turn.                                                *)

LEMMA JobsAreNumbered ==
  ASSUME PlaybackInv
  PROVE  /\ Len(jobs) \in Nat /\ DOMAIN jobs = 1 .. Len(jobs) /\ None \notin DOMAIN jobs
         /\ \A j \in DOMAIN jobs : jobs[j] \in Job
<1>1. Len(jobs) \in Nat /\ DOMAIN jobs = 1 .. Len(jobs)
  BY LenProperties DEF PlaybackInv, World
<1>2. \A j \in DOMAIN jobs : jobs[j] \in Job BY DEF PlaybackInv, World, JobFits
<1> QED BY <1>1, <1>2, SpeechAssumption

\* Work for the first of the raw generations, or for one that is not raw,
\* keeps the order; so do the end of generations and new ones.
LEMMA OrderKept ==
  ASSUME PlaybackInv, PlaybackInv', OrderInv, NEW K \in SUBSET DOMAIN jobs,
         Advances(jobs, jobs', K), \A k \in K : First(jobs, k),
         pump'.job \in K \cup {None, pump.job},
         \A s \in DOMAIN speeches' :
           \/ s \in DOMAIN speeches /\ speeches'[s].job = speeches[s].job
           \/ jobs'[speeches'[s].job].spoken
  PROVE  OrderInv'
<1>1. Len(jobs) \in Nat /\ DOMAIN jobs = 1 .. Len(jobs) /\ None \notin DOMAIN jobs
  BY JobsAreNumbered
<1>2. Len(jobs') \in Nat /\ DOMAIN jobs' = 1 .. Len(jobs') /\ None \notin DOMAIN jobs'
  BY LenProperties, SpeechAssumption DEF PlaybackInv, World
<1>3. \A s \in DOMAIN speeches' : jobs'[speeches'[s].job].spoken
  <2>1. \A s \in DOMAIN speeches : speeches[s].job \in DOMAIN jobs
    BY DEF PlaybackInv, World, SpeechFits
  <2> QED BY <2>1 DEF Advances, OrderInv
<1>4. ASSUME NEW j \in DOMAIN jobs', Worked(jobs'[j]) \/ pump'.job = j
      PROVE  First(jobs', j)
  <2>1. j \in DOMAIN jobs /\ (Worked(jobs[j]) \/ pump.job = j \/ j \in K)
    <3>1. pump'.job = j => pump.job = j \/ j \in K BY <1>2
    <3>2. pump.job \in DOMAIN jobs \cup {None}
      BY DEF PlaybackInv, World, PumpFits, Idle, Queued
    <3>3. Worked(jobs'[j]) => j \in DOMAIN jobs BY DEF Advances
    <3>4. j \in DOMAIN jobs BY <1>2, <1>4, <3>1, <3>2, <3>3
    <3> QED BY <1>4, <3>1, <3>4 DEF Advances
  <2>2. First(jobs, j) BY <2>1 DEF OrderInv
  <2>3. ASSUME NEW i \in DOMAIN jobs', i < j, Raw(jobs'[i]), Raw(jobs'[j])
        PROVE  ~Runnable(jobs'[i])
    <3>1. i \in DOMAIN jobs BY <1>1, <1>2, <2>1, <2>3
    <3>2. Raw(jobs[i]) /\ Raw(jobs[j]) BY <2>1, <2>3, <3>1 DEF Advances, Raw
    <3>3. ~Runnable(jobs[i]) BY <2>2, <2>3, <3>1, <3>2 DEF First
    <3> QED BY <3>1, <3>3 DEF Advances
  <2> QED BY <2>3 DEF First
<1> QED BY <1>3, <1>4 DEF OrderInv

\* A turn in which no speech is created.
Orderly(K) ==
  /\ K \subseteq DOMAIN jobs /\ Advances(jobs, jobs', K) /\ \A k \in K : First(jobs, k)
  /\ pump'.job \in K \cup {None, pump.job}
  /\ DOMAIN speeches' = DOMAIN speeches

LEMMA OrderlyKeeps ==
  ASSUME PlaybackInv, PlaybackInv', OrderInv, Kept(speeches, speeches'), NEW K, Orderly(K)
  PROVE  OrderInv'
BY OrderKept DEF Orderly, Kept

\* No generation changes.
LEMMA QuietOrder ==
  ASSUME PlaybackInv, PlaybackInv', OrderInv, Kept(speeches, speeches'), jobs' = jobs,
         DOMAIN speeches' = DOMAIN speeches, pump'.job \in {None, pump.job}
  PROVE  OrderInv'
<1>1. Advances(jobs, jobs', {}) BY AdvancesStill
<1>2. Orderly({}) BY <1>1 DEF Orderly
<1> QED BY <1>2, OrderlyKeeps

LEMMA WokenJob == Woken.job \in {None, pump.job}
BY DEF Woken, Queued

----------------------------------------------------------------------------
(* The callers.                                                            *)

\* The new speech makes its generation a spoken one.
LEMMA AttachOrder ==
  ASSUME VoiceInv, PlaybackInv, PlaybackInv', OrderInv, Kept(speeches, speeches'),
         NEW js, Advances(jobs, js, {}), NEW j \in DOMAIN js, js[j] \in Job,
         NEW d, NEW c, Attach(js, j, d, c)
  PROVE  OrderInv'
<1> DEFINE n == Len(speeches) + 1
           p == NewSpeech(j, d)
           ss == Append(speeches, p)
           y == [js[j] EXCEPT !.spoken = TRUE]
           ks == [js EXCEPT ![j] = y]
<1>1. [js EXCEPT ![j].spoken = TRUE] = ks OBVIOUS
<1>2. Activate(ks, ss, n, c) /\ pump'.job \in {None, pump.job}
  BY <1>1, WokenJob DEF Attach, Activate
<1>3. /\ y.opt = js[j].opt /\ y.spoken = TRUE
      /\ Runnable(y) => Runnable(js[j])
      /\ Worked(y) => Worked(js[j])
  BY DEF Job, Runnable, Worked
<1>4. j \in DOMAIN ks /\ ks[j] = y OBVIOUS
<1> HIDE DEF y
<1>5. Advances(js, ks, {}) BY <1>3, OneAdvances
<1>6. /\ DOMAIN ss = DOMAIN speeches \cup {n} /\ ss[n] = p /\ n \notin DOMAIN speeches
  BY ListedAppend DEF VoiceInv
<1>7. Shaped(p) /\ p.job = j BY NewSpeechShape DEF Inactive
<1> HIDE DEF ks, ss, p, n
<1>8. Advances(ks, jobs', {}) /\ DOMAIN speeches' = DOMAIN ss /\ speeches'[n].job = j
  BY <1>2, <1>4, <1>6, <1>7, ActivateAdvances
<1>9. jobs'[j].spoken BY <1>3, <1>4, <1>8 DEF Advances
<1>10. Advances(jobs, jobs', {})
  <2>1. Advances(jobs, ks, {} \cup {}) BY <1>5, AdvancesFurther
  <2>2. Advances(jobs, jobs', {} \cup {}) BY <1>8, <2>1, AdvancesFurther
  <2> QED BY <2>2
<1>11. \A s \in DOMAIN speeches' :
         \/ s \in DOMAIN speeches /\ speeches'[s].job = speeches[s].job
         \/ jobs'[speeches'[s].job].spoken
  BY <1>6, <1>8, <1>9 DEF Kept
<1> QED BY <1>2, <1>10, <1>11, OrderKept

LEMMA AppendAdvances ==
  ASSUME PlaybackInv, NEW o \in Options
  PROVE  LET n == Len(jobs) + 1  ks == Append(jobs, NewJob(o)) IN
         Advances(jobs, ks, {}) /\ n \in DOMAIN ks /\ ks[n] \in Job
<1> DEFINE n == Len(jobs) + 1
           ks == Append(jobs, NewJob(o))
<1>1. jobs \in Seq(Job) /\ Len(jobs) \in Nat /\ DOMAIN jobs = 1 .. Len(jobs)
  BY LenProperties DEF PlaybackInv, World
<1>2. NewJob(o) \in Job BY NewJobFits DEF JobFits
<1>3. /\ ks \in Seq(Job) /\ Len(ks) = n /\ ks[n] = NewJob(o)
      /\ \A i \in 1 .. Len(jobs) : ks[i] = jobs[i]
  BY <1>1, <1>2, AppendProperties
<1>4. DOMAIN ks = 1 .. n BY <1>3, LenProperties
<1>5. ~Worked(NewJob(o)) BY DEF NewJob, Worked
<1> HIDE DEF n, ks
<1>6. n = Len(jobs) + 1 BY DEF n
<1>7. DOMAIN ks = DOMAIN jobs \cup {n} /\ n \in DOMAIN ks BY <1>1, <1>4, <1>6
<1>8. Advances(jobs, ks, {}) BY <1>1, <1>3, <1>5, <1>7 DEF Advances
<1> QED BY <1>2, <1>3, <1>7, <1>8 DEF n, ks

LEMMA CallsOrder ==
  ASSUME VoiceInv, PlaybackInv, PlaybackInv', OrderInv, Kept(speeches, speeches'), Calls
  PROVE  OrderInv'
<1>1. ASSUME NEW o \in Options, Generate(o) PROVE OrderInv'
  <2>1. /\ jobs' = Append(jobs, NewJob(o)) /\ DOMAIN speeches' = DOMAIN speeches
        /\ pump'.job \in {None, pump.job}
    BY <1>1, WokenJob DEF Generate
  <2> QED BY <2>1, AppendAdvances, OrderlyKeeps DEF Orderly
<1>2. ASSUME NEW o \in Options, NEW d \in BOOLEAN, NEW c, Speak(o, d, c) PROVE OrderInv'
  BY <1>2, AppendAdvances, AttachOrder DEF Speak
<1>3. ASSUME NEW j \in DOMAIN jobs, NEW d \in BOOLEAN, NEW c, SpeakGeneration(j, d, c)
      PROVE  OrderInv'
  <2>1. Attach(jobs, j, d, c) /\ jobs[j] \in Job BY <1>3, JobsAreNumbered DEF SpeakGeneration
  <2> QED BY <2>1, AdvancesStill, AttachOrder
<1>4. ASSUME NEW S, NEW D, End(S, D), pump'.job \in {None, pump.job} PROVE OrderInv'
  BY <1>4, EndAdvances, OrderlyKeeps DEF Orderly
<1>5. CASE \E j \in DOMAIN jobs : CallerDisposes(j)
  BY <1>4, <1>5, WokenJob DEF CallerDisposes
<1>6. CASE \E s \in DOMAIN speeches : CallerPauses(s)
  <2>1. jobs' = jobs /\ DOMAIN speeches' = DOMAIN speeches /\ pump'.job \in {None, pump.job}
    BY <1>6, WokenJob DEF CallerPauses
  <2> QED BY <2>1, QuietOrder
<1>7. CASE \E s \in DOMAIN speeches : CallerCancels(s)
  BY <1>4, <1>7, WokenJob DEF CallerCancels, Finish
<1>8. ASSUME NEW s \in DOMAIN speeches, NEW c, CallerResumes(s, c) PROVE OrderInv'
  <2>1. Activate(jobs, speeches, s, c) /\ pump'.job \in {None, pump.job}
    BY <1>8, WokenJob DEF CallerResumes, Activate
  <2>2. Shaped(speeches[s]) BY DEF VoiceInv, Live, Inactive
  <2>3. speeches[s].job \in DOMAIN jobs BY DEF PlaybackInv, World, SpeechFits
  <2>4. Advances(jobs, jobs', {}) /\ DOMAIN speeches' = DOMAIN speeches
    BY <2>1, <2>2, <2>3, ActivateAdvances
  <2> QED BY <2>1, <2>4, OrderlyKeeps DEF Orderly
<1>9. ASSUME NEW j \in DOMAIN jobs, AwaitChunk(j) PROVE OrderInv'
  <2> DEFINE y == [jobs[j] EXCEPT !.awaited = TRUE]
  <2>1. jobs' = [jobs EXCEPT ![j] = y] /\ DOMAIN speeches' = DOMAIN speeches /\ pump' = pump
    BY <1>9 DEF AwaitChunk
  <2>2. /\ y.opt = jobs[j].opt /\ y.spoken = jobs[j].spoken
        /\ Runnable(y) => Runnable(jobs[j])
        /\ Worked(y) => Worked(jobs[j])
    BY JobsAreNumbered DEF Job, Runnable, Worked
  <2> HIDE DEF y
  <2>3. Advances(jobs, jobs', {}) BY <2>1, <2>2, OneAdvances
  <2>4. Orderly({}) BY <2>1, <2>3 DEF Orderly
  <2> QED BY <2>4, OrderlyKeeps
<1>10. CASE Unload BY <1>4, <1>10 DEF Unload
<1> QED BY <1>1, <1>2, <1>3, <1>5, <1>6, <1>7, <1>8, <1>9, <1>10 DEF Calls

----------------------------------------------------------------------------
(* The pump and the backend.                                               *)

\* Who is spoken is not raw: the raw generations are all in the background,
\* and of those the pump takes the first.
LEMMA ChosenIsFirst ==
  ASSUME VoiceInv, PlaybackInv, OrderInv, NEW k \in Chosen
  PROVE  First(jobs, k)
<1> SUFFICES ASSUME Raw(jobs[k]), NEW j \in DOMAIN jobs, j < k, Raw(jobs[j]), Runnable(jobs[j])
             PROVE  FALSE
  BY DEF First
<1>1. k \in DOMAIN jobs /\ Runnable(jobs[k]) BY ChosenFacts
<1>2. \A i \in DOMAIN jobs : Raw(jobs[i]) => ~Foreground(i)
  BY DEF Foreground, VoiceInv, OrderInv, Raw
<1>3. j \in Others BY <1>2 DEF Others, Background, Raw
<1>4. k \notin Needed BY <1>1, <1>2 DEF Needed
<1>5. Others \in SUBSET Nat
  <2>1. DOMAIN jobs \in SUBSET Nat BY JobsAreNumbered
  <2> QED BY <2>1 DEF Others, Background
<1>6. k = Min(Others) BY <1>3, <1>4 DEF Chosen
<1>7. Min(Others) \in Nat /\ Min(Others) <= j BY <1>3, <1>5, LeastExists
<1>8. j \in Nat BY <1>3, <1>5
<1> QED BY <1>6, <1>7, <1>8

LEMMA PumpOrder ==
  ASSUME VoiceInv, PlaybackInv, PlaybackInv', OrderInv, Kept(speeches, speeches'), PumpTurns
  PROVE  OrderInv'
<1>1. CASE PumpStops
  <2>1. jobs' = jobs /\ DOMAIN speeches' = DOMAIN speeches /\ pump'.job = None
    BY <1>1 DEF PumpStops, Idle
  <2> QED BY <2>1, QuietOrder
<1>2. CASE PumpAsks
  <2>1. PICK j \in Chosen : pump'.job = j BY <1>2 DEF PumpAsks
  <2>2. jobs' = jobs /\ DOMAIN speeches' = DOMAIN speeches BY <1>2 DEF PumpAsks
  <2>3. j \in DOMAIN jobs /\ First(jobs, j) BY ChosenFacts, ChosenIsFirst
  <2>4. Advances(jobs, jobs', {j}) BY <2>2, AdvancesStill
  <2>5. Orderly({j}) BY <2>1, <2>2, <2>3, <2>4 DEF Orderly
  <2> QED BY <2>5, OrderlyKeeps
<1>3. ASSUME NEW c, PumpSteps(c) PROVE OrderInv'
  <2>1. PICK j \in Chosen :
          IF jobs[j].silence > 0
          THEN AddChunk([jobs EXCEPT ![j].silence = @ - 1], j, c)
          ELSE NextSegment(j, c)
    BY <1>3 DEF PumpSteps
  <2>2. j \in DOMAIN jobs /\ First(jobs, j) /\ jobs[j] \in Job /\ pump' = pump
    BY <1>3, ChosenFacts, ChosenIsFirst, JobsAreNumbered DEF PumpSteps
  <2>3. CASE jobs[j].silence > 0
    <3> DEFINE y == [jobs[j] EXCEPT !.silence = @ - 1]
               ks == [jobs EXCEPT ![j] = y]
    <3>1. /\ y.opt = jobs[j].opt /\ y.spoken = jobs[j].spoken /\ y \in Job
          /\ Runnable(y) => Runnable(jobs[j])
          /\ Worked(y) => Worked(jobs[j])
      BY <2>2, <2>3 DEF Job, Runnable, Worked
    <3>2. [jobs EXCEPT ![j].silence = @ - 1] = ks OBVIOUS
    <3>3. AddChunk(ks, j, c) BY <2>1, <2>3, <3>2
    <3>4. ks[j] = y /\ j \in DOMAIN ks BY <2>2
    <3> HIDE DEF y
    <3>5. Advances(jobs, ks, {}) BY <2>2, <3>1, OneAdvances
    <3> HIDE DEF ks
    <3>6. Advances(ks, jobs', {j}) /\ DOMAIN speeches' = DOMAIN speeches
      BY <3>1, <3>3, <3>4, AddChunkAdvances
    <3>7. Advances(jobs, jobs', {} \cup {j}) BY <2>2, <3>5, <3>6, AdvancesFurther
    <3>8. Orderly({j}) BY <2>2, <3>6, <3>7 DEF Orderly
    <3> QED BY <3>8, OrderlyKeeps
  <2>4. CASE ~(jobs[j].silence > 0)
    <3> DEFINE y == [jobs[j] EXCEPT !.segment = @ + 1, !.units = 0, !.unit = 0]
               z == [y EXCEPT !.done = TRUE]
    <3>1. NextSegment(j, c) BY <2>1, <2>4
    <3>2. /\ y.opt = jobs[j].opt /\ y.spoken = jobs[j].spoken /\ y \in Job
          /\ Runnable(y) => Runnable(jobs[j])
          /\ Worked(y) => Worked(jobs[j])
      <4> DEFINE a == [jobs[j] EXCEPT !.segment = @ + 1]
                 b == [a EXCEPT !.units = 0]
      <4>1. /\ a.opt = jobs[j].opt /\ a.spoken = jobs[j].spoken /\ a \in Job
            /\ Runnable(a) => Runnable(jobs[j])
            /\ Worked(a) => Worked(jobs[j])
        BY <2>2 DEF Job, Runnable, Worked
      <4> HIDE DEF a
      <4>2. /\ b.opt = a.opt /\ b.spoken = a.spoken /\ b \in Job
            /\ Runnable(b) => Runnable(a)
            /\ Worked(b) => Worked(a)
        BY <4>1 DEF Job, Runnable, Worked
      <4>3. y = [b EXCEPT !.unit = 0] BY DEF a
      <4> HIDE DEF b, y
      <4>4. /\ y.opt = b.opt /\ y.spoken = b.spoken /\ y \in Job
            /\ Runnable(y) => Runnable(b)
            /\ Worked(y) => Worked(b)
        BY <4>2, <4>3 DEF Job, Runnable, Worked
      <4> QED BY <4>1, <4>2, <4>4
    <3>3. /\ z.opt = jobs[j].opt /\ z.spoken = jobs[j].spoken /\ z \in Job
          /\ Runnable(z) => Runnable(jobs[j])
          /\ Worked(z) => Worked(jobs[j])
      <4> HIDE DEF y
      <4> QED BY <3>2 DEF Job, Runnable, Worked
    <3>4. \/ jobs' = [jobs EXCEPT ![j] = y] /\ DOMAIN speeches' = DOMAIN speeches
          \/ Signal([jobs EXCEPT ![j] = z], j, c)
      BY <3>1 DEF NextSegment
    <3> HIDE DEF y, z
    <3>5. Advances(jobs, [jobs EXCEPT ![j] = y], {j}) /\ Advances(jobs, [jobs EXCEPT ![j] = z], {j})
      BY <2>2, <3>2, <3>3, OneAdvances
    <3> DEFINE ks == [jobs EXCEPT ![j] = z]
    <3>6. j \in DOMAIN ks /\ ks[j] = z BY <2>2
    <3>7. ASSUME Signal(ks, j, c)
          PROVE  Advances(jobs, jobs', {j}) /\ DOMAIN speeches' = DOMAIN speeches
      <4> HIDE DEF ks
      <4>1. Advances(ks, jobs', {}) /\ DOMAIN speeches' = DOMAIN speeches
        BY <3>3, <3>6, <3>7, SignalAdvances
      <4>2. Advances(jobs, ks, {j}) BY <3>5 DEF ks
      <4>3. Advances(jobs, jobs', {j} \cup {}) BY <4>1, <4>2, AdvancesFurther
      <4> QED BY <4>1, <4>3
    <3>8. Advances(jobs, jobs', {j}) /\ DOMAIN speeches' = DOMAIN speeches
      BY <3>4, <3>5, <3>7
    <3>9. Orderly({j}) BY <2>2, <3>8 DEF Orderly
    <3> QED BY <3>9, OrderlyKeeps
  <2> QED BY <2>3, <2>4
<1> QED BY <1>1, <1>2, <1>3 DEF PumpTurns

\* The job of a step that waits for the backend was chosen.
LEMMA AskedIsFirst ==
  ASSUME PlaybackInv, OrderInv, pump.job # None
  PROVE  pump.job \in DOMAIN jobs /\ First(jobs, pump.job) /\ jobs[pump.job] \in Job
<1>1. pump.job \in DOMAIN jobs BY DEF PlaybackInv, World, PumpFits, Idle, Queued
<1> QED BY <1>1, JobsAreNumbered DEF OrderInv

LEMMA PreparedOrder ==
  ASSUME PlaybackInv, PlaybackInv', OrderInv, Kept(speeches, speeches'), NEW n, Prepared(n)
  PROVE  OrderInv'
<1> DEFINE j == pump.job
           y == [jobs[j] EXCEPT !.units = n, !.silence = jobs[j].opt.pauses[jobs[j].segment]]
<1>1. /\ pump'.job = None /\ DOMAIN speeches' = DOMAIN speeches /\ pump.at = "prepare"
      /\ jobs' = jobs \/ jobs' = [jobs EXCEPT ![j] = y]
  BY DEF Prepared, Queued
<1>2. j # None
  <2>1. pump \notin {Idle, Queued} BY <1>1 DEF Idle, Queued
  <2>2. j \in DOMAIN jobs BY <2>1 DEF PlaybackInv, World, PumpFits
  <2> QED BY <2>2, JobsAreNumbered
<1>3. j \in DOMAIN jobs /\ First(jobs, j) /\ jobs[j] \in Job BY <1>2, AskedIsFirst
<1>4. /\ y.opt = jobs[j].opt /\ y.spoken = jobs[j].spoken
      /\ Runnable(y) => Runnable(jobs[j])
  BY <1>3 DEF Job, Runnable
<1> HIDE DEF y, j
<1>5. Advances(jobs, [jobs EXCEPT ![j] = y], {j}) BY <1>3, <1>4, OneAdvances
<1>6. Advances(jobs, jobs', {j}) BY <1>1, <1>5, AdvancesStill
<1>7. Orderly({j}) BY <1>1, <1>3, <1>6 DEF Orderly
<1> QED BY <1>7, OrderlyKeeps

LEMMA SynthesizedOrder ==
  ASSUME VoiceInv, PlaybackInv, PlaybackInv', OrderInv, Kept(speeches, speeches'),
         NEW c, Synthesized(c)
  PROVE  OrderInv'
<1> DEFINE j == pump.job
           y == [jobs[j] EXCEPT !.unit = @ + 1]
           ks == [jobs EXCEPT ![j] = y]
<1>1. pump'.job = None /\ pump.at = "synthesize" BY DEF Synthesized, Queued
<1>2. j # None
  <2>1. pump \notin {Idle, Queued} BY <1>1 DEF Idle, Queued
  <2>2. j \in DOMAIN jobs BY <2>1 DEF PlaybackInv, World, PumpFits
  <2> QED BY <2>2, JobsAreNumbered
<1>3. j \in DOMAIN jobs /\ First(jobs, j) /\ jobs[j] \in Job BY <1>2, AskedIsFirst
<1>4. CASE ~Runnable(jobs[j])
  <2>1. jobs' = jobs /\ DOMAIN speeches' = DOMAIN speeches BY <1>4 DEF Synthesized
  <2> QED BY <1>1, <2>1, QuietOrder
<1>5. CASE Runnable(jobs[j])
  <2>1. [jobs EXCEPT ![j].unit = @ + 1] = ks OBVIOUS
  <2>2. AddChunk(ks, j, c) BY <1>5, <2>1 DEF Synthesized
  <2>3. /\ y.opt = jobs[j].opt /\ y.spoken = jobs[j].spoken /\ y \in Job
        /\ Runnable(y) => Runnable(jobs[j])
        /\ Worked(y) => Worked(jobs[j])
    BY <1>3 DEF Job, Runnable, Worked
  <2>4. ks[j] = y /\ j \in DOMAIN ks BY <1>3
  <2> HIDE DEF y, j
  <2>5. Advances(jobs, ks, {}) BY <1>3, <2>3, OneAdvances
  <2> HIDE DEF ks
  <2>6. Advances(ks, jobs', {j}) /\ DOMAIN speeches' = DOMAIN speeches
    BY <2>2, <2>3, <2>4, AddChunkAdvances
  <2>7. Advances(jobs, jobs', {} \cup {j}) BY <1>3, <2>5, <2>6, AdvancesFurther
  <2>8. Orderly({j}) BY <1>1, <1>3, <2>6, <2>7 DEF Orderly
  <2> QED BY <2>8, OrderlyKeeps
<1> QED BY <1>4, <1>5

LEMMA StepFailsOrder ==
  ASSUME PlaybackInv, PlaybackInv', OrderInv, Kept(speeches, speeches'), StepFails
  PROVE  OrderInv'
<1> DEFINE j == pump.job
           y == Signalled([jobs[j] EXCEPT !.error = TRUE])
<1>1. pump'.job = None /\ j # None BY DEF StepFails, Queued
<1>2. j \in DOMAIN jobs /\ jobs[j] \in Job BY <1>1, AskedIsFirst
<1>3. \/ jobs' = jobs /\ DOMAIN speeches' = DOMAIN speeches
      \/ End(Children(j), {j})
      \/ jobs' = [jobs EXCEPT ![j] = y] /\ DOMAIN speeches' = DOMAIN speeches
  BY DEF StepFails
<1>4. /\ y.opt = jobs[j].opt /\ y.spoken = jobs[j].spoken
      /\ Runnable(y) => Runnable(jobs[j])
      /\ Worked(y) => Worked(jobs[j])
  BY <1>2 DEF Job, Signalled, Runnable, Worked
<1> HIDE DEF y, j
<1>5. Advances(jobs, [jobs EXCEPT ![j] = y], {}) BY <1>2, <1>4, OneAdvances
<1>6. Advances(jobs, jobs', {}) /\ DOMAIN speeches' = DOMAIN speeches
  BY <1>3, <1>5, AdvancesStill, EndAdvances
<1>7. Orderly({}) BY <1>1, <1>6 DEF Orderly
<1> QED BY <1>7, OrderlyKeeps

----------------------------------------------------------------------------
(* The driver, the clock and the timer.                                    *)

LEMMA TickOrder ==
  ASSUME VoiceInv, PlaybackInv, PlaybackInv', OrderInv, Kept(speeches, speeches'),
         NEW s \in DOMAIN speeches, NEW c, NEW begins, Tick(s, c, begins)
  PROVE  OrderInv'
<1> DEFINE p0 == speeches[s]
           q == Advanced(p0, jobs[p0.job])
           x == Released(jobs[q.job], q.index)
           r == Ticked(q, x)
           u == [r EXCEPT !.start = IF begins THEN "none" ELSE @]
           p == Updated(u, x, c)
           z == [p EXCEPT !.ticking = ~p.terminal /\ p.started /\ (begins \/ r.ticking)]
           ks == [jobs EXCEPT ![q.job] = x]
<1>1. Becomes(ks, speeches, s, z) /\ pump'.job \in {None, pump.job}
  BY WokenJob DEF Tick
<1>2. Shaped(p0) BY DEF VoiceInv, Live, Inactive
<1>3. p0.job \in DOMAIN jobs BY DEF PlaybackInv, World, SpeechFits
<1>4. Shaped(q) /\ q.job = p0.job BY <1>2 DEF Advanced, Shaped, Fields
<1> HIDE DEF q
<1>5. q.job \in DOMAIN jobs /\ jobs[q.job] \in Job BY <1>3, <1>4, JobsAreNumbered
<1>6. /\ x.opt = jobs[q.job].opt /\ x.spoken = jobs[q.job].spoken
      /\ Runnable(x) => Runnable(jobs[q.job])
      /\ Worked(x) => Worked(jobs[q.job])
  BY <1>5 DEF Released, Job, Runnable, Worked
<1> HIDE DEF x
<1>7. Shaped(r) /\ r.job = q.job
  <2> DEFINE v == [q EXCEPT !.saved = Position(q)]
  <2>1. Shaped(v) /\ v.job = q.job BY <1>4 DEF Shaped, Fields
  <2> HIDE DEF v
  <2>2. Shaped(Stopped(v)) /\ Stopped(v).job = q.job
    BY <2>1, StoppedJob, StoppedShape DEF SameFlags
  <2> QED BY <1>4, <2>2 DEF Ticked, v
<1> HIDE DEF r
<1>8. Shaped(u) /\ u.job = q.job BY <1>7 DEF Shaped, Fields
<1> HIDE DEF u
<1>9. p.job = q.job BY <1>8, UpdatedJob
<1>10. z.job = p.job OBVIOUS
<1> HIDE DEF z, p
<1>11. z.job \in DOMAIN ks BY <1>5, <1>9, <1>10
<1>12. Advances(jobs, ks, {}) BY <1>5, <1>6, OneAdvances
<1> HIDE DEF ks
<1>13. Advances(ks, jobs', {}) BY <1>1, <1>11, BecomesAdvances
<1>14. DOMAIN speeches' = DOMAIN speeches BY <1>1 DEF Becomes
<1>15. Advances(jobs, jobs', {} \cup {}) BY <1>12, <1>13, AdvancesFurther
<1>16. Orderly({}) BY <1>1, <1>14, <1>15 DEF Orderly
<1> QED BY <1>16, OrderlyKeeps

LEMMA FinishOrder ==
  ASSUME PlaybackInv, PlaybackInv', OrderInv, Kept(speeches, speeches'),
         NEW s, Finish(s), pump' = Woken
  PROVE  OrderInv'
<1>1. Advances(jobs, jobs', {}) /\ DOMAIN speeches' = DOMAIN speeches BY EndAdvances DEF Finish
<1>2. Orderly({}) BY <1>1, WokenJob DEF Orderly
<1> QED BY <1>2, OrderlyKeeps

\* A clock moves a position, and speeches remain of their generations.
LEMMA ClockOrder ==
  ASSUME PlaybackInv, PlaybackInv', OrderInv, NEW s \in DOMAIN speeches, Clock(s)
  PROVE  OrderInv'
<1>1. /\ jobs' = jobs /\ pump' = pump
      /\ speeches' = [speeches EXCEPT ![s] = [speeches[s] EXCEPT !.elapsed = @ + 1]]
  BY DEF Clock
<1>2. speeches[s] \in SpeechState BY DEF PlaybackInv, World, SpeechFits
<1>3. [speeches[s] EXCEPT !.elapsed = @ + 1].job = speeches[s].job BY <1>2 DEF SpeechState
<1>4. \A t \in DOMAIN speeches' :
        t \in DOMAIN speeches /\ speeches'[t].job = speeches[t].job
  BY <1>1, <1>3
<1>5. Advances(jobs, jobs', {}) BY <1>1, AdvancesStill
<1> QED BY <1>1, <1>4, <1>5, OrderKept

LEMMA OrderStep ==
  ASSUME VoiceInv, PlaybackInv, PlaybackInv', OrderInv, [SpeechNext]_svars
  PROVE  OrderInv'
<1>1. CASE UNCHANGED svars BY <1>1 DEF svars, OrderInv, First
<1>2. CASE Calls BY <1>2, CallsTurn, CallsOrder
<1>3. CASE PumpTurns BY <1>3, PumpTurnsTurn, PumpOrder
<1>4. CASE \E n \in UnitCounts : Prepared(n) BY <1>4, PreparedTurn, PreparedOrder
<1>5. CASE \E c \in Conditions : Synthesized(c) BY <1>5, SynthesizedTurn, SynthesizedOrder
<1>6. CASE StepFails BY <1>6, StepFailsTurn, StepFailsOrder
<1>7. ASSUME NEW s \in DOMAIN speeches, Clock(s) PROVE OrderInv' BY <1>7, ClockOrder
<1>8. ASSUME NEW s \in DOMAIN speeches, StaleStart(s) PROVE OrderInv'
  <2>1. jobs' = jobs /\ pump' = pump /\ DOMAIN speeches' = DOMAIN speeches
    BY <1>8 DEF StaleStart
  <2> QED BY <1>8, <2>1, StaleTurn, QuietOrder
<1>9. ASSUME NEW s \in DOMAIN speeches, NoDriver(s) PROVE OrderInv'
  BY <1>9, NoDriverTurn, FinishOrder DEF NoDriver
<1>10. ASSUME NEW s \in DOMAIN speeches, DriverResumes(s) PROVE OrderInv'
  <2>1. jobs' = jobs /\ pump' = pump /\ DOMAIN speeches' = DOMAIN speeches
    BY <1>10 DEF DriverResumes, ContextResumes
  <2> QED BY <1>10, <2>1, ContextTurn, QuietOrder
<1>11. ASSUME NEW s \in DOMAIN speeches, NEW c \in Conditions, StartSettles(s, c) PROVE OrderInv'
  <2>1. Kept(speeches, speeches') BY <1>11, SettlesTurn
  <2> QED BY <1>11, <2>1, TickOrder, FinishOrder DEF StartSettles
<1>12. ASSUME NEW s \in DOMAIN speeches, NEW c \in Conditions, TimerTicks(s, c) PROVE OrderInv'
  <2>1. Kept(speeches, speeches') BY <1>12, TimerTurn
  <2> QED BY <1>12, <2>1, TickOrder DEF TimerTicks
<1> QED
  BY <1>1, <1>2, <1>3, <1>4, <1>5, <1>6, <1>7, <1>8, <1>9, <1>10, <1>11, <1>12
  DEF SpeechNext, BackendAnswers

----------------------------------------------------------------------------
(* The theorems.                                                           *)

LEMMA OrderInit == SpeechInit => OrderInv
<1> SUFFICES ASSUME SpeechInit PROVE OrderInv OBVIOUS
<1>1. DOMAIN jobs = {} /\ DOMAIN speeches = {} BY DEF SpeechInit
<1> QED BY <1>1 DEF OrderInv

\* What was worked on was the first of the raw generations, whatever the pump
\* did for the active speech in between (the choice of a job in
\* TextToSpeechModel.pump).
THEOREM OrderInvariant == SpeechSpec => []OrderInv
<1>1. VoiceInv /\ PlaybackInv /\ PlaybackInv' /\ OrderInv /\ [SpeechNext]_svars => OrderInv'
  BY OrderStep
<1> QED BY <1>1, OrderInit, VoiceInvariant, PlaybackInvariant, PTL DEF SpeechSpec

\* Direct speech keeps what is left to play and is synthesized at most AHEAD_MS
\* and a chunk ahead, and raw generation is FIFO (pump and releaseThrough
\* of tts-next/model.ts).
THEOREM WorkStaysOrdered == SpeechSpec => []WorkIsOrdered
<1>1. PlaybackInv => LookaheadBounded
  <2> SUFFICES ASSUME PlaybackInv, NEW s \in DOMAIN speeches, ~speeches[s].terminal,
                      ~jobs[speeches[s].job].opt.retained
               PROVE  LET p == speeches[s]  x == jobs[p.job] IN
                      /\ x.base * ChunkLength <= Position(p)
                      /\ Duration(x) < Position(p) + Ahead + ChunkLength
    BY DEF LookaheadBounded
  <2> DEFINE p == speeches[s]
             x == jobs[p.job]
  <2>1. p \in SpeechState /\ x \in Job /\ Fit(p, x) /\ Near(p, x, pump)
    BY DEF PlaybackInv, World, SpeechFits, JobFits
  <2>2. x.base \in Nat /\ p.index \in Nat /\ x.base <= p.index /\ Position(p) \in Nat
    BY <2>1, FitFields
  <2>3. StartOf(x.base) <= StartOf(p.index) /\ StartOf(p.index) <= Position(p)
        /\ StartOf(x.base) \in Nat /\ StartOf(p.index) \in Nat
    BY <2>1, <2>2, ChunkFacts, ChunkOrder DEF Fit, Placed
  <2>4. StartOf(x.base) = x.base * ChunkLength BY DEF StartOf
  <2> HIDE DEF p, x
  <2>5. x.base * ChunkLength <= Position(p) BY <2>2, <2>3, <2>4
  <2>6. ~x.opt.retained BY DEF p, x
  <2> QED BY <2>1, <2>5, <2>6 DEF Near, p, x
<1>2. OrderInv => RawFifo BY DEF OrderInv, First, Raw, Worked, RawFifo
<1> QED BY <1>1, <1>2, PlaybackInvariant, OrderInvariant, PTL DEF WorkIsOrdered
=============================================================================
