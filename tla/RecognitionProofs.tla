-------------------------- MODULE RecognitionProofs -------------------------
(***************************************************************************)
(* Theorems about recognition (wfloat-web stt-next), for any recordings,   *)
(* sessions, lengths of audio and windows: the recognizer is only told     *)
(* what it can obey, and what sessions tell is what was said.              *)
(***************************************************************************)
EXTENDS Recognition, TLAPS, SequenceTheorems

----------------------------------------------------------------------------
(* The invariant. *)

Event == [text : Nat, id : Nat, final : BOOLEAN]
OpRecord ==
  [kind : {"file", "session"}, at : Stages, terminal : BOOLEAN, result : Results, length : Nat,
   heard : Nat, chunk : Seq(Nat), finished : BOOLEAN,
   pump : PumpStages, ending : BOOLEAN, queue : Seq(Nat), accepted : Nat, held : 0 .. 1,
   source : {"none", "external", "microphone"}, capture : {"none", "starting", "held"},
   mic : CaptureRecord, closing : BOOLEAN,
   windowStart : Nat, decoded : Nat, prefix : Nat, reference : BOOLEAN,
   hypothesis : Nat, segments : Nat, last : Event]

\* n units of audio, those after a.
Run(a, n) == Units(a + 1, a + n)

\* The microphone of an operation that ends or has ended is stopped.
MicFits(s) ==
  /\ NoLeak(s.mic)
  /\ s.terminal \/ s.ending => s.capture # "held" /\ (s.mic.at # "none" => s.mic.stopped)
Base(s) == s \in OpRecord /\ (s.terminal <=> s.result # "none") /\ MicFits(s)

\* The hypothesis is what the application was told last of this utterance.
Numbered(s) ==
  s.last.id \in {s.segments, s.segments - 1} /\ (s.last.id = s.segments => ~s.last.final)
ShowFits(s) ==
  Numbered(s) /\ s.hypothesis = IF s.last.id = s.segments /\ ~s.last.final THEN s.last.text ELSE NoText

\* Where it stands.
Waits(s) == s.at \in {"queued", "configure", "open"}
Placed(s, k) ==
  /\ s.pump # "idle" => s.kind = "session" /\ s.at = "live"
  /\ k = "online" => s.at # "decode" /\ s.pump \notin {"reference", "decode"}
  /\ k = "offline" => s.at \notin {"open", "push", "reset", "close"} /\ s.pump \notin {"push", "reset"}
  /\ s.at = "over" => s.terminal
  /\ s.kind = "session" =>
       /\ s.at \in {"queued", "configure", "open", "live", "close", "over"}
       /\ s.at = "close" => s.terminal
       /\ Waits(s) => ~s.terminal /\ s.capture = "none" /\ s.mic.at = "none"
  /\ s.kind = "file" => s.at # "live"

\* The audio of a recording: heard, under way and left.
FileFits(s) ==
  /\ s.chunk = Run(s.heard, Len(s.chunk)) /\ s.heard + Len(s.chunk) + s.length = s.accepted
  /\ s.queue = <<>> /\ s.hypothesis = NoText /\ s.decoded = 0 /\ s.mic.at = "none" /\ s.capture = "none"
  /\ s.at \notin {"push", "decode", "close", "over"} => s.chunk = <<>>
  /\ s.at = "decode" => Len(s.chunk) \in 1 .. Window
  /\ s.at = "reset" => s.length > 0
  /\ s.at = "close" /\ s.finished /\ ~s.terminal => s.length = 0 /\ s.chunk = <<>>
  /\ s.result = "complete" => s.length = 0 /\ s.chunk = <<>>

\* What the recognizer and the queue have of a session that goes on: all of
\* it, in order, n units being under way to an incremental recognizer.
Ordered(s) ==
  /\ Len(s.queue) <= s.accepted - s.held
  /\ s.queue = Run(s.accepted - s.held - Len(s.queue), Len(s.queue))
  /\ s.ending => s.held = 0
Incremental(s, n) == s.heard + n + Len(s.queue) + s.held = s.accepted
Windowed(s) ==
  /\ s.windowStart + Len(s.queue) + s.held = s.accepted
  /\ s.heard = s.windowStart + s.decoded /\ s.decoded <= Len(s.queue)
  /\ s.queue = <<>> => s.hypothesis = NoText
\* Nothing was new at the end: what is left of the window is dropped.
Emptied(s) ==
  /\ s.pump = "returned" /\ s.ending /\ s.queue = <<>>
  /\ s.heard = s.accepted /\ s.hypothesis = NoText
Bounded(s, k) ==
  /\ s.heard <= s.accepted /\ s.decoded <= Window
  /\ s.terminal => s.queue = <<>> /\ s.held = 0
  /\ s.result = "complete" => s.heard = s.accepted /\ (k = "offline" => s.hypothesis = NoText)
\* The chunk the pump has given to the recognizer.
Chunk(s, k) ==
  /\ k = "online" /\ s.pump # "push" => s.chunk = <<>>
  /\ s.pump = "push" => /\ s.chunk = Run(s.heard, Len(s.chunk)) /\ s.heard + Len(s.chunk) <= s.accepted
                        /\ ~s.terminal /\ s.finished => s.ending /\ s.queue = <<>>
  /\ s.pump \in {"reference", "decode"} =>
       /\ Len(s.chunk) \in 1 .. Window
       /\ ~s.terminal => /\ s.chunk = Run(s.windowStart, Len(s.chunk))
                         /\ s.decoded <= Len(s.chunk) /\ Len(s.chunk) <= Len(s.queue)
  /\ s.pump \notin {"idle", "returned", "settle"} => s.result # "complete"
SessionFits(s, k) ==
  /\ Bounded(s, k) /\ Chunk(s, k)
  /\ ~s.terminal => /\ Ordered(s)
                    /\ k = "online" => Incremental(s, Len(s.chunk))
                    /\ k = "offline" => Windowed(s) \/ Emptied(s)
  /\ Waits(s) => s.pump = "idle"

\* All of an operation but the limit of its backlog.
Fits(s, k) ==
  /\ Base(s) /\ ShowFits(s) /\ Placed(s, k)
  /\ s.kind = "file" => FileFits(s)
  /\ s.kind = "session" => SessionFits(s, k)
Limited(s) ==
  s.kind = "session" /\ ~s.terminal /\ ~s.ending => s.accepted - s.held - s.heard <= MaxBuffered
OpFit(s, k) == Fits(s, k) /\ Limited(s)

\* A session at the head of the loop of its pump.
Resting(s, k) ==
  /\ Base(s) /\ ShowFits(s) /\ s.kind = "session" /\ s.at = "live" /\ Bounded(s, k)
  /\ ~s.terminal => /\ Ordered(s)
                    /\ k = "online" => Incremental(s, 0)
                    /\ k = "offline" => Windowed(s)

\* Nothing is pushed for a session any more.
Through(s) ==
  s.pump \notin {"push", "reset"} /\ (s.terminal \/ (s.pump = "returned" /\ s.ending /\ s.queue = <<>>))
\* What the recognizer knows of an operation that uses it.
UsesRight(o, s, r, k) ==
  /\ s.at \in {"configure", "open"} => r.stream = 0
  /\ s.at \in {"open", "push", "reset", "decode", "live"} => r.options = o
  /\ s.at \in {"push", "reset"} => r.stream = o /\ ~r.finished
  /\ s.at = "live" /\ k = "online" =>
       r.stream = o /\ (r.finished => Through(s))
Streaming == {"push", "reset", "live", "close"}
RecognizerFits ==
  /\ recognizer \in [options : 0 .. Len(ops), stream : 0 .. Len(ops), finished : BOOLEAN]
  /\ kind = "offline" => recognizer.stream = 0
  /\ ~dead => /\ recognizer.stream # 0 => ops[recognizer.stream].at \in Streaming
              /\ \A o \in Ops : UsesRight(o, ops[o], recognizer, kind)
InTurn ==
  /\ \A o, p \in Ops : o < p /\ ops[p].at # "queued" => ops[o].at = "over"
  /\ unload \in {"asked", "done"} => \A o \in Ops : ops[o].at = "over"

RecognitionInv ==
  /\ kind \in {"online", "offline"} /\ dead \in BOOLEAN /\ unload \in {"no", "queued", "asked", "done"}
  /\ ops \in Seq(OpRecord) /\ Len(ops) <= MaxOps
  /\ \A o \in Ops : OpFit(ops[o], kind)
  /\ InTurn /\ RecognizerFits

\* A pump that returned at the end has left nothing provisional, and every step
\* that lets a pump return leaves it so.
Tidy(s) ==
  s.pump = "returned" /\ ~s.terminal /\ s.ending /\ s.queue = <<>> => s.hypothesis = NoText
Onward ==
  /\ RecognitionInv' /\ Ops \subseteq Ops'
  /\ \A o \in Ops : ops[o].pump # "returned" => Tidy(ops'[o])

----------------------------------------------------------------------------
(* Lemmas about extrema and units of audio. *)

LEMMA MaxOfTwo ==
  ASSUME NEW a \in Int, NEW b \in Int
  PROVE  Max({a, b}) = IF a >= b THEN a ELSE b
  BY SMT DEF Max

LEMMA MinOfTwo ==
  ASSUME NEW a \in Int, NEW b \in Int
  PROVE  Min({a, b}) = IF a <= b THEN a ELSE b
  BY SMT DEF Min

LEMMA RunParts ==
  ASSUME NEW a \in Nat, NEW n \in Nat
  PROVE  /\ Run(a, n) \in Seq(Nat) /\ Len(Run(a, n)) = n
         /\ \A i \in 1 .. n : Run(a, n)[i] = a + i
  <1> DEFINE U == [i \in 1 .. n |-> a + i]
  <1>1. Run(a, n) = U
    <2>1. (IF a + n < a + 1 THEN 0 ELSE a + n - (a + 1) + 1) = n  OBVIOUS
    <2>2. \A i \in 1 .. n : (a + 1) + i - 1 = a + i  OBVIOUS
    <2>3. Run(a, n) = [i \in 1 .. n |-> (a + 1) + i - 1]  BY <2>1 DEF Run, Units
    <2> QED BY <2>2, <2>3
  <1>2. U \in [1 .. n -> Nat] /\ DOMAIN U = 1 .. n /\ \A i \in 1 .. n : U[i] = a + i  OBVIOUS
  <1> HIDE DEF U
  <1>3. U \in Seq(Nat)  BY <1>2, SeqDef
  <1>4. Len(U) \in Nat /\ 1 .. Len(U) = 1 .. n  BY <1>2, <1>3, LenProperties
  <1>5. Len(U) = n
    <2>1. CASE Len(U) < n
      <3>1. n \in 1 .. n /\ n \notin 1 .. Len(U)  BY <1>4, <2>1
      <3> QED BY <1>4, <3>1
    <2>2. CASE n < Len(U)
      <3>1. Len(U) \in 1 .. Len(U) /\ Len(U) \notin 1 .. n  BY <1>4, <2>2
      <3> QED BY <1>4, <3>1
    <2> QED BY <1>4, <2>1, <2>2
  <1> QED BY <1>1, <1>2, <1>3, <1>5

LEMMA NoRun == ASSUME NEW a \in Nat PROVE Run(a, 0) = <<>>
  <1>1. Run(a, 0) \in Seq(Nat) /\ Len(Run(a, 0)) = 0  BY RunParts
  <1> QED BY <1>1, EmptySeq

LEMMA EmptyLen == ASSUME NEW S, NEW q \in Seq(S) PROVE (q = <<>> <=> Len(q) = 0) /\ Len(q) \in Nat
  BY EmptySeq, LenProperties

\* l and then r are w units after a.
Joined(l, r, a, w) == l \o r = Run(a, w)
LEMMA RunJoin ==
  ASSUME NEW a \in Nat, NEW n \in Nat, NEW b \in Nat, NEW m \in Nat, b = a + n, NEW w \in Nat, w = n + m,
         NEW L, L = Run(a, n), NEW R, R = Run(b, m)
  PROVE  Joined(L, R, a, w)
  <1> DEFINE W == Run(a, w)
  <1>1. L \in Seq(Nat) /\ Len(L) = n /\ \A i \in 1 .. n : L[i] = a + i
    <2>1. Run(a, n) \in Seq(Nat) /\ Len(Run(a, n)) = n /\ \A i \in 1 .. n : Run(a, n)[i] = a + i
      BY RunParts
    <2> QED BY <2>1
  <1>2. R \in Seq(Nat) /\ Len(R) = m /\ \A i \in 1 .. m : R[i] = b + i
    <2>1. Run(b, m) \in Seq(Nat) /\ Len(Run(b, m)) = m /\ \A i \in 1 .. m : Run(b, m)[i] = b + i
      BY RunParts
    <2> QED BY <2>1
  <1>3. W \in Seq(Nat) /\ Len(W) = w /\ \A i \in 1 .. w : W[i] = a + i  BY RunParts
  <1> HIDE DEF W
  <1>4. /\ L \o R \in Seq(Nat) /\ Len(L \o R) = w
        /\ \A i \in 1 .. w : (L \o R)[i] = IF i <= n THEN L[i] ELSE R[i - n]
    <2>1. /\ L \o R \in Seq(Nat) /\ Len(L \o R) = Len(L) + Len(R)
          /\ \A i \in 1 .. Len(L) + Len(R) : (L \o R)[i] = IF i <= Len(L) THEN L[i] ELSE R[i - Len(L)]
      <3>1. L \in Seq(Nat) /\ R \in Seq(Nat)  BY <1>1, <1>2
      <3> QED BY ONLY <3>1, ConcatProperties
    <2> QED BY <1>1, <1>2, <2>1
  <1>5. ASSUME NEW i \in 1 .. w PROVE (L \o R)[i] = W[i]
    <2>1. CASE i <= n
      <3>1. i \in 1 .. n  BY <2>1
      <3> QED BY <1>1, <1>3, <1>4, <2>1, <3>1
    <2>2. CASE ~(i <= n)
      <3>1. i - n \in 1 .. m /\ b + (i - n) = a + i  BY <2>2
      <3> QED BY <1>2, <1>3, <1>4, <2>2, <3>1
    <2> QED BY <2>1, <2>2
  <1>6. L \o R = W  BY <1>3, <1>4, <1>5, SeqEqual
  <1> QED BY <1>6 DEF W, Joined

\* What is left of a run when its first units are taken, and these.
LEMMA RunSplit ==
  ASSUME NEW a \in Nat, NEW n \in Nat, NEW m \in Nat, n <= m
  PROVE  First(Run(a, m), n) = Run(a, n) /\ Rest(Run(a, m), n) = Run(a + n, m - n)
  <1> DEFINE U == Run(a, m)  b == a + n  l == m - n
  <1>1. U \in Seq(Nat) /\ Len(U) = m /\ \A i \in 1 .. m : U[i] = a + i  BY RunParts
  <1>2. b \in Nat /\ l \in Nat /\ b = a + n /\ l = m - n  OBVIOUS
  <1> HIDE DEF U, b, l
  <1>3. First(U, n) = Run(a, n)
    <2>1. \A i \in 1 .. n : U[i] \in Nat  BY <1>1
    <2>2. 1 \in Int /\ n \in Int  OBVIOUS
    <2>3. /\ SubSeq(U, 1, n) \in Seq(Nat) /\ Len(SubSeq(U, 1, n)) = IF 1 <= n THEN n - 1 + 1 ELSE 0
          /\ \A i \in 1 .. n - 1 + 1 : SubSeq(U, 1, n)[i] = U[1 + i - 1]
      BY <2>1, <2>2, SubSeqProperties
    <2> DEFINE S == SubSeq(U, 1, n)
    <2>4. \A i \in 1 .. n : 1 + i - 1 = i /\ i \in 1 .. m  OBVIOUS
    <2>5. S \in Seq(Nat) /\ Len(S) = n /\ \A i \in 1 .. n : S[i] = a + i  BY <1>1, <2>3, <2>4
    <2> HIDE DEF S
    <2>6. Run(a, n) \in Seq(Nat) /\ Len(Run(a, n)) = n /\ \A i \in 1 .. n : Run(a, n)[i] = a + i
      BY RunParts
    <2>7. S = Run(a, n)  BY <2>5, <2>6, SeqEqual
    <2> QED BY <2>7 DEF S, First
  <1>4. Rest(U, n) = Run(b, l)
    <2> DEFINE k == n + 1
    <2>1. k \in Int /\ m \in Int /\ k = n + 1  OBVIOUS
    <2> HIDE DEF k
    <2>2. \A i \in k .. m : U[i] \in Nat  BY <1>1, <2>1
    <2> DEFINE S == SubSeq(U, k, m)
    <2>3. /\ S \in Seq(Nat) /\ Len(S) = IF k <= m THEN m - k + 1 ELSE 0
          /\ \A i \in 1 .. m - k + 1 : S[i] = U[k + i - 1]
      BY <2>1, <2>2, SubSeqProperties
    <2> HIDE DEF S
    <2>4. m - k + 1 = l /\ (IF k <= m THEN m - k + 1 ELSE 0) = l  BY <1>2, <2>1
    <2>5. \A i \in 1 .. l : U[k + i - 1] = b + i
      <3>1. \A i \in 1 .. l : k + i - 1 \in 1 .. m /\ a + (k + i - 1) = b + i  BY <1>2, <2>1
      <3> QED BY <1>1, <3>1
    <2>6. S \in Seq(Nat) /\ Len(S) = l /\ \A i \in 1 .. l : S[i] = b + i  BY <2>3, <2>4, <2>5
    <2>7. Run(b, l) \in Seq(Nat) /\ Len(Run(b, l)) = l /\ \A i \in 1 .. l : Run(b, l)[i] = b + i
      BY <1>2, RunParts
    <2>8. S = Run(b, l)  BY <2>6, <2>7, SeqEqual
    <2>9. Rest(U, n) = S  BY <1>1, <2>1 DEF Rest, S
    <2> QED BY <2>8, <2>9
  <1> QED BY <1>3, <1>4 DEF U, b, l

\* f and r are what is taken of n units after a, and what is left of m.
Parts(f, r, a, n, b, l) ==
  /\ f = Run(a, n) /\ f \in Seq(Nat) /\ Len(f) = n
  /\ r = Run(b, l) /\ r \in Seq(Nat) /\ Len(r) = l
LEMMA RunCut ==
  ASSUME NEW q, NEW a \in Nat, NEW m \in Nat, q = Run(a, m), NEW n \in Nat, n <= m,
         NEW b \in Nat, b = a + n, NEW l \in Nat, l = m - n
  PROVE  Parts(First(q, n), Rest(q, n), a, n, b, l)
  <1>1. First(q, n) = Run(a, n) /\ Rest(q, n) = Run(b, l)  BY RunSplit
  <1>3. Run(a, n) \in Seq(Nat) /\ Len(Run(a, n)) = n  BY RunParts
  <1>4. Run(b, l) \in Seq(Nat) /\ Len(Run(b, l)) = l  BY RunParts
  <1> QED BY <1>1, <1>3, <1>4 DEF Parts

\* The recognizer hears a chunk that starts where it has heard.
LEMMA HeardOn ==
  ASSUME NEW s, s.heard \in Nat, s.chunk \in Seq(Nat), NEW a \in Nat, NEW n \in Nat, n = Len(s.chunk),
         s.chunk = Run(a, n), a <= s.heard, kind = "online" \/ n = 0 => a = s.heard, s.heard <= a + n
  PROVE  Heard(s, s.chunk) = a + n
  <1>1. CASE n = 0
    <2>1. s.chunk = <<>>  BY <1>1, EmptyLen
    <2> QED BY <1>1, <2>1 DEF Heard
  <1>2. CASE n > 0
    <2>0. n \in Nat  BY EmptyLen
    <2>1. s.chunk # <<>> /\ s.chunk[1] = a + 1 /\ s.chunk[Len(s.chunk)] = a + n
      <3>2. 1 \in 1 .. n /\ n \in 1 .. n /\ n # 0  BY <1>2, <2>0
      <3>3. \A i \in 1 .. n : Run(a, n)[i] = a + i  BY <2>0, RunParts
      <3> QED BY <3>2, <3>3, EmptyLen
    <2>2. Max({s.heard, a + n}) = a + n
      <3>1. a + n \in Int /\ s.heard \in Int  BY <2>0
      <3>2. Max({s.heard, a + n}) = IF s.heard >= a + n THEN s.heard ELSE a + n  BY <3>1, MaxOfTwo
      <3> QED BY <3>2
    <2>3. ~(s.chunk[1] > s.heard + 1 \/ (kind = "online" /\ s.chunk[1] # s.heard + 1))
      <3>1. kind = "online" => a = s.heard  OBVIOUS
      <3>2. ~(a + 1 > s.heard + 1)  OBVIOUS
      <3> QED BY <2>1, <3>1, <3>2
    <2> QED BY <2>1, <2>2, <2>3 DEF Heard
  <1>3. n \in Nat  BY EmptyLen
  <1> QED BY <1>1, <1>2, <1>3

----------------------------------------------------------------------------
(* What an operation displays. *)

\* t differs from s in what it displays only.
ShownFrom(s, t) ==
  /\ t \in OpRecord
  /\ t.kind = s.kind /\ t.at = s.at /\ t.terminal = s.terminal /\ t.result = s.result
  /\ t.length = s.length /\ t.heard = s.heard /\ t.chunk = s.chunk /\ t.finished = s.finished
  /\ t.pump = s.pump /\ t.ending = s.ending /\ t.queue = s.queue /\ t.accepted = s.accepted
  /\ t.held = s.held /\ t.source = s.source /\ t.capture = s.capture /\ t.mic = s.mic
  /\ t.closing = s.closing /\ t.windowStart = s.windowStart /\ t.decoded = s.decoded
  /\ t.prefix = s.prefix /\ t.reference = s.reference

LEMMA DisplayedFrom ==
  ASSUME NEW s \in OpRecord, NEW text \in Nat, NEW final \in BOOLEAN
  PROVE  ShownFrom(s, Displayed(s, text, final))
  <1> DEFINE l == [text |-> text, id |-> s.segments, final |-> final]
             g == IF final THEN s.segments + 1 ELSE s.segments
             h == IF final THEN NoText ELSE s.hypothesis
             t == [s EXCEPT !.last = l, !.segments = g, !.hypothesis = h]
  <1>1. l \in Event /\ g \in Nat /\ h \in Nat  BY DEF OpRecord, Event, NoText
  <1>2. Displayed(s, text, final) = s \/ Displayed(s, text, final) = t  BY DEF Displayed
  <1> HIDE DEF l, g, h
  <1>3. ShownFrom(s, t)  BY <1>1 DEF ShownFrom, OpRecord
  <1>4. ShownFrom(s, s)  BY DEF ShownFrom
  <1> HIDE DEF t
  <1> QED BY <1>2, <1>3, <1>4

\* emit() keeps the numbers of the utterances.
LEMMA DisplayedNumbers ==
  ASSUME NEW s \in OpRecord, Numbered(s), NEW text \in Nat, NEW final \in BOOLEAN
  PROVE  Numbered(Displayed(s, text, final))
  <1> DEFINE l == [text |-> text, id |-> s.segments, final |-> final]
             g == IF final THEN s.segments + 1 ELSE s.segments
             h == IF final THEN NoText ELSE s.hypothesis
             t == [s EXCEPT !.last = l, !.segments = g, !.hypothesis = h]
  <1>1. Displayed(s, text, final) = s \/ Displayed(s, text, final) = t  BY DEF Displayed
  <1>2. t.last.id = s.segments /\ t.last.final = final /\ t.segments = g  BY DEF OpRecord
  <1>3. s.segments \in Nat  BY DEF OpRecord
  <1>4. Numbered(t)
    <2> HIDE DEF t
    <2> QED BY <1>2, <1>3 DEF Numbered
  <1> HIDE DEF t
  <1> QED BY <1>1, <1>4

\* What emit() does with the hypothesis itself.
LEMMA DisplayedFits ==
  ASSUME NEW s \in OpRecord, Numbered(s), NEW final \in BOOLEAN,
         s.hypothesis = NoText => ~(s.last.id = s.segments /\ ~s.last.final /\ s.last.text # NoText)
  PROVE  /\ ShowFits(Displayed(s, s.hypothesis, final))
         /\ final => Displayed(s, s.hypothesis, final).hypothesis = NoText
  <1> DEFINE text == s.hypothesis
             l == [text |-> text, id |-> s.segments, final |-> final]
             g == IF final THEN s.segments + 1 ELSE s.segments
             h == IF final THEN NoText ELSE s.hypothesis
             t == [s EXCEPT !.last = l, !.segments = g, !.hypothesis = h]
             current == s.last.id = s.segments
  <1>0. text \in Nat /\ s.segments \in Nat /\ s.last.text \in Nat /\ s.last.final \in BOOLEAN
    BY DEF OpRecord, Event
  <1>1. Numbered(Displayed(s, text, final))  BY <1>0, DisplayedNumbers
  <1>2. CASE text = NoText
    <2>1. Displayed(s, text, final) = s  BY <1>2 DEF Displayed
    <2>2. s.hypothesis = IF current /\ ~s.last.final THEN s.last.text ELSE NoText  BY <1>2
    <2> QED BY <1>1, <1>2, <2>1, <2>2 DEF ShowFits
  <1>3. CASE text # NoText /\ current /\ s.last.text = text /\ s.last.final = final
    <2>1. Displayed(s, text, final) = s  BY <1>3 DEF Displayed
    <2>2. ~final  BY <1>3 DEF Numbered
    <2> QED BY <1>3, <2>1, <2>2 DEF ShowFits
  <1>4. CASE text # NoText /\ ~(current /\ s.last.text = text /\ s.last.final = final)
    <2>1. Displayed(s, text, final) = t  BY <1>4 DEF Displayed
    <2>2. /\ t.last.id = s.segments /\ t.last.final = final /\ t.last.text = text /\ t.segments = g
          /\ t.hypothesis = h
      BY DEF OpRecord
    <2> HIDE DEF t
    <2>3. t.hypothesis = (IF t.last.id = t.segments /\ ~t.last.final THEN t.last.text ELSE NoText)
          /\ (final => t.hypothesis = NoText)
      BY <1>0, <2>2
    <2> QED BY <1>1, <2>1, <2>3 DEF ShowFits
  <1> QED BY <1>2, <1>3, <1>4

LEMMA ShownFits ==
  ASSUME NEW s \in OpRecord, Numbered(s), NEW final \in BOOLEAN
  PROVE  /\ ShownFrom(s, Shown(s, final)) /\ ShowFits(Shown(s, final))
         /\ final => Shown(s, final).hypothesis = NoText
         /\ s.hypothesis = NoText => Shown(s, final).hypothesis = NoText
  <1> DEFINE back == s.hypothesis = NoText /\ s.last.text # NoText
             r == IF back THEN Displayed(s, NoText, FALSE) ELSE s
             t == Displayed(r, s.hypothesis, final)
  <1>0. s.hypothesis \in Nat /\ NoText \in Nat  BY DEF OpRecord, NoText
  <1>1. Shown(s, final) = t  BY DEF Shown
  <1>2. ShownFrom(s, r) /\ Numbered(r) /\ r.hypothesis = s.hypothesis
    <2>1. CASE back
      <3>1. Displayed(s, NoText, FALSE).hypothesis = s.hypothesis  BY DEF Displayed, OpRecord
      <3>2. FALSE \in BOOLEAN  OBVIOUS
      <3> QED BY <1>0, <2>1, <3>1, <3>2, DisplayedFrom, DisplayedNumbers
    <2>2. CASE ~back
      <3>1. ShownFrom(s, s)  BY DEF ShownFrom
      <3> QED BY <2>2, <3>1
    <2> QED BY <2>1, <2>2
  <1>3. r.hypothesis = NoText => ~(r.last.id = r.segments /\ ~r.last.final /\ r.last.text # NoText)
    <2>1. CASE back
      <3> DEFINE d == [s EXCEPT !.last = [text |-> NoText, id |-> s.segments, final |-> FALSE]]
      <3>1. Displayed(s, NoText, FALSE) = IF s.last.id = s.segments /\ ~s.last.final THEN d ELSE s
        BY <2>1 DEF Displayed, OpRecord
      <3>2. d.last.text = NoText  BY DEF OpRecord
      <3> HIDE DEF d
      <3> QED BY <2>1, <3>1, <3>2
    <2>2. CASE ~back  BY <2>2
    <2> QED BY <2>1, <2>2
  <1> HIDE DEF r
  <1>4. r \in OpRecord  BY <1>2 DEF ShownFrom
  <1>5. ShowFits(t) /\ (final => t.hypothesis = NoText)  BY <1>2, <1>3, <1>4, DisplayedFits
  <1>6. ShownFrom(r, t)  BY <1>0, <1>4, DisplayedFrom
  <1>7. s.hypothesis = NoText => t.hypothesis = NoText
    <2>1. s.hypothesis = NoText => Displayed(r, s.hypothesis, final).hypothesis \in {r.hypothesis, NoText}
      BY <1>4 DEF Displayed, OpRecord
    <2> QED BY <1>2, <2>1
  <1> HIDE DEF t
  <1>8. ShownFrom(s, t)  BY <1>2, <1>6 DEF ShownFrom
  <1> QED BY <1>1, <1>5, <1>7, <1>8

----------------------------------------------------------------------------
(* The microphone, and how an operation ends. *)

Silent(m) == m.at # "none" => m.stopped

LEMMA StopFits ==
  ASSUME NEW m \in CaptureRecord
  PROVE  Stop(m) \in CaptureRecord /\ NoLeak(Stop(m)) /\ Stop(m).stopped
  BY DEF Stop, CaptureRecord, CaptureStages, NoLeak

LEMMA RejectedFits ==
  ASSUME NEW m \in CaptureRecord
  PROVE  /\ Rejected(m) \in CaptureRecord /\ Rejected(m).stopped = m.stopped
         /\ Rejected(m).tracks = m.tracks /\ Rejected(m).at = m.at
  BY DEF Rejected, CaptureRecord, CaptureStages

LEMMA CancelFits ==
  ASSUME NEW m \in CaptureRecord, NoLeak(m)
  PROVE  /\ Cancel(m) \in CaptureRecord /\ NoLeak(Cancel(m)) /\ Silent(Cancel(m))
         /\ m.at = "none" => Cancel(m) = m
  <1> DEFINE n == Stop(m)
  <1>1. n \in CaptureRecord /\ NoLeak(n) /\ n.stopped  BY StopFits
  <1> HIDE DEF n
  <1>2. /\ Rejected(n) \in CaptureRecord /\ Rejected(n).stopped = n.stopped
        /\ Rejected(n).tracks = n.tracks
    BY <1>1, RejectedFits
  <1>3. Cancel(m) = IF m.at = "none" \/ m.stopped THEN m ELSE Rejected(n)  BY DEF Cancel, n
  <1> QED BY <1>1, <1>2, <1>3 DEF NoLeak, Silent

\* A turn of a capture leaks no device, and starts no capture again.
LEMMA TurnFits ==
  ASSUME NEW m \in CaptureRecord, NoLeak(m), NEW n \in CaptureTurns(m)
  PROVE  /\ n \in CaptureRecord /\ NoLeak(n) /\ (m.stopped => n.stopped) /\ m.at # "none"
  <1> DEFINE b == Broken(m)
  <1>1. b \in CaptureRecord /\ NoLeak(b) /\ b.stopped
    <2>1. CASE m.stopped  BY <2>1 DEF Broken
    <2>2. CASE ~m.stopped
      <3> DEFINE r == Rejected(Stop(m))  x == Started(m)
      <3>1. Stop(m) \in CaptureRecord /\ NoLeak(Stop(m)) /\ Stop(m).stopped  BY StopFits
      <3>2. r \in CaptureRecord /\ r.stopped = Stop(m).stopped /\ r.tracks = Stop(m).tracks
        BY <3>1, RejectedFits
      <3>3. x \in BOOLEAN  BY DEF Started
      <3>4. b = [r EXCEPT !.failed = x]  BY <2>2 DEF Broken
      <3> HIDE DEF b, r, x
      <3>5. b \in CaptureRecord /\ b.stopped = r.stopped /\ b.tracks = r.tracks
        BY <3>2, <3>3, <3>4 DEF CaptureRecord
      <3> QED BY <3>1, <3>2, <3>5 DEF NoLeak
    <2> QED BY <2>1, <2>2
  <1> HIDE DEF b
  <1>2. \/ m.at = "asking" /\ n = Granted(m)
        \/ m.at = "asking" /\ n = [b EXCEPT !.at = "over"]
        \/ m.at # "none" /\ ~m.stopped /\ n = b
        \/ m.at \in {"asking", "resuming"} /\ ~m.stopped /\ n = [m EXCEPT !.resumed = TRUE]
        \/ m.at = "resuming" /\ ~m.stopped /\ n = [m EXCEPT !.at = "loading"]
        \/ m.at \in {"resuming", "loading"} /\ ~m.stopped /\ n = Connected(m)
    BY DEF CaptureTurns, b
  <1>3. CASE m.at = "asking" /\ n = Granted(m)
    BY <1>3 DEF Granted, CaptureRecord, CaptureStages, NoLeak
  <1>4. CASE m.at = "asking" /\ n = [b EXCEPT !.at = "over"]
    BY <1>1, <1>4 DEF CaptureRecord, CaptureStages, NoLeak
  <1>5. CASE m.at # "none" /\ n = b  BY <1>1, <1>5
  <1>6. CASE m.at \in {"asking", "resuming"} /\ ~m.stopped /\ n = [m EXCEPT !.resumed = TRUE]
    BY <1>6 DEF CaptureRecord, CaptureStages, NoLeak
  <1>7. CASE m.at = "resuming" /\ ~m.stopped /\ n = [m EXCEPT !.at = "loading"]
    BY <1>7 DEF CaptureRecord, CaptureStages, NoLeak
  <1>8. CASE m.at \in {"resuming", "loading"} /\ ~m.stopped /\ n = Connected(m)
    BY <1>8 DEF Connected, CaptureRecord, CaptureStages, NoLeak
  <1> QED BY <1>2, <1>3, <1>4, <1>5, <1>6, <1>7, <1>8

\* t differs from s in its microphone only.
CapturedFrom(s, t) ==
  /\ t \in OpRecord
  /\ t.kind = s.kind /\ t.at = s.at /\ t.terminal = s.terminal /\ t.result = s.result
  /\ t.length = s.length /\ t.heard = s.heard /\ t.chunk = s.chunk /\ t.finished = s.finished
  /\ t.pump = s.pump /\ t.ending = s.ending /\ t.queue = s.queue /\ t.accepted = s.accepted
  /\ t.held = s.held /\ t.windowStart = s.windowStart /\ t.decoded = s.decoded
  /\ t.prefix = s.prefix /\ t.reference = s.reference /\ t.hypothesis = s.hypothesis
  /\ t.segments = s.segments /\ t.last = s.last

LEMMA StopCaptureFits ==
  ASSUME NEW s \in OpRecord, NoLeak(s.mic)
  PROVE  /\ CapturedFrom(s, StopCapture(s)) /\ NoLeak(StopCapture(s).mic)
         /\ Silent(StopCapture(s).mic) /\ StopCapture(s).capture # "held"
         /\ s.mic.at = "none" => StopCapture(s).mic = s.mic
         /\ s.capture = "none" => StopCapture(s).capture = "none"
  <1> DEFINE m == Cancel(s.mic)  c == s.closing \/ s.capture = "held"
             p == IF s.capture = "held" THEN "none" ELSE s.capture
             t == [s EXCEPT !.mic = m, !.closing = c, !.capture = p]
  <1>1. StopCapture(s) = t  BY DEF StopCapture
  <1>2. s.mic \in CaptureRecord  BY DEF OpRecord
  <1>3. m \in CaptureRecord /\ NoLeak(m) /\ Silent(m) /\ (s.mic.at = "none" => m = s.mic)
    BY <1>2, CancelFits
  <1>4. c \in BOOLEAN /\ p \in {"none", "starting", "held"} /\ p # "held" /\ (s.capture = "none" => p = "none")
    BY DEF OpRecord
  <1> HIDE DEF m, c, p
  <1>5. CapturedFrom(s, t) /\ t.mic = m /\ t.capture = p  BY <1>3, <1>4 DEF CapturedFrom, OpRecord
  <1> QED BY <1>1, <1>3, <1>4, <1>5

\* t is s, settled: nothing is left in its queue.
SettledFrom(s, t, how) ==
  /\ t \in OpRecord /\ t.terminal /\ t.result = how /\ t.queue = <<>> /\ t.held = 0
  /\ MicFits(t) /\ (s.mic.at = "none" => t.mic.at = "none") /\ (s.capture = "none" => t.capture = "none")
  /\ t.kind = s.kind /\ t.at = s.at /\ t.length = s.length /\ t.heard = s.heard
  /\ t.chunk = s.chunk /\ t.finished = s.finished /\ t.pump = s.pump /\ t.ending = s.ending
  /\ t.accepted = s.accepted /\ t.windowStart = s.windowStart /\ t.decoded = s.decoded
  /\ t.prefix = s.prefix /\ t.reference = s.reference /\ t.hypothesis = s.hypothesis
  /\ t.segments = s.segments /\ t.last = s.last

LEMMA SettleFits ==
  ASSUME NEW s \in OpRecord, NoLeak(s.mic), NEW how \in Results, ~s.terminal
  PROVE  SettledFrom(s, Settle(s, how), how)
  <1> DEFINE u == StopCapture(s)
             t == [u EXCEPT !.terminal = TRUE, !.result = how, !.queue = <<>>, !.held = 0]
  <1>1. Settle(s, how) = t  BY DEF Settle
  <1>2. /\ CapturedFrom(s, u) /\ NoLeak(u.mic) /\ Silent(u.mic) /\ u.capture # "held"
        /\ s.mic.at = "none" => u.mic = s.mic
        /\ s.capture = "none" => u.capture = "none"
    BY StopCaptureFits
  <1> HIDE DEF u
  <1>3. u \in OpRecord  BY <1>2 DEF CapturedFrom
  <1>4. <<>> \in Seq(Nat)  BY EmptySeq
  <1>t. t \in OpRecord
    <2>1. TRUE \in BOOLEAN /\ 0 \in 0 .. 1  OBVIOUS
    <2> QED BY <1>3, <1>4, <2>1 DEF OpRecord
  <1>5. /\ t \in OpRecord /\ t.terminal = TRUE /\ t.result = how /\ t.queue = <<>> /\ t.held = 0
        /\ t.mic = u.mic /\ t.capture = u.capture
        /\ t.kind = u.kind /\ t.at = u.at /\ t.length = u.length /\ t.heard = u.heard
        /\ t.chunk = u.chunk /\ t.finished = u.finished /\ t.pump = u.pump /\ t.ending = u.ending
        /\ t.accepted = u.accepted /\ t.windowStart = u.windowStart /\ t.decoded = u.decoded
        /\ t.prefix = u.prefix /\ t.reference = u.reference /\ t.hypothesis = u.hypothesis
        /\ t.segments = u.segments /\ t.last = u.last
    BY <1>3, <1>4, <1>t DEF OpRecord
  <1> HIDE DEF t
  <1>6. MicFits(t)  BY <1>2, <1>5 DEF MicFits, Silent
  <1> QED BY <1>1, <1>2, <1>5, <1>6 DEF SettledFrom, CapturedFrom

LEMMA SettledAlready == ASSUME NEW s, NEW how, s.terminal PROVE Settle(s, how) = s
  BY DEF Settle

Kinds == {"online", "offline"}

\* cancel(), fail() and the end of the work keep what an operation promises.
LEMMA SettleKeeps ==
  ASSUME NEW s, NEW k \in Kinds, Fits(s, k), NEW how \in Results, how # "none",
         s.kind = "session" => ~Waits(s) \/ s.terminal,
         how = "complete" /\ s.kind = "file" => s.length = 0 /\ s.chunk = <<>>,
         how = "complete" /\ s.kind = "session" =>
           s.heard = s.accepted /\ (k = "offline" => s.hypothesis = NoText) /\ s.pump \in {"idle", "returned", "settle"}
  PROVE  OpFit(Settle(s, how), k)
  <1> DEFINE t == Settle(s, how)
  <1>1. CASE s.terminal
    <2>1. t = s  BY <1>1, SettledAlready
    <2> QED BY <1>1, <2>1 DEF OpFit, Limited
  <1>2. CASE ~s.terminal
    <2>1. s \in OpRecord /\ NoLeak(s.mic)  BY DEF Fits, Base, MicFits
    <2>2. SettledFrom(s, t, how)  BY <1>2, <2>1, SettleFits
    <2> HIDE DEF t
    <2>3. Base(t) /\ ShowFits(t)
      BY <2>2 DEF SettledFrom, Base, Fits, ShowFits, Numbered
    <2>4. Placed(t, k)
      BY <1>2, <2>2 DEF SettledFrom, Fits, Placed, Waits
    <2>5. t.kind = "file" => FileFits(t)
      BY <1>2, <2>2 DEF SettledFrom, Fits, FileFits
    <2>6. t.kind = "session" => SessionFits(t, k)
      <3>1. t.heard \in Nat /\ t.accepted \in Nat /\ t.decoded \in Nat  BY <2>2 DEF SettledFrom, OpRecord
      <3>2. t.kind = "session" => Bounded(t, k)
        BY <1>2, <2>2, <3>1 DEF SettledFrom, Fits, SessionFits, Bounded
      <3>3. t.kind = "session" => Chunk(t, k)
        BY <1>2, <2>1, <2>2, <3>1 DEF SettledFrom, Fits, SessionFits, Chunk, PumpStages, OpRecord
      <3>4. t.kind = "session" => ~Waits(t)  BY <1>2, <2>2 DEF SettledFrom, Waits
      <3> QED BY <2>2, <3>2, <3>3, <3>4 DEF SettledFrom, SessionFits
    <2>7. Limited(t)  BY <2>2 DEF SettledFrom, Limited
    <2> QED BY <2>3, <2>4, <2>5, <2>6, <2>7 DEF OpFit, Fits, t
  <1> QED BY <1>1, <1>2

\* Settling changes neither what an operation is nor where it stands.
LEMMA SettleStays ==
  ASSUME NEW s, NEW k, Fits(s, k), NEW how \in Results
  PROVE  /\ Settle(s, how).kind = s.kind /\ Settle(s, how).at = s.at /\ Settle(s, how).terminal
         /\ Settle(s, how).pump = s.pump
  <1>1. s \in OpRecord /\ NoLeak(s.mic)  BY DEF Fits, Base, MicFits
  <1>2. CASE s.terminal  BY <1>2, SettledAlready
  <1>3. CASE ~s.terminal  BY <1>1, <1>3, SettleFits DEF SettledFrom
  <1> QED BY <1>2, <1>3

----------------------------------------------------------------------------
(* The pump of a session. *)

\* t is s but for what its pump has under way.
RestsLike(s, t) ==
  /\ t \in OpRecord
  /\ t.kind = s.kind /\ t.at = s.at /\ t.terminal = s.terminal /\ t.result = s.result
  /\ t.heard = s.heard /\ t.ending = s.ending /\ t.queue = s.queue /\ t.accepted = s.accepted
  /\ t.held = s.held /\ t.capture = s.capture /\ t.mic = s.mic /\ t.windowStart = s.windowStart
  /\ t.decoded = s.decoded /\ t.hypothesis = s.hypothesis /\ t.segments = s.segments /\ t.last = s.last

LEMMA RestsOn ==
  ASSUME NEW s, NEW t, NEW k, Resting(s, k), Limited(s), RestsLike(s, t)
  PROVE  Resting(t, k) /\ Limited(t)
  <1>1. Base(t) /\ ShowFits(t) /\ t.kind = "session" /\ t.at = "live"
    BY DEF Resting, RestsLike, Base, MicFits, ShowFits, Numbered
  <1>2. Bounded(t, k)  BY DEF Resting, RestsLike, Bounded
  <1>3. ~t.terminal => /\ Ordered(t)
                       /\ k = "online" => Incremental(t, 0)
                       /\ k = "offline" => Windowed(t)
    BY DEF Resting, RestsLike, Ordered, Incremental, Windowed
  <1>4. Limited(t)  BY DEF RestsLike, Limited
  <1> QED BY <1>1, <1>2, <1>3, <1>4 DEF Resting

LEMMA RestFits ==
  ASSUME NEW t, NEW k \in Kinds, Resting(t, k), Limited(t), Chunk(t, k),
         k = "online" => t.chunk = <<>> /\ t.pump \notin {"push", "reference", "decode"},
         k = "offline" => t.pump \notin {"push", "reset"}
  PROVE  OpFit(t, k)
  <1>1. Placed(t, k)  BY DEF Resting, Placed, Waits
  <1>2. SessionFits(t, k)
    <2>1. Len(<<>>) = 0  OBVIOUS
    <2>2. Bounded(t, k) /\ ~Waits(t)  BY DEF Resting, Waits
    <2> QED BY <2>1, <2>2 DEF Resting, SessionFits
  <1> QED BY <1>1, <1>2 DEF Resting, OpFit, Fits

\* What a session is when its pump has nothing under way.
LEMMA FitRests ==
  ASSUME NEW s, NEW k \in Kinds, OpFit(s, k), s.kind = "session", s.at = "live",
         k = "online" => s.pump # "push",
         s.pump = "returned" => s.terminal \/ ~s.ending \/ s.queue # <<>>
  PROVE  Resting(s, k) /\ Limited(s)
  <1>1. Len(<<>>) = 0  OBVIOUS
  <1>2. k = "online" => s.chunk = <<>>  BY DEF OpFit, Fits, SessionFits, Chunk
  <1>3. ~s.terminal => ~Emptied(s)  BY DEF Emptied
  <1> QED BY <1>1, <1>2, <1>3 DEF OpFit, Fits, SessionFits, Resting

\* The pump stops, the session goes on.
LEMMA StopsFit ==
  ASSUME NEW s, NEW k \in Kinds, Resting(s, k), Limited(s), NEW p \in {"returned", "settle"}
  PROVE  OpFit([s EXCEPT !.pump = p, !.chunk = <<>>], k)
  <1> DEFINE t == [s EXCEPT !.pump = p, !.chunk = <<>>]
  <1>1. s \in OpRecord  BY DEF Resting, Base
  <1>2. <<>> \in Seq(Nat) /\ p \in PumpStages  BY EmptySeq DEF PumpStages
  <1>3. RestsLike(s, t) /\ t.pump = p /\ t.chunk = <<>>  BY <1>1, <1>2 DEF RestsLike, OpRecord
  <1> HIDE DEF t
  <1>4. Resting(t, k) /\ Limited(t)  BY <1>3, RestsOn
  <1>5. Chunk(t, k)  BY <1>3 DEF Chunk
  <1> QED BY <1>3, <1>4, <1>5, RestFits DEF t

\* The pump returns, which changes nothing else.
Returned(s, t) ==
  /\ t.kind = s.kind /\ t.at = "live" /\ t.pump = "returned" /\ t.terminal = s.terminal /\ t.ending = s.ending
  /\ t.queue = s.queue /\ t.hypothesis = s.hypothesis

LEMMA PumpEndsFits ==
  ASSUME NEW s, NEW k \in Kinds, Resting(s, k), Limited(s)
  PROVE  OpFit(PumpEnds(s), k) /\ Returned(s, PumpEnds(s))
  <1> DEFINE p == "returned"  t == [s EXCEPT !.pump = p, !.chunk = <<>>]
  <1>1. PumpEnds(s) = t  BY DEF PumpEnds
  <1>2. p \in {"returned", "settle"}  OBVIOUS
  <1>3. OpFit(t, k)
    <2> HIDE DEF p
    <2> QED BY <1>2, StopsFit
  <1>4. Returned(s, t)  BY DEF Resting, Base, OpRecord, Returned
  <1> QED BY <1>1, <1>3, <1>4

\* The pump of a windowed session returns when all it had left was known.
LEMMA EmptiedEnds ==
  ASSUME NEW s, Base(s), ShowFits(s), s.kind = "session", s.at = "live", Bounded(s, "offline"), ~s.terminal,
         s.ending, s.held = 0, s.queue = <<>>, s.heard = s.accepted, s.hypothesis = NoText
  PROVE  OpFit(PumpEnds(s), "offline") /\ Returned(s, PumpEnds(s))
  <1> DEFINE t == PumpEnds(s)
  <1>1. s \in OpRecord /\ <<>> \in Seq(Nat) /\ "returned" \in PumpStages
    BY EmptySeq DEF Base, PumpStages
  <1>2. /\ RestsLike(s, t) /\ t.pump = "returned" /\ t.chunk = <<>>
    BY <1>1 DEF PumpEnds, RestsLike, OpRecord
  <1> HIDE DEF t
  <1>3. Base(t) /\ ShowFits(t) /\ Bounded(t, "offline")
    BY <1>2 DEF RestsLike, Base, MicFits, ShowFits, Numbered, Bounded
  <1>4. Placed(t, "offline")  BY <1>2 DEF RestsLike, Placed, Waits
  <1>5. Chunk(t, "offline")  BY <1>2 DEF Chunk
  <1>6. Ordered(t)
    <2>1. t.accepted \in Nat /\ t.held = 0 /\ Len(t.queue) = 0 /\ t.queue = <<>>
      BY <1>2 DEF RestsLike, OpRecord
    <2>2. t.queue = Run(t.accepted, 0)  BY <2>1, NoRun
    <2>3. t.accepted - t.held - Len(t.queue) = t.accepted /\ Len(t.queue) <= t.accepted - t.held  BY <2>1
    <2> QED BY <2>1, <2>2, <2>3 DEF Ordered
  <1>7. Emptied(t)  BY <1>2 DEF RestsLike, Emptied
  <1>8. SessionFits(t, "offline")  BY <1>2, <1>3, <1>5, <1>6, <1>7 DEF RestsLike, SessionFits, Waits
  <1>9. OpFit(t, "offline")  BY <1>2, <1>3, <1>4, <1>8 DEF RestsLike, OpFit, Fits, Limited
  <1> QED BY <1>2, <1>9 DEF t, RestsLike, Returned

\* A session that has ended and has nothing in its queue was heard in full.
LEMMA HeardAll ==
  ASSUME NEW s, NEW k \in Kinds, OpFit(s, k), s.kind = "session", s.pump = "returned", ~s.terminal,
         s.ending, s.queue = <<>>
  PROVE  s.heard = s.accepted /\ (k = "offline" => s.hypothesis = NoText)
  <1>1. s.heard \in Nat /\ s.accepted \in Nat /\ s.windowStart \in Nat /\ s.decoded \in Nat
    BY DEF OpFit, Fits, Base, OpRecord
  <1>2. s.held = 0 /\ Len(s.queue) = 0  BY DEF OpFit, Fits, SessionFits, Ordered
  <1>3. CASE k = "online"
    <2>1. Incremental(s, Len(s.chunk)) /\ s.chunk = <<>>  BY <1>3 DEF OpFit, Fits, SessionFits, Chunk
    <2>2. Len(s.chunk) = 0  BY <2>1
    <2> QED BY <1>1, <1>2, <1>3, <2>1, <2>2 DEF Incremental
  <1>4. CASE k = "offline"
    <2>1. Windowed(s) \/ Emptied(s)  BY <1>4 DEF OpFit, Fits, SessionFits
    <2>2. CASE Windowed(s)  BY <1>1, <1>2, <2>2 DEF Windowed
    <2>3. CASE Emptied(s)  BY <2>3 DEF Emptied
    <2> QED BY <2>1, <2>2, <2>3
  <1> QED BY <1>3, <1>4 DEF Kinds

\* pump() goes on, and completes the session or not.
LEMMA PumpGoesOnFits ==
  ASSUME NEW s, NEW k \in Kinds, OpFit(s, k), s.kind = "session", s.pump = "returned"
  PROVE  /\ OpFit(PumpGoesOn(s), k) /\ PumpGoesOn(s).at = "live" /\ PumpGoesOn(s).pump = "settle"
         /\ s.terminal \/ (s.ending /\ s.queue = <<>>) => PumpGoesOn(s).terminal
  <1> DEFINE u == IF ~s.terminal /\ s.ending /\ s.queue = <<>> THEN Settle(s, "complete") ELSE s
             t == [u EXCEPT !.pump = "settle"]
  <1>1. PumpGoesOn(s) = t  BY DEF PumpGoesOn
  <1>2. s.at = "live" /\ Fits(s, k)  BY DEF OpFit, Fits, Placed
  <1>3. /\ OpFit(u, k) /\ u.kind = "session" /\ u.at = "live" /\ u.pump = "returned"
        /\ u.terminal \/ ~u.ending \/ u.queue # <<>>
        /\ s.terminal \/ (s.ending /\ s.queue = <<>>) => u.terminal
    <2>1. CASE ~s.terminal /\ s.ending /\ s.queue = <<>>
      <3>1. u = Settle(s, "complete")  BY <2>1
      <3>2. "complete" \in Results /\ "complete" # "none" /\ ~Waits(s)  BY <1>2 DEF Results, Waits
      <3>3. s.heard = s.accepted /\ (k = "offline" => s.hypothesis = NoText)  BY <2>1, HeardAll
      <3>4. OpFit(Settle(s, "complete"), k)  BY <1>2, <3>2, <3>3, SettleKeeps
      <3> HIDE DEF u
      <3> QED BY <1>2, <3>1, <3>2, <3>4, SettleStays
    <2>2. CASE ~(~s.terminal /\ s.ending /\ s.queue = <<>>)
      <3>1. u = s  BY <2>2
      <3> QED BY <1>2, <2>2, <3>1
    <2> QED BY <2>1, <2>2
  <1> HIDE DEF u
  <1>4. Resting(u, k) /\ Limited(u)  BY <1>3, FitRests
  <1>5. u \in OpRecord /\ Chunk(u, k) /\ (k = "online" => u.chunk = <<>>)
    BY <1>3 DEF OpFit, Fits, Base, SessionFits, Chunk
  <1>6. RestsLike(u, t) /\ t.pump = "settle" /\ t.chunk = u.chunk
    BY <1>5 DEF RestsLike, OpRecord, PumpStages
  <1> HIDE DEF t
  <1>7. Resting(t, k) /\ Limited(t)  BY <1>4, <1>6, RestsOn
  <1>8. Chunk(t, k)  BY <1>5, <1>6 DEF Chunk
  <1>9. OpFit(t, k)  BY <1>5, <1>6, <1>7, <1>8, RestFits
  <1> QED BY <1>1, <1>3, <1>6, <1>9 DEF RestsLike

\* What every step of a pump leaves.
Goes(s, t, k) ==
  /\ OpFit(t, k) /\ t.kind = "session" /\ t.at = "live" /\ (s.terminal => t.terminal)
  /\ t.terminal => t.pump \notin {"push", "reset"}
  /\ Tidy(t)

LEMMA LiveIsSession ==
  ASSUME NEW t, NEW k, OpFit(t, k), t.at = "live"
  PROVE  t.kind = "session"
  BY DEF OpFit, Fits, Base, Placed, OpRecord

LEMMA EndsGo ==
  ASSUME NEW s, NEW k \in Kinds, Resting(s, k), Limited(s),
         ~s.terminal /\ s.ending /\ s.queue = <<>> => s.hypothesis = NoText
  PROVE  Goes(s, PumpEnds(s), k)
  <1>1. PumpEnds(s).kind = "session"  BY PumpEndsFits DEF Resting, Returned
  <1> QED BY <1>1, PumpEndsFits DEF Goes, Returned, Tidy

\* The incremental recognizer is given the next units, or the pump stops.
LEMMA OnlineLoopFits ==
  ASSUME NEW s, Resting(s, "online"), Limited(s)
  PROVE  Goes(s, OnlineLoop(s), "online")
  <1> DEFINE l == Len(s.queue)  n == Min({Step, l})
  <1>0. s \in OpRecord /\ "online" \in Kinds  BY DEF Resting, Base, Kinds
  <1>1. CASE ~(~s.terminal /\ (l >= Step \/ s.ending))
    <2>1. OnlineLoop(s) = PumpEnds(s)  BY <1>1 DEF OnlineLoop
    <2>2. s.terminal \/ ~s.ending  BY <1>1
    <2> QED BY <1>0, <2>1, <2>2, EndsGo
  <1>2. CASE ~s.terminal /\ (l >= Step \/ s.ending)
    <2> DEFINE a == s.accepted - s.held - l
               c == First(s.queue, n)
               q == Rest(s.queue, n)
               f == s.ending /\ n = l
               t == [s EXCEPT !.pump = "push", !.chunk = c, !.queue = q, !.finished = f]
    <2>1. OnlineLoop(s) = t  BY <1>2 DEF OnlineLoop
    <2>2. /\ s.heard \in Nat /\ s.accepted \in Nat /\ s.held \in Nat /\ l \in Nat /\ s.queue \in Seq(Nat)
          /\ s.decoded \in Nat
      <3>1. s.heard \in Nat /\ s.accepted \in Nat /\ s.held \in Nat /\ s.queue \in Seq(Nat) /\ s.decoded \in Nat
        BY <1>0 DEF OpRecord
      <3> QED BY <3>1, EmptyLen
    <2>3. s.heard + l + s.held = s.accepted
      <3>1. Incremental(s, 0)  BY <1>2 DEF Resting
      <3> QED BY <2>2, <3>1 DEF Incremental
    <2>4. n \in Nat /\ n <= l
      <3>1. Step \in Int /\ l \in Int /\ Step \in Nat  BY <2>2, RecognitionAssumption
      <3>2. n = IF Step <= l THEN Step ELSE l  BY <3>1, MinOfTwo
      <3> HIDE DEF n
      <3> QED BY <2>2, <3>1, <3>2
    <2> HIDE DEF n
    <2>5. a = s.heard /\ s.queue = Run(s.heard, l)
      <3>1. a = s.heard  BY <2>2, <2>3
      <3>2. s.queue = Run(a, l)  BY <1>2 DEF Resting, Ordered
      <3> HIDE DEF a
      <3> QED BY <3>1, <3>2
    <2> DEFINE b == s.heard + n  r == l - n
    <2>0. b \in Nat /\ r \in Nat /\ b = s.heard + n /\ r = l - n  BY <2>2, <2>4
    <2> HIDE DEF b, r
    <2>6. /\ c = Run(s.heard, n) /\ c \in Seq(Nat) /\ Len(c) = n
          /\ q = Run(b, r) /\ q \in Seq(Nat) /\ Len(q) = r
      <3> DEFINE u == s.queue
      <3>1. u = Run(s.heard, l)  BY <2>5
      <3> HIDE DEF u, l
      <3>a. s.heard \in Nat /\ l \in Nat /\ n \in Nat /\ n <= l /\ b \in Nat /\ r \in Nat  BY <2>0, <2>2, <2>4
      <3>b. b = s.heard + n /\ r = l - n  BY <2>0
      <3>2. Parts(First(u, n), Rest(u, n), s.heard, n, b, r)  BY ONLY <3>a, <3>b, <3>1, RunCut
      <3> QED BY <3>2 DEF u, Parts
    <2>7. f => q = <<>>
      <3>1. n = l => r = 0  BY <2>0, <2>2, <2>4
      <3> QED BY <2>6, <3>1, EmptyLen
    <2> HIDE DEF c, q, l
    <2>8. f \in BOOLEAN /\ "push" \in PumpStages  BY <1>0 DEF OpRecord, PumpStages
    <2> HIDE DEF f
    <2>9. /\ t \in OpRecord /\ t.pump = "push" /\ t.chunk = c /\ t.queue = q /\ t.finished = f
          /\ t.kind = s.kind /\ t.at = s.at /\ t.terminal = s.terminal /\ t.result = s.result
          /\ t.heard = s.heard /\ t.ending = s.ending /\ t.accepted = s.accepted
          /\ t.held = s.held /\ t.capture = s.capture /\ t.mic = s.mic
          /\ t.decoded = s.decoded /\ t.hypothesis = s.hypothesis /\ t.segments = s.segments /\ t.last = s.last
      BY <1>0, <2>6, <2>8 DEF OpRecord
    <2> HIDE DEF t
    <2>a. Base(t) /\ ShowFits(t) /\ t.kind = "session" /\ t.at = "live" /\ ~t.terminal
      BY <1>2, <2>9 DEF Resting, Base, MicFits, ShowFits, Numbered
    <2>b. Placed(t, "online")  BY <2>9, <2>a DEF Placed, Waits
    <2>c. t.result # "complete"  BY <2>a DEF Base
    <2>d. Bounded(t, "online")  BY <2>9, <2>a, <2>c DEF Resting, Bounded
    <2>e. f => s.ending  BY DEF f
    <2>f. Chunk(t, "online")
      <3>1. t.heard + Len(t.chunk) <= t.accepted  BY <2>2, <2>3, <2>0, <2>4, <2>6, <2>9
      <3>2. t.chunk = Run(t.heard, Len(t.chunk))  BY <2>6, <2>9
      <3>3. t.finished => t.ending /\ t.queue = <<>>  BY <2>7, <2>9, <2>e
      <3> QED BY <2>9, <2>c, <3>1, <3>2, <3>3 DEF Chunk
    <2>g. Ordered(t)
      <3>1. Len(t.queue) = r /\ t.accepted - t.held - Len(t.queue) = b /\ Len(t.queue) <= t.accepted - t.held
        BY <2>2, <2>3, <2>0, <2>4, <2>6, <2>9
      <3>2. t.queue = Run(t.accepted - t.held - Len(t.queue), Len(t.queue))
        BY <2>6, <2>9, <3>1
      <3>3. t.ending => t.held = 0  BY <1>2, <2>9 DEF Resting, Ordered
      <3> QED BY <3>1, <3>2, <3>3 DEF Ordered
    <2>h. Incremental(t, Len(t.chunk))
      <3>1. t.heard + Len(t.chunk) + Len(t.queue) + t.held = t.accepted
        <4>1. Len(t.chunk) = n /\ Len(t.queue) = r /\ t.heard = s.heard /\ t.held = s.held /\ t.accepted = s.accepted
          BY <2>6, <2>9
        <4>2. s.heard + n + r + s.held = s.accepted  BY <2>0, <2>2, <2>3, <2>4
        <4> HIDE DEF r
        <4> QED BY <4>1, <4>2
      <3> QED BY <3>1 DEF Incremental
    <2>i. SessionFits(t, "online")  BY <2>a, <2>d, <2>f, <2>g, <2>h DEF SessionFits, Waits
    <2>j. Limited(t)  BY <2>9 DEF Limited
    <2>k. OpFit(t, "online")  BY <2>a, <2>b, <2>i, <2>j DEF OpFit, Fits
    <2> QED BY <2>1, <2>9, <2>a, <2>k DEF Goes, Tidy
  <1> QED BY <1>1, <1>2

\* A window is given to the recognizer, or the pump stops.
LEMMA WindowLoopFits ==
  ASSUME NEW s, Resting(s, "offline"), Limited(s)
  PROVE  Goes(s, WindowLoop(s), "offline")
  <1> DEFINE l == Len(s.queue)  n == Min({l, Window})
  <1>0. s \in OpRecord /\ "offline" \in Kinds  BY DEF Resting, Base, Kinds
  <1>1. /\ s.heard \in Nat /\ s.accepted \in Nat /\ s.held \in Nat /\ s.queue \in Seq(Nat)
        /\ s.decoded \in Nat /\ s.windowStart \in Nat
    BY <1>0 DEF OpRecord
  <1>2. l \in Nat /\ (s.queue = <<>> <=> l = 0)  BY <1>1, EmptyLen
  <1>3. CASE s.terminal \/ s.queue = <<>> \/ ~(s.ending \/ Enough(s))
    <2>1. WindowLoop(s) = PumpEnds(s)  BY <1>3 DEF WindowLoop
    <2>2. ~s.terminal /\ s.ending /\ s.queue = <<>> => s.hypothesis = NoText  BY DEF Resting, Windowed
    <2> QED BY <1>0, <2>1, <2>2, EndsGo
  <1>4. CASE ~(s.terminal \/ s.queue = <<>> \/ ~(s.ending \/ Enough(s))) /\ s.ending /\ l = s.decoded
    <2> DEFINE u == Shown(s, TRUE)  e == [u EXCEPT !.queue = <<>>, !.hypothesis = NoText]
    <2>1. WindowLoop(s) = PumpEnds(e)  BY <1>4 DEF WindowLoop
    <2>2. ShownFrom(s, u) /\ ShowFits(u) /\ u.hypothesis = NoText
      BY <1>0, ShownFits DEF Resting, ShowFits
    <2> HIDE DEF u
    <2>3. u \in OpRecord  BY <2>2 DEF ShownFrom
    <2>4. <<>> \in Seq(Nat) /\ NoText \in Nat  BY EmptySeq DEF NoText
    <2>5. /\ e \in OpRecord /\ e.queue = <<>> /\ e.hypothesis = NoText
          /\ e.kind = u.kind /\ e.at = u.at /\ e.terminal = u.terminal /\ e.result = u.result
          /\ e.heard = u.heard /\ e.ending = u.ending /\ e.accepted = u.accepted
          /\ e.held = u.held /\ e.capture = u.capture /\ e.mic = u.mic
          /\ e.decoded = u.decoded /\ e.segments = u.segments /\ e.last = u.last
      BY <2>3, <2>4 DEF OpRecord
    <2> HIDE DEF e
    <2>6. Base(e) /\ ShowFits(e) /\ e.kind = "session" /\ e.at = "live" /\ ~e.terminal /\ e.ending
      BY <1>4, <2>2, <2>5 DEF ShownFrom, Resting, Base, MicFits, ShowFits, Numbered
    <2>7. e.heard = e.accepted
      <3>1. Windowed(s) /\ s.held = 0  BY <1>4 DEF Resting, Ordered
      <3>2. s.windowStart + l + s.held = s.accepted /\ s.heard = s.windowStart + s.decoded
        BY <3>1 DEF Windowed
      <3>3. s.heard = s.accepted  BY <1>1, <1>2, <1>4, <3>1, <3>2
      <3> QED BY <2>2, <2>5, <3>3 DEF ShownFrom
    <2>8. Bounded(e, "offline")
      BY <2>2, <2>5, <2>6, <2>7 DEF ShownFrom, Resting, Bounded
    <2>9. e.held = 0  BY <1>4, <2>2, <2>5 DEF ShownFrom, Resting, Ordered
    <2>a. OpFit(PumpEnds(e), "offline") /\ Returned(e, PumpEnds(e))
      BY <2>5, <2>6, <2>7, <2>8, <2>9, EmptiedEnds
    <2>b. PumpEnds(e).hypothesis = NoText /\ PumpEnds(e).kind = "session" /\ PumpEnds(e).at = "live"
          /\ PumpEnds(e).pump = "returned"
      BY <2>5, <2>6, <2>a DEF Returned
    <2> QED BY <1>4, <2>1, <2>a, <2>b DEF Goes, Tidy
  <1>5. CASE ~(s.terminal \/ s.queue = <<>> \/ ~(s.ending \/ Enough(s))) /\ ~(s.ending /\ l = s.decoded)
    <2> DEFINE c == First(s.queue, n)
               p == IF s.prefix # NoText /\ ~s.reference THEN "reference" ELSE "decode"
               t == [s EXCEPT !.chunk = c, !.pump = p]
    <2>1. WindowLoop(s) = t  BY <1>5 DEF WindowLoop
    <2>2. Windowed(s) /\ Ordered(s) /\ s.decoded <= Window  BY <1>5 DEF Resting, Bounded
    <2>3. s.windowStart + l + s.held = s.accepted /\ s.decoded <= l  BY <2>2 DEF Windowed
    <2>4. Window \in Nat /\ Window > 0  BY RecognitionAssumption
    <2>5. n \in Nat /\ n <= l /\ n <= Window /\ n >= 1 /\ s.decoded <= n
      <3>1. n = IF l <= Window THEN l ELSE Window
        <4>1. l \in Int /\ Window \in Int  BY <1>2, <2>4
        <4> QED BY <4>1, MinOfTwo
      <3>2. l >= 1  BY <1>2, <1>5
      <3> HIDE DEF n
      <3> QED BY <1>1, <1>2, <2>2, <2>3, <2>4, <3>1, <3>2
    <2> HIDE DEF n
    <2>6. s.queue = Run(s.windowStart, l)
      <3> DEFINE a == s.accepted - s.held - l
      <3>1. a = s.windowStart  BY <1>1, <1>2, <2>3
      <3>2. s.queue = Run(a, l)  BY <2>2 DEF Ordered
      <3> HIDE DEF a
      <3> QED BY <3>1, <3>2
    <2>7. c = Run(s.windowStart, n) /\ c \in Seq(Nat) /\ Len(c) = n
      <3> DEFINE b == s.windowStart + n  r == l - n  u == s.queue
      <3>1. b \in Nat /\ r \in Nat /\ s.windowStart \in Nat /\ l \in Nat /\ n \in Nat /\ n <= l
        BY <1>1, <1>2, <2>5
      <3>2. b = s.windowStart + n /\ r = l - n /\ u = Run(s.windowStart, l)  BY <2>6
      <3> HIDE DEF b, r, u, l
      <3>3. Parts(First(u, n), Rest(u, n), s.windowStart, n, b, r)  BY ONLY <3>1, <3>2, RunCut
      <3> QED BY <3>3 DEF u, Parts
    <2> HIDE DEF c
    <2>8. p \in {"reference", "decode"} /\ p \in PumpStages  BY DEF PumpStages
    <2> HIDE DEF p
    <2>9. RestsLike(s, t) /\ t.pump = p /\ t.chunk = c  BY <1>0, <2>7, <2>8 DEF RestsLike, OpRecord
    <2> HIDE DEF t
    <2>a. Resting(t, "offline") /\ Limited(t)  BY <2>9, RestsOn
    <2>b. Chunk(t, "offline")
      <3>1. Len(t.chunk) \in 1 .. Window /\ t.chunk = Run(t.windowStart, Len(t.chunk))
            /\ t.decoded <= Len(t.chunk) /\ Len(t.chunk) <= Len(t.queue)
        BY <2>4, <2>5, <2>7, <2>9 DEF RestsLike
      <3>2. t.result # "complete"  BY <1>5, <2>9 DEF RestsLike, Resting, Base
      <3> QED BY <2>8, <2>9, <3>1, <3>2 DEF Chunk
    <2>c. OpFit(t, "offline")  BY <1>0, <2>8, <2>9, <2>a, <2>b, RestFits
    <2>d. Tidy(t)  BY <2>8, <2>9 DEF Tidy
    <2> QED BY <1>5, <2>1, <2>8, <2>9, <2>a, <2>c, <2>d DEF Goes, Resting, RestsLike
  <1> QED BY <1>3, <1>4, <1>5

LEMMA PumpLoopFits ==
  ASSUME NEW s, kind \in Kinds, Resting(s, kind), Limited(s)
  PROVE  Goes(s, PumpLoop(s), kind)
  <1>1. CASE kind = "online"  BY <1>1, OnlineLoopFits DEF PumpLoop
  <1>2. CASE kind = "offline"  BY <1>2, WindowLoopFits DEF PumpLoop
  <1> QED BY <1>1, <1>2 DEF Kinds

\* kick(), of a session that is idle or whose pump works.
LEMMA KickFits ==
  ASSUME NEW s, kind \in Kinds, OpFit(s, kind), s.kind = "session", s.at = "live"
  PROVE  /\ OpFit(Kick(s), kind) /\ Kick(s).kind = "session" /\ Kick(s).at = "live"
         /\ s.terminal => Kick(s) = s
         /\ s.pump # "returned" => Tidy(Kick(s))
  <1>1. CASE s.pump # "idle" \/ s.terminal  BY <1>1 DEF Kick, Tidy
  <1>2. CASE ~(s.pump # "idle" \/ s.terminal)
    <2>1. Resting(s, kind) /\ Limited(s)  BY <1>2, FitRests
    <2> QED BY <1>2, <2>1, PumpLoopFits DEF Kick, Goes
  <1> QED BY <1>1, <1>2

\* The last turn of a pump.
LEMMA PumpSettlesFits ==
  ASSUME NEW s, kind \in Kinds, OpFit(s, kind), s.pump = "settle"
  PROVE  /\ OpFit(PumpSettles(s), kind) /\ PumpSettles(s).kind = "session" /\ PumpSettles(s).at = "live"
         /\ s.terminal => PumpSettles(s).terminal /\ PumpSettles(s).pump = "idle"
         /\ Tidy(PumpSettles(s))
  <1> DEFINE t == [s EXCEPT !.pump = "idle"]
  <1>1. s \in OpRecord /\ s.kind = "session" /\ s.at = "live"
    BY DEF OpFit, Fits, Base, Placed
  <1>2. Resting(s, kind) /\ Limited(s)  BY <1>1, FitRests
  <1>3. RestsLike(s, t) /\ t.pump = "idle" /\ t.chunk = s.chunk
    BY <1>1 DEF RestsLike, OpRecord, PumpStages
  <1>4. PumpSettles(s) = t \/ PumpSettles(s) = Kick(t)  BY DEF PumpSettles, KickAgain
  <1> HIDE DEF t
  <1>5. Resting(t, kind) /\ Limited(t)  BY <1>2, <1>3, RestsOn
  <1>6. Chunk(t, kind) /\ (kind = "online" => t.chunk = <<>>)
    <2>1. kind = "online" => s.chunk = <<>>  BY <1>1 DEF OpFit, Fits, SessionFits, Chunk
    <2> QED BY <1>3, <2>1 DEF Chunk
  <1>7. OpFit(t, kind)  BY <1>3, <1>5, <1>6, RestFits
  <1>8. t.kind = "session" /\ t.at = "live" /\ t.terminal = s.terminal  BY <1>1, <1>3 DEF RestsLike
  <1>9. Tidy(t)  BY <1>3 DEF Tidy
  <1> QED BY <1>3, <1>4, <1>7, <1>8, <1>9, KickFits

\* pushStream() answered: the chunk was heard, and the pump goes on.
LEMMA PushedFits ==
  ASSUME NEW s, kind = "online", OpFit(s, kind), s.pump = "push", NEW text \in Nat,
         NEW endpoint \in BOOLEAN
  PROVE  /\ Goes(s, Pushed(s, text, endpoint), kind)
         /\ s.finished => Through(Pushed(s, text, endpoint))
  <1> DEFINE n == Len(s.chunk)
             h == Heard(s, s.chunk)
             t == [s EXCEPT !.heard = h, !.chunk = <<>>]
             w == [t EXCEPT !.hypothesis = text]
             f == endpoint \/ t.finished
             u == Shown(w, f)
  <1>0. s \in OpRecord /\ s.kind = "session" /\ s.at = "live" /\ kind \in Kinds
    BY DEF OpFit, Fits, Base, Placed, Kinds
  <1>1. /\ s.heard \in Nat /\ s.accepted \in Nat /\ s.held \in Nat /\ s.queue \in Seq(Nat)
        /\ s.chunk \in Seq(Nat) /\ s.finished \in BOOLEAN
    BY <1>0 DEF OpRecord
  <1>2. n \in Nat /\ Len(s.queue) \in Nat  BY <1>1, EmptyLen
  <1>3. s.chunk = Run(s.heard, n) /\ s.heard + n <= s.accepted /\ s.result # "complete"
    BY <1>0 DEF OpFit, Fits, SessionFits, Chunk
  <1>4. h = s.heard + n
    <2>1. s.heard <= s.heard /\ s.heard <= s.heard + n /\ n = Len(s.chunk)  BY <1>1, <1>2
    <2> HIDE DEF n, h
    <2>2. Heard(s, s.chunk) = s.heard + n  BY <1>1, <1>2, <1>3, <2>1, HeardOn
    <2> QED BY <2>2 DEF h
  <1>5. <<>> \in Seq(Nat) /\ h \in Nat  BY <1>1, <1>2, <1>4, EmptySeq
  <1> HIDE DEF h, n
  <1>6. /\ t \in OpRecord /\ t.heard = h /\ t.chunk = <<>> /\ t.finished = s.finished
        /\ t.kind = s.kind /\ t.at = s.at /\ t.terminal = s.terminal /\ t.result = s.result
        /\ t.ending = s.ending /\ t.accepted = s.accepted /\ t.queue = s.queue
        /\ t.held = s.held /\ t.capture = s.capture /\ t.mic = s.mic
        /\ t.decoded = s.decoded /\ t.hypothesis = s.hypothesis /\ t.segments = s.segments /\ t.last = s.last
    BY <1>0, <1>5 DEF OpRecord
  <1> HIDE DEF t
  <1>7. Base(t) /\ ShowFits(t) /\ Bounded(t, kind)
    <2>1. Base(t) /\ ShowFits(t)  BY <1>6 DEF OpFit, Fits, Base, MicFits, ShowFits, Numbered
    <2>2. t.heard <= t.accepted  BY <1>3, <1>4, <1>6
    <2>3. Bounded(s, kind)  BY <1>0 DEF OpFit, Fits, SessionFits
    <2> QED BY <1>3, <1>6, <2>1, <2>2, <2>3 DEF Bounded
  <1>8. ~t.terminal => Ordered(t) /\ Incremental(t, 0)
    <2>1. ~t.terminal => Ordered(s) /\ Incremental(s, n)
      BY <1>0, <1>6 DEF OpFit, Fits, SessionFits, n
    <2>2. Ordered(s) => Ordered(t)  BY <1>6 DEF Ordered
    <2>3. Incremental(s, n) => Incremental(t, 0)
      BY <1>1, <1>2, <1>4, <1>6 DEF Incremental
    <2> QED BY <2>1, <2>2, <2>3
  <1>9. Resting(t, kind) /\ Limited(t)
    <2>1. Limited(t)
      <3>1. Limited(s) /\ MaxBuffered \in Nat  BY RecognitionAssumption DEF OpFit
      <3>2. s.accepted - s.held - s.heard <= MaxBuffered => s.accepted - s.held - h <= MaxBuffered
        BY <1>1, <1>2, <1>4, <3>1
      <3> QED BY <1>6, <3>1, <3>2 DEF Limited
    <2> QED BY <1>0, <1>6, <1>7, <1>8, <2>1 DEF Resting
  <1>a. /\ w \in OpRecord /\ w.chunk = <<>> /\ w.pump = t.pump /\ w.segments = t.segments /\ w.last = t.last
        /\ w.kind = t.kind /\ w.at = t.at /\ w.terminal = t.terminal /\ w.result = t.result
        /\ w.heard = t.heard /\ w.ending = t.ending /\ w.accepted = t.accepted /\ w.queue = t.queue
        /\ w.held = t.held /\ w.capture = t.capture /\ w.mic = t.mic /\ w.decoded = t.decoded
    BY <1>6 DEF OpRecord
  <1>b. Numbered(w)  BY <1>7, <1>a DEF ShowFits, Numbered
  <1>c. f \in BOOLEAN  BY <1>1, <1>6
  <1> HIDE DEF w, f
  <1>d. ShownFrom(w, u) /\ ShowFits(u) /\ (f => u.hypothesis = NoText)  BY <1>a, <1>b, <1>c, ShownFits
  <1>e. /\ Pushed(s, text, endpoint) =
             IF t.terminal \/ t.finished THEN PumpEnds(IF t.terminal THEN t ELSE u)
             ELSE IF endpoint THEN [u EXCEPT !.pump = "reset"] ELSE OnlineLoop(u)
        /\ t.finished => f
    BY DEF Pushed, t, w, u, h, f
  <1> HIDE DEF u
  <1>f. CASE t.terminal
    <2>1. Goes(t, PumpEnds(t), kind)  BY <1>0, <1>9, <1>f, EndsGo
    <2>2. Returned(t, PumpEnds(t))  BY <1>0, <1>9, PumpEndsFits
    <2>3. Through(PumpEnds(t))  BY <1>f, <2>2 DEF Returned, Through
    <2> QED BY <1>6, <1>e, <1>f, <2>1, <2>3 DEF Goes
  <1>g. ASSUME ~t.terminal PROVE Resting(u, kind) /\ Limited(u)
    <2>1. Base(u) /\ u.kind = "session" /\ u.at = "live"
      BY <1>0, <1>6, <1>7, <1>a, <1>d DEF ShownFrom, Base, MicFits
    <2>2. Bounded(u, kind)  BY <1>3, <1>6, <1>7, <1>a, <1>d DEF ShownFrom, Bounded
    <2>3. Ordered(u) /\ Incremental(u, 0)
      BY <1>8, <1>a, <1>d, <1>g DEF ShownFrom, Ordered, Incremental
    <2>4. Limited(u)  BY <1>9, <1>a, <1>d DEF ShownFrom, Limited
    <2> QED BY <1>d, <2>1, <2>2, <2>3, <2>4 DEF Resting
  <1>h. CASE ~t.terminal /\ t.finished
    <2>1. u.hypothesis = NoText  BY <1>d, <1>e, <1>h
    <2>2. Goes(u, PumpEnds(u), kind)  BY <1>0, <1>g, <1>h, <2>1, EndsGo
    <2>3. u.ending /\ u.queue = <<>>
      <3>1. s.ending /\ s.queue = <<>>
        BY <1>0, <1>6, <1>h DEF OpFit, Fits, SessionFits, Chunk
      <3> QED BY <1>6, <1>a, <1>d, <3>1 DEF ShownFrom
    <2>4. Through(PumpEnds(u))
      <3>1. Returned(u, PumpEnds(u))  BY <1>0, <1>g, <1>h, PumpEndsFits
      <3> QED BY <2>3, <3>1 DEF Returned, Through
    <2> QED BY <1>6, <1>e, <1>h, <2>2, <2>4 DEF Goes
  <1>i. CASE ~t.terminal /\ ~t.finished /\ endpoint
    <2> DEFINE r == [u EXCEPT !.pump = "reset"]
    <2>1. u \in OpRecord /\ u.chunk = <<>> /\ u.terminal = t.terminal /\ u.result = s.result
      BY <1>6, <1>a, <1>d DEF ShownFrom
    <2>2. RestsLike(u, r) /\ r.pump = "reset" /\ r.chunk = <<>>
      BY <2>1 DEF RestsLike, OpRecord, PumpStages
    <2> HIDE DEF r
    <2>3. Resting(r, kind) /\ Limited(r)  BY <1>g, <1>i, <2>2, RestsOn
    <2>4. Chunk(r, kind)  BY <1>3, <2>1, <2>2 DEF RestsLike, Chunk
    <2>5. OpFit(r, kind)  BY <1>0, <2>2, <2>3, <2>4, RestFits
    <2>6. Pushed(s, text, endpoint) = r  BY <1>e, <1>i DEF r
    <2>7. Tidy(r)  BY <2>2 DEF Tidy
    <2> QED BY <1>6, <1>i, <2>1, <2>2, <2>3, <2>5, <2>6, <2>7 DEF Goes, Resting, RestsLike
  <1>j. CASE ~t.terminal /\ ~t.finished /\ ~endpoint
    <2>1. Goes(u, OnlineLoop(u), kind)  BY <1>g, <1>j, OnlineLoopFits
    <2> QED BY <1>6, <1>e, <1>j, <2>1 DEF Goes
  <1> QED BY <1>f, <1>h, <1>i, <1>j

\* A window was decoded: what it tells is shown, and made final, or the next
\* window overlaps it.
LEMMA DecodedFits ==
  ASSUME NEW s, kind = "offline", OpFit(s, kind), s.pump = "decode", NEW text \in Nat,
         NEW silent \in BOOLEAN
  PROVE  Goes(s, Decoded(s, text, silent), kind)
  <1> DEFINE n == Len(s.chunk)
             l == Len(s.queue)
             h == Heard(s, s.chunk)
             x == Max({s.prefix, text})
             t == [s EXCEPT !.heard = h, !.decoded = n, !.hypothesis = x]
             u == Shown(t, FALSE)
  <1>0. s \in OpRecord /\ s.kind = "session" /\ s.at = "live" /\ kind \in Kinds
    BY DEF OpFit, Fits, Base, Placed, Kinds
  <1>1. /\ s.heard \in Nat /\ s.accepted \in Nat /\ s.held \in Nat /\ s.queue \in Seq(Nat)
        /\ s.chunk \in Seq(Nat) /\ s.decoded \in Nat /\ s.windowStart \in Nat /\ s.prefix \in Nat
        /\ s.ending \in BOOLEAN
    BY <1>0 DEF OpRecord
  <1>2. n \in Nat /\ l \in Nat /\ (s.queue = <<>> <=> l = 0)  BY <1>1, EmptyLen
  <1>3. CASE s.terminal
    <2>1. Decoded(s, text, silent) = PumpEnds(s)  BY <1>3 DEF Decoded
    <2>2. Resting(s, kind) /\ Limited(s)  BY <1>0, FitRests
    <2> QED BY <1>0, <1>3, <2>1, <2>2, EndsGo
  <1>4. CASE ~s.terminal
    <2>1. s.chunk = Run(s.windowStart, n) /\ s.decoded <= n /\ n <= l /\ n \in 1 .. Window /\ s.result # "complete"
      BY <1>0, <1>4 DEF OpFit, Fits, SessionFits, Chunk
    <2>2. /\ s.windowStart + l + s.held = s.accepted /\ s.heard = s.windowStart + s.decoded
          /\ Ordered(s)
      BY <1>0, <1>4 DEF OpFit, Fits, SessionFits, Windowed, Emptied
    <2>3. h = s.windowStart + n
      <3>1. s.windowStart <= s.heard /\ s.heard <= s.windowStart + n /\ n = Len(s.chunk) /\ n # 0
        BY <1>1, <1>2, <2>1, <2>2
      <3>2. kind # "online"  OBVIOUS
      <3> HIDE DEF n, h
      <3>3. Heard(s, s.chunk) = s.windowStart + n  BY <1>1, <1>2, <2>1, <3>1, <3>2, HeardOn
      <3> QED BY <3>3 DEF h
    <2>k. n <= l /\ s.decoded <= n /\ s.windowStart + l + s.held = s.accepted /\ s.heard = s.windowStart + s.decoded
      BY <2>1, <2>2
    <2>4. h \in Nat /\ x \in Nat /\ h <= s.accepted
      <3>1. s.prefix \in Int /\ text \in Int  BY <1>1
      <3>2. x = IF s.prefix >= text THEN s.prefix ELSE text  BY <3>1, MaxOfTwo
      <3> HIDE DEF x, h, n, l
      <3>3. x \in Nat  BY <1>1, <3>2
      <3>4. h \in Nat  BY <1>1, <1>2, <2>3
      <3>5. h <= s.accepted  BY <1>1, <1>2, <2>k, <2>3
      <3> QED BY <3>3, <3>4, <3>5
    <2> HIDE DEF h, x, n, l
    <2>5. /\ t \in OpRecord /\ t.heard = h /\ t.decoded = n
          /\ t.kind = s.kind /\ t.at = s.at /\ t.terminal = s.terminal /\ t.result = s.result
          /\ t.ending = s.ending /\ t.accepted = s.accepted /\ t.queue = s.queue
          /\ t.held = s.held /\ t.capture = s.capture /\ t.mic = s.mic /\ t.windowStart = s.windowStart
          /\ t.segments = s.segments /\ t.last = s.last /\ t.chunk = s.chunk
      BY <1>0, <1>2, <2>4 DEF OpRecord
    <2>6. Numbered(t)
      <3> HIDE DEF t
      <3>1. Numbered(s)  BY DEF OpFit, Fits, ShowFits
      <3> QED BY <2>5, <3>1 DEF Numbered
    <2>7. Limited(s) => s.ending \/ s.accepted - s.held - h <= MaxBuffered
      <3>1. MaxBuffered \in Nat  BY RecognitionAssumption
      <3>2. Limited(s) => s.ending \/ s.accepted - s.held - s.heard <= MaxBuffered  BY <1>0, <1>4 DEF Limited
      <3>3. s.accepted - s.held - s.heard <= MaxBuffered => s.accepted - s.held - h <= MaxBuffered
        <4>1. s.heard <= h  BY ONLY <1>1, <1>2, <2>k, <2>3
        <4>2. /\ s.accepted \in Nat /\ s.held \in Nat /\ s.heard \in Nat /\ h \in Nat
          BY <1>1, <2>4
        <4> QED BY ONLY <3>1, <4>1, <4>2
      <3> QED BY <3>2, <3>3
    <2>8. Limited(s)  BY DEF OpFit
    <2> DEFINE shown(final) == Shown(t, final)
    \* What is shown of the utterance.
    <2>9. ASSUME NEW final \in BOOLEAN
          PROVE  /\ ShownFrom(t, shown(final)) /\ ShowFits(shown(final))
                 /\ final => shown(final).hypothesis = NoText
                 /\ Base(shown(final))
      <3> HIDE DEF t
      <3>1. /\ ShownFrom(t, shown(final)) /\ ShowFits(shown(final))
            /\ final => shown(final).hypothesis = NoText
        BY <2>5, <2>6, ShownFits
      <3> HIDE DEF shown
      <3>2. Base(shown(final))  BY <2>5, <3>1 DEF ShownFrom, OpFit, Fits, Base, MicFits
      <3> QED BY <3>1, <3>2
    <2>b. /\ Decoded(s, text, silent) =
               IF (s.ending /\ l = n) \/ silent THEN WindowLoop(Finalized(t, n))
               ELSE IF n = Window THEN WindowLoop(Advanced(u)) ELSE PumpEnds(u)
      BY <1>4 DEF Decoded, t, u, h, x, n, l
    <2>c. u = shown(FALSE)  OBVIOUS
    <2>d. Finalized(t, n) = [shown(TRUE) EXCEPT !.queue = Rest(@, n), !.windowStart = @ + n,
                               !.decoded = 0, !.prefix = NoText, !.reference = FALSE, !.hypothesis = NoText]
      BY DEF Finalized
    <2> HIDE DEF t, shown, u
    <2>e. s.queue = Run(s.windowStart, l)
      <3> DEFINE a == s.accepted - s.held - l
      <3>1. a = s.windowStart  BY <1>1, <1>2, <2>2
      <3>2. s.queue = Run(a, l)  BY <2>2 DEF Ordered, l
      <3> HIDE DEF a
      <3> QED BY <3>1, <3>2
    \* The window moves on by m units, of which d stay decoded.
    <2>f. ASSUME NEW m \in Nat, m <= l, NEW v \in OpRecord, NEW d \in Nat, m + d = n,
                 v.queue = Rest(s.queue, m), v.windowStart = s.windowStart + m, v.decoded = d,
                 v.heard = h, v.accepted = s.accepted, v.held = s.held, v.ending = s.ending,
                 v.terminal = s.terminal, v.result = s.result, v.kind = "session", v.at = "live",
                 Base(v), ShowFits(v), d = 0 => v.hypothesis = NoText
          PROVE  Resting(v, kind) /\ Limited(v)
      <3> DEFINE b == s.windowStart + m  r == l - m  q == s.queue
      <3>1. b \in Nat /\ r \in Nat /\ s.windowStart \in Nat /\ l \in Nat /\ m \in Nat /\ m <= l
        BY <1>1, <1>2, <2>f
      <3>2. b = s.windowStart + m /\ r = l - m /\ q = Run(s.windowStart, l)  BY <2>e
      <3> HIDE DEF b, r, q
      <3>3. Parts(First(q, m), Rest(q, m), s.windowStart, m, b, r)  BY ONLY <3>1, <3>2, RunCut
      <3>4. v.queue = Run(b, r) /\ v.queue \in Seq(Nat) /\ Len(v.queue) = r
        BY <2>f, <3>3 DEF Parts, q
      <3>i. m + d = n /\ b = s.windowStart + m /\ r = l - m  BY <2>f, <3>2
      <3>5. b + r + s.held = s.accepted /\ h = b + d /\ d <= r /\ d <= n /\ r <= s.accepted - s.held
            /\ s.accepted - s.held - r = b
        <4>0. d \in Nat /\ m \in Nat  BY <2>f
        <4>1. b + r + s.held = s.accepted  BY ONLY <1>1, <1>2, <2>k, <3>1, <3>i, <4>0
        <4>2. h = b + d  BY ONLY <1>2, <2>3, <3>1, <3>i, <4>0
        <4>3. d <= r /\ d <= n  BY ONLY <1>2, <2>k, <3>1, <3>i, <4>0
        <4>4. r <= s.accepted - s.held /\ s.accepted - s.held - r = b  BY ONLY <1>1, <3>1, <4>1
        <4> QED BY <4>1, <4>2, <4>3, <4>4
      <3>6. r = 0 => d = 0  BY <3>1, <3>5
      <3>7. v.queue = <<>> => r = 0  BY <3>4, EmptyLen
      <3>8. v.windowStart = b  BY <2>f, <3>2
      <3>9. Windowed(v)  BY <2>f, <3>4, <3>5, <3>6, <3>7, <3>8 DEF Windowed
      <3>a. Ordered(v)
        <4>1. Len(v.queue) <= v.accepted - v.held  BY <2>f, <3>4, <3>5
        <4>2. v.accepted - v.held - Len(v.queue) = b  BY <2>f, <3>4, <3>5
        <4>3. v.ending => v.held = 0  BY <2>2, <2>f DEF Ordered
        <4> QED BY <3>4, <4>1, <4>2, <4>3 DEF Ordered
      <3>b. Bounded(v, kind)
        <4>1. d <= Window /\ Window \in Nat
          <5>1. Window \in Nat  BY RecognitionAssumption
          <5> QED BY <1>2, <2>1, <2>f, <3>5, <5>1
        <4> QED BY <1>4, <2>1, <2>4, <2>f, <4>1 DEF Bounded
      <3>c. Limited(v)  BY <2>7, <2>8, <2>f DEF Limited
      <3> QED BY <2>f, <3>9, <3>a, <3>b, <3>c DEF Resting
    <2>g. CASE (s.ending /\ l = n) \/ silent
      <3> DEFINE f == shown(TRUE)  q == Rest(s.queue, n)  w == s.windowStart + n
                 v == Finalized(t, n)
      <3>1. f \in OpRecord /\ ShownFrom(t, f) /\ ShowFits(f) /\ f.hypothesis = NoText /\ Base(f)
        BY <2>9 DEF ShownFrom
      <3>2. f.queue = s.queue /\ f.windowStart = s.windowStart  BY <2>5, <3>1 DEF ShownFrom
      <3> HIDE DEF f
      <3>3. v = [f EXCEPT !.queue = q, !.windowStart = w,
                          !.decoded = 0, !.prefix = NoText, !.reference = FALSE, !.hypothesis = NoText]
        BY <2>d, <3>2 DEF f
      <3>4. q \in Seq(Nat) /\ w \in Nat /\ NoText \in Nat /\ NoText = 0
        <4> DEFINE r == l - n
        <4>1. r \in Nat /\ r = l - n /\ w \in Nat /\ w = s.windowStart + n /\ s.windowStart \in Nat /\ n <= l
          BY <1>1, <1>2, <2>1
        <4> HIDE DEF r, w
        <4> DEFINE z == s.queue
        <4>2. z = Run(s.windowStart, l) /\ l \in Nat /\ n \in Nat  BY <1>2, <2>e
        <4> HIDE DEF z
        <4>3. Parts(First(z, n), Rest(z, n), s.windowStart, n, w, r)  BY ONLY <4>1, <4>2, RunCut
        <4> QED BY <4>1, <4>3 DEF Parts, z, NoText
      <3> HIDE DEF q, v
      <3>5. w = s.windowStart + n  OBVIOUS
      <3> HIDE DEF w
      <3>6. /\ v \in OpRecord /\ v.queue = q /\ v.windowStart = w /\ v.decoded = 0 /\ v.hypothesis = NoText
            /\ v.kind = f.kind /\ v.at = f.at /\ v.terminal = f.terminal /\ v.result = f.result
            /\ v.heard = f.heard /\ v.accepted = f.accepted /\ v.held = f.held /\ v.ending = f.ending
            /\ v.capture = f.capture /\ v.mic = f.mic /\ v.segments = f.segments /\ v.last = f.last
        BY <3>1, <3>3, <3>4 DEF OpRecord
      <3>7. Base(v) /\ ShowFits(v)
        BY <3>1, <3>6 DEF Base, MicFits, ShowFits, Numbered
      <3>8. /\ v.heard = h /\ v.accepted = s.accepted /\ v.held = s.held /\ v.ending = s.ending
            /\ v.terminal = s.terminal /\ v.result = s.result /\ v.kind = "session" /\ v.at = "live"
        BY <1>0, <2>5, <3>1, <3>6 DEF ShownFrom
      <3>9. n <= l /\ 0 \in Nat /\ n + 0 = n /\ v.queue = Rest(s.queue, n) /\ v.decoded = 0 /\ v.windowStart = s.windowStart + n
        BY <1>2, <2>1, <3>5, <3>6 DEF q
      <3>a. Resting(v, kind) /\ Limited(v)  BY <1>2, <2>f, <3>6, <3>7, <3>8, <3>9
      <3>b. Goes(v, WindowLoop(v), kind)  BY <3>a, WindowLoopFits
      <3>c. Decoded(s, text, silent) = WindowLoop(v)  BY <2>b, <2>g DEF v
      <3> QED BY <1>4, <3>b, <3>c DEF Goes
    <2>h. u \in OpRecord /\ ShownFrom(t, u) /\ ShowFits(u) /\ Base(u)
      BY <2>9, <2>c DEF ShownFrom
    <2>i. CASE ~((s.ending /\ l = n) \/ silent) /\ n = Window
      <3> DEFINE m == Window - Overlap  q == Rest(s.queue, m)  w == s.windowStart + m
                 v == Advanced(u)  p == u.hypothesis
      <3>1. m \in Nat /\ m <= l /\ m + Overlap = n /\ Overlap \in Nat /\ Overlap # 0
        BY <1>2, <2>1, <2>i, RecognitionAssumption
      <3>2. u.queue = s.queue /\ u.windowStart = s.windowStart  BY <2>5, <2>h DEF ShownFrom
      <3>3. v = [u EXCEPT !.reference = FALSE, !.prefix = p, !.queue = q, !.windowStart = s.windowStart + Window - Overlap,
                          !.decoded = Overlap]
        BY <3>2 DEF Advanced
      <3>4. s.windowStart + Window - Overlap = w
        <4>1. Window \in Nat /\ Overlap \in Nat  BY RecognitionAssumption
        <4> QED BY ONLY <1>1, <4>1
      <3>5. q \in Seq(Nat) /\ w \in Nat /\ p \in Nat
        <4> DEFINE r == l - m
        <4>1. r \in Nat /\ r = l - m /\ w \in Nat /\ w = s.windowStart + m /\ s.windowStart \in Nat /\ m <= l /\ m \in Nat
          <5> HIDE DEF m
          <5>1. s.windowStart \in Nat /\ l \in Nat /\ m \in Nat /\ m <= l  BY ONLY <1>1, <1>2, <3>1
          <5> QED BY ONLY <5>1
        <4> HIDE DEF r, w, m
        <4> DEFINE z == s.queue
        <4>2. z = Run(s.windowStart, l) /\ l \in Nat  BY <1>2, <2>e
        <4> HIDE DEF z
        <4>3. Parts(First(z, m), Rest(z, m), s.windowStart, m, w, r)  BY ONLY <4>1, <4>2, RunCut
        <4> QED BY <2>h, <4>1, <4>3 DEF Parts, z, OpRecord
      <3> HIDE DEF v, q, p
      <3>6. w = s.windowStart + m  OBVIOUS
      <3> HIDE DEF w, m
      <3>7. v = [u EXCEPT !.reference = FALSE, !.prefix = p, !.queue = q, !.windowStart = w, !.decoded = Overlap]
        BY <3>3, <3>4
      <3>8. /\ v \in OpRecord /\ v.queue = q /\ v.windowStart = w /\ v.decoded = Overlap
            /\ v.hypothesis = u.hypothesis
            /\ v.kind = u.kind /\ v.at = u.at /\ v.terminal = u.terminal /\ v.result = u.result
            /\ v.heard = u.heard /\ v.accepted = u.accepted /\ v.held = u.held /\ v.ending = u.ending
            /\ v.capture = u.capture /\ v.mic = u.mic /\ v.segments = u.segments /\ v.last = u.last
        BY <2>h, <3>1, <3>5, <3>7 DEF OpRecord
      <3>9. Base(v) /\ ShowFits(v)
        BY <2>h, <3>8 DEF Base, MicFits, ShowFits, Numbered
      <3>a. /\ v.heard = h /\ v.accepted = s.accepted /\ v.held = s.held /\ v.ending = s.ending
            /\ v.terminal = s.terminal /\ v.result = s.result /\ v.kind = "session" /\ v.at = "live"
        BY <1>0, <2>5, <2>h, <3>8 DEF ShownFrom
      <3>b. v.queue = Rest(s.queue, m) /\ v.windowStart = s.windowStart + m  BY <3>6, <3>8 DEF q
      <3>c. Resting(v, kind) /\ Limited(v)  BY <2>f, <3>1, <3>8, <3>9, <3>a, <3>b
      <3>d. Goes(v, WindowLoop(v), kind)  BY <3>c, WindowLoopFits
      <3>e. Decoded(s, text, silent) = WindowLoop(v)  BY <2>b, <2>i DEF v
      <3> QED BY <1>4, <3>d, <3>e DEF Goes
    <2>j. CASE ~((s.ending /\ l = n) \/ silent) /\ n # Window
      <3>1. Decoded(s, text, silent) = PumpEnds(u)  BY <2>b, <2>j
      <3>2. /\ u.heard = h /\ u.accepted = s.accepted /\ u.held = s.held /\ u.ending = s.ending
            /\ u.terminal = s.terminal /\ u.result = s.result /\ u.kind = "session" /\ u.at = "live"
            /\ u.queue = s.queue /\ u.windowStart = s.windowStart /\ u.decoded = n
        BY <1>0, <2>5, <2>h DEF ShownFrom
      <3>3. u.queue # <<>>
        <4>1. l # 0  BY <1>2, <2>1
        <4> QED BY <1>2, <3>2, <4>1
      <3>4. Resting(u, kind) /\ Limited(u)
        <4>1. Windowed(u)  BY <1>1, <1>2, <2>1, <2>2, <2>3, <3>2, <3>3 DEF Windowed, l
        <4>2. Ordered(u)  BY <2>2, <3>2 DEF Ordered
        <4>3. n <= Window  BY <1>2, <2>1
        <4>4. Bounded(u, kind)  BY <1>4, <2>1, <2>4, <3>2, <4>3 DEF Bounded
        <4>5. Limited(u)  BY <2>7, <2>8, <3>2 DEF Limited
        <4> QED BY <2>h, <3>2, <4>1, <4>2, <4>4, <4>5 DEF Resting
      <3>5. Goes(u, PumpEnds(u), kind)  BY <1>0, <3>3, <3>4, EndsGo
      <3> QED BY <1>4, <3>1, <3>5 DEF Goes
    <2> QED BY <2>g, <2>i, <2>j
  <1> QED BY <1>3, <1>4

\* The pump goes on when the recognizer has answered.
LEMMA PumpResumesFits ==
  ASSUME NEW s, kind \in Kinds, OpFit(s, kind), Pumping(s), NEW text \in Nat, NEW flag \in BOOLEAN
  PROVE  /\ Goes(s, PumpResumes(s, text, flag), kind)
         /\ s.pump = "push" /\ s.finished =>
              Through(PumpResumes(s, text, flag))
  <1>0. /\ s \in OpRecord /\ s.kind = "session" /\ s.at = "live"
        /\ kind = "online" => s.pump \in {"push", "reset"}
        /\ kind = "offline" => s.pump \in {"reference", "decode"}
    BY DEF OpFit, Fits, Base, Placed, Pumping
  <1>1. CASE s.pump = "push"
    <2>1. kind = "online"  BY <1>0, <1>1 DEF Kinds
    <2>2. PumpResumes(s, text, flag) = Pushed(s, text, flag)  BY <1>1 DEF PumpResumes
    <2> QED BY <1>1, <2>1, <2>2, PushedFits
  <1>2. CASE s.pump = "reset"
    <2>1. kind = "online"  BY <1>0, <1>2 DEF Kinds
    <2>2. PumpResumes(s, text, flag) = OnlineLoop(s)  BY <1>2 DEF PumpResumes
    <2>3. Resting(s, kind) /\ Limited(s)  BY <1>0, <1>2, FitRests
    <2> QED BY <1>2, <2>1, <2>2, <2>3, OnlineLoopFits
  <1>3. CASE s.pump = "decode"
    <2>1. kind = "offline"  BY <1>0, <1>3 DEF Kinds
    <2>2. PumpResumes(s, text, flag) = Decoded(s, text, flag)  BY <1>3 DEF PumpResumes
    <2> QED BY <1>3, <2>1, <2>2, DecodedFits
  <1>4. CASE s.pump = "reference" /\ s.terminal
    <2>1. PumpResumes(s, text, flag) = PumpEnds(s)  BY <1>4 DEF PumpResumes
    <2>2. Resting(s, kind) /\ Limited(s)  BY <1>0, <1>4, FitRests
    <2> QED BY <1>4, <2>1, <2>2, EndsGo
  <1>5. CASE s.pump = "reference" /\ ~s.terminal
    <2> DEFINE t == [s EXCEPT !.reference = TRUE, !.pump = "decode"]
    <2>1. PumpResumes(s, text, flag) = t  BY <1>5 DEF PumpResumes
    <2>2. Resting(s, kind) /\ Limited(s)  BY <1>0, <1>5, FitRests
    <2>3. RestsLike(s, t) /\ t.pump = "decode" /\ t.chunk = s.chunk
      BY <1>0 DEF RestsLike, OpRecord, PumpStages
    <2> HIDE DEF t
    <2>4. Resting(t, kind) /\ Limited(t)  BY <2>2, <2>3, RestsOn
    <2>5. kind = "offline"  BY <1>0, <1>5 DEF Kinds
    <2>6. Chunk(t, kind)
      <3>1. Chunk(s, kind)  BY <1>0 DEF OpFit, Fits, SessionFits
      <3> QED BY <1>5, <2>3, <2>5, <3>1 DEF Chunk, RestsLike
    <2>7. OpFit(t, kind)  BY <2>3, <2>4, <2>5, <2>6, RestFits
    <2>8. Tidy(t)  BY <2>3 DEF Tidy
    <2> QED BY <1>0, <1>5, <2>1, <2>3, <2>7, <2>8 DEF Goes, RestsLike
  <1> QED BY <1>1, <1>2, <1>3, <1>4, <1>5 DEF Pumping

----------------------------------------------------------------------------
(* The input of a session. *)

\* checkBacklog() keeps the backlog within its limit.
LEMMA CheckBacklogFits ==
  ASSUME NEW s, kind \in Kinds, Fits(s, kind), s.kind = "session", s.at = "live"
  PROVE  /\ OpFit(CheckBacklog(s), kind) /\ CheckBacklog(s).kind = "session"
         /\ CheckBacklog(s).at = "live" /\ CheckBacklog(s).pump = s.pump
  <1>1. CASE Pending(s) > MaxBuffered
    <2>1. CheckBacklog(s) = Settle(s, "failed")  BY <1>1 DEF CheckBacklog
    <2>2. "failed" \in Results /\ "failed" # "none" /\ "failed" # "complete" /\ ~Waits(s)
      BY DEF Results, Waits
    <2>3. OpFit(Settle(s, "failed"), kind)  BY <2>2, SettleKeeps
    <2> QED BY <2>1, <2>2, <2>3, SettleStays
  <1>2. CASE ~(Pending(s) > MaxBuffered)
    <2>1. CheckBacklog(s) = s  BY <1>2 DEF CheckBacklog
    <2>2. Limited(s)
      <3> SUFFICES ASSUME ~s.terminal, ~s.ending PROVE s.accepted - s.held - s.heard <= MaxBuffered
        BY DEF Limited
      <3> DEFINE l == Len(s.queue)  c == Len(s.chunk)
      <3>1. s.heard \in Nat /\ s.accepted \in Nat /\ s.held \in Nat /\ s.decoded \in Nat /\ s.windowStart \in Nat
            /\ s.queue \in Seq(Nat) /\ s.chunk \in Seq(Nat)
        BY DEF Fits, Base, OpRecord
      <3>2. l \in Nat /\ c \in Nat /\ MaxBuffered \in Nat  BY <3>1, EmptyLen, RecognitionAssumption
      <3>3. CASE kind = "online"
        <4>1. Incremental(s, c)  BY <3>3 DEF Fits, SessionFits
        <4>2. Pending(s) = l + c  BY <3>3 DEF Pending
        <4>3. s.heard + c + l + s.held = s.accepted  BY <4>1 DEF Incremental
        <4> HIDE DEF l, c
        <4> QED BY <1>2, <3>1, <3>2, <4>2, <4>3
      <3>4. CASE kind = "offline"
        <4>1. Windowed(s)  BY <3>4 DEF Fits, SessionFits, Emptied
        <4>2. Pending(s) = Max({0, l - s.decoded})  BY <3>4 DEF Pending
        <4>3. s.windowStart + l + s.held = s.accepted /\ s.heard = s.windowStart + s.decoded /\ s.decoded <= l
          BY <4>1 DEF Windowed
        <4> HIDE DEF l
        <4>4. 0 \in Int /\ l - s.decoded \in Int  BY <3>1, <3>2
        <4>5. Max({0, l - s.decoded}) = IF 0 >= l - s.decoded THEN 0 ELSE l - s.decoded  BY <4>4, MaxOfTwo
        <4>6. Pending(s) = l - s.decoded  BY <3>1, <3>2, <4>2, <4>3, <4>5
        <4> QED BY <1>2, <3>1, <3>2, <4>3, <4>6
      <3> QED BY <3>3, <3>4 DEF Kinds
    <2> QED BY <2>1, <2>2 DEF OpFit
  <1> QED BY <1>1, <1>2

LEMMA Counts ==
  ASSUME NEW s \in OpRecord
  PROVE  /\ s.accepted \in Nat /\ s.held \in Nat /\ s.queue \in Seq(Nat) /\ s.chunk \in Seq(Nat)
         /\ s.heard \in Nat /\ s.decoded \in Nat /\ s.windowStart \in Nat /\ s.length \in Nat
         /\ Len(s.queue) \in Nat /\ Len(s.chunk) \in Nat
  <1>1. s.queue \in Seq(Nat) /\ s.chunk \in Seq(Nat)  BY DEF OpRecord
  <1>2. Len(s.queue) \in Nat /\ Len(s.chunk) \in Nat  BY <1>1, EmptyLen
  <1> QED BY <1>1, <1>2 DEF OpRecord

\* Units after those of the queue of a session, put behind them.
LEMMA QueueGrows ==
  ASSUME NEW s, NEW k \in Kinds, s \in OpRecord, Ordered(s), NEW m \in Nat, NEW t \in OpRecord,
         t.accepted - t.held = s.accepted - s.held + m, NEW c, c = Run(s.accepted - s.held, m),
         t.queue = s.queue \o c, t.ending => t.held = 0
  PROVE  Ordered(t) /\ Len(t.queue) = Len(s.queue) + m
  <1> DEFINE l == Len(s.queue)  a == s.accepted - s.held - l  b == s.accepted - s.held
  <1>1. s.accepted \in Nat /\ s.held \in Nat /\ s.queue \in Seq(Nat) /\ t.accepted \in Nat /\ t.held \in Nat
    BY Counts
  <1>2. l \in Nat  BY Counts
  <1>3. l <= b /\ s.queue = Run(a, l)  BY DEF Ordered
  <1>4. a \in Nat /\ b \in Nat /\ b = a + l /\ l + m \in Nat
    <2>1. s.accepted - s.held \in Int /\ l <= s.accepted - s.held  BY ONLY <1>1, <1>3
    <2> QED BY ONLY <1>2, <2>1, m \in Nat
  <1>5. c = Run(b, m)  OBVIOUS
  <1>6. t.accepted - t.held = b + m  OBVIOUS
  <1> HIDE DEF a, b, l
  <1> DEFINE n == l + m  q == s.queue
  <1>7. n \in Nat /\ n = l + m /\ q = Run(a, l)  BY <1>3, <1>4
  <1> HIDE DEF n, q
  <1>8. n \in Nat /\ t.queue = Run(a, n) /\ n = l + m
    <2>1. Joined(q, c, a, n)
      <3>1. a \in Nat /\ l \in Nat /\ b \in Nat /\ m \in Nat /\ n \in Nat /\ b = a + l /\ n = l + m
        BY <1>2, <1>4, <1>7
      <3> QED BY ONLY <3>1, <1>5, <1>7, RunJoin
    <2> QED BY <1>7, <2>1 DEF q, Joined
  <1> HIDE DEF n
  <1>9. Len(t.queue) = n
    <2>1. Len(Run(a, n)) = n  BY <1>4, <1>8, RunParts
    <2> QED BY <1>8, <2>1
  <1>a. t.accepted - t.held - n = a /\ n <= t.accepted - t.held  BY <1>1, <1>2, <1>4, <1>6, <1>8
  <1>b. t.queue = Run(t.accepted - t.held - Len(t.queue), Len(t.queue))
    BY <1>8, <1>9, <1>a
  <1>c. Len(t.queue) <= t.accepted - t.held  BY <1>9, <1>a
  <1>d. Ordered(t)  BY <1>b, <1>c DEF Ordered
  <1> QED BY <1>8, <1>9, <1>d DEF l

\* A session that has more in its queue, and nothing else of it moved, fits.
LEMMA GrownFits ==
  ASSUME NEW s, kind \in Kinds, OpFit(s, kind), s.kind = "session", s.at = "live", ~s.terminal, ~s.ending,
         NEW t \in OpRecord, Base(t), NEW m \in Nat, NEW c, c = Run(s.accepted - s.held, m),
         t.queue = s.queue \o c, t.accepted - t.held = s.accepted - s.held + m,
         s.accepted <= t.accepted, t.ending => t.held = 0,
         t.kind = s.kind, t.at = s.at, t.terminal = s.terminal, t.result = s.result,
         t.heard = s.heard, t.chunk = s.chunk, t.finished = s.finished, t.pump = s.pump,
         t.windowStart = s.windowStart, t.decoded = s.decoded, t.hypothesis = s.hypothesis,
         t.segments = s.segments, t.last = s.last
  PROVE  Fits(t, kind)
  <1> DEFINE l == Len(s.queue)  d == Len(s.chunk)
  <1>0. s \in OpRecord  BY DEF OpFit, Fits, Base
  <1>1. /\ s.accepted \in Nat /\ s.held \in Nat /\ s.heard \in Nat /\ s.decoded \in Nat
        /\ s.windowStart \in Nat /\ l \in Nat /\ d \in Nat /\ s.queue \in Seq(Nat)
    BY <1>0, Counts
  <1>2. t.accepted \in Nat /\ t.held \in Nat /\ t.queue \in Seq(Nat)  BY Counts
  <1>3. Ordered(s) /\ Bounded(s, kind) /\ Chunk(s, kind)  BY DEF OpFit, Fits, SessionFits
  <1>4. Ordered(t) /\ Len(t.queue) = l + m  BY <1>0, <1>3, QueueGrows
  <1>k. Len(t.queue) = l + m /\ Len(t.chunk) = d /\ m \in Nat /\ l \in Nat /\ d \in Nat
    BY <1>1, <1>4
  <1>l. l = 0 => s.queue = <<>>  BY <1>1, EmptyLen
  <1>m. t.queue = <<>> => l + m = 0  BY <1>2, <1>4, EmptyLen
  <1>n. t.accepted - t.held = s.accepted - s.held + m  OBVIOUS
  <1>5. ShowFits(t)  BY DEF OpFit, Fits, ShowFits, Numbered
  <1>6. Placed(t, kind)  BY DEF OpFit, Fits, Placed, Waits
  <1>7. Bounded(t, kind)
    <2>1. s.heard <= t.accepted  BY <1>1, <1>2, <1>3 DEF Bounded
    <2>2. t.result # "complete"  BY DEF Base
    <2> QED BY <1>3, <2>1, <2>2 DEF Bounded
  <1>8. Chunk(t, kind)
    <2>1. ~(s.pump = "push" /\ s.finished)  BY <1>3 DEF Chunk
    <2>2. s.heard + d <= s.accepted => t.heard + Len(t.chunk) <= t.accepted  BY <1>1, <1>2
    <2>3. d <= l => Len(t.chunk) <= Len(t.queue)
      <3> HIDE DEF l, d
      <3> QED BY ONLY <1>k
    <2> QED BY <1>3, <2>1, <2>2, <2>3 DEF Chunk
  <1>9. kind = "online" => Incremental(t, Len(t.chunk))
    <2>1. kind = "online" => s.heard + d + l + s.held = s.accepted
      BY DEF OpFit, Fits, SessionFits, Incremental
    <2>2. s.heard + d + l + s.held = s.accepted => s.heard + d + (l + m) + t.held = t.accepted
      <3> DEFINE e == s.heard + d
      <3>1. e \in Nat  BY <1>1
      <3> HIDE DEF l, d, e
      <3>2. ASSUME e + l + s.held = s.accepted PROVE e + (l + m) + t.held = t.accepted
        <4> DEFINE f == s.accepted - s.held
        <4>1. f \in Int /\ e + l = f  BY ONLY <1>1, <1>k, <3>1, <3>2
        <4>2. t.accepted - t.held = f + m  BY ONLY <1>n
        <4> HIDE DEF f
        <4> QED BY ONLY <1>2, <1>k, <3>1, <4>1, <4>2
      <3> QED BY <3>2 DEF e
    <2> QED BY <1>4, <2>1, <2>2 DEF Incremental
  <1>a. kind = "offline" => Windowed(t)
    <2>1. kind = "offline" => Windowed(s)  BY DEF OpFit, Fits, SessionFits, Emptied
    <2>2. s.windowStart + l + s.held = s.accepted => s.windowStart + (l + m) + t.held = t.accepted
      <3> HIDE DEF l, d
      <3>1. ASSUME s.windowStart + l + s.held = s.accepted
            PROVE  s.windowStart + (l + m) + t.held = t.accepted
        <4> DEFINE f == s.accepted - s.held  w == s.windowStart
        <4>1. f \in Int /\ w \in Nat /\ w + l = f  BY ONLY <1>1, <1>k, <3>1
        <4>2. t.accepted - t.held = f + m  BY ONLY <1>n
        <4> HIDE DEF f, w
        <4>3. w + (l + m) = f + m  BY ONLY <1>k, <4>1
        <4>4. w + (l + m) + t.held = t.accepted  BY ONLY <1>2, <1>k, <4>1, <4>2, <4>3
        <4> QED BY <4>4 DEF w
      <3> QED BY <3>1
    <2>3. t.queue = <<>> => s.queue = <<>>
      <3> HIDE DEF l, d
      <3>1. l + m = 0 => l = 0  BY ONLY <1>k
      <3> QED BY ONLY <1>l, <1>m, <3>1
    <2>4. s.decoded <= l => t.decoded <= Len(t.queue)
      <3>1. t.decoded = s.decoded  OBVIOUS
      <3> HIDE DEF l, d
      <3> QED BY ONLY <1>1, <1>k, <3>1
    <2> QED BY <1>4, <2>1, <2>2, <2>3, <2>4 DEF Windowed
  <1>b. SessionFits(t, kind)  BY <1>4, <1>7, <1>8, <1>9, <1>a DEF SessionFits, Waits
  <1> QED BY <1>5, <1>6, <1>b DEF Fits

\* accept(): what arrives is put into the queue, and the pump is woken.
LEMMA AcceptFits ==
  ASSUME NEW s, kind \in Kinds, OpFit(s, kind), s.kind = "session", s.at = "live", ~s.terminal, ~s.ending,
         NEW n \in Chunks, NEW keeps \in 0 .. 1
  PROVE  /\ OpFit(Accept(s, n, keeps), kind) /\ Accept(s, n, keeps).kind = "session"
         /\ Accept(s, n, keeps).at = "live" /\ (s.pump # "returned" => Tidy(Accept(s, n, keeps)))
  <1> DEFINE b == s.accepted - s.held
             m == n - keeps + s.held
             c == Units(s.accepted - s.held + 1, s.accepted + n - keeps)
             q == s.queue \o c
             w == s.accepted + n
             g == [s EXCEPT !.queue = q, !.accepted = w, !.held = keeps]
  <1>0. s \in OpRecord  BY DEF OpFit, Fits, Base
  <1>1. s.accepted \in Nat /\ s.held \in Nat /\ s.queue \in Seq(Nat) /\ Len(s.queue) \in Nat
    BY <1>0, Counts
  <1>2. n \in Nat /\ n >= 1 /\ keeps \in Nat /\ keeps <= 1
    <2>1. n \in Nat \ {0}  BY RecognitionAssumption
    <2> QED BY <2>1
  <1>3. m \in Nat /\ b \in Nat /\ w \in Nat /\ w - keeps = b + m /\ s.accepted <= w
    <2>1. Len(s.queue) <= b  BY DEF OpFit, Fits, SessionFits, Ordered
    <2>2. m \in Nat  BY ONLY <1>1, <1>2
    <2>3. b \in Nat  BY ONLY <1>1, <2>1
    <2>4. w \in Nat /\ s.accepted <= w  BY ONLY <1>1, <1>2
    <2>5. w - keeps = b + m  BY ONLY <1>1, <1>2
    <2> QED BY <2>2, <2>3, <2>4, <2>5
  <1>4. c = Run(b, m)
    <2>1. s.accepted + n - keeps = b + m /\ s.accepted - s.held + 1 = b + 1  BY <1>1, <1>2
    <2> QED BY <2>1 DEF Run
  <1>5. q \in Seq(Nat)
    <2>1. c \in Seq(Nat)  BY <1>3, <1>4, RunParts
    <2> HIDE DEF c
    <2> QED BY <1>1, <2>1, ConcatProperties
  <1>6. Accept(s, n, keeps) = Kick(CheckBacklog(g))  BY DEF Accept
  <1>7. b = s.accepted - s.held /\ q = s.queue \o c  OBVIOUS
  <1> HIDE DEF b, c, q, w
  <1>8. /\ g \in OpRecord /\ g.queue = q /\ g.accepted = w /\ g.held = keeps
        /\ g.kind = s.kind /\ g.at = s.at /\ g.terminal = s.terminal /\ g.result = s.result
        /\ g.heard = s.heard /\ g.chunk = s.chunk /\ g.finished = s.finished /\ g.pump = s.pump
        /\ g.ending = s.ending /\ g.capture = s.capture /\ g.mic = s.mic
        /\ g.windowStart = s.windowStart /\ g.decoded = s.decoded /\ g.hypothesis = s.hypothesis
        /\ g.segments = s.segments /\ g.last = s.last
    BY <1>0, <1>3, <1>5 DEF OpRecord
  <1> HIDE DEF g, m
  <1>9. Base(g)  BY <1>8 DEF OpFit, Fits, Base, MicFits
  <1>a. /\ c = Run(s.accepted - s.held, m) /\ g.queue = s.queue \o c
        /\ g.accepted - g.held = s.accepted - s.held + m /\ s.accepted <= g.accepted
        /\ g.ending => g.held = 0
    BY <1>3, <1>4, <1>7, <1>8
  <1>b. Fits(g, kind)  BY <1>3, <1>8, <1>9, <1>a, GrownFits
  <1>c. /\ OpFit(CheckBacklog(g), kind) /\ CheckBacklog(g).kind = "session" /\ CheckBacklog(g).at = "live"
        /\ CheckBacklog(g).pump = s.pump
    BY <1>8, <1>b, CheckBacklogFits
  <1> QED BY <1>6, <1>c, KickFits

\* finish(): the microphone stops, the rest of the audio goes into the queue.
LEMMA FinishFits ==
  ASSUME NEW s, kind \in Kinds, OpFit(s, kind), s.kind = "session", s.at = "live", ~s.terminal, ~s.ending
  PROVE  /\ OpFit(Finish(s), kind) /\ Finish(s).kind = "session" /\ Finish(s).at = "live"
         /\ s.pump # "returned" => Tidy(Finish(s))
  <1> DEFINE p == StopCapture(s)  t == [p EXCEPT !.ending = TRUE]
             c == Flushed(s)  q == s.queue \o c
             g == [t EXCEPT !.held = 0, !.queue = q]
  <1>0. s \in OpRecord /\ NoLeak(s.mic)  BY DEF OpFit, Fits, Base, MicFits
  <1>1. CapturedFrom(s, p) /\ NoLeak(p.mic) /\ Silent(p.mic) /\ p.capture # "held"
    BY <1>0, StopCaptureFits
  <1>2. Finish(s) = IF s.accepted = 0 THEN Settle(t, "failed") ELSE Kick(g)
    <2>1. t.queue = s.queue
      <3> HIDE DEF p
      <3> QED BY <1>1 DEF CapturedFrom, OpRecord
    <2> DEFINE x == [StopCapture(s) EXCEPT !.ending = TRUE]
    <2>2. x.queue = s.queue  BY <2>1
    <2>3. Finish(s) = IF s.accepted = 0 THEN Settle(x, "failed")
                      ELSE Kick([x EXCEPT !.held = 0, !.queue = x.queue \o Flushed(s)])
      <3> HIDE DEF x
      <3> QED BY DEF Finish, x
    <2> HIDE DEF x
    <2>4. t = x  BY DEF x
    <2> HIDE DEF t
    <2> QED BY <2>2, <2>3, <2>4
  <1> HIDE DEF p
  <1>3. p \in OpRecord  BY <1>1 DEF CapturedFrom
  <1>4. /\ t \in OpRecord /\ t.ending = TRUE /\ t.queue = p.queue /\ t.accepted = p.accepted /\ t.held = p.held
        /\ t.kind = p.kind /\ t.at = p.at /\ t.terminal = p.terminal /\ t.result = p.result
        /\ t.heard = p.heard /\ t.chunk = p.chunk /\ t.finished = p.finished /\ t.pump = p.pump
        /\ t.capture = p.capture /\ t.mic = p.mic
        /\ t.windowStart = p.windowStart /\ t.decoded = p.decoded /\ t.hypothesis = p.hypothesis
        /\ t.segments = p.segments /\ t.last = p.last
    BY <1>3 DEF OpRecord
  <1> HIDE DEF t
  <1>5. Base(t)
    <2>1. MicFits(t)  BY <1>1, <1>4 DEF MicFits, Silent
    <2> QED BY <1>1, <1>4, <2>1 DEF CapturedFrom, OpFit, Fits, Base
  <1>6. s.accepted \in Nat /\ s.held \in Nat /\ s.queue \in Seq(Nat) /\ Len(s.queue) \in Nat
    BY <1>0, Counts
  <1> DEFINE b == s.accepted - s.held  m == s.held
  <1>7. b \in Nat /\ m \in Nat /\ m = s.held /\ b = s.accepted - s.held /\ s.accepted - 0 = b + m
    <2>1. Len(s.queue) <= b  BY DEF OpFit, Fits, SessionFits, Ordered
    <2> QED BY <1>6, <2>1
  <1>8. c = Run(b, m)
    <2>1. b + m = s.accepted  BY <1>6
    <2> QED BY <2>1 DEF Run, Flushed
  <1>9. q \in Seq(Nat)
    <2>1. c \in Seq(Nat)  BY <1>7, <1>8, RunParts
    <2> HIDE DEF c
    <2> QED BY <1>6, <2>1, ConcatProperties
  <1>a. q = s.queue \o c  OBVIOUS
  <1> HIDE DEF q, c, b, m
  <1>b. /\ g \in OpRecord /\ g.queue = q /\ g.accepted = t.accepted /\ g.held = 0 /\ g.ending
        /\ g.kind = t.kind /\ g.at = t.at /\ g.terminal = t.terminal /\ g.result = t.result
        /\ g.heard = t.heard /\ g.chunk = t.chunk /\ g.finished = t.finished /\ g.pump = t.pump
        /\ g.capture = t.capture /\ g.mic = t.mic
        /\ g.windowStart = t.windowStart /\ g.decoded = t.decoded /\ g.hypothesis = t.hypothesis
        /\ g.segments = t.segments /\ g.last = t.last
    <2>1. 0 \in 0 .. 1  OBVIOUS
    <2>2. g \in OpRecord  BY <1>4, <1>9, <2>1 DEF OpRecord
    <2> QED BY <1>4, <2>2 DEF OpRecord
  <1> HIDE DEF g
  <1>c. Base(g)  BY <1>4, <1>5, <1>b DEF Base, MicFits
  <1>d. /\ c = Run(s.accepted - s.held, m) /\ g.queue = s.queue \o c
        /\ g.accepted - g.held = s.accepted - s.held + m /\ s.accepted <= g.accepted
        /\ g.ending => g.held = 0
    BY <1>1, <1>4, <1>6, <1>7, <1>8, <1>a, <1>b DEF CapturedFrom
  <1>e. /\ g.kind = s.kind /\ g.at = s.at /\ g.terminal = s.terminal /\ g.result = s.result
        /\ g.heard = s.heard /\ g.chunk = s.chunk /\ g.finished = s.finished /\ g.pump = s.pump
        /\ g.windowStart = s.windowStart /\ g.decoded = s.decoded /\ g.hypothesis = s.hypothesis
        /\ g.segments = s.segments /\ g.last = s.last
    BY <1>1, <1>4, <1>b DEF CapturedFrom
  <1>f. Fits(g, kind)  BY <1>7, <1>b, <1>c, <1>d, <1>e, GrownFits
  <1>g. CASE s.accepted # 0
    <2>1. OpFit(g, kind)  BY <1>b, <1>f DEF OpFit, Limited
    <2> QED BY <1>2, <1>e, <1>g, <2>1, KickFits
  <1>h. CASE s.accepted = 0
    <2>1. m = 0
      <3>1. b + m = 0 /\ m >= 0 /\ b >= 0  BY <1>h, <1>7
      <3> QED BY <1>7, <3>1
    <2>2. /\ t.kind = s.kind /\ t.at = s.at /\ t.terminal = s.terminal /\ t.result = s.result
          /\ t.heard = s.heard /\ t.chunk = s.chunk /\ t.finished = s.finished /\ t.pump = s.pump
          /\ t.windowStart = s.windowStart /\ t.decoded = s.decoded /\ t.hypothesis = s.hypothesis
          /\ t.segments = s.segments /\ t.last = s.last /\ t.queue = s.queue /\ t.accepted = s.accepted
          /\ t.held = s.held
      BY <1>1, <1>4 DEF CapturedFrom
    <2>3. t.queue = s.queue \o c
      <3>1. c = <<>>  BY <1>7, <1>8, <2>1, NoRun
      <3> QED BY <1>6, <2>2, <3>1, ConcatEmptySeq
    <2>4. /\ c = Run(s.accepted - s.held, m) /\ t.accepted - t.held = s.accepted - s.held + m
          /\ s.accepted <= t.accepted /\ (t.ending => t.held = 0)
      <3>1. c = Run(s.accepted - s.held, m)  BY <1>8 DEF b
      <3>2. t.accepted = s.accepted /\ t.held = s.held /\ m = 0 /\ s.held = 0  BY <1>7, <2>1, <2>2
      <3> QED BY <1>6, <3>1, <3>2
    <2>5. Fits(t, kind)  BY <1>4, <1>5, <1>7, <2>2, <2>3, <2>4, GrownFits
    <2>6. "failed" \in Results /\ "failed" # "none" /\ "failed" # "complete" /\ ~Waits(t)
      BY <2>2 DEF Results, Waits
    <2>7. OpFit(Settle(t, "failed"), kind)  BY <2>5, <2>6, SettleKeeps
    <2> QED BY <1>2, <1>h, <2>2, <2>5, <2>6, <2>7, SettleStays DEF Tidy
  <1> QED BY <1>g, <1>h

----------------------------------------------------------------------------
(* Complete recordings. *)

\* A recording, wherever it stands.
FileBody(s) ==
  /\ Base(s) /\ ShowFits(s) /\ s.kind = "file" /\ s.pump = "idle"
  /\ s.chunk = Run(s.heard, Len(s.chunk)) /\ s.heard + Len(s.chunk) + s.length = s.accepted
  /\ s.queue = <<>> /\ s.hypothesis = NoText /\ s.decoded = 0 /\ s.mic.at = "none" /\ s.capture = "none"
  /\ s.result = "complete" => s.length = 0 /\ s.chunk = <<>>

LEMMA FitBody ==
  ASSUME NEW s, NEW k, OpFit(s, k), s.kind = "file"
  PROVE  FileBody(s)
  BY DEF OpFit, Fits, Placed, FileFits, FileBody

LEMMA BodyFits ==
  ASSUME NEW t, NEW k \in Kinds, FileBody(t), t.at # "live",
         k = "online" => t.at # "decode",
         k = "offline" => t.at \notin {"open", "push", "reset", "close"},
         t.at = "over" => t.terminal,
         t.at \notin {"push", "decode", "close", "over"} => t.chunk = <<>>,
         t.at = "decode" => Len(t.chunk) \in 1 .. Window,
         t.at = "reset" => t.length > 0,
         t.at = "close" /\ t.finished /\ ~t.terminal => t.length = 0 /\ t.chunk = <<>>
  PROVE  OpFit(t, k)
  <1>1. Placed(t, k)  BY DEF Placed, FileBody
  <1>2. FileFits(t)  BY DEF FileFits, FileBody
  <1> QED BY <1>1, <1>2 DEF OpFit, Fits, Limited, FileBody

\* A recording that is over has a result.
LEMMA FileOver ==
  ASSUME NEW s, NEW k \in Kinds, FileBody(s), NEW how \in Results, how # "none",
         how = "complete" /\ ~s.terminal => s.length = 0 /\ s.chunk = <<>>
  PROVE  /\ OpFit([Settle(s, how) EXCEPT !.at = "over"], k)
         /\ [Settle(s, how) EXCEPT !.at = "over"].at = "over"
         /\ [Settle(s, how) EXCEPT !.at = "over"].kind = "file"
  <1> DEFINE c == Settle(s, how)  t == [c EXCEPT !.at = "over"]
  <1>1. s \in OpRecord /\ NoLeak(s.mic)  BY DEF FileBody, Base, MicFits
  <1>2. FileBody(c) /\ c.terminal
    <2>1. CASE s.terminal  BY <2>1, SettledAlready
    <2>2. CASE ~s.terminal
      <3>1. SettledFrom(s, c, how)  BY <1>1, <2>2, SettleFits
      <3> HIDE DEF c
      <3>2. Base(c) /\ ShowFits(c)  BY <3>1 DEF SettledFrom, FileBody, Base, ShowFits, Numbered
      <3> QED BY <2>2, <3>1, <3>2 DEF SettledFrom, FileBody
    <2> QED BY <2>1, <2>2
  <1> HIDE DEF c
  <1>3. c \in OpRecord  BY <1>2 DEF FileBody, Base
  <1>4. /\ t \in OpRecord /\ t.at = "over" /\ t.kind = c.kind /\ t.pump = c.pump /\ t.terminal = c.terminal
        /\ t.result = c.result /\ t.mic = c.mic /\ t.capture = c.capture /\ t.ending = c.ending
        /\ t.last = c.last /\ t.segments = c.segments /\ t.hypothesis = c.hypothesis
        /\ t.chunk = c.chunk /\ t.heard = c.heard /\ t.length = c.length /\ t.accepted = c.accepted
        /\ t.queue = c.queue /\ t.decoded = c.decoded
    BY <1>3 DEF OpRecord, Stages
  <1> HIDE DEF t
  <1>5. FileBody(t)  BY <1>2, <1>4 DEF FileBody, Base, MicFits, ShowFits, Numbered
  <1>6. OpFit(t, k)  BY <1>2, <1>4, <1>5, BodyFits
  <1> QED BY <1>2, <1>4, <1>6 DEF t, c, FileBody

\* A recording goes to another stage, its audio as it was.
MovedTo(s, t, a) ==
  FileBody(t) /\ t.at = a /\ t.terminal = s.terminal /\ t.chunk = s.chunk /\ t.length = s.length

LEMMA FileGoes ==
  ASSUME NEW s, FileBody(s), NEW a \in Stages
  PROVE  MovedTo(s, [s EXCEPT !.at = a], a)
  <1> DEFINE t == [s EXCEPT !.at = a]
  <1>0. s \in OpRecord  BY DEF FileBody, Base
  <1>1. /\ t \in OpRecord /\ t.at = a /\ t.kind = s.kind /\ t.pump = s.pump /\ t.terminal = s.terminal
        /\ t.result = s.result /\ t.mic = s.mic /\ t.capture = s.capture /\ t.ending = s.ending
        /\ t.last = s.last /\ t.segments = s.segments /\ t.hypothesis = s.hypothesis
        /\ t.chunk = s.chunk /\ t.heard = s.heard /\ t.length = s.length /\ t.accepted = s.accepted
        /\ t.queue = s.queue /\ t.decoded = s.decoded
    BY <1>0 DEF OpRecord
  <1> HIDE DEF t
  <1>2. FileBody(t)  BY <1>1 DEF FileBody, Base, MicFits, ShowFits, Numbered
  <1> QED BY <1>1, <1>2 DEF t, MovedTo

LEMMA FileCloses ==
  ASSUME NEW s, FileBody(s), NEW f \in BOOLEAN, NEW t, t = [s EXCEPT !.at = "close", !.finished = f]
  PROVE  MovedTo(s, t, "close") /\ t.finished = f
  <1>0. s \in OpRecord /\ "close" \in Stages  BY DEF FileBody, Base, Stages
  <1>1. /\ t \in OpRecord /\ t.at = "close" /\ t.kind = s.kind /\ t.pump = s.pump /\ t.terminal = s.terminal
        /\ t.result = s.result /\ t.mic = s.mic /\ t.capture = s.capture /\ t.ending = s.ending
        /\ t.last = s.last /\ t.segments = s.segments /\ t.hypothesis = s.hypothesis
        /\ t.chunk = s.chunk /\ t.heard = s.heard /\ t.length = s.length /\ t.accepted = s.accepted
        /\ t.queue = s.queue /\ t.decoded = s.decoded /\ t.finished = f
    BY <1>0 DEF OpRecord
  <1>2. FileBody(t)  BY <1>1 DEF FileBody, Base, MicFits, ShowFits, Numbered
  <1> QED BY <1>1, <1>2 DEF MovedTo

\* run() leaves the loop over the audio.
LEMMA FileLeavesFits ==
  ASSUME NEW s, kind \in Kinds, FileBody(s), NEW error \in BOOLEAN,
         ~error /\ ~s.terminal => s.length = 0 /\ s.chunk = <<>>
  PROVE  /\ OpFit(FileLeaves(s, error), kind) /\ FileLeaves(s, error).kind = "file"
         /\ FileLeaves(s, error).at = IF kind = "online" THEN "close" ELSE "over"
  <1>1. CASE kind = "online"
    <2> DEFINE f == ~error  t == [s EXCEPT !.at = "close", !.finished = f]
    <2>1. FileLeaves(s, error) = t  BY <1>1 DEF FileLeaves
    <2>2. f \in BOOLEAN /\ t = [s EXCEPT !.at = "close", !.finished = f]  OBVIOUS
    <2> HIDE DEF f, t
    <2>3. MovedTo(s, t, "close") /\ t.finished = f  BY <2>2, FileCloses
    <2>4. OpFit(t, kind)  BY <1>1, <2>3, BodyFits DEF f, MovedTo
    <2> QED BY <1>1, <2>1, <2>3, <2>4 DEF FileBody, MovedTo
  <1>2. CASE kind # "online"
    <2> DEFINE how == IF error THEN "failed" ELSE "complete"
    <2>1. FileLeaves(s, error) = [Settle(s, how) EXCEPT !.at = "over"]  BY <1>2 DEF FileLeaves
    <2>2. how \in Results /\ how # "none" /\ (how = "complete" /\ ~s.terminal => s.length = 0 /\ s.chunk = <<>>)
      BY DEF Results
    <2> HIDE DEF how
    <2> QED BY <1>2, <2>1, <2>2, FileOver
  <1> QED BY <1>1, <1>2

\* The head of the loop over the audio: some more, or the end of it.
LEMMA FileLoopFits ==
  ASSUME NEW s, kind \in Kinds, FileBody(s), s.chunk = <<>>, NEW t \in FileLoop(s)
  PROVE  /\ OpFit(t, kind) /\ t.kind = "file"
         /\ t.at \in IF kind = "online" THEN {"push", "close"} ELSE {"decode", "over"}
         /\ t.at = "push" => s.length # 0
  <1>1. CASE s.terminal \/ s.length = 0
    <2>1. t = FileLeaves(s, FALSE)  BY <1>1 DEF FileLoop
    <2>2. FALSE \in BOOLEAN  OBVIOUS
    <2> QED BY <1>1, <2>1, <2>2, FileLeavesFits
  <1>2. CASE ~(s.terminal \/ s.length = 0)
    <2> DEFINE from == s.accepted - s.length
               step == IF kind = "online" THEN Step ELSE Window
               next == IF s.length <= step THEN {s.length}
                       ELSE IF kind = "online" THEN {Step} ELSE MinWindow .. Window
               a == IF kind = "online" THEN "push" ELSE "decode"
    <2>0. s \in OpRecord  BY DEF FileBody, Base
    <2>1. s.heard \in Nat /\ s.length \in Nat /\ s.accepted \in Nat /\ s.length > 0
      BY <1>2, <2>0, Counts
    <2>2. from = s.heard
      <3>1. Len(s.chunk) = 0  OBVIOUS
      <3>2. s.heard + 0 + s.length = s.accepted  BY <3>1 DEF FileBody
      <3> QED BY <2>1, <3>2
    <2>3. PICK n \in next : t = [s EXCEPT !.at = a, !.chunk = Units(from + 1, from + n), !.length = @ - n]
      <3> HIDE DEF a
      <3>1. FileLoop(s) = {[s EXCEPT !.at = a, !.chunk = Units(from + 1, from + n), !.length = @ - n] : n \in next}
        BY <1>2 DEF FileLoop, a
      <3> HIDE DEF next, from
      <3> QED BY <3>1
    <2>4. n \in Nat /\ n >= 1 /\ n <= s.length /\ (kind = "offline" => n <= Window)
      BY <2>1, RecognitionAssumption DEF Kinds
    <2> DEFINE c == Units(from + 1, from + n)  r == s.length - n
    <2>5. c = Run(s.heard, n) /\ r \in Nat /\ s.heard + n + r = s.accepted
      <3>1. c = Run(s.heard, n)
        <4> HIDE DEF from
        <4> QED BY <2>2 DEF Run
      <3>2. s.heard + s.length = s.accepted
        <4>1. Len(s.chunk) = 0  OBVIOUS
        <4>2. s.heard + 0 + s.length = s.accepted  BY <4>1 DEF FileBody
        <4> QED BY ONLY <2>1, <4>2
      <3>3. r \in Nat /\ r = s.length - n  BY ONLY <2>1, <2>4 DEF r
      <3> HIDE DEF c, r
      <3>4. s.heard + n + r = s.accepted  BY ONLY <2>1, <2>4, <3>2, <3>3
      <3> QED BY <3>1, <3>3, <3>4
    <2>6. c \in Seq(Nat) /\ Len(c) = n
      <3> HIDE DEF c
      <3>1. Run(s.heard, n) \in Seq(Nat) /\ Len(Run(s.heard, n)) = n  BY ONLY <2>1, <2>4, RunParts
      <3> QED BY <2>5, <3>1
    <2>7. t = [s EXCEPT !.at = a, !.chunk = c, !.length = r]  BY <2>3
    <2>8. a \in Stages  BY DEF Stages
    <2> HIDE DEF c, r, a, next
    <2>9. /\ t \in OpRecord /\ t.at = a /\ t.kind = s.kind /\ t.pump = s.pump /\ t.terminal = s.terminal
          /\ t.result = s.result /\ t.mic = s.mic /\ t.capture = s.capture /\ t.ending = s.ending
          /\ t.last = s.last /\ t.segments = s.segments /\ t.hypothesis = s.hypothesis
          /\ t.chunk = c /\ t.heard = s.heard /\ t.length = r /\ t.accepted = s.accepted
          /\ t.queue = s.queue /\ t.decoded = s.decoded
      BY <2>0, <2>5, <2>6, <2>7, <2>8 DEF OpRecord
    <2>a. t.result # "complete"  BY <1>2, <2>9 DEF FileBody, Base
    <2>b. Base(t) /\ ShowFits(t)  BY <2>9 DEF FileBody, Base, MicFits, ShowFits, Numbered
    <2>c. t.heard + Len(t.chunk) + t.length = t.accepted /\ t.chunk = Run(t.heard, Len(t.chunk))
      BY <2>5, <2>6, <2>9
    <2>d. FileBody(t)  BY <2>9, <2>a, <2>b, <2>c DEF FileBody
    <2>e. t.at = "decode" => Len(t.chunk) \in 1 .. Window
      <3>1. Window \in Nat  BY RecognitionAssumption
      <3> QED BY <2>4, <2>6, <2>9, <3>1 DEF a, Kinds
    <2>f. OpFit(t, kind)  BY <2>9, <2>d, <2>e, BodyFits DEF a
    <2> QED BY <1>2, <2>9, <2>f DEF a, FileBody
  <1> QED BY <1>1, <1>2

\* Where a recording may stand after the await it stood at.
FileNext(s, t) ==
  /\ t.kind = "file"
  /\ CASE s.at = "normalize" -> t.at \in {"configure", "over"}
       [] s.at = "configure" -> t.at \in {"open", "decode", "over"}
       [] s.at = "open" -> t.at \in {"push", "close"}
       [] s.at = "reset" -> t.at \in {"push", "close"}
       [] s.at = "push" -> t.at \in {"push", "reset", "close"} /\ (t.at # "close" => s.length > 0)
       [] s.at = "decode" -> t.at \in {"decode", "over"}
       [] s.at = "close" -> t.at = "over"

\* A chunk of a recording was heard.
LEMMA FileHears ==
  ASSUME NEW s, kind \in Kinds, OpFit(s, kind), s.kind = "file"
  PROVE  /\ FileBody([s EXCEPT !.heard = Heard(s, s.chunk), !.chunk = <<>>])
         /\ [s EXCEPT !.heard = Heard(s, s.chunk), !.chunk = <<>>].chunk = <<>>
         /\ [s EXCEPT !.heard = Heard(s, s.chunk), !.chunk = <<>>].length = s.length
         /\ [s EXCEPT !.heard = Heard(s, s.chunk), !.chunk = <<>>].terminal = s.terminal
  <1> DEFINE n == Len(s.chunk)  h == Heard(s, s.chunk)  t == [s EXCEPT !.heard = h, !.chunk = <<>>]
  <1>0. FileBody(s) /\ s \in OpRecord  BY FitBody DEF OpFit, Fits, Base
  <1>1. s.heard \in Nat /\ n \in Nat /\ s.chunk \in Seq(Nat) /\ s.length \in Nat /\ s.accepted \in Nat
    BY <1>0, Counts
  <1>2. s.chunk = Run(s.heard, n) /\ s.heard + n + s.length = s.accepted  BY <1>0 DEF FileBody
  <1>3. h = s.heard + n
    <2>1. s.heard <= s.heard /\ s.heard <= s.heard + n /\ n = Len(s.chunk)  BY <1>1
    <2> HIDE DEF n, h
    <2>2. Heard(s, s.chunk) = s.heard + n  BY <1>1, <1>2, <2>1, HeardOn
    <2> QED BY <2>2 DEF h
  <1>4. h \in Nat /\ <<>> \in Seq(Nat)  BY <1>1, <1>3, EmptySeq
  <1>5. h + 0 + s.length = s.accepted  BY <1>1, <1>2, <1>3
  <1> HIDE DEF h, n
  <1>6. /\ t \in OpRecord /\ t.at = s.at /\ t.kind = s.kind /\ t.pump = s.pump /\ t.terminal = s.terminal
        /\ t.result = s.result /\ t.mic = s.mic /\ t.capture = s.capture /\ t.ending = s.ending
        /\ t.last = s.last /\ t.segments = s.segments /\ t.hypothesis = s.hypothesis
        /\ t.chunk = <<>> /\ t.heard = h /\ t.length = s.length /\ t.accepted = s.accepted
        /\ t.queue = s.queue /\ t.decoded = s.decoded
    BY <1>0, <1>4 DEF OpRecord
  <1> HIDE DEF t
  <1>7. Len(t.chunk) = 0 /\ t.chunk = Run(t.heard, Len(t.chunk))
    <2>1. Len(<<>>) = 0  OBVIOUS
    <2> QED BY <1>4, <1>6, <2>1, NoRun
  <1>8. t.heard + Len(t.chunk) + t.length = t.accepted  BY <1>5, <1>6, <1>7
  <1>9. FileBody(t)
    <2>1. Base(t) /\ ShowFits(t)  BY <1>0, <1>6 DEF FileBody, Base, MicFits, ShowFits, Numbered
    <2> QED BY <1>0, <1>6, <1>7, <1>8, <2>1 DEF FileBody
  <1> QED BY <1>6, <1>9 DEF t, h

\* An await of a recording answers.
LEMMA FileResumesFits ==
  ASSUME NEW s, kind \in Kinds, OpFit(s, kind), s.kind = "file", NEW flag \in BOOLEAN,
         s.at \in {"normalize", "configure", "open", "push", "reset", "decode", "close"},
         NEW t \in FileResumes(s, flag)
  PROVE  OpFit(t, kind) /\ FileNext(s, t)
  <1> DEFINE w == [s EXCEPT !.heard = Heard(s, s.chunk), !.chunk = <<>>]
  <1>0. FileBody(s) /\ FileFits(s) /\ Placed(s, kind)  BY FitBody DEF OpFit, Fits
  <1>1. s.at \in {"normalize", "configure", "open", "reset"} => s.chunk = <<>>  BY <1>0 DEF FileFits
  <1>2. FileBody(w) /\ w.chunk = <<>> /\ w.length = s.length /\ w.terminal = s.terminal  BY FileHears
  <1>3. s.length \in Nat  BY <1>0, Counts DEF FileBody, Base
  <1>4. CASE s.at = "normalize"
    <2> DEFINE a == IF s.terminal THEN "over" ELSE "configure"
    <2>1. t = [s EXCEPT !.at = a]  BY <1>4 DEF FileResumes
    <2>2. a \in Stages  BY DEF Stages
    <2> HIDE DEF a
    <2>3. MovedTo(s, t, a)  BY <1>0, <2>1, <2>2, FileGoes
    <2>4. OpFit(t, kind)  BY <1>1, <1>4, <2>3, BodyFits DEF MovedTo, a
    <2> QED BY <1>4, <2>3, <2>4 DEF MovedTo, FileBody, FileNext, a
  <1>5. CASE s.at = "configure" /\ (s.terminal \/ kind = "online")
    <2> DEFINE a == IF s.terminal THEN "over" ELSE "open"
    <2>1. t = [s EXCEPT !.at = a]  BY <1>5 DEF FileResumes
    <2>2. a \in Stages  BY DEF Stages
    <2> HIDE DEF a
    <2>3. MovedTo(s, t, a)  BY <1>0, <2>1, <2>2, FileGoes
    <2>4. OpFit(t, kind)  BY <1>1, <1>5, <2>3, BodyFits DEF MovedTo, a
    <2> QED BY <1>5, <2>3, <2>4 DEF MovedTo, FileBody, FileNext, a
  <1>6. CASE s.at = "configure" /\ ~(s.terminal \/ kind = "online")
    <2>1. t \in FileLoop(s)  BY <1>6 DEF FileResumes
    <2>2. OpFit(t, kind) /\ t.kind = "file" /\ t.at \in {"decode", "over"}
      BY <1>0, <1>1, <1>6, <2>1, FileLoopFits
    <2> QED BY <1>6, <2>2 DEF FileNext
  <1>7. CASE s.at \in {"open", "reset"}
    <2>1. t \in FileLoop(s)  BY <1>7 DEF FileResumes
    <2>2. kind = "online"  BY <1>0, <1>7 DEF Placed, Kinds
    <2>3. OpFit(t, kind) /\ t.kind = "file" /\ t.at \in {"push", "close"}
      BY <1>0, <1>1, <1>7, <2>1, <2>2, FileLoopFits
    <2> QED BY <1>7, <2>3 DEF FileNext
  <1>8. CASE s.at = "push" /\ flag /\ ~s.terminal /\ s.length > 0
    <2>0. kind = "online"  BY <1>0, <1>8 DEF Placed, Kinds
    <2>1. t = [w EXCEPT !.at = "reset"]  BY <1>8 DEF FileResumes
    <2>2. "reset" \in Stages  BY DEF Stages
    <2> HIDE DEF w
    <2>3. MovedTo(w, t, "reset")  BY <1>2, <2>1, <2>2, FileGoes
    <2>4. OpFit(t, kind)  BY <1>2, <1>8, <2>0, <2>3, BodyFits DEF MovedTo
    <2> QED BY <1>8, <2>3, <2>4 DEF MovedTo, FileBody, FileNext
  <1>9. CASE s.at = "push" /\ ~(flag /\ ~s.terminal /\ s.length > 0)
    <2>0. kind = "online"  BY <1>0, <1>9 DEF Placed, Kinds
    <2>1. t \in FileLoop(w)  BY <1>9 DEF FileResumes
    <2> HIDE DEF w
    <2>2. /\ OpFit(t, kind) /\ t.kind = "file" /\ t.at \in {"push", "close"}
          /\ t.at = "push" => w.length # 0
      BY <1>2, <2>0, <2>1, FileLoopFits
    <2> QED BY <1>2, <1>3, <1>9, <2>2 DEF FileNext
  <1>a. CASE s.at = "decode"
    <2>0. kind # "online"  BY <1>0, <1>a DEF Placed
    <2>1. t \in FileLoop(w)  BY <1>a DEF FileResumes
    <2> HIDE DEF w
    <2>2. OpFit(t, kind) /\ t.kind = "file" /\ t.at \in {"decode", "over"}
      BY <1>2, <2>0, <2>1, FileLoopFits
    <2> QED BY <1>a, <2>2 DEF FileNext
  <1>b. CASE s.at = "close"
    <2> DEFINE how == IF s.finished THEN "complete" ELSE "failed"
    <2>1. t = [Settle(s, how) EXCEPT !.at = "over"]  BY <1>b DEF FileResumes
    <2>2. how \in Results /\ how # "none"  BY DEF Results
    <2>3. how = "complete" /\ ~s.terminal => s.length = 0 /\ s.chunk = <<>>  BY <1>0, <1>b DEF FileFits
    <2> HIDE DEF how
    <2>4. OpFit(t, kind) /\ t.at = "over" /\ t.kind = "file"  BY <1>0, <2>1, <2>2, <2>3, FileOver
    <2> QED BY <1>b, <2>4 DEF FileNext
  <1> QED BY <1>4, <1>5, <1>6, <1>7, <1>8, <1>9, <1>a, <1>b

\* An await of a recording throws.
LEMMA FileThrowsFits ==
  ASSUME NEW s, kind \in Kinds, OpFit(s, kind), s.kind = "file"
  PROVE  /\ OpFit(FileThrows(s), kind) /\ FileThrows(s).kind = "file"
         /\ FileThrows(s).at = IF s.at \in {"push", "reset"} THEN "close" ELSE "over"
  <1>0. FileBody(s) /\ Placed(s, kind)  BY FitBody DEF OpFit, Fits
  <1>1. CASE s.at \in {"push", "reset"}
    <2>1. kind = "online"  BY <1>0, <1>1 DEF Placed, Kinds
    <2>2. FileThrows(s) = FileLeaves(s, TRUE) /\ TRUE \in BOOLEAN  BY <1>1 DEF FileThrows
    <2> QED BY <1>0, <1>1, <2>1, <2>2, FileLeavesFits
  <1>2. CASE s.at \notin {"push", "reset"}
    <2>1. FileThrows(s) = [Settle(s, "failed") EXCEPT !.at = "over"]  BY <1>2 DEF FileThrows
    <2>2. "failed" \in Results /\ "failed" # "none" /\ "failed" # "complete"  BY DEF Results
    <2> QED BY <1>0, <1>2, <2>1, <2>2, FileOver
  <1> QED BY <1>1, <1>2

----------------------------------------------------------------------------
(* The work of a session begins and ends. *)

\* Its stream is closed: only the end of its work is left.
LEMMA SessionLeavesFits ==
  ASSUME NEW s, kind \in Kinds, OpFit(s, kind), s.kind = "session", s.terminal, s.pump = "idle",
         NEW a \in {"close", "over"}, a = "close" => kind = "online"
  PROVE  /\ OpFit([s EXCEPT !.at = a], kind) /\ [s EXCEPT !.at = a].at = a
         /\ [s EXCEPT !.at = a].kind = "session"
  <1> DEFINE t == [s EXCEPT !.at = a]
  <1>2. a \in Stages /\ s \in OpRecord  BY DEF Stages, OpFit, Fits, Base
  <1>3. RestsLike([s EXCEPT !.at = a], t) /\ t.at = a /\ t.kind = s.kind /\ t.pump = s.pump
        /\ t.chunk = s.chunk /\ t.finished = s.finished /\ t.terminal = s.terminal /\ t.result = s.result
        /\ t.heard = s.heard /\ t.ending = s.ending /\ t.queue = s.queue /\ t.accepted = s.accepted
        /\ t.held = s.held /\ t.capture = s.capture /\ t.mic = s.mic /\ t.windowStart = s.windowStart
        /\ t.decoded = s.decoded /\ t.hypothesis = s.hypothesis /\ t.segments = s.segments /\ t.last = s.last
    BY <1>2 DEF RestsLike, OpRecord
  <1>4. t \in OpRecord  BY <1>3 DEF RestsLike
  <1>5. a \in {"close", "over"} /\ (kind = "offline" => a = "over")  OBVIOUS
  <1> HIDE DEF t
  <1>6. Base(t) /\ ShowFits(t)  BY <1>3, <1>4 DEF OpFit, Fits, Base, MicFits, ShowFits, Numbered
  <1>7. Placed(t, kind)  BY <1>3, <1>5 DEF Placed, Waits
  <1>8. SessionFits(t, kind)
    <2>1. Bounded(t, kind)  BY <1>3 DEF OpFit, Fits, SessionFits, Bounded
    <2>2. Chunk(t, kind)  BY <1>3 DEF OpFit, Fits, SessionFits, Chunk
    <2>3. ~Waits(t)  BY <1>3, <1>5 DEF Waits
    <2> QED BY <1>3, <2>1, <2>2, <2>3 DEF SessionFits
  <1>9. OpFit(t, kind)  BY <1>3, <1>6, <1>7, <1>8 DEF OpFit, Fits, Limited
  <1> QED BY <1>3, <1>9 DEF t

LEMMA SessionEndsFits ==
  ASSUME NEW s, kind \in Kinds, OpFit(s, kind), s.kind = "session", s.terminal, s.pump = "idle"
  PROVE  /\ OpFit(SessionEnds(s), kind) /\ SessionEnds(s).kind = "session"
         /\ SessionEnds(s).at = IF kind = "online" THEN "close" ELSE "over"
  <1> DEFINE a == IF kind = "online" THEN "close" ELSE "over"
  <1>1. SessionEnds(s) = [s EXCEPT !.at = a]  BY DEF SessionEnds
  <1>2. a \in {"close", "over"} /\ (a = "close" => kind = "online")  OBVIOUS
  <1>3. a = IF kind = "online" THEN "close" ELSE "over"  OBVIOUS
  <1> HIDE DEF a
  <1>4. /\ OpFit([s EXCEPT !.at = a], kind) /\ [s EXCEPT !.at = a].at = a
        /\ [s EXCEPT !.at = a].kind = "session"
    BY <1>2, SessionLeavesFits
  <1> QED BY <1>1, <1>3, <1>4

\* A session that goes nowhere but on: queued, configured, open, live.
LEMMA SessionMoves ==
  ASSUME NEW s, kind \in Kinds, OpFit(s, kind), s.kind = "session", Waits(s),
         NEW a \in {"configure", "open", "live"}, a = "open" => kind = "online"
  PROVE  /\ OpFit([s EXCEPT !.at = a], kind) /\ [s EXCEPT !.at = a].at = a
         /\ [s EXCEPT !.at = a].kind = "session" /\ [s EXCEPT !.at = a].pump = "idle"
  <1> DEFINE t == [s EXCEPT !.at = a]
  <1>2. a \in Stages /\ s \in OpRecord  BY DEF Stages, OpFit, Fits, Base
  <1>3. t \in OpRecord /\ t.at = a /\ t.kind = s.kind /\ t.pump = s.pump
        /\ t.chunk = s.chunk /\ t.finished = s.finished /\ t.terminal = s.terminal /\ t.result = s.result
        /\ t.heard = s.heard /\ t.ending = s.ending /\ t.queue = s.queue /\ t.accepted = s.accepted
        /\ t.held = s.held /\ t.capture = s.capture /\ t.mic = s.mic /\ t.windowStart = s.windowStart
        /\ t.decoded = s.decoded /\ t.hypothesis = s.hypothesis /\ t.segments = s.segments /\ t.last = s.last
    BY <1>2 DEF OpRecord
  <1> HIDE DEF t
  <1>5. s.pump = "idle" /\ ~s.terminal  BY DEF OpFit, Fits, SessionFits, Placed
  <1>6. Base(t) /\ ShowFits(t)  BY <1>3 DEF OpFit, Fits, Base, MicFits, ShowFits, Numbered
  <1>7. Placed(t, kind)  BY <1>3, <1>5 DEF OpFit, Fits, Placed, Waits
  <1>8. SessionFits(t, kind)
    <2>1. Bounded(t, kind)  BY <1>3 DEF OpFit, Fits, SessionFits, Bounded
    <2>2. Chunk(t, kind)  BY <1>3, <1>5 DEF OpFit, Fits, SessionFits, Chunk
    <2>3. Ordered(t)  BY <1>3, <1>5 DEF OpFit, Fits, SessionFits, Ordered
    <2>4. kind = "online" => Incremental(t, Len(t.chunk))
      BY <1>3, <1>5 DEF OpFit, Fits, SessionFits, Incremental
    <2>5. kind = "offline" => Windowed(t)  BY <1>3, <1>5 DEF OpFit, Fits, SessionFits, Windowed, Emptied
    <2> QED BY <1>3, <1>5, <2>1, <2>2, <2>3, <2>4, <2>5 DEF SessionFits
  <1>9. Limited(t)  BY <1>3 DEF OpFit, Limited
  <1> QED BY <1>3, <1>5, <1>6, <1>7, <1>8, <1>9 DEF OpFit, Fits, t

\* A session whose creation fails is closed, or over.
LEMMA UnbornFits ==
  ASSUME NEW s, kind \in Kinds, OpFit(s, kind), s.kind = "session", Waits(s)
  PROVE  /\ OpFit(Unborn(s), kind) /\ Unborn(s).kind = "session"
         /\ Unborn(s).at = IF kind = "online" THEN "close" ELSE "over"
  <1> DEFINE u == Settle(s, "failed")
             a == IF kind = "online" THEN "close" ELSE "over"
             t == [u EXCEPT !.at = a]
  <1>1. Unborn(s) = t  BY DEF Unborn, SessionEnds
  <1>2. a \in Stages /\ s \in OpRecord /\ ~s.terminal /\ NoLeak(s.mic) /\ s.pump = "idle"
    BY DEF Stages, OpFit, Fits, Base, MicFits, Placed, SessionFits
  <1>3. SettledFrom(s, u, "failed")
    <2>1. "failed" \in Results  BY DEF Results
    <2> QED BY <1>2, <2>1, SettleFits
  <1>4. a \in {"close", "over"} /\ (kind = "offline" => a = "over") /\ (kind = "online" => a = "close")
    <2>1. CASE kind = "online"  BY <2>1
    <2>2. CASE kind = "offline"  BY <2>2
    <2> QED BY <2>1, <2>2 DEF Kinds
  <1> HIDE DEF u, a
  <1>5. t \in OpRecord
    <2>1. u \in OpRecord /\ a \in Stages  BY <1>2, <1>3 DEF SettledFrom
    <2> QED BY ONLY <2>1 DEF OpRecord
  <1>6. /\ t.at = a /\ t.kind = s.kind /\ t.pump = s.pump /\ t.chunk = s.chunk /\ t.finished = s.finished
        /\ t.terminal /\ t.result = "failed" /\ t.heard = s.heard /\ t.ending = s.ending
        /\ t.queue = <<>> /\ t.accepted = s.accepted /\ t.held = 0 /\ t.capture = u.capture
        /\ t.mic = u.mic /\ t.decoded = s.decoded /\ t.hypothesis = s.hypothesis
        /\ t.segments = s.segments /\ t.last = s.last
    BY <1>2, <1>3 DEF SettledFrom, OpRecord
  <1> HIDE DEF t
  <1>7. Base(t) /\ ShowFits(t)
    <2>1. MicFits(t)  BY <1>3, <1>6 DEF SettledFrom, MicFits
    <2>2. ShowFits(t)  BY <1>6 DEF OpFit, Fits, ShowFits, Numbered
    <2> QED BY <1>5, <1>6, <2>1, <2>2 DEF Base
  <1>8. Placed(t, kind)  BY <1>2, <1>4, <1>6 DEF Placed, Waits
  <1>9. SessionFits(t, kind)
    <2>1. Bounded(t, kind)  BY <1>6 DEF OpFit, Fits, SessionFits, Bounded
    <2>2. Chunk(t, kind)  BY <1>2, <1>6 DEF OpFit, Fits, SessionFits, Chunk
    <2>3. ~Waits(t)  BY <1>4, <1>6 DEF Waits
    <2> QED BY <1>6, <2>1, <2>2, <2>3 DEF SessionFits
  <1>a. OpFit(t, kind)  BY <1>6, <1>7, <1>8, <1>9 DEF OpFit, Fits, Limited
  <1> QED BY <1>1, <1>6, <1>a DEF a

\* createSession() goes on, or gives the session up.
LEMMA SessionResumesFits ==
  ASSUME NEW s, kind \in Kinds, OpFit(s, kind), s.kind = "session", s.at \in {"configure", "open"}
  PROVE  /\ OpFit(SessionResumes(s), kind) /\ SessionResumes(s).kind = "session"
         /\ SessionResumes(s).at = IF ~Available THEN IF kind = "online" THEN "close" ELSE "over"
                                   ELSE IF s.at = "configure" /\ kind = "online" THEN "open" ELSE "live"
         /\ SessionResumes(s).at = "live" => SessionResumes(s).pump = "idle"
  <1>1. Waits(s)  BY DEF Waits
  <1>2. CASE ~Available
    <2>1. SessionResumes(s) = Unborn(s)  BY <1>2 DEF SessionResumes
    <2> QED BY <1>1, <1>2, <2>1, UnbornFits
  <1>3. CASE Available
    <2> DEFINE a == IF s.at = "configure" /\ kind = "online" THEN "open" ELSE "live"
    <2>1. SessionResumes(s) = [s EXCEPT !.at = a]  BY <1>3 DEF SessionResumes
    <2>2. a \in {"configure", "open", "live"} /\ (a = "open" => kind = "online")  OBVIOUS
    <2>3. a = IF s.at = "configure" /\ kind = "online" THEN "open" ELSE "live"  OBVIOUS
    <2> HIDE DEF a
    <2>4. OpFit([s EXCEPT !.at = a], kind) /\ [s EXCEPT !.at = a].at = a
          /\ [s EXCEPT !.at = a].kind = "session" /\ [s EXCEPT !.at = a].pump = "idle"
      BY <1>1, <2>2, SessionMoves
    <2> QED BY <1>3, <2>1, <2>3, <2>4
  <1> QED BY <1>2, <1>3

\* What is kept of a session that is over fits as well.
LEMMA KeptFits ==
  ASSUME NEW t, NEW k \in Kinds, OpFit(t, k)
  PROVE  /\ OpFit(Kept(t), k) /\ Kept(t).at = t.at /\ Kept(t).kind = t.kind
         /\ t.at # "over" => Kept(t) = t
  <1>1. CASE ~(t.kind = "session" /\ t.at = "over" /\ t.pump = "idle")  BY <1>1 DEF Kept
  <1>2. CASE t.kind = "session" /\ t.at = "over" /\ t.pump = "idle"
    <2> DEFINE m == IF t.mic.stopped THEN [Stop(NewCapture) EXCEPT !.at = t.mic.at] ELSE t.mic
               u == [NewOperation("session") EXCEPT !.at = "over", !.terminal = TRUE,
                       !.result = t.result, !.mic = m]
    <2>1. Kept(t) = u  BY <1>2 DEF Kept
    <2>2. t \in OpRecord /\ t.terminal /\ t.result # "none" /\ MicFits(t)
      BY <1>2 DEF OpFit, Fits, Base, Placed
    <2>3. m \in CaptureRecord /\ NoLeak(m) /\ Silent(m)
      <3>1. t.mic \in CaptureRecord  BY <2>2 DEF OpRecord
      <3>2. CASE t.mic.stopped
        <4>1. NewCapture \in CaptureRecord  BY DEF NewCapture, NoCapture, CaptureRecord, CaptureStages
        <4>2. Stop(NewCapture) \in CaptureRecord /\ NoLeak(Stop(NewCapture)) /\ Stop(NewCapture).stopped
          BY <4>1, StopFits
        <4>3. t.mic.at \in CaptureStages  BY <3>1 DEF CaptureRecord
        <4> DEFINE n == Stop(NewCapture)
        <4>4. m = [n EXCEPT !.at = t.mic.at]  BY <3>2
        <4> HIDE DEF m, n
        <4>5. [n EXCEPT !.at = t.mic.at] \in CaptureRecord /\ [n EXCEPT !.at = t.mic.at].stopped = n.stopped
              /\ [n EXCEPT !.at = t.mic.at].tracks = n.tracks
          BY <4>2, <4>3 DEF CaptureRecord, n
        <4> QED BY <4>2, <4>4, <4>5 DEF NoLeak, Silent, n
      <3>3. CASE ~t.mic.stopped
        <4>1. m = t.mic  BY <3>3
        <4> QED BY <2>2, <3>1, <4>1 DEF MicFits, Silent
      <3> QED BY <3>2, <3>3
    <2> HIDE DEF m
    <2>4. <<>> \in Seq(Nat)  OBVIOUS
    <2>5. u \in OpRecord
      <3>1. t.result \in Results  BY <2>2 DEF OpRecord
      <3>2. "over" \in Stages /\ "idle" \in PumpStages  BY DEF Stages, PumpStages
      <3>3. NoEvent \in Event /\ NoText \in Nat  BY DEF NoEvent, Event, NoText
      <3>4. m \in CaptureRecord  BY <2>3
      <3> DEFINE n == NewOperation("session")
      <3>5. n \in OpRecord
        <4>1. "queued" \in Stages /\ "none" \in Results /\ NoCapture \in CaptureRecord
          BY DEF Stages, Results, NoCapture, CaptureRecord, CaptureStages
        <4>2. 0 \in 0 .. 1  OBVIOUS
        <4> QED BY ONLY <2>4, <3>2, <3>3, <4>1, <4>2 DEF NewOperation, OpRecord
      <3> HIDE DEF n
      <3> DEFINE v == [n EXCEPT !.at = "over", !.terminal = TRUE, !.result = t.result, !.mic = m]
      <3>6. v \in OpRecord  BY ONLY <3>1, <3>2, <3>4, <3>5 DEF OpRecord
      <3> QED BY <3>6 DEF n
    <2>6. /\ u.at = "over" /\ u.kind = "session" /\ u.pump = "idle" /\ u.chunk = <<>> /\ u.terminal = TRUE
          /\ u.result = t.result /\ u.heard = 0 /\ u.ending = FALSE /\ u.queue = <<>> /\ u.accepted = 0
          /\ u.held = 0 /\ u.capture = "none" /\ u.mic = m /\ u.decoded = 0 /\ u.hypothesis = NoText
          /\ u.segments = 0 /\ u.last = NoEvent
      BY DEF NewOperation
    <2> HIDE DEF u
    <2>7. Base(u)  BY <2>2, <2>3, <2>5, <2>6 DEF Base, MicFits, Silent
    <2>8. ShowFits(u)  BY <2>6 DEF ShowFits, Numbered, NoEvent, NoText
    <2>9. Placed(u, k)  BY <2>6 DEF Placed, Waits
    <2>a. Bounded(u, k)
      <3>1. 0 <= Window  BY RecognitionAssumption
      <3> QED BY <2>6, <3>1 DEF Bounded
    <2>b. Chunk(u, k)  BY <2>6 DEF Chunk
    <2>c. SessionFits(u, k)  BY <2>6, <2>a, <2>b DEF SessionFits, Waits
    <2>d. OpFit(u, k)  BY <2>6, <2>7, <2>8, <2>9, <2>c DEF OpFit, Fits, Limited
    <2> QED BY <1>2, <2>1, <2>6, <2>d
  <1> QED BY <1>1, <1>2

\* An operation of which only the microphone, or its source, changes.
LEMMA CaptureFits ==
  ASSUME NEW s, NEW k \in Kinds, Fits(s, k), NEW t, CapturedFrom(s, t), MicFits(t),
         s.kind = "file" \/ Waits(s) => t.mic.at = "none" /\ t.capture = "none"
  PROVE  Fits(t, k) /\ (Limited(s) => Limited(t)) /\ t.at = s.at /\ t.kind = s.kind
         /\ t.terminal = s.terminal /\ t.pump = s.pump /\ t.ending = s.ending /\ t.queue = s.queue
  <1> USE DEF CapturedFrom
  <1>1. Base(t) /\ ShowFits(t)  BY DEF Fits, Base, ShowFits, Numbered
  <1>2. Placed(t, k)  BY DEF Fits, Placed, Waits
  <1>3. t.kind = "file" => FileFits(t)  BY DEF Fits, FileFits
  <1>4. t.kind = "session" => SessionFits(t, k)
    <2>1. ASSUME t.kind = "session" PROVE SessionFits(t, k)
      <3>1. Bounded(t, k)  BY <2>1 DEF Fits, SessionFits, Bounded
      <3>2. Chunk(t, k)  BY <2>1 DEF Fits, SessionFits, Chunk
      <3>3. ~t.terminal => Ordered(t)  BY <2>1 DEF Fits, SessionFits, Ordered
      <3>4. ~t.terminal /\ k = "online" => Incremental(t, Len(t.chunk))
        BY <2>1 DEF Fits, SessionFits, Incremental
      <3>5. ~t.terminal /\ k = "offline" => Windowed(t) \/ Emptied(t)
        BY <2>1 DEF Fits, SessionFits, Windowed, Emptied
      <3>6. Waits(t) => t.pump = "idle"  BY <2>1 DEF Fits, SessionFits, Waits
      <3> QED BY <3>1, <3>2, <3>3, <3>4, <3>5, <3>6 DEF SessionFits
    <2> QED BY <2>1
  <1>5. Limited(s) => Limited(t)  BY DEF Limited
  <1> QED BY <1>1, <1>2, <1>3, <1>4, <1>5 DEF Fits

----------------------------------------------------------------------------
(* One operation changes, and with it perhaps the recognizer. *)

\* What the recognizer becomes fits what the operation becomes.
Told(o, t, r) ==
  /\ r \in [options : 0 .. Len(ops), stream : 0 .. Len(ops), finished : BOOLEAN]
  /\ kind = "offline" => r.stream = 0
  /\ ~dead => /\ r.stream # 0 => (IF r.stream = o THEN t.at ELSE ops[r.stream].at) \in Streaming
              /\ UsesRight(o, t, r, kind)
              /\ \A p \in Ops \ {o} : UsesRight(p, ops[p], r, kind)
\* What a step leaves of a session for which nothing is pushed any more, and of
\* one whose pump had not returned.
Follows(s, t) == (Through(s) => Through(t)) /\ (s.pump # "returned" => Tidy(t))
\* The work of an operation goes on, in its turn, and ends once.
Proceeds(o, t) ==
  /\ t.at = "queued" => ops[o].at = "queued"
  /\ ops[o].at = "queued" /\ t.at # "queued" => Turn(o)
  /\ ops[o].at = "over" => t.at = "over"

LEMMA Becomes ==
  ASSUME RecognitionInv, NEW o \in Ops, NEW t, OpFit(t, kind), Proceeds(o, t), Become(o, t),
         UNCHANGED <<kind, unload, dead>>, Told(o, t, recognizer'),
         t.at = "live" /\ ops[o].pump # "returned" => Tidy(t)
  PROVE  Onward
  <1> DEFINE u == Kept(t)
  <1>0. kind \in Kinds /\ ops \in Seq(OpRecord) /\ Len(ops) \in Nat /\ Ops = 1 .. Len(ops)
    BY LenProperties DEF RecognitionInv, Kinds, Ops
  <1>1. OpFit(u, kind) /\ u.at = t.at /\ (t.at # "over" => u = t)  BY <1>0, KeptFits
  <1>2. ops' = [ops EXCEPT ![o] = u]  BY DEF Become
  <1> HIDE DEF u
  <1>3. u \in OpRecord  BY <1>1 DEF OpFit, Fits, Base
  <1>4. ops' \in Seq(OpRecord) /\ Len(ops') = Len(ops)  BY <1>0, <1>2, <1>3, ExceptSeq
  <1>5. Ops' = Ops /\ ops'[o] = u /\ \A p \in Ops \ {o} : ops'[p] = ops[p]
    BY <1>0, <1>2, <1>4, LenProperties DEF Ops
  <1>6. \A p \in Ops : OpFit(ops'[p], kind)  BY <1>1, <1>5 DEF RecognitionInv
  <1>7. InTurn'
    <2>1. ASSUME NEW p \in Ops, NEW q \in Ops, p < q, ops'[q].at # "queued" PROVE ops'[p].at = "over"
      <3>1. CASE q = o
        <4>1. p # o  BY <1>0, <2>1, <3>1
        <4>2. CASE ops[o].at = "queued"
          <5>1. Turn(o)  BY <1>1, <1>5, <2>1, <3>1, <4>2 DEF Proceeds
          <5> QED BY <1>5, <2>1, <3>1, <4>1, <5>1 DEF Turn
        <4>3. CASE ops[o].at # "queued"
          <5>1. ops[p].at = "over"  BY <2>1, <3>1, <4>3 DEF RecognitionInv, InTurn
          <5> QED BY <1>5, <4>1, <5>1
        <4> QED BY <4>2, <4>3
      <3>2. CASE q # o
        <4>1. ops[p].at = "over"  BY <1>5, <2>1, <3>2 DEF RecognitionInv, InTurn
        <4> QED BY <1>1, <1>5, <4>1 DEF Proceeds
      <3> QED BY <3>1, <3>2
    <2>2. ASSUME unload \in {"asked", "done"}, NEW p \in Ops PROVE ops'[p].at = "over"
      <3>1. ops[p].at = "over"  BY <2>2 DEF RecognitionInv, InTurn
      <3> QED BY <1>1, <1>5, <3>1 DEF Proceeds
    <2> QED BY <1>5, <2>1, <2>2 DEF InTurn
  <1>8. RecognizerFits'
    <2> DEFINE r == recognizer'
    <2>1. Told(o, t, r)  OBVIOUS
    <2> HIDE DEF r
    <2>2. r \in [options : 0 .. Len(ops'), stream : 0 .. Len(ops'), finished : BOOLEAN]
      BY <1>4, <2>1 DEF Told
    <2>3. kind = "offline" => r.stream = 0  BY <2>1 DEF Told
    <2>4. ASSUME ~dead PROVE r.stream # 0 => ops'[r.stream].at \in Streaming
      <3>1. ASSUME r.stream # 0 PROVE ops'[r.stream].at \in Streaming
        <4>1. (IF r.stream = o THEN t.at ELSE ops[r.stream].at) \in Streaming
          BY <2>1, <2>4, <3>1 DEF Told
        <4>2. r.stream \in Ops
          <5>1. r.stream \in 0 .. Len(ops)  BY <2>1 DEF Told
          <5> QED BY <1>0, <3>1, <5>1
        <4> QED BY <1>1, <1>5, <4>1, <4>2
      <3> QED BY <3>1
    <2>5. ASSUME ~dead, NEW p \in Ops PROVE UsesRight(p, ops'[p], r, kind)
      <3>1. CASE p = o
        <4>1. UsesRight(o, t, r, kind)  BY <2>1, <2>5 DEF Told
        <4>2. UsesRight(o, u, r, kind)
          <5>1. CASE t.at # "over"  BY <1>1, <4>1, <5>1
          <5>2. CASE t.at = "over"
            <6>1. u.at = "over"  BY <1>1, <5>2
            <6> QED BY <6>1 DEF UsesRight
          <5> QED BY <5>1, <5>2
        <4> QED BY <1>5, <3>1, <4>2
      <3>2. CASE p # o
        <4>1. UsesRight(p, ops[p], r, kind)  BY <2>1, <2>5, <3>2 DEF Told
        <4> QED BY <1>5, <3>2, <4>1
      <3> QED BY <3>1, <3>2
    <2> QED BY <1>5, <2>2, <2>3, <2>4, <2>5 DEF RecognizerFits, r
  <1>9. RecognitionInv'  BY <1>4, <1>5, <1>6, <1>7, <1>8 DEF RecognitionInv
  <1>a. ASSUME NEW p \in Ops, ops[p].pump # "returned" PROVE Tidy(ops'[p])
    <2>1. CASE p = o
      <3>1. CASE t.at = "live"  BY <1>1, <1>5, <1>a, <2>1, <3>1
      <3>2. CASE t.at # "live"
        <4>1. u.pump = "idle"  BY <1>1, <3>2 DEF OpFit, Fits, Placed
        <4> QED BY <1>5, <2>1, <4>1 DEF Tidy
      <3> QED BY <3>1, <3>2
    <2>2. CASE p # o
      <3>1. ops'[p] = ops[p]  BY <1>5, <2>2
      <3> QED BY <1>a, <3>1 DEF Tidy
    <2> QED BY <2>1, <2>2
  <1> QED BY <1>5, <1>9, <1>a DEF Onward

\* While one operation is at work, the others wait for their turn or are over.
LEMMA OnlyOne ==
  ASSUME RecognitionInv, NEW o \in Ops, ops[o].at \notin {"queued", "over"}
  PROVE  /\ \A p \in Ops \ {o} : ops[p].at \in {"queued", "over"}
         /\ ~dead => recognizer.stream \in {0, o}
  <1>0. ops \in Seq(OpRecord) /\ Len(ops) \in Nat /\ Ops = 1 .. Len(ops)
    BY LenProperties DEF RecognitionInv, Ops
  <1>1. ASSUME NEW p \in Ops \ {o} PROVE ops[p].at \in {"queued", "over"}
    <2>1. p < o \/ o < p  BY <1>0
    <2>2. CASE p < o  BY <2>2 DEF RecognitionInv, InTurn
    <2>3. CASE o < p  BY <2>3 DEF RecognitionInv, InTurn
    <2> QED BY <2>1, <2>2, <2>3
  <1>2. ASSUME ~dead, recognizer.stream # 0 PROVE recognizer.stream = o
    <2>1. ops[recognizer.stream].at \in Streaming  BY <1>2 DEF RecognitionInv, RecognizerFits
    <2>2. recognizer.stream \in 0 .. Len(ops)  BY DEF RecognitionInv, RecognizerFits
    <2>3. recognizer.stream \in Ops  BY <1>0, <1>2, <2>2
    <2> QED BY <1>1, <2>1, <2>3 DEF Streaming
  <1> QED BY <1>1, <1>2

\* An operation that stays where it is asks nothing more of the recognizer.
LEMMA BecomesStill ==
  ASSUME RecognitionInv, NEW o \in Ops, NEW t, OpFit(t, kind), Become(o, t),
         UNCHANGED <<kind, unload, dead, recognizer>>, t.at = ops[o].at,
         t.at = "live" => Follows(ops[o], t)
  PROVE  Onward
  <1>1. Proceeds(o, t)  BY DEF Proceeds
  <1>2. Told(o, t, recognizer)
    <2>1. recognizer \in [options : 0 .. Len(ops), stream : 0 .. Len(ops), finished : BOOLEAN]
      BY DEF RecognitionInv, RecognizerFits
    <2>2. kind = "offline" => recognizer.stream = 0  BY DEF RecognitionInv, RecognizerFits
    <2>3. ASSUME ~dead PROVE recognizer.stream # 0 =>
            (IF recognizer.stream = o THEN t.at ELSE ops[recognizer.stream].at) \in Streaming
      BY <2>3 DEF RecognitionInv, RecognizerFits
    <2>4. ASSUME ~dead PROVE UsesRight(o, t, recognizer, kind)
      <3>1. UsesRight(o, ops[o], recognizer, kind)  BY <2>4 DEF RecognitionInv, RecognizerFits
      <3> QED BY <3>1 DEF UsesRight, Follows
    <2>5. ASSUME ~dead, NEW p \in Ops \ {o} PROVE UsesRight(p, ops[p], recognizer, kind)
      BY <2>5 DEF RecognitionInv, RecognizerFits
    <2> QED BY <2>1, <2>2, <2>3, <2>4, <2>5 DEF Told
  <1> QED BY <1>1, <1>2, Becomes DEF Follows

\* The work of an operation goes on, and the recognizer was told so.
LEMMA BecomesNext ==
  ASSUME RecognitionInv, NEW o \in Ops, ops[o].at \notin {"queued", "over"}, NEW t, OpFit(t, kind),
         t.at # "queued", Become(o, t), UNCHANGED <<kind, unload, dead>>,
         recognizer' \in [options : 0 .. Len(ops), stream : 0 .. Len(ops), finished : BOOLEAN],
         kind = "offline" => recognizer'.stream = 0,
         ~dead => recognizer'.stream \in {0, o},
         ~dead /\ recognizer'.stream # 0 => t.at \in Streaming,
         ~dead => UsesRight(o, t, recognizer', kind), t.at = "live" => Tidy(t)
  PROVE  Onward
  <1>1. Proceeds(o, t)  BY DEF Proceeds
  <1>2. \A p \in Ops \ {o} : UsesRight(p, ops[p], recognizer', kind)  BY OnlyOne DEF UsesRight
  <1>3. Told(o, t, recognizer')  BY <1>2 DEF Told
  <1> QED BY <1>1, <1>3, Becomes

----------------------------------------------------------------------------
(* The steps of the owner. *)

LEMMA Known ==
  ASSUME RecognitionInv, NEW o \in Ops
  PROVE  /\ kind \in Kinds /\ OpFit(ops[o], kind) /\ Fits(ops[o], kind)
         /\ ops[o] \in OpRecord /\ Placed(ops[o], kind) /\ NoLeak(ops[o].mic)
         /\ ~dead => UsesRight(o, ops[o], recognizer, kind)
         /\ recognizer \in [options : 0 .. Len(ops), stream : 0 .. Len(ops), finished : BOOLEAN]
         /\ kind = "offline" => recognizer.stream = 0
  <1>1. kind \in Kinds /\ OpFit(ops[o], kind)  BY DEF RecognitionInv, Kinds
  <1>2. Fits(ops[o], kind)  BY <1>1 DEF OpFit
  <1>3. ops[o] \in OpRecord /\ Placed(ops[o], kind) /\ NoLeak(ops[o].mic)
    BY <1>2 DEF Fits, Base, MicFits
  <1> QED BY <1>1, <1>2, <1>3 DEF RecognitionInv, RecognizerFits

LEMMA WorkStartsKeeps ==
  ASSUME RecognitionInv, NEW o \in Ops, WorkStarts(o)
  PROVE  Onward
  <1> DEFINE s == ops[o]
             t == IF s.kind = "file" THEN [s EXCEPT !.at = IF s.terminal THEN "over" ELSE "normalize"]
                  ELSE IF Available THEN [s EXCEPT !.at = "configure"] ELSE Unborn(s)
  <1>1. /\ kind \in Kinds /\ OpFit(s, kind) /\ s.kind \in {"file", "session"}
        /\ recognizer \in [options : 0 .. Len(ops), stream : 0 .. Len(ops), finished : BOOLEAN]
        /\ kind = "offline" => recognizer.stream = 0
    BY Known DEF OpRecord
  <1>2. s.at = "queued" /\ Turn(o) /\ Become(o, t) /\ UNCHANGED <<kind, unload, dead, recognizer>>
    BY DEF WorkStarts
  <1> HIDE DEF t, s
  <1>3. OpFit(t, kind) /\ t.at \in {"over", "normalize", "configure", "close"}
    <2>1. CASE s.kind = "file"
      <3> DEFINE a == IF s.terminal THEN "over" ELSE "normalize"
      <3>1. t = [s EXCEPT !.at = a]  BY <2>1 DEF t
      <3>2. FileBody(s) /\ FileFits(s)  BY <1>1, <2>1, FitBody DEF OpFit, Fits
      <3>3. s.chunk = <<>>  BY <1>2, <3>2 DEF FileFits
      <3>4. a \in Stages /\ a \in {"over", "normalize"} /\ (a = "over" => s.terminal)  BY DEF Stages
      <3> HIDE DEF a
      <3>5. MovedTo(s, t, a)  BY <3>1, <3>2, <3>4, FileGoes
      <3>6. FileBody(t) /\ t.at = a /\ t.terminal = s.terminal /\ t.chunk = <<>>
        BY ONLY <3>3, <3>5 DEF MovedTo
      <3>7. t.at \in {"over", "normalize"} /\ (t.at = "over" => t.terminal)  BY ONLY <3>4, <3>6
      <3>8. OpFit(t, kind)  BY <1>1, <3>6, <3>7, BodyFits
      <3> QED BY <3>7, <3>8
    <2>2. CASE s.kind = "session"
      <3>1. Waits(s)  BY <1>2 DEF Waits
      <3>2. CASE Available
        <4>1. t = [s EXCEPT !.at = "configure"]  BY <2>2, <3>2 DEF t
        <4> QED BY <1>1, <2>2, <3>1, <4>1, SessionMoves
      <3>3. CASE ~Available
        <4>1. t = Unborn(s)  BY <2>2, <3>3 DEF t
        <4> QED BY <1>1, <2>2, <3>1, <4>1, UnbornFits
      <3> QED BY <3>2, <3>3
    <2> QED BY <1>1, <2>1, <2>2
  <1>4. \A p \in Ops : ops[p].at \in {"queued", "over"}
    <2>1. ASSUME NEW p \in Ops PROVE ops[p].at \in {"queued", "over"}
      <3>1. o \in Int /\ p \in Int  BY LenProperties DEF RecognitionInv, Ops
      <3>2. CASE p < o  BY <1>2, <3>2 DEF Turn
      <3>3. CASE o < p
        <4>1. ops[p].at # "queued" => s.at = "over"  BY <3>3 DEF RecognitionInv, InTurn, s
        <4> QED BY <1>2, <4>1
      <3> QED BY <1>2, <3>1, <3>2, <3>3 DEF s
    <2> QED BY <2>1
  <1>5. ~dead => recognizer.stream = 0
    <2>1. ASSUME ~dead, recognizer.stream # 0 PROVE FALSE
      <3>1. ops[recognizer.stream].at \in Streaming  BY <2>1 DEF RecognitionInv, RecognizerFits
      <3>2. recognizer.stream \in Ops  BY <1>1, <2>1, LenProperties DEF RecognitionInv, Ops
      <3> QED BY <1>4, <3>1, <3>2 DEF Streaming
    <2> QED BY <2>1
  <1>6. Proceeds(o, t)  BY <1>2, <1>3 DEF Proceeds, s
  <1>7. Told(o, t, recognizer')
    <2>1. ASSUME ~dead PROVE UsesRight(o, t, recognizer, kind)  BY <1>3, <1>5, <2>1 DEF UsesRight
    <2>2. \A p \in Ops \ {o} : UsesRight(p, ops[p], recognizer, kind)  BY <1>4 DEF UsesRight
    <2>3. Told(o, t, recognizer)  BY <1>1, <1>5, <2>1, <2>2 DEF Told
    <2> QED BY <1>2, <2>3
  <1>8. t.at # "live"  BY <1>3
  <1> QED BY <1>2, <1>3, <1>6, <1>7, <1>8, Becomes

LEMMA SessionReleasedKeeps ==
  ASSUME RecognitionInv, NEW o \in Ops, SessionReleased(o)
  PROVE  Onward
  <1> DEFINE s == ops[o]  t == SessionEnds(s)
  <1>1. /\ s.kind = "session" /\ s.at = "live" /\ s.terminal /\ s.pump = "idle" /\ Become(o, t)
        /\ UNCHANGED <<kind, unload, dead, recognizer>>
    BY DEF SessionReleased, Released
  <1>2. kind \in Kinds /\ OpFit(s, kind)  BY Known
  <1>3. OpFit(t, kind) /\ t.at = IF kind = "online" THEN "close" ELSE "over"
    BY <1>1, <1>2, SessionEndsFits
  <1>4. ~dead => recognizer.stream \in {0, o}  BY <1>1, OnlyOne
  <1>5. UsesRight(o, t, recognizer, kind)  BY <1>3 DEF UsesRight
  <1>6. /\ recognizer' \in [options : 0 .. Len(ops), stream : 0 .. Len(ops), finished : BOOLEAN]
        /\ kind = "offline" => recognizer'.stream = 0
    BY <1>1, Known
  <1> HIDE DEF t
  <1>7. recognizer'.stream # 0 => t.at \in Streaming  BY <1>2, <1>3, <1>6 DEF Streaming, Kinds
  <1>8. t.at # "live"  BY <1>3
  <1> QED BY <1>1, <1>2, <1>3, <1>4, <1>5, <1>6, <1>7, <1>8, BecomesNext

LEMMA PumpReturnedKeeps ==
  ASSUME RecognitionInv, NEW o \in Ops, PumpReturned(o)
  PROVE  Onward
  <1> DEFINE s == ops[o]  t == PumpGoesOn(s)
  <1>1. s.pump = "returned" /\ Become(o, t) /\ UNCHANGED <<kind, unload, dead, recognizer>>
    BY DEF PumpReturned
  <1>2. kind \in Kinds /\ OpFit(s, kind) /\ s.at = "live" /\ s.kind = "session"
    BY <1>1, Known DEF Placed
  <1>3. /\ OpFit(t, kind) /\ t.at = "live" /\ t.pump = "settle"
        /\ s.terminal \/ (s.ending /\ s.queue = <<>>) => t.terminal
    BY <1>1, <1>2, PumpGoesOnFits
  <1> HIDE DEF t
  <1>4. Follows(s, t)  BY <1>1, <1>3 DEF Follows, Through
  <1> QED BY <1>1, <1>2, <1>3, <1>4, BecomesStill

LEMMA PumpSettledKeeps ==
  ASSUME RecognitionInv, NEW o \in Ops, PumpSettled(o)
  PROVE  Onward
  <1> DEFINE s == ops[o]  t == PumpSettles(s)
  <1>1. s.pump = "settle" /\ Become(o, t) /\ UNCHANGED <<kind, unload, dead, recognizer>>
    BY DEF PumpSettled
  <1>2. kind \in Kinds /\ OpFit(s, kind) /\ s.at = "live"  BY <1>1, Known DEF Placed
  <1>3. OpFit(t, kind) /\ t.at = "live" /\ (s.terminal => t.terminal /\ t.pump = "idle") /\ Tidy(t)
    BY <1>1, <1>2, PumpSettlesFits
  <1> HIDE DEF t
  <1>4. Follows(s, t)  BY <1>1, <1>3 DEF Follows, Through
  <1> QED BY <1>1, <1>2, <1>3, <1>4, BecomesStill

\* An operation that is settled where it stands.
LEMMA Settles ==
  ASSUME RecognitionInv, NEW o \in Ops, NEW s, Fits(s, kind), s.at = ops[o].at, s.terminal = ops[o].terminal,
         s.pump = ops[o].pump, s.kind = "session" => ~Waits(s) \/ s.terminal,
         NEW how \in {"cancelled", "failed"}, Become(o, Settle(s, how)),
         UNCHANGED <<kind, unload, dead, recognizer>>
  PROVE  Onward
  <1> DEFINE t == Settle(s, how)
  <1>1. kind \in Kinds /\ how \in Results /\ how \notin {"none", "complete"}  BY Known DEF Results
  <1>2. OpFit(t, kind)  BY <1>1, SettleKeeps
  <1>3. t.at = s.at /\ t.terminal /\ t.pump = s.pump  BY <1>1, SettleStays
  <1> HIDE DEF t
  <1>4. Become(o, t)  BY DEF t
  <1>5. Follows(ops[o], t)  BY <1>3 DEF Follows, Through, Tidy
  <1> QED BY <1>2, <1>3, <1>4, <1>5, BecomesStill

LEMMA MonitorTicksKeeps ==
  ASSUME RecognitionInv, NEW o \in Ops, MonitorTicks(o)
  PROVE  Onward
  <1> DEFINE s == ops[o]  t == CheckBacklog(s)
  <1>1. /\ s.kind = "session" /\ s.at = "live" /\ ~s.terminal /\ Become(o, t)
        /\ UNCHANGED <<kind, unload, dead, recognizer>>
    BY DEF MonitorTicks, Live
  <1>2. kind \in Kinds /\ Fits(s, kind)  BY Known
  <1>3. CASE t = s
    <2>1. OpFit(s, kind) /\ Become(o, s)  BY <1>1, <1>3, Known
    <2>2. Follows(s, s)  BY DEF Follows, Tidy
    <2> QED BY <1>1, <2>1, <2>2, BecomesStill
  <1>4. CASE t = Settle(s, "failed")
    <2>1. Become(o, Settle(s, "failed")) /\ ~Waits(s)  BY <1>1, <1>4 DEF Waits
    <2> QED BY <1>1, <1>2, <2>1, Settles
  <1> QED BY <1>3, <1>4 DEF CheckBacklog

LEMMA UnloadStartsKeeps ==
  ASSUME RecognitionInv, UnloadStarts
  PROVE  Onward
  <1>1. Turn(Len(ops) + 1) /\ unload' = "asked" /\ UNCHANGED <<kind, ops, dead, recognizer>>
    BY DEF UnloadStarts
  <1>2. Ops' = Ops /\ \A o \in Ops : o < Len(ops) + 1  BY <1>1, LenProperties DEF RecognitionInv, Ops
  <1>3. \A o \in Ops : ops[o].at = "over"  BY <1>1, <1>2 DEF Turn
  <1>4. InTurn'  BY <1>1, <1>2, <1>3 DEF InTurn
  <1>5. RecognizerFits'
    <2>1. RecognizerFits  BY DEF RecognitionInv
    <2> QED BY <1>1, <1>2, <2>1 DEF RecognizerFits
  <1>6. \A o \in Ops : OpFit(ops[o], kind)  BY DEF RecognitionInv
  <1>7. RecognitionInv'  BY <1>1, <1>2, <1>4, <1>5, <1>6 DEF RecognitionInv
  <1> QED BY <1>1, <1>2, <1>7 DEF Onward, Tidy

\* Whatever becomes of the microphone stays silent once the session ends.
LEMMA MicrophoneStartsKeeps ==
  ASSUME RecognitionInv, NEW o \in Ops, MicrophoneStarts(o)
  PROVE  Onward
  <1> DEFINE s == ops[o]
             c == IF Started(s.mic) /\ ~s.terminal /\ ~s.ending THEN "held" ELSE "none"
             m == IF Started(s.mic) /\ (s.terminal \/ s.ending) THEN Stop(s.mic) ELSE s.mic
             t == [s EXCEPT !.capture = c, !.mic = m]
             u == IF s.mic.promise = "rejected" /\ ~s.ending THEN Settle(t, "failed") ELSE t
  <1>1. s.capture = "starting" /\ Become(o, u) /\ UNCHANGED <<kind, unload, dead, recognizer>>
    BY DEF MicrophoneStarts
  <1>2. kind \in Kinds /\ OpFit(s, kind) /\ Fits(s, kind) /\ s \in OpRecord /\ MicFits(s)
    BY Known DEF Fits, Base
  <1>3. s.kind # "file" /\ ~Waits(s)  BY <1>1, <1>2 DEF Fits, FileFits, Placed, OpRecord
  <1>4. /\ m \in CaptureRecord /\ NoLeak(m) /\ c \in {"none", "starting", "held"}
        /\ s.terminal \/ s.ending => c # "held" /\ Silent(m)
    <2>1. s.mic \in CaptureRecord /\ NoLeak(s.mic) /\ (s.terminal \/ s.ending => Silent(s.mic))
      BY <1>2 DEF OpRecord, MicFits, Silent
    <2>2. Stop(s.mic) \in CaptureRecord /\ NoLeak(Stop(s.mic)) /\ Silent(Stop(s.mic))
      BY <2>1, StopFits DEF Silent
    <2> QED BY <2>1, <2>2
  <1> HIDE DEF c, m
  <1>5. CapturedFrom(s, t) /\ MicFits(t)
    <2>1. CapturedFrom(s, t) /\ t.capture = c /\ t.mic = m  BY <1>2, <1>4 DEF CapturedFrom, OpRecord
    <2> QED BY <1>4, <2>1 DEF CapturedFrom, MicFits, Silent
  <1> HIDE DEF t
  <1>6. /\ Fits(t, kind) /\ (Limited(s) => Limited(t)) /\ t.at = s.at /\ t.kind = s.kind
        /\ t.terminal = s.terminal /\ t.pump = s.pump /\ t.ending = s.ending /\ t.queue = s.queue
    BY <1>2, <1>3, <1>5, CaptureFits
  <1>7. CASE u = t
    <2>1. OpFit(t, kind)  BY <1>2, <1>6 DEF OpFit
    <2>2. Become(o, t)  BY <1>1, <1>7
    <2>3. Follows(s, t)  BY <1>6 DEF Follows, Through, Tidy
    <2> HIDE DEF u
    <2> QED BY <1>1, <1>6, <2>1, <2>2, <2>3, BecomesStill
  <1>8. CASE u = Settle(t, "failed")
    <2>1. Become(o, Settle(t, "failed")) /\ ~Waits(t)  BY <1>1, <1>3, <1>6, <1>8 DEF Waits
    <2> HIDE DEF u
    <2> QED BY <1>1, <1>6, <2>1, Settles
  <1> QED BY <1>7, <1>8

----------------------------------------------------------------------------
(* The steps of the recognizer and its worker. *)

\* What the recognizer keeps of the commands.
Recalls(o, c, r) ==
  /\ r \in [options : 0 .. Len(ops), stream : 0 .. Len(ops), finished : BOOLEAN]
  /\ r.options = IF c = "configure" THEN o ELSE recognizer.options
  /\ r.stream = CASE c = "open" -> o [] c = "close" -> 0 [] OTHER -> recognizer.stream
  /\ r.finished = CASE c = "open" -> FALSE [] c = "push" -> LastPush(ops[o]) [] OTHER -> recognizer.finished
LEMMA RecognizerKeeps ==
  ASSUME RecognitionInv, NEW o \in Ops, NEW c, Carried(o, c)
  PROVE  Recalls(o, c, recognizer')
  <1> DEFINE l == LastPush(ops[o])  n == Len(ops)
  <1>1. ops[o] \in OpRecord /\ recognizer \in [options : 0 .. n, stream : 0 .. n, finished : BOOLEAN]
    BY Known
  <1>2. l \in BOOLEAN  BY <1>1 DEF LastPush, OpRecord
  <1>3. o \in 0 .. n /\ 0 \in 0 .. n  BY LenProperties DEF RecognitionInv, Ops
  <1>4. recognizer' =
          CASE c = "configure" -> [recognizer EXCEPT !.options = o]
            [] c = "open" -> [recognizer EXCEPT !.stream = o, !.finished = FALSE]
            [] c = "push" -> [recognizer EXCEPT !.finished = l]
            [] c = "close" -> [recognizer EXCEPT !.stream = 0]
            [] OTHER -> recognizer
    BY DEF Carried
  <1> HIDE DEF l, n
  <1> DEFINE q == recognizer'
  <1>5. q = recognizer'  OBVIOUS
  <1> HIDE DEF q
  <1>6. /\ q \in [options : 0 .. n, stream : 0 .. n, finished : BOOLEAN]
        /\ q.options = IF c = "configure" THEN o ELSE recognizer.options
        /\ q.stream = CASE c = "open" -> o [] c = "close" -> 0 [] OTHER -> recognizer.stream
        /\ q.finished = CASE c = "open" -> FALSE [] c = "push" -> l [] OTHER -> recognizer.finished
    <2>1. CASE c = "configure"
      <3>1. q = [recognizer EXCEPT !.options = o]  BY <1>4, <1>5, <2>1
      <3> QED BY <1>1, <1>3, <2>1, <3>1
    <2>2. CASE c = "open"
      <3>1. q = [recognizer EXCEPT !.stream = o, !.finished = FALSE]  BY <1>4, <1>5, <2>2
      <3> QED BY <1>1, <1>3, <2>2, <3>1
    <2>3. CASE c = "push"
      <3>1. q = [recognizer EXCEPT !.finished = l]  BY <1>4, <1>5, <2>3
      <3> QED BY <1>1, <1>2, <2>3, <3>1
    <2>4. CASE c = "close"
      <3>1. q = [recognizer EXCEPT !.stream = 0]  BY <1>4, <1>5, <2>4
      <3> QED BY <1>1, <1>3, <2>4, <3>1
    <2>5. CASE c \notin {"configure", "open", "push", "close"}
      <3>1. q = recognizer  BY <1>4, <1>5, <2>5
      <3> QED BY <1>1, <2>5, <3>1
    <2> QED BY <2>1, <2>2, <2>3, <2>4, <2>5
  <1> QED BY <1>5, <1>6 DEF l, n, Recalls

LEMMA TextsAre ==
  ASSUME NEW s \in OpRecord
  PROVE  Texts(s) \subseteq Nat /\ Flags(s) \subseteq BOOLEAN
  <1>1. s.chunk # <<>> => s.chunk[Len(s.chunk)] \in Nat
    <2>1. s.chunk \in Seq(Nat)  BY DEF OpRecord
    <2>2. ASSUME s.chunk # <<>> PROVE Len(s.chunk) \in 1 .. Len(s.chunk)
      BY <2>1, <2>2, EmptyLen
    <2> QED BY <2>1, <2>2, ElementOfSeq
  <1> DEFINE e == s.chunk[Len(s.chunk)]
  <1>2. s.chunk # <<>> => e \in Nat  BY <1>1
  <1> HIDE DEF e
  <1>3. Texts(s) = {0} \cup (IF s.chunk = <<>> THEN {} ELSE {e})  BY DEF Texts, NoText, e
  <1>4. Texts(s) \subseteq Nat  BY <1>2, <1>3
  <1>5. Flags(s) \subseteq BOOLEAN  BY DEF Flags
  <1> QED BY <1>4, <1>5

\* An answer to the pump of a session.
LEMMA AnswersPump ==
  ASSUME RecognitionInv, NEW o \in Ops, ops[o].kind = "session", Pumping(ops[o]), ~dead,
         Carried(o, ops[o].pump), NEW text \in Texts(ops[o]), NEW flag \in Flags(ops[o]),
         Become(o, PumpResumes(ops[o], text, flag)), UNCHANGED <<kind, unload, dead>>
  PROVE  Onward
  <1> DEFINE s == ops[o]  t == PumpResumes(s, text, flag)
  <1>1. /\ kind \in Kinds /\ OpFit(s, kind) /\ s \in OpRecord /\ Placed(s, kind)
        /\ UsesRight(o, s, recognizer, kind) /\ (kind = "offline" => recognizer.stream = 0)
    BY Known
  <1>2. text \in Nat /\ flag \in BOOLEAN /\ Become(o, t)  BY <1>1, TextsAre
  <1>3. s.at = "live" /\ (kind = "offline" => s.pump \in {"reference", "decode"})
        /\ (kind = "online" => s.pump \in {"push", "reset"})
    BY <1>1 DEF Placed, Pumping
  <1>4. Goes(s, t, kind) /\ (s.pump = "push" /\ s.finished => Through(t))
    BY <1>1, <1>2, PumpResumesFits
  <1>5. /\ recognizer' \in [options : 0 .. Len(ops), stream : 0 .. Len(ops), finished : BOOLEAN]
        /\ recognizer'.options = recognizer.options /\ recognizer'.stream = recognizer.stream
        /\ recognizer'.finished = IF s.pump = "push" THEN s.finished ELSE recognizer.finished
    <2> DEFINE c == s.pump
    <2>1. c \notin {"configure", "open", "close"}  BY DEF Pumping
    <2>2. Carried(o, c)  OBVIOUS
    <2>3. LastPush(s) = s.finished  BY DEF LastPush
    <2> HIDE DEF c
    <2>4. Recalls(o, c, recognizer')  BY <2>2, RecognizerKeeps
    <2> QED BY <2>1, <2>3, <2>4 DEF c, Recalls
  <1> HIDE DEF t
  <1>6. OpFit(t, kind) /\ t.at = "live" /\ Tidy(t)  BY <1>4 DEF Goes
  <1>7. UsesRight(o, t, recognizer', kind)
    <2>1. recognizer'.options = o  BY <1>1, <1>3, <1>5 DEF UsesRight
    <2>2. ASSUME kind = "online"
          PROVE  recognizer'.stream = o
                 /\ (~Through(t) => ~recognizer'.finished)
      <3>1. recognizer.stream = o /\ ~recognizer.finished  BY <1>1, <1>3, <2>2 DEF UsesRight, Through
      <3>2. ASSUME ~Through(t) PROVE ~recognizer'.finished
        <4>1. ~(s.pump = "push" /\ s.finished)  BY <1>4, <3>2
        <4> QED BY <1>5, <3>1, <4>1
      <3> QED BY <1>5, <3>1, <3>2
    <2> QED BY <1>6, <2>1, <2>2 DEF UsesRight
  <1>8. recognizer'.stream \in {0, o} /\ (kind = "offline" => recognizer'.stream = 0)
    BY <1>1, <1>3, <1>5, OnlyOne
  <1>9. t.at # "queued" /\ t.at \in Streaming  BY <1>6 DEF Streaming
  <1> QED BY <1>2, <1>3, <1>5, <1>6, <1>7, <1>8, <1>9, BecomesNext

\* An answer to a session that is created, or whose stream is closed.
LEMMA AnswersSession ==
  ASSUME RecognitionInv, NEW o \in Ops, ops[o].kind = "session", ~Pumping(ops[o]), ~dead,
         ops[o].at \in {"configure", "open", "close"}, Carried(o, ops[o].at),
         Become(o, IF ops[o].at = "close" THEN [ops[o] EXCEPT !.at = "over"] ELSE SessionResumes(ops[o])),
         UNCHANGED <<kind, unload, dead>>
  PROVE  Onward
  <1> DEFINE s == ops[o]  t == IF s.at = "close" THEN [s EXCEPT !.at = "over"] ELSE SessionResumes(s)
             a == s.at
  <1>1. /\ kind \in Kinds /\ OpFit(s, kind) /\ Placed(s, kind)
        /\ UsesRight(o, s, recognizer, kind) /\ (kind = "offline" => recognizer.stream = 0)
    BY Known
  <1>2. Become(o, t) /\ Carried(o, a)  OBVIOUS
  <1>3. recognizer.stream \in {0, o}  BY OnlyOne
  <1>4. /\ recognizer' \in [options : 0 .. Len(ops), stream : 0 .. Len(ops), finished : BOOLEAN]
        /\ recognizer'.options = IF a = "configure" THEN o ELSE recognizer.options
        /\ recognizer'.stream = CASE a = "open" -> o [] a = "close" -> 0 [] OTHER -> recognizer.stream
        /\ recognizer'.finished = CASE a = "open" -> FALSE [] a = "push" -> LastPush(s)
                                    [] OTHER -> recognizer.finished
    <2> HIDE DEF a
    <2>1. Recalls(o, a, recognizer')  BY <1>2, RecognizerKeeps
    <2> QED BY <2>1 DEF Recalls
  <1>5. CASE a = "close"
    <2>1. s.terminal /\ s.pump = "idle"  BY <1>1, <1>5 DEF Placed
    <2>2. OpFit([s EXCEPT !.at = "over"], kind) /\ [s EXCEPT !.at = "over"].at = "over"
      BY <1>1, <2>1, SessionLeavesFits
    <2>3. OpFit(t, kind) /\ t.at = "over"  BY <1>5, <2>2
    <2>4. recognizer'.stream = 0  BY <1>4, <1>5
    <2> HIDE DEF t
    <2>5. UsesRight(o, t, recognizer', kind)  BY <2>3 DEF UsesRight
    <2> QED BY <1>2, <1>4, <1>5, <2>3, <2>4, <2>5, BecomesNext
  <1>6. CASE a # "close"
    <2>1. t = SessionResumes(s)  BY <1>6
    <2>2. /\ OpFit(t, kind)
          /\ t.at = IF ~Available THEN IF kind = "online" THEN "close" ELSE "over"
                    ELSE IF s.at = "configure" /\ kind = "online" THEN "open" ELSE "live"
      <3>1. s.at \in {"configure", "open"}  BY <1>6
      <3> QED BY <1>1, <2>1, <3>1, SessionResumesFits
    <2> HIDE DEF t
    <2>t. t.at = "live" => Tidy(t)
      <3>1. s.at \in {"configure", "open"}  BY <1>6
      <3>2. t.at = "live" => t.pump = "idle"  BY <1>1, <2>1, <3>1, SessionResumesFits
      <3> QED BY <3>2 DEF Tidy
    <2>3. kind = "online" \/ kind = "offline"  BY <1>1 DEF Kinds
    <2>4. CASE a = "configure"
      <3>1. recognizer.stream = 0  BY <1>1, <2>4 DEF UsesRight
      <3>2. recognizer'.stream = 0 /\ recognizer'.options = o  BY <1>4, <2>4, <3>1
      <3>3. t.at \in {"close", "over", "open", "live"} /\ (kind = "online" => t.at # "live")
        BY <2>2, <2>4
      <3>4. UsesRight(o, t, recognizer', kind)  BY <3>2, <3>3 DEF UsesRight
      <3> QED BY <1>2, <1>4, <2>2, <2>t, <2>4, <3>2, <3>3, <3>4, BecomesNext
    <2>5. CASE a = "open"
      <3>1. kind = "online"  BY <1>1, <2>3, <2>5 DEF Placed
      <3>2. recognizer.options = o  BY <1>1, <2>5 DEF UsesRight
      <3>3. recognizer'.stream = o /\ recognizer'.options = o /\ recognizer'.finished = FALSE
        BY <1>4, <2>5, <3>2
      <3>4. t.at \in {"close", "live"}  BY <2>2, <2>5, <3>1
      <3>5. UsesRight(o, t, recognizer', kind)  BY <3>3, <3>4 DEF UsesRight
      <3> QED BY <1>2, <1>4, <2>2, <2>t, <2>5, <3>1, <3>3, <3>4, <3>5, BecomesNext DEF Streaming
    <2> QED BY <1>6, <2>4, <2>5
  <1> QED BY <1>5, <1>6

\* An answer to a recording.
LEMMA AnswersFile ==
  ASSUME RecognitionInv, NEW o \in Ops, ops[o].kind = "file", ~dead,
         ops[o].at \in {"configure", "open", "push", "reset", "decode", "close"}, Carried(o, ops[o].at),
         NEW flag \in BOOLEAN, NEW t \in FileResumes(ops[o], flag), Become(o, t),
         UNCHANGED <<kind, unload, dead>>
  PROVE  Onward
  <1> DEFINE s == ops[o]  a == s.at
  <1>1. /\ kind \in Kinds /\ OpFit(s, kind) /\ Placed(s, kind)
        /\ UsesRight(o, s, recognizer, kind) /\ (kind = "offline" => recognizer.stream = 0)
    BY Known
  <1>2. OpFit(t, kind) /\ FileNext(s, t)  BY <1>1, FileResumesFits
  <1>3. recognizer.stream \in {0, o}  BY OnlyOne
  <1>4. /\ recognizer' \in [options : 0 .. Len(ops), stream : 0 .. Len(ops), finished : BOOLEAN]
        /\ recognizer'.options = IF a = "configure" THEN o ELSE recognizer.options
        /\ recognizer'.stream = CASE a = "open" -> o [] a = "close" -> 0 [] OTHER -> recognizer.stream
        /\ recognizer'.finished = CASE a = "open" -> FALSE [] a = "push" -> s.length = 0
                                    [] OTHER -> recognizer.finished
    <2>1. LastPush(s) = (s.length = 0)  BY DEF LastPush
    <2>2. Carried(o, a)  OBVIOUS
    <2> HIDE DEF a
    <2>3. Recalls(o, a, recognizer')  BY <2>2, RecognizerKeeps
    <2> QED BY <2>1, <2>3 DEF Recalls
  <1>5. a \in {"open", "push", "reset", "close"} => kind = "online"  BY <1>1 DEF Placed, Kinds
  <1>6. a = "decode" => kind = "offline"  BY <1>1 DEF Placed, Kinds
  <1>7. /\ t.at # "queued" /\ t.at # "live" /\ UsesRight(o, t, recognizer', kind)
        /\ kind = "offline" => recognizer'.stream = 0
        /\ recognizer'.stream \in {0, o}
        /\ recognizer'.stream # 0 => t.at \in Streaming
    <2>1. CASE a = "configure"
      <3>1. recognizer'.stream = 0 /\ recognizer'.options = o  BY <1>1, <1>4, <2>1 DEF UsesRight
      <3>2. t.at \in {"open", "decode", "over"}  BY <1>2, <2>1 DEF FileNext
      <3> QED BY <3>1, <3>2 DEF UsesRight
    <2>2. CASE a = "open"
      <3>1. recognizer'.stream = o /\ recognizer'.options = o /\ ~recognizer'.finished
        BY <1>1, <1>4, <2>2 DEF UsesRight
      <3>2. t.at \in {"push", "close"}  BY <1>2, <2>2 DEF FileNext
      <3> QED BY <1>1, <1>5, <2>2, <3>1, <3>2 DEF UsesRight, Streaming
    <2>3. CASE a = "reset"
      <3>1. recognizer'.stream = o /\ recognizer'.options = o /\ ~recognizer'.finished
        BY <1>1, <1>4, <2>3 DEF UsesRight
      <3>2. t.at \in {"push", "close"}  BY <1>2, <2>3 DEF FileNext
      <3> QED BY <1>1, <1>5, <2>3, <3>1, <3>2 DEF UsesRight, Streaming
    <2>4. CASE a = "push"
      <3>1. recognizer'.stream = o /\ recognizer'.options = o /\ recognizer'.finished = (s.length = 0)
        BY <1>1, <1>4, <2>4 DEF UsesRight
      <3>2. t.at \in {"push", "reset", "close"} /\ (t.at # "close" => s.length > 0)
        BY <1>2, <2>4 DEF FileNext
      <3>3. t.at # "close" => ~recognizer'.finished
        <4>1. s.length > 0 => s.length # 0  OBVIOUS
        <4> QED BY <3>1, <3>2, <4>1
      <3> QED BY <1>1, <1>5, <2>4, <3>1, <3>2, <3>3 DEF UsesRight, Streaming
    <2>5. CASE a = "decode"
      <3>1. recognizer'.stream = 0 /\ recognizer'.options = o  BY <1>1, <1>4, <1>6, <2>5 DEF UsesRight
      <3>2. t.at \in {"decode", "over"}  BY <1>2, <2>5 DEF FileNext
      <3> QED BY <3>1, <3>2 DEF UsesRight
    <2>6. CASE a = "close"
      <3>1. recognizer'.stream = 0  BY <1>4, <2>6
      <3>2. t.at = "over"  BY <1>2, <2>6 DEF FileNext
      <3> QED BY <3>1, <3>2 DEF UsesRight
    <2> QED BY <2>1, <2>2, <2>3, <2>4, <2>5, <2>6
  <1> QED BY <1>2, <1>4, <1>7, BecomesNext

LEMMA AnswersKeeps ==
  ASSUME RecognitionInv, NEW o \in Ops, Answers(o)
  PROVE  Onward
  <1>0. Placed(ops[o], kind) /\ ops[o].kind \in {"file", "session"}  BY Known DEF OpRecord
  <1>1. CASE ops[o].kind = "session" /\ Pumping(ops[o])
    <2>1. Command(o) = ops[o].pump  BY <1>1 DEF Command
    <2>2. ~dead /\ Carried(o, ops[o].pump) /\ UNCHANGED <<kind, unload, dead>>  BY <2>1 DEF Answers
    <2>3. PICK text \in Texts(ops[o]), flag \in Flags(ops[o]) : Become(o, PumpResumes(ops[o], text, flag))
      BY <1>1 DEF Answers
    <2> QED BY <1>1, <2>2, <2>3, AnswersPump
  <1>2. CASE ops[o].kind = "session" /\ ~Pumping(ops[o])
    <2>1. Command(o) = ops[o].at /\ ops[o].at \in {"configure", "open", "close"}
      BY <1>0, <1>2 DEF Command, Answers, Placed
    <2>2. ~dead /\ Carried(o, ops[o].at) /\ UNCHANGED <<kind, unload, dead>>  BY <2>1 DEF Answers
    <2>3. Become(o, IF ops[o].at = "close" THEN [ops[o] EXCEPT !.at = "over"] ELSE SessionResumes(ops[o]))
      BY <1>2 DEF Answers
    <2> QED BY <1>2, <2>1, <2>2, <2>3, AnswersSession
  <1>3. CASE ops[o].kind = "file"
    <2>1. Command(o) = ops[o].at /\ ops[o].at \in {"configure", "open", "push", "reset", "decode", "close"}
      BY <1>3 DEF Command, Answers
    <2>2. ~dead /\ Carried(o, ops[o].at) /\ UNCHANGED <<kind, unload, dead>>  BY <2>1 DEF Answers
    <2>3. PICK flag \in BOOLEAN : \E t \in FileResumes(ops[o], flag) : Become(o, t)  BY <1>3 DEF Answers
    <2>4. PICK t \in FileResumes(ops[o], flag) : Become(o, t)  BY <2>3
    <2> QED BY <1>3, <2>1, <2>2, <2>4, AnswersFile
  <1> QED BY <1>0, <1>1, <1>2, <1>3

\* A session whose pump is refused is failed, and its pump comes to its end.
LEMMA PumpFailsFits ==
  ASSUME NEW s, NEW k \in Kinds, OpFit(s, k), s.kind = "session", s.at = "live"
  PROVE  /\ OpFit([Settle(s, "failed") EXCEPT !.pump = "settle", !.chunk = <<>>], k)
         /\ [Settle(s, "failed") EXCEPT !.pump = "settle", !.chunk = <<>>].at = "live"
         /\ [Settle(s, "failed") EXCEPT !.pump = "settle", !.chunk = <<>>].terminal
         /\ [Settle(s, "failed") EXCEPT !.pump = "settle", !.chunk = <<>>].pump = "settle"
  <1> DEFINE u == Settle(s, "failed")  t == [u EXCEPT !.pump = "settle", !.chunk = <<>>]
  <1>1. "failed" \in Results /\ ~Waits(s) /\ Fits(s, k)  BY DEF Results, Waits, OpFit
  <1>2. OpFit(u, k)  BY <1>1, SettleKeeps
  <1>3. u.kind = "session" /\ u.at = "live" /\ u.terminal  BY <1>1, SettleStays
  <1> HIDE DEF u
  <1>4. Resting(u, k) /\ Limited(u)
    BY <1>2, <1>3 DEF OpFit, Fits, SessionFits, Resting
  <1>5. "settle" \in {"returned", "settle"}  OBVIOUS
  <1>6. OpFit(t, k)  BY <1>4, <1>5, StopsFit
  <1>7. t.at = "live" /\ t.terminal /\ t.pump = "settle"
    <2>1. u \in OpRecord  BY <1>4 DEF Resting, Base
    <2> QED BY <1>3, <2>1 DEF OpRecord
  <1> QED BY <1>6, <1>7 DEF u

\* A step that leaves the recognizer, and the work of o closed or over.
LEMMA LeavesKeeps ==
  ASSUME RecognitionInv, NEW o \in Ops, ops[o].at \notin {"queued", "over"}, NEW t, OpFit(t, kind),
         t.at \in {"close", "over"}, t.at = "over" => dead \/ recognizer.stream = 0,
         Become(o, t), UNCHANGED <<kind, unload, dead, recognizer>>
  PROVE  Onward
  <1>1. /\ recognizer' \in [options : 0 .. Len(ops), stream : 0 .. Len(ops), finished : BOOLEAN]
        /\ kind = "offline" => recognizer'.stream = 0
    BY Known
  <1>2. ~dead => recognizer'.stream \in {0, o}  BY OnlyOne
  <1>3. ~dead /\ recognizer'.stream # 0 => t.at \in Streaming  BY DEF Streaming
  <1>4. UsesRight(o, t, recognizer', kind)  BY DEF UsesRight
  <1>5. t.at # "queued" /\ t.at # "live"  OBVIOUS
  <1> QED BY <1>1, <1>2, <1>3, <1>4, <1>5, BecomesNext

LEMMA RefusesKeeps ==
  ASSUME RecognitionInv, NEW o \in Ops, Refuses(o)
  PROVE  Onward
  <1> DEFINE s == ops[o]
  <1>1. /\ kind \in Kinds /\ OpFit(s, kind) /\ Placed(s, kind) /\ s.kind \in {"file", "session"}
        /\ ~dead => UsesRight(o, s, recognizer, kind)
        /\ kind = "offline" => recognizer.stream = 0
    BY Known DEF OpRecord
  <1>2. /\ Command(o) # "none" /\ (Command(o) # "close" \/ dead)
        /\ UNCHANGED <<kind, unload, dead, recognizer>>
    BY DEF Refuses
  <1>3. CASE s.kind = "file"
    <2> DEFINE t == FileThrows(s)
    <2>1. Become(o, t)  BY <1>3 DEF Refuses
    <2>2. s.at \in {"configure", "open", "push", "reset", "decode", "close"} /\ (s.at = "close" => dead)
      BY <1>2, <1>3 DEF Command
    <2>3. OpFit(t, kind) /\ t.at = IF s.at \in {"push", "reset"} THEN "close" ELSE "over"
      BY <1>1, <1>3, FileThrowsFits
    <2> HIDE DEF t
    <2>4. ASSUME t.at = "over", ~dead PROVE recognizer.stream = 0
      <3>1. s.at \in {"configure", "open", "decode"}  BY <2>2, <2>3, <2>4
      <3>2. s.at = "decode" => kind = "offline"  BY <1>1 DEF Placed, Kinds
      <3> QED BY <1>1, <2>4, <3>1, <3>2 DEF UsesRight
    <2>5. t.at \in {"close", "over"} /\ s.at \notin {"queued", "over"}  BY <2>2, <2>3
    <2> QED BY <1>2, <2>1, <2>3, <2>4, <2>5, LeavesKeeps
  <1>4. CASE s.kind = "session" /\ Pumping(s)
    <2> DEFINE t == [Settle(s, "failed") EXCEPT !.pump = "settle", !.chunk = <<>>]
    <2>1. Become(o, t)  BY <1>4 DEF Refuses
    <2>2. s.at = "live"  BY <1>1, <1>4 DEF Placed, Pumping
    <2>3. OpFit(t, kind) /\ t.at = "live" /\ t.terminal /\ t.pump = "settle"
      BY <1>1, <1>4, <2>2, PumpFailsFits
    <2> HIDE DEF t
    <2>4. Follows(s, t)  BY <2>3 DEF Follows, Through, Tidy
    <2> QED BY <1>2, <2>1, <2>2, <2>3, <2>4, BecomesStill
  <1>5. CASE s.kind = "session" /\ ~Pumping(s)
    <2>1. s.at \in {"configure", "open", "close"} /\ (s.at = "close" => dead)
      BY <1>1, <1>2, <1>5 DEF Command, Placed
    <2>2. CASE s.at = "close"
      <3> DEFINE t == [s EXCEPT !.at = "over"]
      <3>1. Become(o, t)  BY <1>5, <2>2 DEF Refuses
      <3>2. s.terminal /\ s.pump = "idle"  BY <1>1, <1>5, <2>2 DEF Placed
      <3>3. OpFit(t, kind) /\ t.at = "over"  BY <1>1, <1>5, <3>2, SessionLeavesFits
      <3> HIDE DEF t
      <3> QED BY <1>2, <2>1, <2>2, <3>1, <3>3, LeavesKeeps
    <2>3. CASE s.at # "close"
      <3> DEFINE t == Unborn(s)
      <3>1. Become(o, t)  BY <1>5, <2>3 DEF Refuses
      <3>2. Waits(s)  BY <2>1, <2>3 DEF Waits
      <3>3. OpFit(t, kind) /\ t.at = IF kind = "online" THEN "close" ELSE "over"
        BY <1>1, <1>5, <3>2, UnbornFits
      <3>4. dead \/ recognizer.stream = 0  BY <1>1, <2>1, <2>3 DEF UsesRight
      <3> HIDE DEF t
      <3> QED BY <1>2, <2>1, <3>1, <3>3, <3>4, LeavesKeeps
    <2> QED BY <2>2, <2>3
  <1> QED BY <1>1, <1>3, <1>4, <1>5

LEMMA NormalizesKeeps ==
  ASSUME RecognitionInv, NEW o \in Ops, Normalizes(o)
  PROVE  Onward
  <1> DEFINE s == ops[o]
  <1>1. /\ kind \in Kinds /\ OpFit(s, kind) /\ Placed(s, kind) /\ s.kind \in {"file", "session"}
        /\ recognizer \in [options : 0 .. Len(ops), stream : 0 .. Len(ops), finished : BOOLEAN]
    BY Known DEF OpRecord
  <1>2. s.at = "normalize" /\ UNCHANGED <<kind, unload, dead, recognizer>>  BY DEF Normalizes
  <1>3. s.kind = "file"  BY <1>1, <1>2 DEF Placed
  <1>4. PICK t \in FileResumes(s, FALSE) \cup {FileThrows(s)} : Become(o, t)  BY DEF Normalizes
  <1>5. OpFit(t, kind) /\ t.at \in {"configure", "over"}
    <2>1. CASE t \in FileResumes(s, FALSE)
      <3>1. FALSE \in BOOLEAN  OBVIOUS
      <3>2. OpFit(t, kind) /\ FileNext(s, t)  BY <1>1, <1>2, <1>3, <2>1, <3>1, FileResumesFits
      <3> QED BY <1>2, <3>2 DEF FileNext
    <2>2. CASE t = FileThrows(s)  BY <1>1, <1>2, <1>3, <2>2, FileThrowsFits
    <2> QED BY <2>1, <2>2
  <1>6. ~dead => recognizer.stream = 0
    <2>1. ASSUME ~dead, recognizer.stream # 0 PROVE FALSE
      <3>1. recognizer.stream = o  BY <1>2, <2>1, OnlyOne
      <3>2. s.at \in Streaming  BY <2>1, <3>1 DEF RecognitionInv, RecognizerFits
      <3> QED BY <1>2, <3>2 DEF Streaming
    <2> QED BY <2>1
  <1>7. ~dead => UsesRight(o, t, recognizer, kind)  BY <1>5, <1>6 DEF UsesRight
  <1>8. kind = "offline" => recognizer.stream = 0  BY Known
  <1> QED BY <1>1, <1>2, <1>4, <1>5, <1>6, <1>7, <1>8, BecomesNext

LEMMA MicrophoneTurnsKeeps ==
  ASSUME RecognitionInv, NEW o \in Ops, MicrophoneTurns(o)
  PROVE  Onward
  <1> DEFINE s == ops[o]
  <1>1. PICK m \in CaptureTurns(s.mic) :
          Become(o, IF m.failed /\ ~s.mic.failed THEN Settle([s EXCEPT !.mic = m], "failed")
                    ELSE [s EXCEPT !.mic = m])
    BY DEF MicrophoneTurns
  <1>2. UNCHANGED <<kind, unload, dead, recognizer>>  BY DEF MicrophoneTurns
  <1>3. kind \in Kinds /\ OpFit(s, kind) /\ Fits(s, kind) /\ s \in OpRecord /\ MicFits(s)
    BY Known DEF Fits, Base
  <1>4. m \in CaptureRecord /\ NoLeak(m) /\ (s.mic.stopped => m.stopped) /\ s.mic.at # "none"
    <2>1. s.mic \in CaptureRecord /\ NoLeak(s.mic)  BY <1>3 DEF OpRecord, MicFits
    <2> QED BY <2>1, TurnFits
  <1>5. s.kind # "file" /\ ~Waits(s)  BY <1>3, <1>4 DEF Fits, FileFits, Placed, OpRecord
  <1> DEFINE t == [s EXCEPT !.mic = m]
             u == IF m.failed /\ ~s.mic.failed THEN Settle(t, "failed") ELSE t
  <1>6. Become(o, u)  BY <1>1
  <1>7. CapturedFrom(s, t) /\ MicFits(t)
    <2>1. CapturedFrom(s, t) /\ t.capture = s.capture /\ t.mic = m  BY <1>3, <1>4 DEF CapturedFrom, OpRecord
    <2> QED BY <1>3, <1>4, <2>1 DEF CapturedFrom, MicFits
  <1> HIDE DEF t
  <1>8. /\ Fits(t, kind) /\ (Limited(s) => Limited(t)) /\ t.at = s.at /\ t.kind = s.kind
        /\ t.terminal = s.terminal /\ t.pump = s.pump /\ t.ending = s.ending /\ t.queue = s.queue
    BY <1>3, <1>5, <1>7, CaptureFits
  <1>9. CASE u = t
    <2>1. OpFit(t, kind)  BY <1>3, <1>8 DEF OpFit
    <2>2. Become(o, t)  BY <1>6, <1>9
    <2>3. Follows(s, t)  BY <1>8 DEF Follows, Through, Tidy
    <2> HIDE DEF u
    <2> QED BY <1>2, <1>8, <2>1, <2>2, <2>3, BecomesStill
  <1>a. CASE u = Settle(t, "failed")
    <2>1. Become(o, Settle(t, "failed")) /\ ~Waits(t)  BY <1>5, <1>6, <1>8, <1>a DEF Waits
    <2> HIDE DEF u
    <2> QED BY <1>2, <1>8, <2>1, Settles
  <1> QED BY <1>9, <1>a

\* Audio comes to a session.
LEMMA ArrivesKeeps ==
  ASSUME RecognitionInv, NEW o \in Live, ~ops[o].ending, NEW s, OpFit(s, kind), s.kind = "session",
         s.at = "live", s.terminal = ops[o].terminal, s.ending = ops[o].ending, s.pump = ops[o].pump,
         Arrives(o, s)
  PROVE  Onward
  <1>1. o \in Ops /\ ops[o].at = "live" /\ ~ops[o].terminal  BY DEF Live
  <1>2. kind \in Kinds  BY <1>1, Known
  <1>3. PICK n \in Chunks, keeps \in 0 .. 1 : Become(o, Accept(s, n, keeps))  BY DEF Arrives
  <1> DEFINE t == Accept(s, n, keeps)
  <1>4. OpFit(t, kind) /\ t.at = "live" /\ (s.pump # "returned" => Tidy(t))  BY <1>1, <1>2, AcceptFits
  <1>5. Become(o, t) /\ UNCHANGED <<kind, unload, dead, recognizer>>  BY <1>3 DEF Arrives
  <1> HIDE DEF t
  <1>6. Follows(ops[o], t)  BY <1>1, <1>4 DEF Follows, Through
  <1> QED BY <1>1, <1>4, <1>5, <1>6, BecomesStill

LEMMA MicrophoneHearsKeeps ==
  ASSUME RecognitionInv, NEW o \in Ops, MicrophoneHears(o)
  PROVE  Onward
  <1>1. o \in Live /\ ~ops[o].ending /\ Arrives(o, ops[o])  BY DEF MicrophoneHears
  <1>2. OpFit(ops[o], kind) /\ ops[o].kind = "session" /\ ops[o].at = "live"  BY <1>1, Known DEF Live
  <1> QED BY <1>1, <1>2, ArrivesKeeps

LEMMA MicrophoneClosesKeeps ==
  ASSUME RecognitionInv, NEW o \in Ops, MicrophoneCloses(o)
  PROVE  Onward
  <1> DEFINE s == ops[o]  t == [s EXCEPT !.closing = FALSE]
  <1>1. Become(o, t) /\ UNCHANGED <<kind, unload, dead, recognizer>>  BY DEF MicrophoneCloses
  <1>2. kind \in Kinds /\ OpFit(s, kind) /\ Fits(s, kind) /\ s \in OpRecord /\ MicFits(s)
    BY Known DEF Fits, Base
  <1>3. CapturedFrom(s, t) /\ t.mic = s.mic /\ t.capture = s.capture  BY <1>2 DEF CapturedFrom, OpRecord
  <1> HIDE DEF t
  <1>4. MicFits(t)  BY <1>2, <1>3 DEF CapturedFrom, MicFits
  <1>5. s.kind = "file" \/ Waits(s) => t.mic.at = "none" /\ t.capture = "none"
    BY <1>2, <1>3 DEF Fits, FileFits, Placed, OpRecord
  <1>6. /\ OpFit(t, kind) /\ t.at = s.at /\ t.terminal = s.terminal /\ t.pump = s.pump
        /\ t.ending = s.ending /\ t.queue = s.queue
    BY <1>2, <1>3, <1>4, <1>5, CaptureFits DEF OpFit
  <1>7. Follows(s, t)  BY <1>6 DEF Follows, Through, Tidy
  <1> QED BY <1>1, <1>6, <1>7, BecomesStill

LEMMA UnloadEndsKeeps ==
  ASSUME RecognitionInv, UnloadEnds
  PROVE  Onward
  <1>1. unload = "asked" /\ unload' = "done" /\ UNCHANGED <<kind, ops, dead, recognizer>>  BY DEF UnloadEnds
  <1>2. Ops' = Ops  BY <1>1 DEF Ops
  <1>3. InTurn'  BY <1>1, <1>2 DEF RecognitionInv, InTurn
  <1>4. RecognizerFits'
    <2>1. RecognizerFits  BY DEF RecognitionInv
    <2> QED BY <1>1, <1>2, <2>1 DEF RecognizerFits
  <1>5. \A o \in Ops : OpFit(ops[o], kind)  BY DEF RecognitionInv
  <1>6. RecognitionInv'  BY <1>1, <1>2, <1>3, <1>4, <1>5 DEF RecognitionInv
  <1> QED BY <1>1, <1>2, <1>6 DEF Onward, Tidy

----------------------------------------------------------------------------
(* The steps of the callers. *)

LEMMA CallerCancelsKeeps ==
  ASSUME RecognitionInv, NEW o \in Ops, CallerCancels(o)
  PROVE  Onward
  <1> DEFINE s == ops[o]
  <1>1. Handed(o) /\ Become(o, Settle(s, "cancelled")) /\ UNCHANGED <<kind, unload, dead, recognizer>>
    BY DEF CallerCancels, Cancelled
  <1>2. Fits(s, kind)  BY Known
  <1>3. s.kind = "session" => ~Waits(s)  BY <1>1 DEF Handed, Waits
  <1>4. "cancelled" \in {"cancelled", "failed"}  OBVIOUS
  <1> QED BY <1>1, <1>2, <1>3, <1>4, Settles

LEMMA CallerFinishesKeeps ==
  ASSUME RecognitionInv, NEW o \in Ops, CallerFinishes(o)
  PROVE  Onward
  <1> DEFINE s == ops[o]  t == Finish(s)
  <1>1. /\ s.kind = "session" /\ s.at = "live" /\ ~s.terminal /\ ~s.ending /\ Become(o, t)
        /\ UNCHANGED <<kind, unload, dead, recognizer>>
    BY DEF CallerFinishes, Live
  <1>2. kind \in Kinds /\ OpFit(s, kind)  BY Known
  <1>3. OpFit(t, kind) /\ t.at = "live" /\ (s.pump # "returned" => Tidy(t))  BY <1>1, <1>2, FinishFits
  <1> HIDE DEF t
  <1>4. Follows(s, t)  BY <1>1, <1>3 DEF Follows, Through
  <1> QED BY <1>1, <1>3, <1>4, BecomesStill

LEMMA CallerPushesKeeps ==
  ASSUME RecognitionInv, NEW o \in Ops, CallerPushes(o)
  PROVE  Onward
  <1> DEFINE s == ops[o]  t == [s EXCEPT !.source = "external"]
  <1>1. o \in Live /\ ~s.ending /\ Arrives(o, t)  BY DEF CallerPushes
  <1>2. s.kind = "session" /\ s.at = "live"  BY <1>1 DEF Live
  <1>3. kind \in Kinds /\ OpFit(s, kind) /\ Fits(s, kind) /\ s \in OpRecord /\ MicFits(s)
    BY Known DEF Fits, Base
  <1>4. /\ CapturedFrom(s, t) /\ t.mic = s.mic /\ t.capture = s.capture /\ t.ending = s.ending
        /\ t.terminal = s.terminal
    BY <1>3 DEF CapturedFrom, OpRecord
  <1> HIDE DEF t
  <1>5. MicFits(t)  BY <1>3, <1>4 DEF MicFits
  <1>6. ~(s.kind = "file" \/ Waits(s))  BY <1>2 DEF Waits
  <1>7. OpFit(t, kind) /\ t.at = s.at /\ t.kind = s.kind /\ t.pump = s.pump
    BY <1>3, <1>4, <1>5, <1>6, CaptureFits DEF OpFit
  <1> QED BY <1>1, <1>2, <1>4, <1>7, ArrivesKeeps

LEMMA CallerStartsMicrophoneKeeps ==
  ASSUME RecognitionInv, NEW o \in Ops, CallerStartsMicrophone(o)
  PROVE  Onward
  <1> DEFINE s == ops[o]
             t == [s EXCEPT !.source = "microphone", !.capture = "starting", !.mic = NewCapture]
  <1>1. /\ o \in Live /\ ~s.ending /\ Become(o, t)
        /\ UNCHANGED <<kind, unload, dead, recognizer>>
    BY DEF CallerStartsMicrophone
  <1>2. s.kind = "session" /\ s.at = "live" /\ ~s.terminal  BY <1>1 DEF Live
  <1>3. kind \in Kinds /\ OpFit(s, kind) /\ Fits(s, kind) /\ s \in OpRecord  BY Known
  <1>4. NewCapture \in CaptureRecord /\ NoLeak(NewCapture)
    BY DEF NewCapture, NoCapture, CaptureRecord, CaptureStages, NoLeak
  <1>5. CapturedFrom(s, t) /\ t.mic = NewCapture /\ t.terminal = s.terminal /\ t.ending = s.ending
    <2> DEFINE m == NewCapture
    <2>1. m \in CaptureRecord  BY <1>4
    <2> HIDE DEF m
    <2>2. [s EXCEPT !.source = "microphone", !.capture = "starting", !.mic = m].mic = m
      BY <1>3 DEF OpRecord
    <2>3. CapturedFrom(s, [s EXCEPT !.source = "microphone", !.capture = "starting", !.mic = m])
      BY <1>3, <2>1 DEF CapturedFrom, OpRecord
    <2> QED BY <2>2, <2>3 DEF m, CapturedFrom
  <1> HIDE DEF t
  <1>6. MicFits(t)  BY <1>1, <1>2, <1>4, <1>5 DEF MicFits
  <1>7. ~(s.kind = "file" \/ Waits(s))  BY <1>2 DEF Waits
  <1>8. /\ OpFit(t, kind) /\ t.at = s.at /\ t.terminal = s.terminal /\ t.pump = s.pump
        /\ t.ending = s.ending /\ t.queue = s.queue
    BY <1>3, <1>5, <1>6, <1>7, CaptureFits DEF OpFit
  <1>9. Follows(s, t)  BY <1>2, <1>8 DEF Follows, Through, Tidy
  <1> QED BY <1>1, <1>2, <1>8, <1>9, BecomesStill

\* Everything that is handed out is settled at once.
LEMMA AllSettle ==
  ASSUME RecognitionInv, NEW how \in {"cancelled", "failed"},
         ops' = [o \in Ops |-> IF o \in Files \cup Live THEN Settle(ops[o], how) ELSE ops[o]],
         UNCHANGED <<kind, recognizer>>, dead' \in BOOLEAN, dead => dead',
         unload' \in {"no", "queued", "asked", "done"},
         unload' \in {"asked", "done"} => unload \in {"asked", "done"}
  PROVE  Onward
  <1>0. kind \in Kinds /\ ops \in Seq(OpRecord) /\ Len(ops) \in Nat /\ Ops = 1 .. Len(ops)
    BY LenProperties DEF RecognitionInv, Kinds, Ops
  <1>1. ASSUME NEW o \in Ops
        PROVE  /\ OpFit(ops'[o], kind) /\ ops'[o].at = ops[o].at
               /\ ops'[o].pump = ops[o].pump /\ (ops'[o] = ops[o] \/ ops'[o].terminal)
    <2>1. OpFit(ops[o], kind) /\ Fits(ops[o], kind)  BY Known
    <2>2. CASE o \in Files \cup Live
      <3> DEFINE s == ops[o]  t == Settle(s, how)
      <3>1. ops'[o] = t  BY <2>2
      <3>2. s.kind = "session" => ~Waits(s)  BY <2>2 DEF Files, Live, Waits
      <3>3. how \in Results /\ how \notin {"none", "complete"}  BY DEF Results
      <3>4. OpFit(t, kind)  BY <1>0, <2>1, <3>2, <3>3, SettleKeeps
      <3>5. t.at = s.at /\ t.terminal /\ t.pump = s.pump  BY <2>1, <3>3, SettleStays
      <3> HIDE DEF t
      <3> QED BY <3>1, <3>4, <3>5
    <2>3. CASE o \notin Files \cup Live
      <3>1. ops'[o] = ops[o]  BY <2>3
      <3> QED BY <2>1, <3>1
    <2> QED BY <2>2, <2>3
  <1>2. ops' \in Seq(OpRecord) /\ Len(ops') = Len(ops) /\ Ops' = Ops
    <2>1. ops' \in [1 .. Len(ops) -> OpRecord]
      <3>1. \A o \in Ops : ops'[o] \in OpRecord  BY <1>1 DEF OpFit, Fits, Base
      <3>2. DOMAIN ops' = Ops /\ ops' = [o \in Ops |-> ops'[o]]  OBVIOUS
      <3> QED BY <1>0, <3>1, <3>2
    <2>2. ops' \in Seq(OpRecord)  BY <1>0, <2>1, SeqDef
    <2>3. Len(ops') = Len(ops)
      <3> DEFINE l == Len(ops')  n == Len(ops)
      <3>1. DOMAIN ops' = 1 .. n  BY <1>0
      <3>2. l \in Nat /\ n \in Nat /\ 1 .. l = 1 .. n  BY <1>0, <2>2, <3>1, LenProperties
      <3> HIDE DEF l, n
      <3>3. CASE l < n
        <4>1. n \in 1 .. n /\ n \notin 1 .. l  BY <3>2, <3>3
        <4> QED BY <3>2, <4>1
      <3>4. CASE n < l
        <4>1. l \in 1 .. l /\ l \notin 1 .. n  BY <3>2, <3>4
        <4> QED BY <3>2, <4>1
      <3>5. l = n  BY <3>2, <3>3, <3>4
      <3> QED BY <3>5 DEF l, n
    <2> QED BY <1>0, <2>2, <2>3, LenProperties DEF Ops
  <1>3. InTurn'  BY <1>1, <1>2 DEF RecognitionInv, InTurn
  <1>4. RecognizerFits'
    <2>1. /\ recognizer' \in [options : 0 .. Len(ops'), stream : 0 .. Len(ops'), finished : BOOLEAN]
          /\ kind = "offline" => recognizer'.stream = 0
      BY <1>2 DEF RecognitionInv, RecognizerFits
    <2>2. ASSUME ~dead' PROVE recognizer.stream # 0 => ops'[recognizer.stream].at \in Streaming
      <3>1. ASSUME recognizer.stream # 0 PROVE ops'[recognizer.stream].at \in Streaming
        <4>1. ops[recognizer.stream].at \in Streaming  BY <2>2, <3>1 DEF RecognitionInv, RecognizerFits
        <4>2. recognizer.stream \in Ops
          <5>1. recognizer.stream \in 0 .. Len(ops)  BY DEF RecognitionInv, RecognizerFits
          <5> QED BY <1>0, <3>1, <5>1
        <4> QED BY <1>1, <4>1, <4>2
      <3> QED BY <3>1
    <2>3. ASSUME ~dead', NEW o \in Ops PROVE UsesRight(o, ops'[o], recognizer, kind)
      <3>1. UsesRight(o, ops[o], recognizer, kind)  BY <2>3 DEF RecognitionInv, RecognizerFits
      <3>2. Through(ops[o]) => Through(ops'[o])  BY <1>1 DEF Through
      <3> QED BY <1>1, <3>1, <3>2 DEF UsesRight
    <2> QED BY <1>2, <2>1, <2>2, <2>3 DEF RecognizerFits
  <1>5. RecognitionInv'  BY <1>1, <1>2, <1>3, <1>4 DEF RecognitionInv
  <1>6. \A o \in Ops : ops[o].pump # "returned" => Tidy(ops'[o])  BY <1>1 DEF Tidy
  <1> QED BY <1>2, <1>5, <1>6 DEF Onward

LEMMA UnloadKeeps ==
  ASSUME RecognitionInv, Unload
  PROVE  Onward
  <1>1. /\ unload' = "queued" /\ UNCHANGED <<kind, dead, recognizer>>
        /\ ops' = [o \in Ops |-> IF o \in Files \cup Live THEN Settle(ops[o], "cancelled") ELSE ops[o]]
    BY DEF Unload
  <1>2. dead' \in BOOLEAN /\ (dead => dead')  BY <1>1 DEF RecognitionInv
  <1> QED BY <1>1, <1>2, AllSettle

LEMMA WorkerFailsKeeps ==
  ASSUME RecognitionInv, WorkerFails
  PROVE  Onward
  <1>1. /\ dead' = TRUE /\ UNCHANGED <<kind, unload, recognizer>>
        /\ ops' = [o \in Ops |-> IF o \in Files \cup Live THEN Settle(ops[o], "failed") ELSE ops[o]]
    BY DEF WorkerFails
  <1>2. unload' \in {"no", "queued", "asked", "done"}  BY <1>1 DEF RecognitionInv
  <1> QED BY <1>1, <1>2, AllSettle

\* An operation that is new is queued last.
LEMMA NewOneKeeps ==
  ASSUME RecognitionInv, NEW s, OpFit(s, kind), s.at = "queued", Len(ops) < MaxOps, Available,
         ops' = Append(ops, s), UNCHANGED <<kind, unload, dead, recognizer>>
  PROVE  Onward
  <1>0. ops \in Seq(OpRecord) /\ Len(ops) \in Nat /\ Ops = 1 .. Len(ops) /\ MaxOps \in Nat
    BY LenProperties, RecognitionAssumption DEF RecognitionInv, Ops
  <1>1. s \in OpRecord  BY DEF OpFit, Fits, Base
  <1> DEFINE n == Len(ops) + 1
  <1>2. /\ ops' \in Seq(OpRecord) /\ Len(ops') = n /\ ops'[n] = s
        /\ \A o \in Ops : ops'[o] = ops[o]
    BY <1>0, <1>1, AppendProperties
  <1>3. Ops' = 1 .. n /\ Ops' = Ops \cup {n} /\ \A o \in Ops : o < n
    BY <1>0, <1>2, LenProperties DEF Ops
  <1>4. \A o \in Ops' : OpFit(ops'[o], kind)  BY <1>2, <1>3 DEF RecognitionInv
  <1>5. InTurn'
    <2>1. ASSUME NEW o \in Ops', NEW p \in Ops', o < p, ops'[p].at # "queued" PROVE ops'[o].at = "over"
      <3>1. p # n /\ p \in Ops  BY <1>2, <1>3, <2>1
      <3>2. o \in Ops  BY <1>0, <1>3, <2>1, <3>1
      <3> QED BY <1>2, <2>1, <3>1, <3>2 DEF RecognitionInv, InTurn
    <2>2. unload' \notin {"asked", "done"}  BY DEF Available
    <2> QED BY <2>1, <2>2 DEF InTurn
  <1>6. RecognizerFits'
    <2>1. recognizer' \in [options : 0 .. Len(ops'), stream : 0 .. Len(ops'), finished : BOOLEAN]
      <3>1. recognizer \in [options : 0 .. Len(ops), stream : 0 .. Len(ops), finished : BOOLEAN]
        BY DEF RecognitionInv, RecognizerFits
      <3>2. 0 .. Len(ops) \subseteq 0 .. n  BY <1>0
      <3> HIDE DEF n
      <3> QED BY <1>2, <3>1, <3>2
    <2>2. kind = "offline" => recognizer.stream = 0  BY DEF RecognitionInv, RecognizerFits
    <2>3. ASSUME ~dead, recognizer.stream # 0 PROVE ops'[recognizer.stream].at \in Streaming
      <3>1. ops[recognizer.stream].at \in Streaming  BY <2>3 DEF RecognitionInv, RecognizerFits
      <3>2. recognizer.stream \in Ops
        <4>1. recognizer.stream \in 0 .. Len(ops)  BY DEF RecognitionInv, RecognizerFits
        <4> QED BY <1>0, <2>3, <4>1
      <3> QED BY <1>2, <3>1, <3>2
    <2>4. ASSUME ~dead, NEW o \in Ops' PROVE UsesRight(o, ops'[o], recognizer, kind)
      <3>1. CASE o = n
        <4>1. ops'[o].at = "queued"  BY <1>2, <3>1
        <4> QED BY <4>1 DEF UsesRight
      <3>2. CASE o # n
        <4>1. o \in Ops  BY <1>3, <3>2
        <4>2. UsesRight(o, ops[o], recognizer, kind)  BY <2>4, <4>1 DEF RecognitionInv, RecognizerFits
        <4> QED BY <1>2, <4>1, <4>2
      <3> QED BY <3>1, <3>2
    <2> QED BY <2>1, <2>2, <2>3, <2>4 DEF RecognizerFits
  <1>7. Len(ops') <= MaxOps  BY <1>0, <1>2
  <1> HIDE DEF n
  <1>8. RecognitionInv'  BY <1>2, <1>4, <1>5, <1>6, <1>7 DEF RecognitionInv
  <1> QED BY <1>2, <1>3, <1>8 DEF Onward, Tidy

\* The fields of a new operation.
LEMMA NewFits ==
  ASSUME NEW k \in {"file", "session"}, NEW n \in Nat, NEW s,
         IF k = "file" THEN s = [NewOperation(k) EXCEPT !.length = n, !.accepted = n]
         ELSE s = NewOperation(k) /\ n = 0,
         kind \in Kinds
  PROVE  OpFit(s, kind) /\ s.at = "queued"
  <1> DEFINE u == NewOperation(k)
  <1>1. /\ NoCapture \in CaptureRecord /\ NoCapture.at = "none" /\ NoCapture.stopped = FALSE
        /\ NoCapture.tracks = FALSE
    BY DEF NoCapture, CaptureRecord, CaptureStages
  <1>2. NoEvent \in Event /\ NoEvent.id = 0 /\ NoEvent.final = FALSE /\ NoEvent.text = 0 /\ NoText = 0
    BY DEF NoEvent, Event, NoText
  <1>3. <<>> \in Seq(Nat) /\ Len(<<>>) = 0  OBVIOUS
  <1>4. u \in OpRecord
    <2>1. "queued" \in Stages /\ "none" \in Results /\ "idle" \in PumpStages /\ 0 \in 0 .. 1
      BY DEF Stages, Results, PumpStages
    <2> QED BY ONLY <1>1, <1>2, <1>3, <2>1, k \in {"file", "session"} DEF NewOperation, OpRecord
  <1>5. /\ u.kind = k /\ u.at = "queued" /\ u.pump = "idle" /\ u.chunk = <<>> /\ u.terminal = FALSE
        /\ u.result = "none" /\ u.heard = 0 /\ u.ending = FALSE /\ u.queue = <<>> /\ u.held = 0
        /\ u.capture = "none" /\ u.mic = NoCapture /\ u.decoded = 0 /\ u.hypothesis = 0 /\ u.windowStart = 0
        /\ u.segments = 0 /\ u.last = NoEvent /\ u.accepted = 0 /\ u.length = 0
    BY <1>2 DEF NewOperation
  <1>6. IF k = "file" THEN s = [u EXCEPT !.length = n, !.accepted = n] ELSE s = u /\ n = 0
    OBVIOUS
  <1> HIDE DEF u
  <1>7. /\ s \in OpRecord
        /\ s.kind = k /\ s.at = "queued" /\ s.pump = "idle" /\ s.chunk = <<>> /\ s.terminal = FALSE
        /\ s.result = "none" /\ s.heard = 0 /\ s.ending = FALSE /\ s.queue = <<>> /\ s.held = 0
        /\ s.capture = "none" /\ s.mic = NoCapture /\ s.decoded = 0 /\ s.hypothesis = 0 /\ s.windowStart = 0
        /\ s.segments = 0 /\ s.last = NoEvent /\ s.accepted = n /\ s.length = n
    <2>1. CASE k = "file"
      <3>1. s = [u EXCEPT !.length = n, !.accepted = n]  BY <1>6, <2>1
      <3> QED BY <1>4, <1>5, <3>1 DEF OpRecord
    <2>2. CASE k # "file"
      <3>1. s = u /\ n = 0  BY <1>6, <2>2
      <3> QED BY <1>4, <1>5, <3>1
    <2> QED BY <2>1, <2>2
  <1>8. k = "session" => n = 0  BY <1>6
  <1> HIDE DEF NoCapture, NoEvent
  <1>9. Base(s)  BY <1>1, <1>7 DEF Base, MicFits, NoLeak
  <1>a. ShowFits(s)  BY <1>2, <1>7 DEF ShowFits, Numbered
  <1>b. Placed(s, kind)  BY <1>1, <1>7 DEF Placed, Waits
  <1>c. Run(0, 0) = <<>>  BY NoRun
  <1>d. k = "file" => FileFits(s)
    <2>1. ASSUME k = "file" PROVE FileFits(s)
      <3>1. Len(s.chunk) = 0 /\ s.heard + 0 + s.length = s.accepted  BY <1>3, <1>7
      <3>2. s.chunk = Run(s.heard, Len(s.chunk)) /\ s.heard + Len(s.chunk) + s.length = s.accepted
        BY <1>7, <1>c, <3>1
      <3>3. s.mic.at = "none" /\ s.hypothesis = NoText  BY <1>1, <1>2, <1>7
      <3> QED BY <1>7, <3>2, <3>3 DEF FileFits
    <2> QED BY <2>1
  <1>e. k = "session" => SessionFits(s, kind) /\ Limited(s)
    <2>1. ASSUME k = "session" PROVE SessionFits(s, kind) /\ Limited(s)
      <3>0. Window \in Nat /\ MaxBuffered \in Nat /\ n = 0 /\ s.hypothesis = NoText
        <4>1. Window \in Nat /\ MaxBuffered \in Nat  BY RecognitionAssumption
        <4> QED BY <1>2, <1>7, <1>8, <2>1, <4>1
      <3>1. Bounded(s, kind)  BY <1>7, <3>0 DEF Bounded
      <3>2. Chunk(s, kind)  BY <1>7 DEF Chunk
      <3>3. Len(s.queue) = 0 /\ Len(s.chunk) = 0 /\ s.accepted = 0  BY <1>3, <1>7, <3>0
      <3>4. Ordered(s)
        <4>0. s.held = 0  BY <1>7
        <4>1. s.accepted - s.held - Len(s.queue) = 0 /\ Len(s.queue) <= s.accepted - s.held
          BY ONLY <3>3, <4>0
        <4> QED BY <1>7, <1>c, <3>3, <4>1 DEF Ordered
      <3>5. Incremental(s, Len(s.chunk))  BY <1>7, <3>3 DEF Incremental
      <3>6. Windowed(s)  BY <1>7, <3>0, <3>3 DEF Windowed
      <3>7. SessionFits(s, kind)  BY <1>7, <3>1, <3>2, <3>4, <3>5, <3>6 DEF SessionFits
      <3>8. Limited(s)  BY <1>7, <3>0 DEF Limited
      <3> QED BY <3>7, <3>8
    <2> QED BY <2>1
  <1> QED BY <1>7, <1>9, <1>a, <1>b, <1>d, <1>e DEF OpFit, Fits, Limited

LEMMA TranscribeKeeps ==
  ASSUME RecognitionInv, NEW n \in FileLengths, Transcribe(n)
  PROVE  Onward
  <1> DEFINE s == [NewOperation("file") EXCEPT !.length = n, !.accepted = n]
  <1>1. /\ Len(ops) < MaxOps /\ Available /\ ops' = Append(ops, s)
        /\ UNCHANGED <<kind, unload, dead, recognizer>>
    BY DEF Transcribe, MayTranscribe
  <1>2. n \in Nat /\ "file" \in {"file", "session"} /\ kind \in Kinds
    BY RecognitionAssumption DEF RecognitionInv, Kinds
  <1>3. OpFit(s, kind) /\ s.at = "queued"
    <2> DEFINE k == "file"
    <2>1. IF k = "file" THEN s = [NewOperation(k) EXCEPT !.length = n, !.accepted = n]
          ELSE s = NewOperation(k) /\ n = 0
      OBVIOUS
    <2>2. k \in {"file", "session"}  OBVIOUS
    <2> HIDE DEF k, s
    <2> QED BY <1>2, <2>1, <2>2, NewFits
  <1> HIDE DEF s
  <1> QED BY <1>1, <1>3, NewOneKeeps

LEMMA CreateSessionKeeps ==
  ASSUME RecognitionInv, CreateSession
  PROVE  Onward
  <1> DEFINE s == NewOperation("session")
  <1>1. /\ Len(ops) < MaxOps /\ Available /\ ops' = Append(ops, s)
        /\ UNCHANGED <<kind, unload, dead, recognizer>>
    BY DEF CreateSession, MayCreate, MayTranscribe
  <1>2. 0 \in Nat /\ "session" \in {"file", "session"} /\ kind \in Kinds
    BY DEF RecognitionInv, Kinds
  <1>3. OpFit(s, kind) /\ s.at = "queued"
    <2> DEFINE k == "session"  n == 0
    <2>1. IF k = "file" THEN s = [NewOperation(k) EXCEPT !.length = n, !.accepted = n]
          ELSE s = NewOperation(k) /\ n = 0
      OBVIOUS
    <2>2. k \in {"file", "session"} /\ n \in Nat  OBVIOUS
    <2> HIDE DEF k, n, s
    <2> QED BY <1>2, <2>1, <2>2, NewFits
  <1> HIDE DEF s
  <1> QED BY <1>1, <1>3, NewOneKeeps

----------------------------------------------------------------------------
(* The invariant, and what it says of recordings and sessions. *)

LEMMA RecognitionStarts == RecognitionInit => RecognitionInv
  <1> SUFFICES ASSUME RecognitionInit PROVE RecognitionInv  OBVIOUS
  <1>1. kind \in {"online", "offline"} /\ ops = <<>> /\ unload = "no" /\ dead = FALSE
        /\ recognizer = [options |-> 0, stream |-> 0, finished |-> FALSE]
    BY DEF RecognitionInit
  <1>2. ops \in Seq(OpRecord) /\ Len(ops) = 0 /\ Ops = {}  BY <1>1 DEF Ops
  <1>3. Len(ops) <= MaxOps  BY <1>2, RecognitionAssumption
  <1>4. RecognizerFits  BY <1>1, <1>2 DEF RecognizerFits
  <1>5. InTurn  BY <1>1, <1>2 DEF InTurn
  <1> QED BY <1>1, <1>2, <1>3, <1>4, <1>5 DEF RecognitionInv

LEMMA RecognitionGoesOn == RecognitionInv /\ [RecognitionNext]_rvars => Onward
  <1> SUFFICES ASSUME RecognitionInv, [RecognitionNext]_rvars PROVE Onward  OBVIOUS
  <1>1. CASE OwnerSteps
    <2>1. ASSUME NEW o \in Ops,
                 WorkStarts(o) \/ SessionReleased(o) \/ PumpReturned(o) \/ PumpSettled(o)
                 \/ MicrophoneStarts(o) \/ MonitorTicks(o)
          PROVE  Onward
      BY <2>1, WorkStartsKeeps, SessionReleasedKeeps, PumpReturnedKeeps, PumpSettledKeeps,
         MicrophoneStartsKeeps, MonitorTicksKeeps
    <2> QED BY <1>1, <2>1, UnloadStartsKeeps DEF OwnerSteps
  <1>2. CASE Environment
    <2>1. ASSUME NEW o \in Ops,
                 Answers(o) \/ Refuses(o) \/ Normalizes(o) \/ MicrophoneTurns(o) \/ MicrophoneHears(o)
                 \/ MicrophoneCloses(o)
          PROVE  Onward
      BY <2>1, AnswersKeeps, RefusesKeeps, NormalizesKeeps, MicrophoneTurnsKeeps, MicrophoneHearsKeeps,
         MicrophoneClosesKeeps
    <2> QED BY <1>2, <2>1, UnloadEndsKeeps, WorkerFailsKeeps DEF Environment
  <1>3. CASE Callers
    <2>1. ASSUME NEW o \in Ops,
                 CallerCancels(o) \/ CallerFinishes(o) \/ CallerPushes(o) \/ CallerStartsMicrophone(o)
          PROVE  Onward
      BY <2>1, CallerCancelsKeeps, CallerFinishesKeeps, CallerPushesKeeps, CallerStartsMicrophoneKeeps
    <2> QED BY <1>3, <2>1, TranscribeKeeps, CreateSessionKeeps, UnloadKeeps DEF Callers
  <1>4. CASE UNCHANGED rvars
    <2>1. UNCHANGED <<kind, ops, unload, dead, recognizer>>  BY <1>4 DEF rvars
    <2>2. Ops' = Ops  BY <2>1 DEF Ops
    <2>3. InTurn'  BY <2>1, <2>2 DEF RecognitionInv, InTurn
    <2>4. RecognizerFits'
      <3>1. RecognizerFits  BY DEF RecognitionInv
      <3> QED BY <2>1, <2>2, <3>1 DEF RecognizerFits
    <2>5. \A o \in Ops : OpFit(ops[o], kind)  BY DEF RecognitionInv
    <2>6. RecognitionInv'  BY <2>1, <2>2, <2>3, <2>4, <2>5 DEF RecognitionInv
    <2> QED BY <2>1, <2>2, <2>6 DEF Onward, Tidy
  <1> QED BY <1>1, <1>2, <1>3, <1>4 DEF RecognitionNext

\* An operation counts its audio, in the queue too, and the units are its own.
LEMMA OperationTyped ==
  ASSUME NEW s, NEW k \in Kinds, OpFit(s, k)
  PROVE  OperationTypeOK(s)
  <1>0. s \in OpRecord /\ Base(s) /\ ShowFits(s) /\ s.kind \in {"file", "session"}
    BY DEF OpFit, Fits, Base, OpRecord
  <1>1. /\ s.heard \in Nat /\ s.accepted \in Nat /\ s.held \in Nat /\ s.length \in Nat
        /\ Len(s.chunk) \in Nat /\ Len(s.queue) \in Nat
    BY <1>0, Counts
  <1>2. s.heard <= s.accepted /\ s.decoded <= Window
    <2>1. CASE s.kind = "session"  BY <2>1 DEF OpFit, Fits, SessionFits, Bounded
    <2>2. CASE s.kind = "file"
      <3>1. s.heard + Len(s.chunk) + s.length = s.accepted /\ s.decoded = 0
        BY <2>2 DEF OpFit, Fits, FileFits
      <3>2. s.heard <= s.accepted  BY ONLY <1>1, <3>1
      <3>3. Window \in Nat  BY RecognitionAssumption
      <3>4. s.decoded <= Window  BY <3>1, <3>3
      <3> QED BY <3>2, <3>4
    <2> QED BY <1>0, <2>1, <2>2
  <1>3. s.queue \in Seq(1 .. s.accepted)
    <2>1. CASE s.queue = <<>>
      <3>1. <<>> \in Seq(1 .. s.accepted)  OBVIOUS
      <3> QED BY <2>1, <3>1
    <2>2. CASE s.queue # <<>>
      <3>1. s.kind = "session" /\ ~s.terminal
        BY <1>0, <2>2 DEF OpFit, Fits, FileFits, SessionFits, Bounded
      <3> DEFINE l == Len(s.queue)  a == s.accepted - s.held - l
      <3>2. Ordered(s)  BY <3>1 DEF OpFit, Fits, SessionFits
      <3>3. l \in Nat /\ a \in Nat /\ a + l <= s.accepted
        <4>1. Len(s.queue) <= s.accepted - s.held  BY <3>2 DEF Ordered
        <4> QED BY ONLY <1>1, <4>1
      <3>4. s.queue = Run(a, l)  BY <3>2 DEF Ordered
      <3> HIDE DEF l, a
      <3>5. Run(a, l) \in Seq(Nat) /\ Len(Run(a, l)) = l /\ \A i \in 1 .. l : Run(a, l)[i] = a + i
        BY <3>3, RunParts
      <3>6. \A i \in 1 .. l : a + i \in 1 .. s.accepted  BY <1>1, <3>3
      <3> DEFINE q == Run(a, l)
      <3>7. q \in [1 .. l -> 1 .. s.accepted]
        <4>1. q \in Seq(Nat) /\ Len(q) = l /\ \A i \in 1 .. l : q[i] \in 1 .. s.accepted
          BY <3>5, <3>6
        <4> HIDE DEF q
        <4>2. q \in [1 .. l -> Nat]  BY <4>1, LenProperties
        <4> QED BY <4>1, <4>2
      <3> HIDE DEF q
      <3>8. q \in Seq(1 .. s.accepted)  BY <3>3, <3>7, SeqDef
      <3> QED BY <3>4, <3>8 DEF q
    <2> QED BY <2>1, <2>2
  <1>4. s.last.id \in {s.segments, s.segments - 1, 0}  BY <1>0 DEF ShowFits, Numbered
  <1> QED BY <1>0, <1>2, <1>3, <1>4 DEF OperationTypeOK, OpRecord, Base

LEMMA TypesFollow == RecognitionInv => RecognitionTypeOK
  <1> SUFFICES ASSUME RecognitionInv PROVE RecognitionTypeOK  OBVIOUS
  <1>1. ASSUME NEW o \in Ops PROVE OperationTypeOK(ops[o])
    <2>1. kind \in Kinds /\ OpFit(ops[o], kind)  BY Known
    <2> QED BY <2>1, OperationTyped
  <1>2. recognizer \in [options : 0 .. MaxOps, stream : 0 .. MaxOps, finished : BOOLEAN]
    <2> DEFINE n == Len(ops)
    <2>1. n \in Nat /\ n <= MaxOps /\ MaxOps \in Nat
      BY LenProperties, RecognitionAssumption DEF RecognitionInv
    <2>2. recognizer \in [options : 0 .. n, stream : 0 .. n, finished : BOOLEAN]
      BY DEF RecognitionInv, RecognizerFits
    <2> HIDE DEF n
    <2>3. 0 .. n \subseteq 0 .. MaxOps  BY <2>1
    <2> QED BY <2>2, <2>3
  <1> QED BY <1>1, <1>2 DEF RecognitionInv, RecognitionTypeOK

\* Where an operation stands when it waits for a command.
LEMMA Commands ==
  ASSUME RecognitionInv, NEW o \in Ops, Command(o) # "none"
  PROVE  \/ /\ ops[o].kind = "session" /\ Pumping(ops[o]) /\ Command(o) = ops[o].pump /\ ops[o].at = "live"
         \/ /\ Command(o) = ops[o].at
            /\ ops[o].at \in {"configure", "open", "push", "reset", "decode", "close"}
  <1>1. Placed(ops[o], kind)  BY Known
  <1> QED BY <1>1 DEF Command, Placed, Pumping

LEMMA ObeyedFollows == RecognitionInv => RecognizerIsObeyed
  <1> SUFFICES ASSUME RecognitionInv PROVE RecognizerIsObeyed  OBVIOUS
  <1>1. ASSUME NEW o \in Ops, NEW p \in Ops, Command(o) # "none", Command(p) # "none" PROVE o = p
    <2>1. ops[o].at \notin {"queued", "over"} /\ ops[p].at \notin {"queued", "over"}
      <3>1. ops[o].at \notin {"queued", "over"}  BY <1>1, Commands
      <3>2. ops[p].at \notin {"queued", "over"}  BY <1>1, Commands
      <3> QED BY <3>1, <3>2
    <2> QED BY <2>1, OnlyOne
  <1>2. ASSUME unload \in {"asked", "done"}, NEW o \in Ops PROVE Command(o) = "none"
    <2>1. ops[o].at = "over"  BY <1>2 DEF RecognitionInv, InTurn
    <2> QED BY <2>1, Commands
  <1>3. ASSUME ~dead, NEW o \in Ops, Command(o) # "none" PROVE Obeyed(o)
    <2> DEFINE s == ops[o]  c == Command(o)
    <2>1. /\ kind \in Kinds /\ OpFit(s, kind) /\ Placed(s, kind) /\ s.kind \in {"file", "session"}
          /\ UsesRight(o, s, recognizer, kind)
      BY <1>3, Known DEF OpRecord
    <2>2. CASE s.kind = "session" /\ Pumping(s) /\ c = s.pump /\ s.at = "live"
      <3>1. c \notin {"configure", "open"} /\ recognizer.options = o  BY <2>1, <2>2 DEF Pumping, UsesRight
      <3>2. c \in {"push", "reset"} => recognizer.stream = o /\ ~recognizer.finished
        <4>1. c \in {"push", "reset"} => kind = "online"  BY <2>1, <2>2 DEF Placed, Kinds
        <4> QED BY <2>1, <2>2, <4>1 DEF UsesRight, Through
      <3>3. c \in {"decode", "reference"} => Len(s.chunk) \in 1 .. Window
        BY <2>1, <2>2 DEF OpFit, Fits, SessionFits, Chunk
      <3> QED BY <3>1, <3>2, <3>3 DEF Obeyed
    <2>3. CASE c = s.at /\ s.at \in {"configure", "open", "push", "reset", "decode", "close"}
      <3>1. c \in {"configure", "open"} => recognizer.stream = 0  BY <2>1, <2>3 DEF UsesRight
      <3>2. c \in {"open", "push", "reset", "decode", "reference"} => recognizer.options = o
        BY <2>1, <2>3 DEF UsesRight
      <3>3. c \in {"push", "reset"} => recognizer.stream = o /\ ~recognizer.finished
        BY <2>1, <2>3 DEF UsesRight
      <3>4. c \in {"decode", "reference"} => Len(s.chunk) \in 1 .. Window
        <4>1. c = "decode" => s.kind = "file"  BY <2>1, <2>3 DEF Placed
        <4> QED BY <2>1, <2>3, <4>1 DEF OpFit, Fits, FileFits
      <3> QED BY <3>1, <3>2, <3>3, <3>4 DEF Obeyed
    <2> QED BY <1>3, <2>2, <2>3, Commands
  <1> QED BY <1>1, <1>2, <1>3 DEF RecognizerIsObeyed

LEMMA CompleteFollows == RecognitionInv => CompleteIsHeard
  <1> SUFFICES ASSUME RecognitionInv, NEW o \in Ops, ops[o].result = "complete"
               PROVE  ops[o].heard = ops[o].accepted /\ (kind = "offline" => ops[o].hypothesis = NoText)
    BY DEF CompleteIsHeard
  <1> DEFINE s == ops[o]
  <1>1. OpFit(s, kind) /\ s \in OpRecord /\ s.kind \in {"file", "session"}  BY Known DEF OpRecord
  <1>2. CASE s.kind = "session"  BY <1>1, <1>2 DEF OpFit, Fits, SessionFits, Bounded
  <1>3. CASE s.kind = "file"
    <2>1. /\ s.length = 0 /\ s.chunk = <<>> /\ s.hypothesis = NoText
          /\ s.heard + Len(s.chunk) + s.length = s.accepted
      BY <1>1, <1>3 DEF OpFit, Fits, FileFits
    <2>2. Len(s.chunk) = 0 /\ s.heard \in Nat  BY <1>1, <2>1 DEF OpRecord
    <2> QED BY <2>1, <2>2
  <1> QED BY <1>1, <1>2, <1>3

LEMMA DisplayFollows == RecognitionInv => DisplayIsTrue
  <1> SUFFICES ASSUME RecognitionInv, NEW o \in Ops
               PROVE  LET s == ops[o] IN
                      /\ s.hypothesis = (IF s.last.id = s.segments /\ ~s.last.final THEN s.last.text ELSE NoText)
                      /\ kind = "offline" /\ s.queue # <<>> => s.queue[1] = s.windowStart + 1
    BY DEF DisplayIsTrue
  <1> DEFINE s == ops[o]
  <1>1. kind \in Kinds /\ OpFit(s, kind) /\ s \in OpRecord /\ s.kind \in {"file", "session"}
    BY Known DEF OpRecord
  <1>2. s.hypothesis = (IF s.last.id = s.segments /\ ~s.last.final THEN s.last.text ELSE NoText)
    BY <1>1 DEF OpFit, Fits, ShowFits
  <1>3. ASSUME kind = "offline", s.queue # <<>> PROVE s.queue[1] = s.windowStart + 1
    <2>1. s.kind = "session" /\ ~s.terminal
      BY <1>1, <1>3 DEF OpFit, Fits, FileFits, SessionFits, Bounded
    <2>2. Ordered(s) /\ Windowed(s)  BY <1>1, <1>3, <2>1 DEF OpFit, Fits, SessionFits, Emptied
    <2> DEFINE l == Len(s.queue)  a == s.accepted - s.held - l
    <2>3. /\ s.accepted \in Nat /\ s.held \in Nat /\ l \in Nat /\ s.windowStart \in Nat
          /\ s.queue \in Seq(Nat)
      BY <1>1, Counts
    <2>4. s.queue = Run(a, l) /\ s.windowStart + l + s.held = s.accepted  BY <2>2 DEF Ordered, Windowed
    <2>5. a = s.windowStart  BY ONLY <2>3, <2>4
    <2>6. l >= 1
      <3>1. l # 0  BY <1>3, <2>3, EmptyLen
      <3> QED BY <2>3, <3>1
    <2> HIDE DEF l, a
    <2>7. 1 \in 1 .. l  BY <2>3, <2>6
    <2>8. \A i \in 1 .. l : Run(a, l)[i] = a + i  BY <2>3, <2>5, RunParts
    <2> QED BY <2>4, <2>5, <2>7, <2>8
  <1> QED BY <1>2, <1>3

LEMMA MicrophoneFollows == RecognitionInv => MicrophoneIsReleased
  <1> SUFFICES ASSUME RecognitionInv, NEW o \in Ops
               PROVE  LET s == ops[o] IN
                      /\ NoLeak(s.mic)
                      /\ (s.terminal \/ s.ending) /\ s.mic.at # "none" => s.mic.stopped /\ s.capture # "held"
    BY DEF MicrophoneIsReleased
  <1>1. MicFits(ops[o])  BY Known DEF Fits, Base
  <1> QED BY <1>1 DEF MicFits

LEMMA BacklogFollows == RecognitionInv => BacklogBounded
  <1> SUFFICES ASSUME RecognitionInv, NEW o \in Live, ~ops[o].ending
               PROVE  ops[o].accepted - ops[o].held - ops[o].heard <= MaxBuffered
    BY DEF BacklogBounded
  <1>1. o \in Ops /\ ops[o].kind = "session" /\ ~ops[o].terminal  BY DEF Live
  <1>2. OpFit(ops[o], kind)  BY <1>1, Known
  <1> QED BY <1>1, <1>2 DEF OpFit, Limited

\* A pump that returns at the end leaves nothing unheard and nothing provisional.
LEMMA LateEndFollows == RecognitionInv /\ [RecognitionNext]_rvars => LateEndOnly
  <1> SUFFICES ASSUME RecognitionInv, [RecognitionNext]_rvars, NEW o \in Ops,
                      ops[o].pump # "returned", ops'[o].pump = "returned", ~ops'[o].terminal,
                      ops'[o].ending, ops'[o].queue = <<>>
               PROVE  ops'[o].hypothesis = NoText /\ ops'[o].heard = ops'[o].accepted
    BY DEF LateEndOnly
  <1> DEFINE s == ops'[o]
  <1>1. Onward  BY RecognitionGoesOn
  <1>2. Tidy(s) /\ o \in Ops' /\ RecognitionInv'  BY <1>1 DEF Onward
  <1>3. kind' \in Kinds /\ OpFit(s, kind')  BY <1>2 DEF RecognitionInv, Kinds
  <1>4. s.kind = "session"  BY <1>3 DEF OpFit, Fits, Placed
  <1> HIDE DEF s
  <1> DEFINE k == kind'
  <1>5. k \in Kinds /\ OpFit(s, k)  BY <1>3
  <1> HIDE DEF k
  <1>6. s.pump = "returned" /\ ~s.terminal /\ s.ending /\ s.queue = <<>>  BY DEF s
  <1>7. s.heard = s.accepted  BY <1>4, <1>5, <1>6, HeardAll
  <1>8. s.hypothesis = NoText  BY <1>2, <1>6 DEF Tidy
  <1> QED BY <1>7, <1>8 DEF s

\* The inductive invariant: recordings and sessions work one after the other,
\* each where its audio, its display and the recognizer let it be, from its
\* place in the tail promise to the end of its stream (model.ts:153).
THEOREM RecognitionInvariant == RecognitionSpec => []RecognitionInv
  <1>1. RecognitionInv /\ [RecognitionNext]_rvars => RecognitionInv'  BY RecognitionGoesOn DEF Onward
  <1> QED BY <1>1, RecognitionStarts, PTL DEF RecognitionSpec

\* The types of SttModelOwner, FileTranscription and LiveSession, for any
\* lengths of recordings, windows and limits.
THEOREM RecognitionTypeCorrect == RecognitionSpec => []RecognitionTypeOK
  BY RecognitionInvariant, TypesFollow, PTL

\* No operation uses the recognizer while another does, and it is never told
\* what it cannot obey: to configure with a stream open, to decode more than a
\* window, or a push to a stream that is finished or another's (model.ts:115).
THEOREM RecognizerObeyed == RecognitionSpec => []RecognizerIsObeyed
  BY RecognitionInvariant, ObeyedFollows, PTL

\* What is complete was heard in full and in order, and a windowed session has
\* made its text final; a pump that returned at the end has left nothing
\* provisional either, so that the text of an incremental one is left so only
\* by an end asked for before pump() looks again; what is displayed is the
\* hypothesis, the microphone of what ends is released whatever it answers, and
\* the audio a session is behind stays within its limit (session.ts:190).
THEOREM SessionsTrue == RecognitionSpec => SessionsAreTrue
  <1>1. RecognitionInv => SessionInvariants
    BY CompleteFollows, DisplayFollows, MicrophoneFollows, BacklogFollows DEF SessionInvariants
  <1>2. RecognitionInv /\ [RecognitionNext]_rvars => LateEndOnly  BY LateEndFollows
  <1>3. RecognitionSpec => []SessionInvariants  BY <1>1, RecognitionInvariant, PTL
  <1>4. SessionInvariants' /\ RecognitionInv /\ [RecognitionNext]_rvars
          => [SessionInvariants' /\ LateEndOnly]_rvars
    BY <1>2
  <1> QED BY <1>3, <1>4, RecognitionInvariant, PTL DEF SessionsAreTrue, RecognitionSpec
=============================================================================
