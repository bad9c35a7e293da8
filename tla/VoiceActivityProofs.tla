------------------------- MODULE VoiceActivityProofs -------------------------
(***************************************************************************)
(* Theorems about voice activity (wfloat-web vad-next), for any            *)
(* recordings, sessions, lengths of frames, durations and scores: what the *)
(* segmenter reports is the speech, the scorer is always at the point      *)
(* where the next frame belongs, and a shared microphone is heard by all.  *)
(***************************************************************************)
EXTENDS VoiceActivity, FiniteSetTheorems, SequenceTheorems, TLAPS

----------------------------------------------------------------------------
(* The invariant of a segmenter. *)

Segment == [start : Nat, end : Nat, audio : Seq(Nat)]
RecordOf(X, Y) ==
  [position : Nat, candidate : Int, active : Int, silence : Int, previousEnd : Nat,
   segments : X, retained : Y, retainedStart : Nat]
SegmenterRecord == RecordOf(Seq(Segment), Seq(Nat))

Fields(g) ==
  /\ g \in SegmenterRecord
  /\ {g.candidate, g.active, g.silence} \subseteq -1 .. g.position
  /\ g.previousEnd <= g.position

\* Where speech under way, or perhaps under way, stands.
Placed(g) ==
  /\ g.active = Unset =>
       g.silence = Unset /\ (g.candidate # Unset => g.previousEnd <= g.candidate)
  /\ g.active # Unset =>
       /\ g.candidate # Unset /\ g.previousEnd <= g.active /\ g.active <= g.candidate
       /\ g.silence # Unset => g.candidate <= g.silence

\* The audio that may still be needed is kept.
AudioKept(g) ==
  /\ g.retainedStart <= g.position
  /\ g.retained = UnitsAfter(g.retainedStart, g.position)
  /\ g.retainedStart = Needed(g)

SegmentsOK(g) == WellFormed(g) /\ \A i \in DOMAIN g.segments : g.segments[i].end <= g.previousEnd

Sound(g) == Fields(g) /\ Placed(g) /\ AudioKept(g) /\ SegmentsOK(g)

\* The frames it was fed: none is empty, each begins where the last one ended.
FramesFit(g, ends, scores) ==
  /\ ends \in Seq(Nat) /\ scores \in Seq(Scores) /\ Len(ends) = Len(scores)
  /\ \A k \in 1 .. Len(scores) : StartOfFrame(ends, k) <= ends[k]
  /\ \A i, j \in 1 .. Len(scores) + 1 : i <= j => StartOfFrame(ends, i) <= StartOfFrame(ends, j)
  /\ g.position = StartOfFrame(ends, Len(scores) + 1)

\* The speech under way began, perhaps, with frame i.
Begun(g, ends, scores, i) ==
  g.candidate = StartOfFrame(ends, i) /\ (i = 1 \/ scores[i - 1] # "speech")
\* It has been speech ever since, but not for long enough.
Tentative(g, ends, scores, i) ==
  (\A k \in i .. Len(scores) : scores[k] = "speech") /\ g.position - g.candidate < MinSpeech
\* It lasted; since frame k there was silence only, and not for long.
Confirmed(g, ends, scores, i, k) ==
  /\ g.active \in g.candidate - Padding .. g.candidate
  /\ \E j \in i .. Len(scores) : Lasts(ends, scores, i, j, "speech", MinSpeech)
  /\ scores[k] # "silence" /\ \A m \in k + 1 .. Len(scores) : scores[m] = "silence"
  /\ g.silence = IF k = Len(scores) THEN Unset ELSE ends[k]
  /\ ~\E a, b \in i .. Len(scores) : a <= b /\ Lasts(ends, scores, a, b, "silence", MinSilence)
UnderWay(g, ends, scores) ==
  LET n == Len(scores) IN
  /\ g.candidate = Unset => n = 0 \/ scores[n] # "speech"
  /\ g.candidate # Unset =>
       \E i \in 1 .. n :
          /\ Begun(g, ends, scores, i)
          /\ IF g.active = Unset THEN Tentative(g, ends, scores, i)
             ELSE \E k \in i .. n : Confirmed(g, ends, scores, i, k)

Covers(r, ends, i, j) == r.start <= StartOfFrame(ends, i) /\ ends[j] <= r.end
\* Speech that lasts is in a range, or in what will be the next one.
Found(g, ends, scores) ==
  \A i, j \in 1 .. Len(scores) : i <= j /\ Lasts(ends, scores, i, j, "speech", MinSpeech) =>
     \/ \E r \in 1 .. Len(g.segments) : Covers(g.segments[r], ends, i, j)
     \/ /\ g.active # Unset /\ g.active <= StartOfFrame(ends, i)
        /\ ends[j] <= IF g.silence = Unset THEN g.position ELSE g.silence
\* Nothing else is in a range.
Based(g, ends, scores) ==
  \A r \in 1 .. Len(g.segments) : \E i, k \in 1 .. Len(scores) :
     i <= k /\ ComesFrom(g.segments[r], ends, scores, i, k)

Heard(g, ends, scores) ==
  /\ FramesFit(g, ends, scores) /\ UnderWay(g, ends, scores)
  /\ Found(g, ends, scores) /\ Based(g, ends, scores)

----------------------------------------------------------------------------
(* The invariant of an operation. *)

OpRecord ==
  [kind : {"file", "session"}, at : Stages, terminal : BOOLEAN, result : Results, ending : BOOLEAN,
   pump : {"idle", "score", "settle"}, queue : Seq(Nat), frame : Seq(Nat), accepted : Nat, held : 0 .. 1,
   source : {"none", "external", "owned", "shared"}, capture : {"none", "starting", "held"},
   mic : CaptureRecord, closing : BOOLEAN, attached : BOOLEAN, seg : SegmenterRecord,
   ends : Seq(Nat), scores : Seq(Scores)]

\* The microphone of an operation that ends or has ended is stopped; who has
\* not asked for one has none.
MicFits(s) ==
  /\ NoLeak(s.mic)
  /\ (s.terminal \/ s.ending) /\ s.mic.at # "none" => s.mic.stopped
  /\ ~s.terminal /\ s.source # "owned" => s.mic.at = "none" /\ s.mic.promise = "pending"

\* Where it stands.
StandsRight(s) ==
  /\ s \in OpRecord /\ (s.terminal <=> s.result # "none")
  /\ s.pump # "idle" => s.at = "live"
  /\ s.at = "over" => s.terminal
  /\ s.kind = "file" => s.source = "none"
  /\ s.kind = "session" /\ s.source = "none" => s.accepted = 0
  /\ s.at \notin {"live", "over"} => s.source = "none" /\ ~s.ending

\* Whether it listens to the shared capture.
ListensRight(s) ==
  s.attached <=> s.source = "shared" /\ ~s.terminal /\ ~s.ending

\* Where the audio of an operation is: what was scored, what is being scored
\* and what is queued, in order.
Queued(s) ==
  /\ s.seg.position + Len(s.frame) <= s.accepted - s.held
  /\ s.frame = UnitsAfter(s.seg.position, s.seg.position + Len(s.frame))
  /\ s.queue = UnitsAfter(s.seg.position + Len(s.frame), s.accepted - s.held)
Unheard(s) ==
  s.seg.position = 0 /\ s.queue = <<>> /\ s.held = 0 /\ s.scores = <<>>
AudioFits(s) ==
  /\ Len(s.frame) <= FrameSize /\ (s.pump # "score" => s.frame = <<>>)
  /\ s.seg.position <= s.accepted /\ WellFormed(s.seg)
  /\ s.terminal => s.queue = <<>>
  /\ ~s.terminal =>
       /\ Sound(s.seg) /\ Heard(s.seg, s.ends, s.scores)
       /\ s.at # "live" => Unheard(s)
       /\ s.at = "live" => Queued(s)
       /\ s.ending => s.held = 0
  /\ s.result = "complete" /\ s.at = "live" =>
       s.seg.position = s.accepted /\ SpeechIsFound(s.seg, s.ends, s.scores)

OpFit(s) == StandsRight(s) /\ MicFits(s) /\ ListensRight(s) /\ AudioFits(s)

----------------------------------------------------------------------------
(* The invariant of the model. *)

\* What the scorer must know of an operation whose frames it scores.
AtWork(s) == s.at = "live" /\ (~s.terminal \/ s.pump = "score")
ScorerFits ==
  /\ scorer.of \in 0 .. Len(ops) /\ scorer.frames \in Nat
  /\ ~dead => \A o \in Ops : AtWork(ops[o]) => scorer = [of |-> o, frames |-> Len(ops[o].scores)]
InTurn ==
  /\ \A o, p \in Ops : o < p /\ ops[p].at # "queued" => ops[o].at = "over"
  /\ unload \in {"asked", "done"} => \A o \in Ops : ops[o].at = "over"

SharedRecord ==
  [state : HelperStates, consumers : SUBSET Nat, mic : CaptureRecord,
   held : BOOLEAN, answered : BOOLEAN, heard : Nat]
\* What the shared capture knows of an operation.
Serves(h, o, s) ==
  /\ o \in h.consumers => s.attached /\ s.accepted = h.heard
  /\ s.attached => o \in h.consumers \/ h.state = "stopped"
HelperFits(h) ==
  /\ h \in SharedRecord /\ NoLeak(h.mic)
  /\ h.state = "prepared" => h.heard = 0
  /\ Terminal(h) => h.consumers = {} /\ (h.mic.at # "none" => h.mic.stopped)
SharedFits ==
  /\ HelperFits(shared) /\ shared.consumers \subseteq Ops \cup {Other}
  /\ \A o \in Ops : Serves(shared, o, ops[o])

ListeningInv ==
  /\ dead \in BOOLEAN /\ unload \in {"no", "queued", "asked", "done"}
  /\ ops \in Seq(OpRecord) /\ Len(ops) <= MaxOps
  /\ \A o \in Ops : OpFit(ops[o])
  /\ InTurn /\ ScorerFits /\ SharedFits

----------------------------------------------------------------------------
(* Lemmas about extrema and units of audio. *)

LEMMA MaxOfTwo ==
  ASSUME NEW a \in Int, NEW b \in Int
  PROVE  Max({a, b}) = IF a >= b THEN a ELSE b
  BY SMT DEF Max

LEMMA MinOfTwo ==
  ASSUME NEW a \in Int, NEW b \in Int
  PROVE  Min({a, b}) = IF a <= b THEN a ELSE b
  BY SMT DEF Min

LEMMA MaxOfThree ==
  ASSUME NEW a \in Int, NEW b \in Int, NEW c \in Int
  PROVE  Max({a, b, c}) = IF a >= b THEN IF a >= c THEN a ELSE c ELSE IF b >= c THEN b ELSE c
  BY SMT DEF Max

LEMMA UnitsParts ==
  ASSUME NEW a \in Nat, NEW b \in Nat, a <= b
  PROVE  /\ UnitsAfter(a, b) \in Seq(Nat) /\ Len(UnitsAfter(a, b)) = b - a
         /\ \A i \in 1 .. b - a : UnitsAfter(a, b)[i] = a + i
  <1> DEFINE n == b - a  U == [i \in 1 .. n |-> a + i]
  <1>1. n \in Nat /\ UnitsAfter(a, b) = U  BY DEF UnitsAfter
  <1> HIDE DEF n
  <1>2. U \in [1 .. n -> Nat] /\ DOMAIN U = 1 .. n /\ \A i \in 1 .. n : U[i] = a + i  BY <1>1
  <1> HIDE DEF U
  <1>3. U \in Seq(Nat)  BY <1>1, <1>2, SeqDef
  <1>4. Len(U) \in Nat /\ 1 .. Len(U) = 1 .. n  BY <1>2, <1>3, LenProperties
  <1>5. Len(U) = n
    <2>1. CASE Len(U) < n
      <3>1. n \in 1 .. n /\ n \notin 1 .. Len(U)  BY <1>1, <1>4, <2>1
      <3> QED BY <1>4, <3>1
    <2>2. CASE n < Len(U)
      <3>1. Len(U) \in 1 .. Len(U) /\ Len(U) \notin 1 .. n  BY <1>1, <1>4, <2>2
      <3> QED BY <1>4, <3>1
    <2> QED BY <1>1, <1>4, <2>1, <2>2
  <1> QED BY <1>1, <1>2, <1>3, <1>5 DEF n

LEMMA NoUnits == ASSUME NEW a \in Nat PROVE UnitsAfter(a, a) = <<>>
  <1>1. UnitsAfter(a, a) \in Seq(Nat) /\ Len(UnitsAfter(a, a)) = a - a  BY UnitsParts
  <1>2. Len(UnitsAfter(a, a)) = 0  BY <1>1
  <1> QED BY <1>1, <1>2, EmptySeq

LEMMA UnitsJoin ==
  ASSUME NEW a \in Nat, NEW b \in Nat, NEW c \in Nat, a <= b, b <= c
  PROVE  UnitsAfter(a, b) \o UnitsAfter(b, c) = UnitsAfter(a, c)
  <1> DEFINE L == UnitsAfter(a, b)  R == UnitsAfter(b, c)  W == UnitsAfter(a, c)
  <1>a. a <= c  OBVIOUS
  <1>b. L \in Seq(Nat) /\ Len(L) = b - a /\ \A i \in 1 .. b - a : L[i] = a + i  BY UnitsParts
  <1>c. R \in Seq(Nat) /\ Len(R) = c - b /\ \A i \in 1 .. c - b : R[i] = b + i  BY UnitsParts
  <1>d. W \in Seq(Nat) /\ Len(W) = c - a /\ \A i \in 1 .. c - a : W[i] = a + i  BY <1>a, UnitsParts
  <1> HIDE DEF L, R, W
  <1>2. /\ L \o R \in Seq(Nat) /\ Len(L \o R) = c - a
        /\ \A i \in 1 .. c - a : (L \o R)[i] = IF i <= b - a THEN L[i] ELSE R[i - (b - a)]
    <2>1. /\ L \o R \in Seq(Nat) /\ Len(L \o R) = Len(L) + Len(R)
          /\ \A i \in 1 .. Len(L) + Len(R) : (L \o R)[i] = IF i <= Len(L) THEN L[i] ELSE R[i - Len(L)]
      BY <1>b, <1>c, ConcatProperties
    <2>2. Len(L) = b - a /\ Len(R) = c - b /\ (b - a) + (c - b) = c - a  BY <1>b, <1>c
    <2> QED BY <2>1, <2>2
  <1>3. ASSUME NEW i \in 1 .. c - a PROVE (L \o R)[i] = W[i]
    <2>1. CASE i <= b - a
      <3>1. i \in 1 .. b - a  BY <2>1
      <3> QED BY <1>b, <1>c, <1>d, <1>2, <2>1, <3>1
    <2>2. CASE ~(i <= b - a)
      <3>1. i - (b - a) \in 1 .. c - b  BY <2>2
      <3> QED BY <1>b, <1>c, <1>d, <1>2, <2>2, <3>1
    <2> QED BY <2>1, <2>2
  <1>4. L \o R = W  BY <1>b, <1>c, <1>d, <1>2, <1>3, SeqEqual
  <1> QED BY <1>4 DEF L, R, W

LEMMA UnitsBetween ==
  ASSUME NEW a \in Nat, NEW b \in Nat, NEW c \in Nat, NEW d \in Nat, a <= c, c <= d, d <= b,
         NEW k \in Nat, NEW n \in Nat, k = c - a + 1, n = d - a
  PROVE  SubSeq(UnitsAfter(a, b), k, n) = UnitsAfter(c, d)
  <1> DEFINE U == UnitsAfter(a, b)  V == UnitsAfter(c, d)
  <1>1. U \in Seq(Nat) /\ Len(U) = b - a /\ \A i \in 1 .. b - a : U[i] = a + i
    <2>1. a <= b  OBVIOUS
    <2> QED BY <2>1, UnitsParts
  <1>2. V \in Seq(Nat) /\ Len(V) = d - c /\ \A i \in 1 .. d - c : V[i] = c + i  BY UnitsParts
  <1> HIDE DEF U, V
  <1>3. \A i \in k .. n : U[i] \in Nat  BY <1>1
  <1>4. /\ SubSeq(U, k, n) \in Seq(Nat)
        /\ Len(SubSeq(U, k, n)) = IF k <= n THEN n - k + 1 ELSE 0
        /\ \A i \in 1 .. n - k + 1 : SubSeq(U, k, n)[i] = U[k + i - 1]
    <2>1. k \in Int /\ n \in Int  OBVIOUS
    <2> QED BY <1>3, <2>1, SubSeqProperties
  <1>5. n - k + 1 = d - c /\ (IF k <= n THEN n - k + 1 ELSE 0) = d - c  OBVIOUS
  <1>6. \A i \in 1 .. d - c : U[k + i - 1] = c + i
    <2>1. \A i \in 1 .. d - c : k + i - 1 \in 1 .. b - a /\ a + (k + i - 1) = c + i  OBVIOUS
    <2> QED BY <1>1, <2>1
  <1> DEFINE S == SubSeq(U, k, n)
  <1>7. S \in Seq(Nat) /\ Len(S) = d - c /\ \A i \in 1 .. d - c : S[i] = c + i
    BY <1>4, <1>5, <1>6
  <1> HIDE DEF S
  <1>8. S = V  BY <1>2, <1>7, SeqEqual
  <1> QED BY <1>8 DEF S, U, V

LEMMA UnitsPast ==
  ASSUME NEW a \in Nat, NEW b \in Nat, NEW c \in Nat, NEW n \in Nat, a <= c, c <= b, n = c - a
  PROVE  Past(UnitsAfter(a, b), n) = UnitsAfter(c, b)
  <1> DEFINE k == n + 1  l == b - a
  <1>1. a <= b /\ k \in Nat /\ l \in Nat /\ b <= b /\ k = c - a + 1  OBVIOUS
  <1>2. Len(UnitsAfter(a, b)) = l  BY <1>1, UnitsParts
  <1>3. Past(UnitsAfter(a, b), n) = SubSeq(UnitsAfter(a, b), k, l)  BY <1>2 DEF Past
  <1>4. l = b - a  OBVIOUS
  <1> HIDE DEF k, l
  <1>5. SubSeq(UnitsAfter(a, b), k, l) = UnitsAfter(c, b)  BY <1>1, <1>4, UnitsBetween
  <1> QED BY <1>3, <1>5

\* The clip of a range within what is retained.
LEMMA ClipIs ==
  ASSUME NEW r \in Nat, NEW a \in Nat, NEW e \in Nat, NEW p \in Nat, r <= a, a <= e, e <= p
  PROVE  Past(SubSeq(UnitsAfter(r, p), 1, e - r), a - r) = UnitsAfter(a, e)
  <1> DEFINE n == e - r  m == a - r
  <1>1. n \in Nat /\ n = e - r /\ m \in Nat /\ m = a - r /\ r <= r /\ r <= e /\ 1 \in Nat /\ 1 = r - r + 1
    OBVIOUS
  <1> HIDE DEF n, m
  <1>2. SubSeq(UnitsAfter(r, p), 1, n) = UnitsAfter(r, e)  BY <1>1, UnitsBetween
  <1>3. Past(UnitsAfter(r, e), m) = UnitsAfter(a, e)  BY <1>1, UnitsPast
  <1> QED BY <1>2, <1>3 DEF n, m

----------------------------------------------------------------------------
(* The ranges of a segmenter. *)

\* What Needed comes to.
LEMMA NeededIs ==
  ASSUME NEW g, Fields(g)
  PROVE  /\ g.active # Unset => Needed(g) = g.active
         /\ g.active = Unset =>
              LET c == (IF g.candidate # Unset THEN g.candidate ELSE g.position) - Padding IN
              Needed(g) = IF g.previousEnd >= c THEN g.previousEnd ELSE c
  <1> DEFINE c == (IF g.candidate # Unset THEN g.candidate ELSE g.position) - Padding
  <1>1. c \in Int /\ g.previousEnd \in Nat
    BY SegmenterAssumption DEF Fields, SegmenterRecord, RecordOf
  <1>2. g.active = Unset => Needed(g) = Max({g.previousEnd, 0, c})  BY DEF Needed
  <1> HIDE DEF c
  <1>3. Max({g.previousEnd, 0, c}) = IF g.previousEnd >= c THEN g.previousEnd ELSE c
    BY <1>1, MaxOfThree
  <1>4. g.active # Unset => Needed(g) = g.active  BY DEF Needed
  <1> QED BY <1>2, <1>3, <1>4 DEF c

LEMMA InitSound == Sound(NewSegmenter)
  <1> DEFINE g == NewSegmenter
  <1>1. Fields(g)
    <2>1. <<>> \in Seq(Segment) /\ <<>> \in Seq(Nat)  BY EmptySeq
    <2> QED BY <2>1 DEF NewSegmenter, Fields, SegmenterRecord, RecordOf, Unset
  <1>2. Placed(g)  BY DEF Placed, NewSegmenter, Unset
  <1>3. AudioKept(g)
    <2>1. Needed(g) = 0
      BY <1>1, NeededIs, SegmenterAssumption DEF NewSegmenter, Unset
    <2>2. UnitsAfter(0, 0) = <<>>
      <3>1. UnitsAfter(0, 0) \in Seq(Nat) /\ Len(UnitsAfter(0, 0)) = 0  BY UnitsParts
      <3> QED BY <3>1, EmptySeq
    <2> QED BY <2>1, <2>2 DEF AudioKept, NewSegmenter
  <1>4. SegmentsOK(g)
    <2>1. DOMAIN g.segments = {} /\ Len(g.segments) = 0  BY DEF NewSegmenter
    <2> QED BY <2>1 DEF SegmentsOK, WellFormed
  <1> QED BY <1>1, <1>2, <1>3, <1>4 DEF Sound

\* trim() drops what is not needed and changes nothing else.
LEMMA TrimSound ==
  ASSUME NEW g, Fields(g), Placed(g), SegmentsOK(g),
         g.retained = UnitsAfter(g.retainedStart, g.position),
         g.retainedStart <= Needed(g), Needed(g) <= g.position
  PROVE  /\ Sound(Trim(g))
         /\ Trim(g).position = g.position /\ Trim(g).candidate = g.candidate
         /\ Trim(g).active = g.active /\ Trim(g).silence = g.silence
         /\ Trim(g).segments = g.segments
  <1> DEFINE h == Trim(g)  n == Needed(g)
  <1>1. n \in Nat /\ g.position \in Nat /\ g.retainedStart \in Nat
    <2>1. /\ g.position \in Nat /\ g.retainedStart \in Nat /\ g.previousEnd \in Nat
          /\ g.active \in Int /\ g.active >= -1 /\ g.candidate \in Int /\ Padding \in Nat
      BY SegmenterAssumption DEF Fields, SegmenterRecord, RecordOf
    <2>2. CASE g.active # Unset  BY <2>1, <2>2, NeededIs DEF Unset
    <2>3. CASE g.active = Unset
      <3> DEFINE c == (IF g.candidate # Unset THEN g.candidate ELSE g.position) - Padding
      <3>1. c \in Int  BY <2>1
      <3>2. n = IF g.previousEnd >= c THEN g.previousEnd ELSE c  BY <2>3, NeededIs
      <3> HIDE DEF c, n
      <3> QED BY <2>1, <3>1, <3>2
    <2> QED BY <2>1, <2>2, <2>3
  <1>2. Max({0, n - g.retainedStart}) = n - g.retainedStart /\ n - g.retainedStart \in 0 .. g.position - g.retainedStart
    <2>1. n - g.retainedStart \in Int /\ n - g.retainedStart >= 0 /\ n - g.retainedStart <= g.position - g.retainedStart
      BY <1>1
    <2> QED BY <2>1, MaxOfTwo
  <1>3. Past(g.retained, n - g.retainedStart) = UnitsAfter(n, g.position)
    <2> DEFINE m == n - g.retainedStart
    <2>1. m \in Nat /\ m = n - g.retainedStart /\ g.retainedStart <= n /\ n <= g.position  BY <1>1
    <2> HIDE DEF m, n
    <2>2. Past(UnitsAfter(g.retainedStart, g.position), m) = UnitsAfter(n, g.position)
      BY <1>1, <2>1, UnitsPast
    <2> QED BY <2>2 DEF m
  <1>4. h = [g EXCEPT !.retained = UnitsAfter(n, g.position), !.retainedStart = n]
    BY <1>2, <1>3 DEF Trim
  <1>5. UnitsAfter(n, g.position) \in Seq(Nat)  BY <1>1, UnitsParts
  <1> HIDE DEF h, n
  <1>6. /\ h \in SegmenterRecord
        /\ h.position = g.position /\ h.candidate = g.candidate /\ h.active = g.active
        /\ h.silence = g.silence /\ h.previousEnd = g.previousEnd /\ h.segments = g.segments
        /\ h.retained = UnitsAfter(n, g.position) /\ h.retainedStart = n
    BY <1>1, <1>4, <1>5 DEF Fields, SegmenterRecord, RecordOf
  <1>7. Needed(h) = n  BY <1>6 DEF Needed, n
  <1>8. Fields(h) /\ Placed(h) /\ SegmentsOK(h)
    BY <1>6 DEF Fields, Placed, SegmentsOK, WellFormed
  <1>9. AudioKept(h)  BY <1>6, <1>7 DEF AudioKept, n
  <1> QED BY <1>6, <1>8, <1>9 DEF Sound, h

\* What SegmentsOK says, of the ranges alone.
RangesOK(ranges, position, previousEnd) ==
  /\ \A i \in 1 .. Len(ranges) :
       /\ ranges[i].start <= ranges[i].end /\ ranges[i].end <= position
       /\ ranges[i].audio = UnitsAfter(ranges[i].start, ranges[i].end)
       /\ ranges[i].end <= previousEnd
  /\ \A i \in 1 .. Len(ranges) - 1 : ranges[i].end <= ranges[i + 1].start

LEMMA SegmentsParts ==
  ASSUME NEW g, g.segments \in Seq(Segment)
  PROVE  SegmentsOK(g) <=> RangesOK(g.segments, g.position, g.previousEnd)
  <1>1. DOMAIN g.segments = 1 .. Len(g.segments)  BY LenProperties
  <1> QED BY <1>1, Zenon DEF SegmentsOK, WellFormed, RangesOK

\* A range may be added behind the others.
LEMMA OneMoreRange ==
  ASSUME NEW ranges \in Seq(Segment), NEW position \in Nat, NEW previousEnd \in Nat, NEW r \in Segment,
         RangesOK(ranges, position, previousEnd), previousEnd <= r.start, r.start <= r.end,
         r.end <= position, r.audio = UnitsAfter(r.start, r.end)
  PROVE  RangesOK(Append(ranges, r), position, r.end)
  <1> DEFINE more == Append(ranges, r)  n == Len(ranges)
  <1>1. /\ n \in Nat /\ Len(more) = n + 1 /\ more[n + 1] = r
        /\ \A i \in 1 .. n : more[i] = ranges[i] /\ ranges[i] \in Segment
    BY AppendProperties, LenProperties, ElementOfSeq
  <1>2. r.start \in Nat /\ r.end \in Nat /\ \A x \in Segment : x.start \in Nat /\ x.end \in Nat
    BY DEF Segment
  <1>3. \A i \in 1 .. n :
          /\ ranges[i].start <= ranges[i].end /\ ranges[i].end <= position
          /\ ranges[i].audio = UnitsAfter(ranges[i].start, ranges[i].end)
          /\ ranges[i].end <= previousEnd
    BY DEF RangesOK
  <1>4. \A i \in 1 .. n - 1 : ranges[i].end <= ranges[i + 1].start  BY DEF RangesOK
  <1> HIDE DEF more, n
  <1>5. ASSUME NEW i \in 1 .. Len(more)
        PROVE  /\ more[i].start <= more[i].end /\ more[i].end <= position
               /\ more[i].audio = UnitsAfter(more[i].start, more[i].end)
               /\ more[i].end <= r.end
    <2>1. CASE i = n + 1
      <3>1. more[i] = r  BY <1>1, <2>1
      <3> QED BY <1>2, <3>1
    <2>2. CASE i \in 1 .. n
      <3> DEFINE x == ranges[i]
      <3>1. more[i] = x /\ x \in Segment  BY <1>1, <2>2
      <3>2. /\ x.start <= x.end /\ x.end <= position
            /\ x.audio = UnitsAfter(x.start, x.end) /\ x.end <= previousEnd
        BY <1>3, <2>2
      <3> HIDE DEF x
      <3>3. x.end \in Nat  BY <1>2, <3>1
      <3>4. x.end <= r.end  BY <1>2, <3>2, <3>3
      <3> QED BY <3>1, <3>2, <3>4
    <2> QED BY <1>1, <2>1, <2>2
  <1>6. ASSUME NEW i \in 1 .. Len(more) - 1
        PROVE  more[i].end <= more[i + 1].start
    <2>1. i \in 1 .. n /\ more[i] = ranges[i] /\ ranges[i] \in Segment  BY <1>1
    <2>2. CASE i = n
      <3>1. more[i + 1] = r /\ ranges[i].end <= previousEnd  BY <1>1, <1>3, <2>1, <2>2
      <3>2. ranges[i].end \in Nat  BY <1>2, <2>1
      <3> QED BY <1>2, <2>1, <3>1, <3>2
    <2>3. CASE i \in 1 .. n - 1
      <3>1. i + 1 \in 1 .. n  BY <1>1, <2>3
      <3>2. more[i + 1] = ranges[i + 1]  BY <1>1, <3>1
      <3> QED BY <1>4, <2>1, <2>3, <3>2
    <2> QED BY <1>1, <2>1, <2>2, <2>3
  <1>7. RangesOK(more, position, r.end)  BY <1>5, <1>6, Zenon DEF RangesOK
  <1> QED BY <1>7 DEF more

\* The record after close(), whatever sequences it holds.
Closed(g, ranges, e) ==
  [g EXCEPT !.segments = ranges, !.previousEnd = e, !.active = Unset,
            !.candidate = Unset, !.silence = Unset]
LEMMA ClosedRecord ==
  ASSUME NEW X, NEW Y, NEW g \in RecordOf(X, Y), NEW ranges \in X, NEW e \in Nat
  PROVE  LET h == Closed(g, ranges, e) IN
         /\ h \in RecordOf(X, Y) /\ h.segments = ranges /\ h.previousEnd = e
         /\ h.active = Unset /\ h.candidate = Unset /\ h.silence = Unset
         /\ h.position = g.position /\ h.retained = g.retained /\ h.retainedStart = g.retainedStart
  <1> DEFINE h == Closed(g, ranges, e)
  <1>1. /\ h.segments = ranges /\ h.previousEnd = e
        /\ h.active = Unset /\ h.candidate = Unset /\ h.silence = Unset
        /\ h.position = g.position /\ h.retained = g.retained /\ h.retainedStart = g.retainedStart
    BY DEF Closed, RecordOf
  <1>2. h \in RecordOf(X, Y)
    <2>1. Unset \in Int  BY DEF Unset
    <2> DEFINE h1 == [g EXCEPT !.segments = ranges, !.previousEnd = e]
               h2 == [h1 EXCEPT !.active = Unset, !.candidate = Unset]
    <2>2. h1 \in RecordOf(X, Y)  BY DEF RecordOf
    <2>3. h = [h2 EXCEPT !.silence = Unset]  BY DEF Closed
    <2> HIDE DEF h, h1
    <2>4. h2 \in RecordOf(X, Y)  BY <2>1, <2>2 DEF RecordOf
    <2> HIDE DEF h2
    <2> QED BY <2>1, <2>3, <2>4 DEF RecordOf
  <1> QED BY <1>1, <1>2

\* close() adds a range with its audio, after all others.
LEMMA CloseSound ==
  ASSUME NEW g, Fields(g), Placed(g), SegmentsOK(g), g.active # Unset,
         g.retained = UnitsAfter(g.retainedStart, g.position),
         g.retainedStart <= g.active, NEW wanted \in Int
  PROVE  LET h == Close(g, wanted)  e == ClosedAt(g, wanted) IN
         /\ e = IF wanted <= g.active THEN g.active ELSE IF wanted <= g.position THEN wanted ELSE g.position
         /\ h.segments = Append(g.segments, [start |-> g.active, end |-> e, audio |-> UnitsAfter(g.active, e)])
         /\ h.active = Unset /\ h.candidate = Unset /\ h.silence = Unset
         /\ h.position = g.position /\ h.previousEnd = e
         /\ h.retained = g.retained /\ h.retainedStart = g.retainedStart
         /\ Fields(h) /\ Placed(h) /\ SegmentsOK(h)
  <1> DEFINE h == Close(g, wanted)  e == ClosedAt(g, wanted)  a == g.active
             range == [start |-> a, end |-> e, audio |-> UnitsAfter(a, e)]
  <1>1. /\ g \in SegmenterRecord /\ g.position \in Nat /\ g.previousEnd \in Nat /\ g.retainedStart \in Nat
        /\ a \in Nat /\ a <= g.position /\ g.previousEnd <= a /\ g.segments \in Seq(Segment)
    BY DEF Fields, Placed, SegmenterRecord, RecordOf, Unset
  <1>2. e = IF wanted <= a THEN a ELSE IF wanted <= g.position THEN wanted ELSE g.position
    <2> DEFINE m == Min({wanted, g.position})
    <2>1. m = IF wanted <= g.position THEN wanted ELSE g.position  BY <1>1, MinOfTwo
    <2>2. m \in Int  BY <1>1, <2>1
    <2>3. e = Max({a, m})  BY DEF ClosedAt
    <2> HIDE DEF m, a, e
    <2>4. e = IF a >= m THEN a ELSE m  BY <1>1, <2>2, <2>3, MaxOfTwo
    <2> QED BY <1>1, <2>1, <2>4
  <1>3. e \in Nat /\ a <= e /\ e <= g.position  BY <1>1, <1>2
  <1>4. Past(SubSeq(g.retained, 1, e - g.retainedStart), a - g.retainedStart) = UnitsAfter(a, e)
    <2>1. g.retainedStart <= a  OBVIOUS
    <2>2. g.retained = UnitsAfter(g.retainedStart, g.position)  OBVIOUS
    <2> HIDE DEF e, a
    <2> QED BY <1>1, <1>3, <2>1, <2>2, ClipIs
  <1>5. h = Closed(g, Append(g.segments, range), e)  BY <1>4 DEF Close, Closed
  <1>6. /\ range \in Segment /\ range.start = a /\ range.end = e /\ range.audio = UnitsAfter(a, e)
    BY <1>1, <1>3, UnitsParts DEF Segment
  <1>7. Append(g.segments, range) \in Seq(Segment)  BY <1>1, <1>6, AppendProperties
  <1> HIDE DEF range, h, e
  <1>8. /\ h \in SegmenterRecord /\ h.segments = Append(g.segments, range) /\ h.previousEnd = e
        /\ h.active = Unset /\ h.candidate = Unset /\ h.silence = Unset
        /\ h.position = g.position /\ h.retained = g.retained /\ h.retainedStart = g.retainedStart
    <2> DEFINE ranges == Append(g.segments, range)
    <2>1. ranges \in Seq(Segment)  BY <1>7
    <2> HIDE DEF ranges
    <2>2. h = Closed(g, ranges, e)  BY <1>5 DEF ranges
    <2>3. g \in RecordOf(Seq(Segment), Seq(Nat))  BY <1>1 DEF SegmenterRecord
    <2>4. /\ h \in RecordOf(Seq(Segment), Seq(Nat)) /\ h.segments = ranges /\ h.previousEnd = e
          /\ h.active = Unset /\ h.candidate = Unset /\ h.silence = Unset
          /\ h.position = g.position /\ h.retained = g.retained /\ h.retainedStart = g.retainedStart
      BY <1>3, <2>1, <2>2, <2>3, ClosedRecord
    <2> QED BY <2>4 DEF ranges, SegmenterRecord
  <1>9. Fields(h) /\ Placed(h)
    BY <1>1, <1>3, <1>8 DEF Fields, Placed, Unset
  <1>10. SegmentsOK(h)
    <2>1. RangesOK(g.segments, g.position, g.previousEnd)  BY <1>1, SegmentsParts
    <2>2. RangesOK(Append(g.segments, range), g.position, range.end)
      BY <1>1, <1>3, <1>6, <2>1, OneMoreRange
    <2> QED BY <1>6, <1>7, <1>8, <2>2, SegmentsParts
  <1> QED BY <1>2, <1>8, <1>9, <1>10 DEF h, e, range

----------------------------------------------------------------------------
(* What one frame does. *)

\* h is g with a frame of n units appended.
Longer(g, n) == [g EXCEPT !.position = @ + n, !.retained = @ \o UnitsAfter(g.position, g.position + n)]

LEMMA LongerSound ==
  ASSUME NEW g, Sound(g), NEW n \in Nat
  PROVE  LET h == Longer(g, n) IN
         /\ Fields(h) /\ Placed(h) /\ SegmentsOK(h)
         /\ h.retained = UnitsAfter(h.retainedStart, h.position) /\ h.retainedStart = Needed(g)
         /\ h.position = g.position + n /\ h.candidate = g.candidate /\ h.active = g.active
         /\ h.silence = g.silence /\ h.previousEnd = g.previousEnd /\ h.segments = g.segments
  <1> DEFINE h == Longer(g, n)  p == g.position + n
  <1>1. /\ g \in SegmenterRecord /\ g.position \in Nat /\ g.retainedStart \in Nat /\ g.previousEnd \in Nat
        /\ g.retainedStart <= g.position /\ g.segments \in Seq(Segment)
    BY DEF Sound, Fields, AudioKept, SegmenterRecord, RecordOf
  <1>2. p \in Nat /\ g.position <= p /\ p = g.position + n  BY <1>1
  <1> HIDE DEF p
  <1>3. g.retained \o UnitsAfter(g.position, p) = UnitsAfter(g.retainedStart, p)
    <2>1. g.retained = UnitsAfter(g.retainedStart, g.position)  BY DEF Sound, AudioKept
    <2>2. UnitsAfter(g.retainedStart, g.position) \o UnitsAfter(g.position, p) = UnitsAfter(g.retainedStart, p)
      BY <1>1, <1>2, UnitsJoin
    <2> QED BY <2>1, <2>2, Zenon
  <1>4. h = [g EXCEPT !.position = p, !.retained = UnitsAfter(g.retainedStart, p)]
    BY <1>3 DEF Longer, p
  <1>5. UnitsAfter(g.retainedStart, p) \in Seq(Nat)
    <2>1. g.retainedStart <= p  BY <1>1, <1>2
    <2> QED BY <1>1, <1>2, <2>1, UnitsParts
  <1> HIDE DEF h
  <1>6. /\ h \in SegmenterRecord /\ h.position = p /\ h.retained = UnitsAfter(g.retainedStart, p)
        /\ h.candidate = g.candidate /\ h.active = g.active /\ h.silence = g.silence
        /\ h.previousEnd = g.previousEnd /\ h.segments = g.segments /\ h.retainedStart = g.retainedStart
    BY <1>1, <1>2, <1>4, <1>5 DEF SegmenterRecord, RecordOf
  <1>7. Fields(h) /\ Placed(h)
    <2>1. {g.candidate, g.active, g.silence} \subseteq -1 .. g.position /\ g.previousEnd <= g.position /\ Placed(g)
      BY DEF Sound, Fields
    <2>2. -1 .. g.position \subseteq -1 .. p /\ g.previousEnd <= p  BY <1>1, <1>2, <2>1
    <2> QED BY <1>6, <2>1, <2>2 DEF Fields, Placed
  <1>8. SegmentsOK(h)
    <2>1. RangesOK(g.segments, g.position, g.previousEnd)  BY <1>1, SegmentsParts DEF Sound
    <2>2. RangesOK(g.segments, p, g.previousEnd)
      <3>1. ASSUME NEW i \in 1 .. Len(g.segments) PROVE g.segments[i].end <= p
        <4>1. g.segments[i] \in Segment  BY <1>1, ElementOfSeq
        <4>2. g.segments[i].end \in Nat  BY <4>1 DEF Segment
        <4>3. g.segments[i].end <= g.position  BY <2>1 DEF RangesOK
        <4> QED BY <1>1, <1>2, <4>2, <4>3
      <3> QED BY <2>1, <3>1, Zenon DEF RangesOK
    <2> QED BY <1>1, <1>6, <2>2, SegmentsParts
  <1>9. g.retainedStart = Needed(g)  BY DEF Sound, AudioKept
  <1> QED BY <1>2, <1>6, <1>7, <1>8, <1>9 DEF h

\* Where the speech under way, or its pause, began.
Since(g) == IF g.candidate = Unset THEN g.position ELSE g.candidate
PauseSince(g) == IF g.silence = Unset THEN g.position ELSE g.silence

\* What the score of a frame does to the positions and the ranges.
Goes(g, v, score) ==
  \/ /\ g.active = Unset /\ score # "speech"
     /\ v.candidate = Unset /\ v.active = Unset /\ v.silence = Unset /\ v.segments = g.segments
  \/ /\ g.active = Unset /\ score = "speech" /\ v.position - Since(g) < MinSpeech
     /\ v.candidate = Since(g) /\ v.active = Unset /\ v.silence = Unset /\ v.segments = g.segments
  \/ /\ g.active = Unset /\ score = "speech" /\ v.position - Since(g) >= MinSpeech
     /\ v.candidate = Since(g) /\ v.active \in Nat /\ v.active >= Since(g) - Padding
     /\ v.active <= Since(g) /\ v.silence = Unset /\ v.segments = g.segments
  \/ /\ g.active # Unset /\ score # "silence"
     /\ v.candidate = g.candidate /\ v.active = g.active /\ v.silence = Unset /\ v.segments = g.segments
  \/ /\ g.active # Unset /\ score = "silence" /\ v.position - PauseSince(g) < MinSilence
     /\ v.candidate = g.candidate /\ v.active = g.active /\ v.silence = PauseSince(g)
     /\ v.segments = g.segments
  \/ /\ g.active # Unset /\ score = "silence" /\ v.position - PauseSince(g) >= MinSilence
     /\ v.candidate = Unset /\ v.active = Unset /\ v.silence = Unset
     /\ \E e \in Nat :
          /\ e >= PauseSince(g) /\ e <= PauseSince(g) + Padding /\ e <= v.position
          /\ v.segments = Append(g.segments, [start |-> g.active, end |-> e,
                                              audio |-> UnitsAfter(g.active, e)])

\* v is ready to be trimmed.
Fit(g, v) ==
  /\ Fields(v) /\ Placed(v) /\ SegmentsOK(v)
  /\ v.retained = UnitsAfter(v.retainedStart, v.position)
  /\ v.retainedStart <= Needed(v) /\ Needed(v) <= v.position

LEMMA SinceParts ==
  ASSUME NEW g, Sound(g)
  PROVE  /\ g.position \in Nat /\ Since(g) \in Nat /\ Since(g) <= g.position /\ PauseSince(g) \in Nat
         /\ PauseSince(g) <= g.position /\ g.previousEnd \in Nat
         /\ g.active = Unset => g.previousEnd <= Since(g) /\ g.silence = Unset
         /\ g.active # Unset => g.active \in Nat /\ g.active <= g.candidate /\ g.candidate <= PauseSince(g)
                                /\ g.previousEnd <= g.active /\ g.candidate \in Nat
         /\ g.active \in Int /\ g.candidate \in Int /\ g.silence \in Int
         /\ MinSpeech \in Nat /\ MinSilence \in Nat /\ Padding \in Nat
         /\ g.segments \in Seq(Segment)
  BY SegmenterAssumption DEF Sound, Fields, Placed, SegmenterRecord, RecordOf, Since, PauseSince, Unset

\* Candidate, active and silence change, and nothing else.
Moved(h, candidate, active, silence) ==
  [h EXCEPT !.candidate = candidate, !.active = active, !.silence = silence]

LEMMA MovedFit ==
  ASSUME NEW g, Sound(g), NEW n \in Nat, NEW candidate \in Int, NEW active \in Int, NEW silence \in Int,
         {candidate, active, silence} \subseteq -1 .. Longer(g, n).position,
         active = Unset =>
           silence = Unset /\ (candidate # Unset => g.previousEnd <= candidate),
         active # Unset =>
           /\ candidate # Unset /\ g.previousEnd <= active /\ active <= candidate
           /\ silence # Unset => candidate <= silence
  PROVE  LET h == Longer(g, n)  v == Moved(h, candidate, active, silence) IN
         /\ Fields(v) /\ Placed(v) /\ SegmentsOK(v)
         /\ v.candidate = candidate /\ v.active = active /\ v.silence = silence
         /\ v.position = h.position /\ v.segments = g.segments /\ v.previousEnd = g.previousEnd
         /\ v.retained = UnitsAfter(v.retainedStart, v.position) /\ v.retainedStart = Needed(g)
  <1> DEFINE h == Longer(g, n)  v == Moved(h, candidate, active, silence)
  <1>1. /\ Fields(h) /\ Placed(h) /\ SegmentsOK(h)
        /\ h.retained = UnitsAfter(h.retainedStart, h.position) /\ h.retainedStart = Needed(g)
        /\ h.previousEnd = g.previousEnd /\ h.segments = g.segments
    BY LongerSound
  <1>2. {candidate, active, silence} \subseteq -1 .. h.position  OBVIOUS
  <1>3. v = [h EXCEPT !.candidate = candidate, !.active = active, !.silence = silence]  BY DEF Moved
  <1> HIDE DEF h, v
  <1>4. /\ v \in SegmenterRecord /\ v.candidate = candidate /\ v.active = active /\ v.silence = silence
        /\ v.position = h.position /\ v.previousEnd = h.previousEnd /\ v.segments = h.segments
        /\ v.retained = h.retained /\ v.retainedStart = h.retainedStart
    BY <1>1, <1>3 DEF Fields, SegmenterRecord, RecordOf
  <1>5. Fields(v)  BY <1>1, <1>2, <1>4 DEF Fields
  <1>6. Placed(v)  BY <1>1, <1>4 DEF Placed
  <1>7. SegmentsOK(v)  BY <1>1, <1>4 DEF SegmentsOK, WellFormed
  <1> QED BY <1>1, <1>4, <1>5, <1>6, <1>7 DEF v, h

LEMMA VoicedGoes ==
  ASSUME NEW g, Sound(g), NEW n \in Nat, NEW score \in Scores
  PROVE  LET v == Voiced(Longer(g, n), g.position, score) IN
         Fit(g, v) /\ Goes(g, v, score) /\ v.position = g.position + n
  <1> DEFINE h == Longer(g, n)  v == Voiced(h, g.position, score)
             c == Since(g)  q == PauseSince(g)  p == g.position + n
  <1>1. /\ Fields(h) /\ Placed(h) /\ SegmentsOK(h)
        /\ h.retained = UnitsAfter(h.retainedStart, h.position) /\ h.retainedStart = Needed(g)
        /\ h.position = p /\ h.candidate = g.candidate /\ h.active = g.active
        /\ h.silence = g.silence /\ h.previousEnd = g.previousEnd /\ h.segments = g.segments
    BY LongerSound
  <1>2. /\ g.position \in Nat /\ c \in Nat /\ c <= g.position /\ q \in Nat
        /\ q <= g.position /\ g.previousEnd \in Nat
        /\ g.active = Unset => g.previousEnd <= c /\ g.silence = Unset
        /\ g.active # Unset => g.active \in Nat /\ g.active <= g.candidate /\ g.candidate <= q
                               /\ g.previousEnd <= g.active /\ g.candidate \in Nat
        /\ g.active \in Int /\ g.candidate \in Int /\ g.silence \in Int
        /\ MinSpeech \in Nat /\ MinSilence \in Nat /\ Padding \in Nat
        /\ g.segments \in Seq(Segment)
    BY SinceParts
  <1>3. p \in Nat /\ g.position <= p  BY <1>2
  <1>4. score \in {"speech", "between", "silence"}  BY DEF Scores
  <1>5. /\ g.active # Unset => Needed(g) = g.active
        /\ g.active = Unset =>
             LET d == (IF g.candidate # Unset THEN g.candidate ELSE g.position) - Padding IN
             Needed(g) = IF g.previousEnd >= d THEN g.previousEnd ELSE d
    BY NeededIs DEF Sound
  <1>6. g.active = Unset => Needed(g) = IF g.previousEnd >= c - Padding THEN g.previousEnd ELSE c - Padding
    <2>1. c = IF g.candidate # Unset THEN g.candidate ELSE g.position  BY DEF Since
    <2> QED BY <1>5, <2>1
  <1>7. ASSUME NEW candidate \in Int, NEW active \in Int, NEW silence \in Int,
               {candidate, active, silence} \subseteq -1 .. p,
               active = Unset =>
                 silence = Unset /\ (candidate # Unset => g.previousEnd <= candidate),
               active # Unset =>
                 /\ candidate # Unset /\ g.previousEnd <= active /\ active <= candidate
                 /\ silence # Unset => candidate <= silence,
               v = Moved(h, candidate, active, silence)
        PROVE  /\ Fields(v) /\ Placed(v) /\ SegmentsOK(v)
               /\ v.candidate = candidate /\ v.active = active /\ v.silence = silence
               /\ v.position = p /\ v.segments = g.segments /\ v.previousEnd = g.previousEnd
               /\ v.retained = UnitsAfter(v.retainedStart, v.position) /\ v.retainedStart = Needed(g)
               /\ active # Unset => Needed(v) = active
               /\ active = Unset =>
                    LET d == (IF candidate # Unset THEN candidate ELSE p) - Padding IN
                    Needed(v) = IF g.previousEnd >= d THEN g.previousEnd ELSE d
    <2>1. {candidate, active, silence} \subseteq -1 .. Longer(g, n).position  BY <1>1, <1>7
    <2> DEFINE w == Moved(Longer(g, n), candidate, active, silence)
    <2>2. /\ Fields(w) /\ Placed(w) /\ SegmentsOK(w)
          /\ w.candidate = candidate /\ w.active = active /\ w.silence = silence
          /\ w.position = Longer(g, n).position /\ w.segments = g.segments /\ w.previousEnd = g.previousEnd
          /\ w.retained = UnitsAfter(w.retainedStart, w.position) /\ w.retainedStart = Needed(g)
      <3> HIDE DEF h, v, p
      <3> QED BY <1>7, <2>1, MovedFit
    <2>3. w.position = p  BY <1>1, <2>2
    <2>4. v = w  BY <1>7
    <2> HIDE DEF w, v, p
    <2>5. /\ w.active # Unset => Needed(w) = w.active
          /\ w.active = Unset =>
              LET d == (IF w.candidate # Unset THEN w.candidate ELSE w.position) - Padding IN
              Needed(w) = IF w.previousEnd >= d THEN w.previousEnd ELSE d
      BY <2>2, NeededIs
    <2> QED BY <2>2, <2>3, <2>4, <2>5
  <1>8. h.retainedStart \in Nat /\ h \in SegmenterRecord
    BY <1>1 DEF Fields, SegmenterRecord, RecordOf
  <1>9. v = IF g.active = Unset
            THEN IF score # "speech" THEN [h EXCEPT !.candidate = Unset]
                 ELSE [h EXCEPT !.candidate = c,
                                !.active = IF p - c >= MinSpeech THEN Onset(h, c) ELSE Unset]
            ELSE IF score # "silence" THEN [h EXCEPT !.silence = Unset]
                 ELSE IF p - q < MinSilence THEN [h EXCEPT !.silence = q]
                 ELSE Close([h EXCEPT !.silence = q], Min({p, q + Padding}))
    BY <1>1 DEF Voiced, Since, PauseSince
  <1>11. Unset \in Int /\ Unset = -1 /\ (\A x \in Nat : x # Unset)  BY DEF Unset
  <1> SUFFICES Fit(g, v) /\ Goes(g, v, score) /\ v.position = p  OBVIOUS
  <1> HIDE DEF h, v, c, q, p
  <1>12. CASE g.active = Unset /\ score # "speech"
    <2>1. v = [h EXCEPT !.candidate = Unset]  BY <1>9, <1>12
    <2>2. h.active = Unset /\ h.silence = Unset  BY <1>1, <1>2, <1>12
    <2>3. v = Moved(h, Unset, Unset, Unset)  BY <1>8, <2>1, <2>2 DEF Moved, SegmenterRecord, RecordOf
    <2>4. /\ Fields(v) /\ Placed(v) /\ SegmentsOK(v)
          /\ v.candidate = Unset /\ v.active = Unset /\ v.silence = Unset
          /\ v.position = p /\ v.segments = g.segments /\ v.previousEnd = g.previousEnd
          /\ v.retained = UnitsAfter(v.retainedStart, v.position) /\ v.retainedStart = Needed(g)
          /\ Needed(v) = IF g.previousEnd >= p - Padding THEN g.previousEnd ELSE p - Padding
      BY <1>1, <1>2, <1>3, <1>7, <1>11, <1>12, <2>3
    <2>5. Needed(g) <= Needed(v) /\ Needed(v) <= p
      BY <1>2, <1>3, <1>5, <1>6, <1>11, <1>12, <2>4
    <2>6. Fit(g, v)  BY <2>4, <2>5 DEF Fit
    <2>7. Goes(g, v, score)  BY <1>2, <1>4, <1>12, <2>4 DEF Goes, c, q
    <2> QED BY <2>4, <2>6, <2>7
  <1>13. CASE g.active = Unset /\ score = "speech" /\ p - c < MinSpeech
    <2>0. ~(p - c >= MinSpeech)  BY <1>2, <1>3, <1>13
    <2>1. v = [h EXCEPT !.candidate = c, !.active = Unset]  BY ONLY <1>9, <1>13, <2>0
    <2>2. h.silence = Unset  BY <1>1, <1>2, <1>13
    <2>3. v = Moved(h, c, Unset, Unset)  BY <1>8, <2>1, <2>2 DEF Moved, SegmenterRecord, RecordOf
    <2>4. /\ Fields(v) /\ Placed(v) /\ SegmentsOK(v)
          /\ v.candidate = c /\ v.active = Unset /\ v.silence = Unset
          /\ v.position = p /\ v.segments = g.segments /\ v.previousEnd = g.previousEnd
          /\ v.retained = UnitsAfter(v.retainedStart, v.position) /\ v.retainedStart = Needed(g)
          /\ Needed(v) = IF g.previousEnd >= c - Padding THEN g.previousEnd ELSE c - Padding
      BY <1>1, <1>2, <1>3, <1>7, <1>11, <1>13, <2>3
    <2>5. Needed(g) <= Needed(v) /\ Needed(v) <= p
      BY <1>2, <1>3, <1>5, <1>6, <1>11, <1>13, <2>4
    <2>6. Fit(g, v)  BY <2>4, <2>5 DEF Fit
    <2>7. Goes(g, v, score)  BY <1>2, <1>4, <1>13, <2>4 DEF Goes, c, q
    <2> QED BY <2>4, <2>6, <2>7
  <1>14. CASE g.active = Unset /\ score = "speech" /\ p - c >= MinSpeech
    <2>1. v = [h EXCEPT !.candidate = c, !.active = Onset(h, c)]  BY <1>2, <1>3, <1>9, <1>14
    <2>2. h.silence = Unset  BY <1>1, <1>2, <1>14
    <2>3. v = Moved(h, c, Onset(h, c), Unset)  BY <1>8, <2>1, <2>2 DEF Moved, SegmenterRecord, RecordOf
    <2>a. /\ Onset(h, c) = IF g.previousEnd >= c - Padding THEN g.previousEnd ELSE c - Padding
          /\ Onset(h, c) \in Nat /\ Onset(h, c) <= c /\ c - Padding <= Onset(h, c)
          /\ g.previousEnd <= Onset(h, c)
      <3>1. c - Padding \in Int /\ Onset(h, c) = Max({g.previousEnd, 0, c - Padding})
        BY <1>1, <1>2 DEF Onset
      <3>2. Onset(h, c) = IF g.previousEnd >= c - Padding THEN g.previousEnd ELSE c - Padding
        BY <1>2, <3>1, MaxOfThree
      <3> QED BY <1>2, <1>14, <3>2
    <2>4. /\ Fields(v) /\ Placed(v) /\ SegmentsOK(v)
          /\ v.candidate = c /\ v.active = Onset(h, c) /\ v.silence = Unset
          /\ v.position = p /\ v.segments = g.segments /\ v.previousEnd = g.previousEnd
          /\ v.retained = UnitsAfter(v.retainedStart, v.position) /\ v.retainedStart = Needed(g)
          /\ Needed(v) = Onset(h, c)
      BY <1>1, <1>2, <1>3, <1>7, <1>11, <1>14, <2>3, <2>a
    <2>5. Needed(g) <= Needed(v) /\ Needed(v) <= p
      BY <1>2, <1>3, <1>5, <1>6, <1>11, <1>14, <2>4, <2>a
    <2>6. Fit(g, v)  BY <2>4, <2>5 DEF Fit
    <2>7. Goes(g, v, score)  BY <1>2, <1>4, <1>14, <2>4, <2>a DEF Goes, c, q
    <2> QED BY <2>4, <2>6, <2>7
  <1>15. CASE g.active # Unset /\ score # "silence"
    <2>1. v = [h EXCEPT !.silence = Unset]  BY <1>9, <1>15
    <2>2. h.active = g.active /\ h.candidate = g.candidate  BY <1>1, <1>2, <1>15
    <2>3. v = Moved(h, g.candidate, g.active, Unset)  BY <1>8, <2>1, <2>2 DEF Moved, SegmenterRecord, RecordOf
    <2>4. /\ Fields(v) /\ Placed(v) /\ SegmentsOK(v)
          /\ v.candidate = g.candidate /\ v.active = g.active /\ v.silence = Unset
          /\ v.position = p /\ v.segments = g.segments /\ v.previousEnd = g.previousEnd
          /\ v.retained = UnitsAfter(v.retainedStart, v.position) /\ v.retainedStart = Needed(g)
          /\ Needed(v) = g.active
      BY <1>1, <1>2, <1>3, <1>7, <1>11, <1>15, <2>3
    <2>5. Needed(g) <= Needed(v) /\ Needed(v) <= p
      BY <1>2, <1>3, <1>5, <1>6, <1>11, <1>15, <2>4
    <2>6. Fit(g, v)  BY <2>4, <2>5 DEF Fit
    <2>7. Goes(g, v, score)  BY <1>2, <1>4, <1>15, <2>4 DEF Goes, c, q
    <2> QED BY <2>4, <2>6, <2>7
  <1>16. CASE g.active # Unset /\ score = "silence" /\ p - q < MinSilence
    <2>1. v = [h EXCEPT !.silence = q]  BY <1>9, <1>16
    <2>2. h.active = g.active /\ h.candidate = g.candidate  BY <1>1, <1>2, <1>16
    <2>3. v = Moved(h, g.candidate, g.active, q)  BY <1>8, <2>1, <2>2 DEF Moved, SegmenterRecord, RecordOf
    <2>4. /\ Fields(v) /\ Placed(v) /\ SegmentsOK(v)
          /\ v.candidate = g.candidate /\ v.active = g.active /\ v.silence = q
          /\ v.position = p /\ v.segments = g.segments /\ v.previousEnd = g.previousEnd
          /\ v.retained = UnitsAfter(v.retainedStart, v.position) /\ v.retainedStart = Needed(g)
          /\ Needed(v) = g.active
      BY <1>1, <1>2, <1>3, <1>7, <1>11, <1>16, <2>3
    <2>5. Needed(g) <= Needed(v) /\ Needed(v) <= p
      BY <1>2, <1>3, <1>5, <1>6, <1>11, <1>16, <2>4
    <2>6. Fit(g, v)  BY <2>4, <2>5 DEF Fit
    <2>7. Goes(g, v, score)  BY <1>2, <1>4, <1>16, <2>4 DEF Goes, c, q
    <2> QED BY <2>4, <2>6, <2>7
  <1>17. CASE g.active # Unset /\ score = "silence" /\ p - q >= MinSilence
    <2>1. v = Close([h EXCEPT !.silence = q], Min({p, q + Padding}))  BY <1>2, <1>3, <1>9, <1>17
    <2>2. h.active = g.active /\ h.candidate = g.candidate  BY <1>1
    <2>3. [h EXCEPT !.silence = q] = Moved(h, g.candidate, g.active, q)
      BY <1>8, <2>2 DEF Moved, SegmenterRecord, RecordOf
    <2> DEFINE w == Moved(h, g.candidate, g.active, q)  end == Min({p, q + Padding})
               e == IF p <= q + Padding THEN p ELSE q + Padding
               range == [start |-> g.active, end |-> e, audio |-> UnitsAfter(g.active, e)]
    <2>4. /\ Fields(w) /\ Placed(w) /\ SegmentsOK(w)
          /\ w.candidate = g.candidate /\ w.active = g.active /\ w.silence = q
          /\ w.position = p /\ w.segments = g.segments
          /\ w.retained = UnitsAfter(w.retainedStart, w.position) /\ w.retainedStart = Needed(g)
      <3>1. {g.candidate, g.active, q} \subseteq -1 .. Longer(g, n).position
        <4>1. Longer(g, n).position = p  BY <1>1 DEF h
        <4>2. q \in -1 .. p  BY <1>2, <1>3, <1>17
        <4>3. g.candidate \in -1 .. p /\ g.active \in -1 .. p  BY <1>2, <1>3, <1>17
        <4> QED BY <4>1, <4>2, <4>3
      <3> DEFINE a == g.candidate  b == g.active  u == Moved(Longer(g, n), a, b, q)
      <3>2. /\ a \in Int /\ b \in Int /\ q \in Int /\ {a, b, q} \subseteq -1 .. Longer(g, n).position
            /\ a # Unset /\ b # Unset /\ g.previousEnd <= b /\ b <= a /\ a <= q
        BY <1>2, <1>11, <1>17, <3>1
      <3>3. u = w /\ Longer(g, n).position = p  BY <1>1 DEF h
      <3> HIDE DEF a, b, w
      <3>4. /\ Fields(u) /\ Placed(u) /\ SegmentsOK(u)
            /\ u.candidate = a /\ u.active = b /\ u.silence = q
            /\ u.position = Longer(g, n).position /\ u.segments = g.segments
            /\ u.retained = UnitsAfter(u.retainedStart, u.position) /\ u.retainedStart = Needed(g)
        BY <3>2, MovedFit
      <3> HIDE DEF u
      <3> QED BY <3>3, <3>4 DEF a, b
    <2>5. end = e /\ e \in Nat /\ e >= q /\ e <= q + Padding /\ e <= p
      <3>1. q + Padding \in Int /\ p \in Int  BY <1>2, <1>3
      <3> QED BY <1>2, <1>3, <3>1, MinOfTwo
    <2> HIDE DEF w, end, e
    <2>6. v = Close(w, e)  BY <2>1, <2>3, <2>5 DEF w, end
    <2>7. /\ ClosedAt(w, e) = e
          /\ v.segments = Append(g.segments, range)
          /\ v.active = Unset /\ v.candidate = Unset /\ v.silence = Unset
          /\ v.position = p /\ v.previousEnd = e
          /\ v.retained = w.retained /\ v.retainedStart = w.retainedStart
          /\ Fields(v) /\ Placed(v) /\ SegmentsOK(v)
      <3>1. w.retainedStart <= w.active /\ w.active # Unset /\ e \in Int
        BY <1>2, <1>5, <1>17, <2>4, <2>5
      <3> DEFINE z == ClosedAt(w, e)
      <3>2. /\ z = IF e <= w.active THEN w.active ELSE IF e <= w.position THEN e ELSE w.position
            /\ v.segments = Append(w.segments, [start |-> w.active, end |-> z, audio |-> UnitsAfter(w.active, z)])
            /\ v.active = Unset /\ v.candidate = Unset /\ v.silence = Unset
            /\ v.position = w.position /\ v.previousEnd = z
            /\ v.retained = w.retained /\ v.retainedStart = w.retainedStart
            /\ Fields(v) /\ Placed(v) /\ SegmentsOK(v)
        <4> HIDE DEF z
        <4> QED BY <2>4, <2>6, <3>1, CloseSound DEF z
      <3> HIDE DEF z
      <3>3. z = e  BY <1>2, <1>3, <1>17, <2>4, <2>5, <3>2
      <3> QED BY <2>4, <3>2, <3>3 DEF z
    <2>8. Needed(v) = IF v.previousEnd >= v.position - Padding THEN v.previousEnd ELSE v.position - Padding
      BY <2>7, NeededIs
    <2>9. Needed(g) <= Needed(v) /\ Needed(v) <= p
      BY <1>2, <1>3, <1>5, <1>17, <2>5, <2>7, <2>8
    <2>10. Fit(g, v)  BY <2>4, <2>7, <2>9 DEF Fit
    <2>11. Goes(g, v, score)
      BY <1>17, <2>5, <2>7 DEF Goes, q
    <2> QED BY <2>7, <2>10, <2>11
  <1> QED BY <1>2, <1>3, <1>4, <1>12, <1>13, <1>14, <1>15, <1>16, <1>17

\* A frame that the segmenter is fed, and trims away what it can.
LEMMA FeedSound ==
  ASSUME NEW g, Sound(g), NEW n \in Nat, NEW score \in Scores
  PROVE  LET w == Feed(g, UnitsAfter(g.position, g.position + n), score) IN
         Sound(w) /\ Goes(g, w, score) /\ w.position = g.position + n
  <1> DEFINE p == g.position + n  v == Voiced(Longer(g, n), g.position, score)  w == Trim(v)
             audio == UnitsAfter(g.position, p)
  <1>1. g.position \in Nat /\ p \in Nat /\ g.position <= p /\ p - g.position = n  BY SinceParts
  <1>2. Len(audio) = n
    <2> HIDE DEF p
    <2>1. Len(audio) = p - g.position  BY <1>1, UnitsParts
    <2> QED BY <1>1, <2>1
  <1> HIDE DEF audio
  <1>3. Feed(g, audio, score) = w  BY <1>2 DEF Feed, Longer, audio
  <1>4. Fit(g, v) /\ Goes(g, v, score) /\ v.position = p  BY VoicedGoes
  <1> HIDE DEF v
  <1>5. /\ Sound(w)
        /\ w.position = v.position /\ w.candidate = v.candidate
        /\ w.active = v.active /\ w.silence = v.silence
        /\ w.segments = v.segments
    <2>1. /\ Fields(v) /\ Placed(v) /\ SegmentsOK(v)
          /\ v.retained = UnitsAfter(v.retainedStart, v.position)
          /\ v.retainedStart <= Needed(v) /\ Needed(v) <= v.position
      BY <1>4 DEF Fit
    <2> QED BY <2>1, TrimSound
  <1> HIDE DEF w
  <1>6. Goes(g, w, score)  BY <1>4, <1>5 DEF Goes
  <1> QED BY <1>3, <1>4, <1>5, <1>6 DEF audio

----------------------------------------------------------------------------
(* The frames, and what was heard in them. *)

LEMMA FramesParts ==
  ASSUME NEW g, NEW ends, NEW scores, FramesFit(g, ends, scores)
  PROVE  /\ Len(scores) \in Nat /\ Len(ends) = Len(scores)
         /\ \A k \in 1 .. Len(scores) : /\ ends[k] \in Nat /\ scores[k] \in Scores
                                        /\ StartOfFrame(ends, k) \in Nat
                                        /\ StartOfFrame(ends, k + 1) = ends[k]
                                        /\ StartOfFrame(ends, k) <= ends[k]
         /\ \A i \in 1 .. Len(scores) + 1 : StartOfFrame(ends, i) \in Nat
         /\ StartOfFrame(ends, 1) = 0
         /\ g.position \in Nat
  <1> DEFINE n == Len(scores)
  <1>1. n \in Nat /\ Len(ends) = n /\ ends \in Seq(Nat) /\ scores \in Seq(Scores)
    BY LenProperties DEF FramesFit
  <1>2. \A k \in 1 .. n : ends[k] \in Nat /\ scores[k] \in Scores  BY <1>1, ElementOfSeq
  <1>3. \A k \in 1 .. n : StartOfFrame(ends, k) <= ends[k]  BY DEF FramesFit
  <1>4. g.position = StartOfFrame(ends, n + 1)  BY DEF FramesFit
  <1> HIDE DEF n
  <1>5. \A k \in 1 .. n : StartOfFrame(ends, k + 1) = ends[k]
    <2>1. ASSUME NEW k \in 1 .. n PROVE StartOfFrame(ends, k + 1) = ends[k]
      <3>1. k + 1 # 1 /\ (k + 1) - 1 = k  OBVIOUS
      <3> QED BY <3>1 DEF StartOfFrame
    <2> QED BY <2>1
  <1>6. \A i \in 1 .. n + 1 : StartOfFrame(ends, i) \in Nat
    <2>1. ASSUME NEW i \in 1 .. n + 1 PROVE StartOfFrame(ends, i) \in Nat
      <3>1. CASE i = 1  BY <3>1 DEF StartOfFrame
      <3>2. CASE i # 1
        <4>1. i - 1 \in 1 .. n  BY <1>1, <3>2
        <4> QED BY <1>2, <3>2, <4>1 DEF StartOfFrame
      <3> QED BY <3>1, <3>2
    <2> QED BY <2>1
  <1>7. \A k \in 1 .. n : k \in 1 .. n + 1  BY <1>1
  <1>8. StartOfFrame(ends, 1) = 0  BY DEF StartOfFrame
  <1>9. n + 1 \in 1 .. n + 1  BY <1>1
  <1> QED BY <1>1, <1>2, <1>3, <1>4, <1>5, <1>6, <1>7, <1>8, <1>9 DEF n

\* One frame more, that ends at p.
Grown(ends, scores, longer, more, p, score) ==
  LET n == Len(scores) IN
  /\ longer \in Seq(Nat) /\ more \in Seq(Scores) /\ Len(longer) = n + 1 /\ Len(more) = n + 1
  /\ \A k \in 1 .. n : longer[k] = ends[k] /\ more[k] = scores[k]
  /\ longer[n + 1] = p /\ more[n + 1] = score
  /\ \A i \in 1 .. n + 1 : StartOfFrame(longer, i) = StartOfFrame(ends, i)
  /\ StartOfFrame(longer, n + 2) = p

LEMMA AppendGrows ==
  ASSUME NEW g, NEW ends, NEW scores, FramesFit(g, ends, scores), NEW p \in Nat, NEW score \in Scores
  PROVE  Grown(ends, scores, Append(ends, p), Append(scores, score), p, score)
  <1> DEFINE n == Len(scores)  longer == Append(ends, p)  more == Append(scores, score)
  <1>1. n \in Nat /\ Len(ends) = n /\ ends \in Seq(Nat) /\ scores \in Seq(Scores)
    BY FramesParts DEF FramesFit
  <1>2. /\ longer \in Seq(Nat) /\ Len(longer) = n + 1 /\ longer[n + 1] = p
        /\ \A k \in 1 .. n : longer[k] = ends[k]
    BY <1>1, AppendProperties
  <1>3. /\ more \in Seq(Scores) /\ Len(more) = n + 1 /\ more[n + 1] = score
        /\ \A k \in 1 .. n : more[k] = scores[k]
    BY <1>1, AppendProperties
  <1> HIDE DEF n, longer, more
  <1>4. ASSUME NEW i \in 1 .. n + 1 PROVE StartOfFrame(longer, i) = StartOfFrame(ends, i)
    <2>1. CASE i = 1  BY <2>1 DEF StartOfFrame
    <2>2. CASE i # 1
      <3>1. i - 1 \in 1 .. n  BY <1>1, <2>2
      <3> QED BY <1>2, <2>2, <3>1 DEF StartOfFrame
    <2> QED BY <2>1, <2>2
  <1>5. StartOfFrame(longer, n + 2) = p
    <2>1. n + 2 # 1 /\ (n + 2) - 1 = n + 1  BY <1>1
    <2> QED BY <1>2, <2>1 DEF StartOfFrame
  <1> QED BY <1>2, <1>3, <1>4, <1>5 DEF Grown, n, longer, more

LEMMA GrownFrames ==
  ASSUME NEW g, NEW ends, NEW scores, FramesFit(g, ends, scores), NEW w, NEW p \in Nat, NEW score,
         NEW longer, NEW more, Grown(ends, scores, longer, more, p, score),
         w.position = p, g.position <= p
  PROVE  FramesFit(w, longer, more)
  <1> DEFINE n == Len(scores)  m == Len(more)
  <1>1. n \in Nat /\ g.position \in Nat /\ \A i \in 1 .. n + 1 : StartOfFrame(ends, i) \in Nat
    BY FramesParts
  <1>2. /\ longer \in Seq(Nat) /\ more \in Seq(Scores) /\ Len(longer) = n + 1 /\ m = n + 1
        /\ \A k \in 1 .. n : longer[k] = ends[k]
        /\ longer[n + 1] = p
        /\ \A i \in 1 .. n + 1 : StartOfFrame(longer, i) = StartOfFrame(ends, i)
        /\ StartOfFrame(longer, n + 2) = p
    BY DEF Grown
  <1>3. /\ \A k \in 1 .. n : StartOfFrame(ends, k) <= ends[k]
        /\ \A i, j \in 1 .. n + 1 : i <= j => StartOfFrame(ends, i) <= StartOfFrame(ends, j)
        /\ g.position = StartOfFrame(ends, n + 1)
    BY DEF FramesFit
  <1> HIDE DEF n, m
  <1>4. ASSUME NEW k \in 1 .. m PROVE StartOfFrame(longer, k) <= longer[k]
    <2>1. CASE k \in 1 .. n
      <3>1. k \in 1 .. n + 1  BY <1>1, <2>1
      <3> QED BY <1>2, <1>3, <2>1, <3>1
    <2>2. CASE k = n + 1
      <3>1. n + 1 \in 1 .. n + 1  BY <1>1
      <3> QED BY <1>2, <1>3, <2>2, <3>1
    <2> QED BY <1>1, <1>2, <2>1, <2>2
  <1>5. ASSUME NEW i \in 1 .. m + 1, NEW j \in 1 .. m + 1, i <= j
        PROVE  StartOfFrame(longer, i) <= StartOfFrame(longer, j)
    <2>1. CASE j \in 1 .. n + 1
      <3>1. i \in 1 .. n + 1  BY <1>1, <1>2, <1>5, <2>1
      <3> QED BY <1>2, <1>3, <1>5, <2>1, <3>1
    <2>2. CASE j = n + 2 /\ i \in 1 .. n + 1
      <3>1. n + 1 \in 1 .. n + 1 /\ i <= n + 1  BY <1>1, <2>2
      <3>2. StartOfFrame(ends, i) <= g.position /\ StartOfFrame(ends, i) \in Nat  BY <1>1, <1>3, <2>2, <3>1
      <3>3. StartOfFrame(ends, i) <= p  BY <1>1, <3>2
      <3> QED BY <1>2, <2>2, <3>3
    <2>3. CASE j = n + 2 /\ i = n + 2  BY <1>2, <2>3
    <2> QED BY <1>1, <1>2, <1>5, <2>1, <2>2, <2>3
  <1>6. w.position = StartOfFrame(longer, m + 1)
    <2>1. m + 1 = n + 2  BY <1>1, <1>2
    <2> QED BY <1>2, <2>1
  <1>7. Len(longer) = m  BY <1>2
  <1> QED BY <1>2, <1>4, <1>5, <1>6, <1>7 DEF FramesFit, m

\* What lasted, and what ranges came from, stays so.
LEMMA GrownLasts ==
  ASSUME NEW g, NEW ends, NEW scores, FramesFit(g, ends, scores), NEW p, NEW score,
         NEW longer, NEW more, Grown(ends, scores, longer, more, p, score),
         NEW i \in 1 .. Len(scores), NEW j \in 1 .. Len(scores), NEW x, NEW least
  PROVE  Lasts(longer, more, i, j, x, least) <=> Lasts(ends, scores, i, j, x, least)
  <1> DEFINE n == Len(scores)
  <1>1. n \in Nat  BY FramesParts
  <1>2. /\ \A k \in 1 .. n : longer[k] = ends[k] /\ more[k] = scores[k]
        /\ \A k \in 1 .. n + 1 : StartOfFrame(longer, k) = StartOfFrame(ends, k)
    BY DEF Grown
  <1>3. i \in 1 .. n + 1 /\ \A k \in i .. j : k \in 1 .. n  BY <1>1
  <1> HIDE DEF n
  <1>4. j \in 1 .. n  BY DEF n
  <1> QED BY <1>2, <1>3, <1>4 DEF Lasts

LEMMA GrownComes ==
  ASSUME NEW g, NEW ends, NEW scores, FramesFit(g, ends, scores), NEW p, NEW score,
         NEW longer, NEW more, Grown(ends, scores, longer, more, p, score),
         NEW i \in 1 .. Len(scores), NEW k \in 1 .. Len(scores), NEW r
  PROVE  ComesFrom(r, longer, more, i, k) <=> ComesFrom(r, ends, scores, i, k)
  <1> DEFINE n == Len(scores)
  <1>1. n \in Nat  BY FramesParts
  <1>2. /\ longer[k] = ends[k] /\ more[k] = scores[k] /\ StartOfFrame(longer, i) = StartOfFrame(ends, i)
    <2>1. k \in 1 .. n /\ i \in 1 .. n + 1  BY <1>1
    <2> QED BY <2>1 DEF Grown
  <1>3. \A j \in i .. k : j \in 1 .. n  BY <1>1
  <1>4. \A j \in i .. k : Lasts(longer, more, i, j, "speech", MinSpeech)
                            <=> Lasts(ends, scores, i, j, "speech", MinSpeech)
    BY <1>3, GrownLasts
  <1>5. \A a, b \in i .. k : Lasts(longer, more, a, b, "silence", MinSilence)
                               <=> Lasts(ends, scores, a, b, "silence", MinSilence)
    BY <1>3, GrownLasts
  <1> HIDE DEF n
  <1> QED BY <1>2, <1>4, <1>5, Zenon DEF ComesFrom

\* The segmenter g, that was fed some frames, becomes w with one more.
FrameIn(g, w, ends, scores, longer, more, p, score) ==
  /\ Sound(g) /\ FramesFit(g, ends, scores) /\ p \in Nat /\ g.position <= p /\ score \in Scores
  /\ Goes(g, w, score) /\ w.position = p /\ Grown(ends, scores, longer, more, p, score)

LEMMA FrameParts ==
  ASSUME NEW g, NEW w, NEW ends, NEW scores, NEW longer, NEW more, NEW p, NEW score,
         FrameIn(g, w, ends, scores, longer, more, p, score)
  PROVE  /\ Len(scores) \in Nat /\ Len(more) = Len(scores) + 1
         /\ p \in Nat /\ g.position <= p /\ g.position \in Nat
         /\ w.position = p /\ MinSpeech \in Nat /\ MinSilence \in Nat /\ Padding \in Nat
         /\ \A k \in 1 .. Len(scores) : longer[k] = ends[k] /\ more[k] = scores[k] /\ ends[k] \in Nat
         /\ longer[Len(scores) + 1] = p /\ more[Len(scores) + 1] = score
         /\ \A i \in 1 .. Len(scores) + 1 : StartOfFrame(longer, i) = StartOfFrame(ends, i) /\ StartOfFrame(ends, i) \in Nat
         /\ StartOfFrame(ends, Len(scores) + 1) = g.position
         /\ Since(g) \in Nat /\ PauseSince(g) \in Nat /\ PauseSince(g) <= g.position
  <1>1. FramesFit(g, ends, scores) /\ Grown(ends, scores, longer, more, p, score) /\ Sound(g)
        /\ p \in Nat /\ g.position <= p /\ w.position = p
    BY DEF FrameIn
  <1>2. g.position = StartOfFrame(ends, Len(scores) + 1)  BY <1>1 DEF FramesFit
  <1>3. /\ Len(scores) \in Nat /\ g.position \in Nat
        /\ \A k \in 1 .. Len(scores) : ends[k] \in Nat
        /\ \A i \in 1 .. Len(scores) + 1 : StartOfFrame(ends, i) \in Nat
    BY <1>1, FramesParts
  <1>4. /\ Since(g) \in Nat /\ PauseSince(g) \in Nat /\ PauseSince(g) <= g.position
        /\ MinSpeech \in Nat /\ MinSilence \in Nat /\ Padding \in Nat
    BY <1>1, SinceParts
  <1>5. /\ Len(more) = Len(scores) + 1
        /\ \A k \in 1 .. Len(scores) : longer[k] = ends[k] /\ more[k] = scores[k]
        /\ longer[Len(scores) + 1] = p /\ more[Len(scores) + 1] = score
        /\ \A i \in 1 .. Len(scores) + 1 : StartOfFrame(longer, i) = StartOfFrame(ends, i)
    BY <1>1 DEF Grown
  <1> QED BY <1>1, <1>2, <1>3, <1>4, <1>5

\* Speech that may begin with this frame or began before it.
LEMMA BeginsOrWent ==
  ASSUME NEW g, NEW w, NEW ends, NEW scores, NEW longer, NEW more, NEW p, NEW score,
         FrameIn(g, w, ends, scores, longer, more, p, score), UnderWay(g, ends, scores),
         g.active = Unset, score = "speech", w.candidate = Since(g)
  PROVE  \E i \in 1 .. Len(scores) + 1 :
            /\ Begun(w, longer, more, i)
            /\ \A k \in i .. Len(scores) + 1 : more[k] = "speech"
  <1> DEFINE n == Len(scores)
  <1>1. /\ n \in Nat /\ more[n + 1] = "speech"
        /\ \A k \in 1 .. n : more[k] = scores[k]
        /\ \A i \in 1 .. n + 1 : StartOfFrame(longer, i) = StartOfFrame(ends, i)
        /\ StartOfFrame(ends, n + 1) = g.position
    BY FrameParts
  <1>2. CASE g.candidate = Unset
    <2>1. n = 0 \/ scores[n] # "speech"  BY <1>2 DEF UnderWay
    <2>2. w.candidate = g.position  BY <1>2 DEF Since
    <2> HIDE DEF n
    <2>3. n + 1 \in 1 .. n + 1  BY <1>1
    <2>4. w.candidate = StartOfFrame(longer, n + 1)  BY <1>1, <2>2, <2>3
    <2>5. n + 1 = 1 \/ more[(n + 1) - 1] # "speech"
      <3>1. CASE n = 0  BY <3>1
      <3>2. CASE n # 0
        <4>1. n \in 1 .. n /\ (n + 1) - 1 = n  BY <1>1, <3>2
        <4> QED BY <1>1, <2>1, <3>2, <4>1
      <3> QED BY <3>1, <3>2
    <2>6. \A k \in n + 1 .. n + 1 : more[k] = "speech"  BY <1>1
    <2>7. Begun(w, longer, more, n + 1)  BY <2>4, <2>5 DEF Begun
    <2> QED BY <2>3, <2>6, <2>7 DEF n
  <1>3. CASE g.candidate # Unset
    <2>1. PICK i \in 1 .. n : Begun(g, ends, scores, i) /\ Tentative(g, ends, scores, i)
      BY <1>3 DEF UnderWay
    <2>2. w.candidate = g.candidate  BY <1>3 DEF Since
    <2>3. \A k \in i .. n : scores[k] = "speech"  BY <2>1 DEF Tentative
    <2> HIDE DEF n
    <2>4. i \in 1 .. n + 1  BY <1>1
    <2>5. w.candidate = StartOfFrame(longer, i)  BY <1>1, <2>1, <2>2, <2>4 DEF Begun
    <2>6. i = 1 \/ more[i - 1] # "speech"
      <3>1. i = 1 \/ scores[i - 1] # "speech"  BY <2>1 DEF Begun
      <3>2. i # 1 => i - 1 \in 1 .. n  BY <1>1
      <3> QED BY <1>1, <3>1, <3>2
    <2>7. ASSUME NEW k \in i .. n + 1 PROVE more[k] = "speech"
      <3>1. CASE k = n + 1  BY <1>1, <3>1
      <3>2. CASE k # n + 1
        <4>1. k \in i .. n /\ k \in 1 .. n  BY <1>1, <3>2
        <4> QED BY <1>1, <2>3, <4>1
      <3> QED BY <3>1, <3>2
    <2>8. Begun(w, longer, more, i)  BY <2>5, <2>6 DEF Begun
    <2> QED BY <2>4, <2>7, <2>8 DEF n
  <1> QED BY <1>2, <1>3

\* Whoever has begun stays begun.
LEMMA BegunStays ==
  ASSUME NEW g, NEW w, NEW ends, NEW scores, NEW longer, NEW more, NEW p, NEW score,
         FrameIn(g, w, ends, scores, longer, more, p, score),
         NEW i \in 1 .. Len(scores), Begun(g, ends, scores, i), w.candidate = g.candidate
  PROVE  Begun(w, longer, more, i)
  <1> DEFINE n == Len(scores)
  <1>1. /\ n \in Nat
        /\ \A k \in 1 .. n : more[k] = scores[k]
        /\ \A k \in 1 .. n + 1 : StartOfFrame(longer, k) = StartOfFrame(ends, k)
    BY FrameParts
  <1>2. i \in 1 .. n /\ g.candidate = StartOfFrame(ends, i) /\ (i = 1 \/ scores[i - 1] # "speech")
    BY DEF Begun
  <1> HIDE DEF n
  <1>3. i \in 1 .. n + 1 /\ (i # 1 => i - 1 \in 1 .. n)  BY <1>1, <1>2
  <1>4. w.candidate = StartOfFrame(longer, i)  BY <1>1, <1>2, <1>3
  <1>5. i = 1 \/ more[i - 1] # "speech"  BY <1>1, <1>2, <1>3
  <1> QED BY <1>4, <1>5 DEF Begun

\* Speech that has lasted goes on, or pauses.
LEMMA SpeechGoesOn ==
  ASSUME NEW g, NEW w, NEW ends, NEW scores, NEW longer, NEW more, NEW p, NEW score,
         FrameIn(g, w, ends, scores, longer, more, p, score),
         NEW i \in 1 .. Len(scores), NEW k \in i .. Len(scores), Confirmed(g, ends, scores, i, k),
         w.candidate = g.candidate, w.active = g.active,
         \/ score # "silence" /\ w.silence = Unset
         \/ score = "silence" /\ w.silence = PauseSince(g) /\ p - PauseSince(g) < MinSilence
  PROVE  \E m \in i .. Len(more) : Confirmed(w, longer, more, i, m)
  <1> DEFINE n == Len(scores)
  <1>1. /\ n \in Nat /\ Len(more) = n + 1 /\ p \in Nat /\ MinSilence \in Nat
        /\ \A m \in 1 .. n : longer[m] = ends[m] /\ more[m] = scores[m] /\ ends[m] \in Nat
        /\ longer[n + 1] = p /\ more[n + 1] = score
        /\ \A m \in 1 .. n + 1 : StartOfFrame(longer, m) = StartOfFrame(ends, m) /\ StartOfFrame(ends, m) \in Nat
        /\ StartOfFrame(ends, n + 1) = g.position
    BY FrameParts
  <1>2. FramesFit(g, ends, scores) /\ Grown(ends, scores, longer, more, p, score)  BY DEF FrameIn
  <1>3. \A a, b \in 1 .. n : \A x, least : Lasts(longer, more, a, b, x, least) <=> Lasts(ends, scores, a, b, x, least)
    BY <1>2, GrownLasts
  <1>4. /\ g.active \in g.candidate - Padding .. g.candidate
        /\ \E j \in i .. n : Lasts(ends, scores, i, j, "speech", MinSpeech)
        /\ scores[k] # "silence" /\ \A m \in k + 1 .. n : scores[m] = "silence"
        /\ g.silence = IF k = n THEN Unset ELSE ends[k]
        /\ ~\E a, b \in i .. n : a <= b /\ Lasts(ends, scores, a, b, "silence", MinSilence)
    BY DEF Confirmed
  <1>5. \A a, b \in 1 .. n + 1 : a <= b => StartOfFrame(ends, a) <= StartOfFrame(ends, b)
    BY <1>2 DEF FramesFit
  <1>6. i \in 1 .. n /\ k \in i .. n  OBVIOUS
  <1>7. StartOfFrame(ends, k + 1) = ends[k]
    <2>1. k \in 1 .. n  BY <1>1, <1>6
    <2> QED BY <1>2, <2>1, FramesParts
  <1> HIDE DEF n
  <1>8. w.active \in w.candidate - Padding .. w.candidate  BY <1>4
  <1>9. \E j \in i .. n + 1 : Lasts(longer, more, i, j, "speech", MinSpeech)
    <2>1. PICK j \in i .. n : Lasts(ends, scores, i, j, "speech", MinSpeech)  BY <1>4
    <2>2. j \in 1 .. n /\ j \in i .. n + 1  BY <1>1, <1>6
    <2> QED BY <1>3, <1>6, <2>1, <2>2
  <1>10. ASSUME NEW a \in i .. n, NEW b \in i .. n, a <= b
         PROVE  ~Lasts(longer, more, a, b, "silence", MinSilence)
    <2>1. a \in 1 .. n /\ b \in 1 .. n  BY <1>1, <1>6
    <2> QED BY <1>3, <1>4, <1>10, <2>1
  <1>11. CASE score # "silence" /\ w.silence = Unset
    <2>1. ASSUME NEW a \in i .. n + 1, NEW b \in i .. n + 1, a <= b
          PROVE  ~Lasts(longer, more, a, b, "silence", MinSilence)
      <3>1. CASE b = n + 1
        <4>1. b \in a .. b /\ more[b] # "silence"  BY <1>1, <1>6, <1>11, <2>1, <3>1
        <4> QED BY <4>1 DEF Lasts
      <3>2. CASE b # n + 1
        <4>1. a \in i .. n /\ b \in i .. n  BY <1>1, <1>6, <2>1, <3>2
        <4> QED BY <1>10, <2>1, <4>1
      <3> QED BY <3>1, <3>2
    <2>2. \A m \in n + 2 .. n + 1 : more[m] = "silence"  BY <1>1
    <2>3. n + 1 \in i .. n + 1 /\ (n + 1) + 1 = n + 2  BY <1>1, <1>6
    <2>4. more[n + 1] # "silence"  BY <1>1, <1>11
    <2>5. Confirmed(w, longer, more, i, n + 1)
      <3>1. Len(more) = n + 1  BY <1>1
      <3> QED BY <1>8, <1>9, <1>11, <2>1, <2>2, <2>3, <2>4, <3>1, Zenon DEF Confirmed
    <2> QED BY <1>1, <2>3, <2>5
  <1>12. CASE score = "silence" /\ w.silence = PauseSince(g) /\ p - PauseSince(g) < MinSilence
    <2>1. PauseSince(g) = ends[k]
      <3>1. CASE k = n
        <4>1. PauseSince(g) = g.position  BY <1>4, <3>1 DEF PauseSince
        <4> QED BY <1>1, <1>7, <3>1, <4>1
      <3>2. CASE k # n
        <4>1. g.silence = ends[k] /\ ends[k] \in Nat  BY <1>1, <1>4, <1>6, <3>2
        <4> QED BY <4>1 DEF PauseSince, Unset
      <3> QED BY <3>1, <3>2
    <2>2. k \in 1 .. n /\ k # n + 1 /\ k \in i .. n + 1  BY <1>1, <1>6
    <2>3. w.silence = longer[k] /\ more[k] # "silence"  BY <1>1, <1>4, <1>12, <2>1, <2>2
    <2>4. ASSUME NEW m \in k + 1 .. n + 1 PROVE more[m] = "silence"
      <3>1. CASE m = n + 1  BY <1>1, <1>12, <3>1
      <3>2. CASE m # n + 1
        <4>1. m \in k + 1 .. n /\ m \in 1 .. n  BY <1>1, <2>2, <3>2
        <4> QED BY <1>1, <1>4, <4>1
      <3> QED BY <3>1, <3>2
    <2>5. ASSUME NEW a \in i .. n + 1, NEW b \in i .. n + 1, a <= b
          PROVE  ~Lasts(longer, more, a, b, "silence", MinSilence)
      <3>1. CASE b = n + 1 /\ a <= k
        <4>1. k \in a .. b  BY <1>1, <1>6, <2>2, <3>1
        <4> QED BY <2>3, <4>1 DEF Lasts
      <3>2. CASE b = n + 1 /\ k < a
        <4>1. k + 1 \in 1 .. n + 1 /\ a \in 1 .. n + 1 /\ k + 1 <= a  BY <1>1, <1>6, <2>2, <3>2
        <4>2. ends[k] <= StartOfFrame(ends, a) /\ StartOfFrame(longer, a) = StartOfFrame(ends, a)
              /\ StartOfFrame(ends, a) \in Nat /\ ends[k] \in Nat
          BY <1>1, <1>5, <1>7, <2>2, <4>1
        <4>3. p - StartOfFrame(longer, a) < MinSilence  BY <1>1, <1>12, <2>1, <4>2
        <4>4. ~(longer[b] - StartOfFrame(longer, a) >= MinSilence)  BY <1>1, <3>2, <4>2, <4>3
        <4> QED BY <4>4 DEF Lasts
      <3>3. CASE b # n + 1
        <4>1. a \in i .. n /\ b \in i .. n  BY <1>1, <1>6, <2>5, <3>3
        <4> QED BY <1>10, <2>5, <4>1
      <3>4. a \in Int /\ k \in Int  BY <1>1
      <3> QED BY <3>1, <3>2, <3>3, <3>4
    <2>6. Confirmed(w, longer, more, i, k)
      <3>1. Len(more) = n + 1  BY <1>1
      <3> QED BY <1>8, <1>9, <2>2, <2>3, <2>4, <2>5, <3>1, Zenon DEF Confirmed
    <2> QED BY <1>1, <2>2, <2>6
  <1> QED BY <1>11, <1>12

LEMMA WayGoesOn ==
  ASSUME NEW g, NEW w, NEW ends, NEW scores, NEW longer, NEW more, NEW p, NEW score,
         FrameIn(g, w, ends, scores, longer, more, p, score), UnderWay(g, ends, scores)
  PROVE  UnderWay(w, longer, more)
  <1> DEFINE n == Len(scores)
  <1>1. /\ n \in Nat /\ Len(more) = n + 1 /\ p \in Nat /\ MinSpeech \in Nat /\ Padding \in Nat
        /\ w.position = p /\ Since(g) \in Nat /\ PauseSince(g) \in Nat
        /\ longer[n + 1] = p /\ more[n + 1] = score
        /\ \A i \in 1 .. n + 1 : StartOfFrame(longer, i) = StartOfFrame(ends, i) /\ StartOfFrame(ends, i) \in Nat
    BY FrameParts
  <1>2. score \in {"speech", "between", "silence"} /\ Goes(g, w, score) /\ Sound(g)
    BY DEF FrameIn, Scores
  <1>3. g.active # Unset => g.candidate # Unset  BY <1>2 DEF Sound, Placed
  <1>4. \A x \in Nat : x # Unset  BY DEF Unset
  <1> HIDE DEF n
  <1>5. ASSUME w.candidate = Unset, score # "speech" PROVE UnderWay(w, longer, more)
    BY <1>1, <1>5 DEF UnderWay
  <1>6. CASE g.active = Unset /\ score # "speech" /\ w.candidate = Unset
    BY <1>5, <1>6
  <1>7. CASE g.active = Unset /\ score = "speech" /\ p - Since(g) < MinSpeech
             /\ w.candidate = Since(g) /\ w.active = Unset
    <2>1. PICK i \in 1 .. n + 1 : Begun(w, longer, more, i) /\ \A k \in i .. n + 1 : more[k] = "speech"
      BY <1>7, BeginsOrWent DEF n
    <2>2. Tentative(w, longer, more, i)
      <3>1. w.position - w.candidate < MinSpeech  BY <1>1, <1>7
      <3> QED BY <1>1, <2>1, <3>1 DEF Tentative
    <2>3. i \in 1 .. Len(more) /\ w.candidate # Unset  BY <1>1, <1>4, <1>7
    <2> QED BY <1>7, <2>1, <2>2, <2>3 DEF UnderWay
  <1>8. CASE g.active = Unset /\ score = "speech" /\ p - Since(g) >= MinSpeech
             /\ w.candidate = Since(g) /\ w.active \in Nat /\ w.active >= Since(g) - Padding
             /\ w.active <= Since(g) /\ w.silence = Unset
    <2>1. PICK i \in 1 .. n + 1 : Begun(w, longer, more, i) /\ \A k \in i .. n + 1 : more[k] = "speech"
      BY <1>8, BeginsOrWent DEF n
    <2>2. n + 1 \in i .. n + 1 /\ more[n + 1] = "speech"  BY <1>1, <2>1
    <2>3. w.active \in w.candidate - Padding .. w.candidate  BY <1>1, <1>8
    <2>4. Lasts(longer, more, i, n + 1, "speech", MinSpeech)
      <3>1. StartOfFrame(longer, i) = Since(g)  BY <1>8, <2>1 DEF Begun
      <3>2. longer[n + 1] - StartOfFrame(longer, i) >= MinSpeech  BY <1>1, <1>8, <3>1
      <3> QED BY <2>1, <3>2 DEF Lasts
    <2>5. ASSUME NEW a \in i .. n + 1, NEW b \in i .. n + 1, a <= b
          PROVE  ~Lasts(longer, more, a, b, "silence", MinSilence)
      <3>1. a \in a .. b /\ more[a] = "speech"  BY <1>1, <2>1, <2>5
      <3> QED BY <3>1 DEF Lasts
    <2>6. \A m \in (n + 1) + 1 .. n + 1 : more[m] = "silence"  BY <1>1
    <2>7. Confirmed(w, longer, more, i, n + 1)
      <3>1. Len(more) = n + 1 /\ more[n + 1] # "silence"  BY <1>1, <2>2
      <3>2. \E j \in i .. n + 1 : Lasts(longer, more, i, j, "speech", MinSpeech)  BY <2>2, <2>4
      <3> QED BY <1>8, <2>3, <2>5, <2>6, <3>1, <3>2, Zenon DEF Confirmed
    <2>8. i \in 1 .. Len(more) /\ n + 1 \in i .. Len(more) /\ w.candidate # Unset /\ w.active # Unset
      BY <1>1, <1>4, <1>8, <2>2
    <2> QED BY <2>1, <2>7, <2>8 DEF UnderWay
  <1>9. CASE /\ g.active # Unset /\ w.candidate = g.candidate /\ w.active = g.active
             /\ \/ score # "silence" /\ w.silence = Unset
                \/ score = "silence" /\ w.silence = PauseSince(g) /\ p - PauseSince(g) < MinSilence
    <2>1. PICK i \in 1 .. n : Begun(g, ends, scores, i) /\ \E k \in i .. n : Confirmed(g, ends, scores, i, k)
      BY <1>3, <1>9 DEF UnderWay, n
    <2>2. PICK k \in i .. n : Confirmed(g, ends, scores, i, k)  BY <2>1
    <2>3. Begun(w, longer, more, i)  BY <1>9, <2>1, BegunStays DEF n
    <2>4. PICK m \in i .. Len(more) : Confirmed(w, longer, more, i, m)
      BY <1>9, <2>2, SpeechGoesOn DEF n
    <2>5. i \in 1 .. Len(more)  BY <1>1
    <2> QED BY <1>3, <1>9, <2>3, <2>4, <2>5 DEF UnderWay
  <1>10. CASE g.active # Unset /\ score = "silence" /\ w.candidate = Unset
    BY <1>5, <1>10
  <1> QED BY <1>1, <1>2, <1>6, <1>7, <1>8, <1>9, <1>10 DEF Goes

\* The ranges of g are ranges of w, the same.
Keeps(g, w) ==
  \A r \in 1 .. Len(g.segments) : r \in 1 .. Len(w.segments) /\ w.segments[r] = g.segments[r]

\* A range that is closed comes behind the others.
LEMMA ClosesBehind ==
  ASSUME NEW g, NEW w, Sound(g), NEW r, w.segments = Append(g.segments, r)
  PROVE  /\ Keeps(g, w) /\ Len(g.segments) \in Nat
         /\ Len(w.segments) = Len(g.segments) + 1 /\ w.segments[Len(g.segments) + 1] = r
  <1> DEFINE ranges == g.segments
  <1>1. ranges \in Seq(Segment) /\ Len(ranges) \in Nat  BY SinceParts, LenProperties
  <1>2. w.segments = Append(ranges, r)  OBVIOUS
  <1>3. ranges \in Seq(Segment \cup {r})
    <2>1. \A i \in 1 .. Len(ranges) : ranges[i] \in Segment \cup {r}  BY <1>1, ElementOfSeq
    <2>2. DOMAIN ranges = 1 .. Len(ranges) /\ ranges = [i \in 1 .. Len(ranges) |-> ranges[i]]
      BY <1>1, LenProperties, SeqDef
    <2>3. ranges \in [1 .. Len(ranges) -> Segment \cup {r}]  BY <2>1, <2>2
    <2> QED BY <1>1, <2>3, SeqDef
  <1>4. /\ Len(w.segments) = Len(ranges) + 1 /\ w.segments[Len(ranges) + 1] = r
        /\ \A i \in 1 .. Len(ranges) : w.segments[i] = ranges[i]
    BY <1>1, <1>2, <1>3, AppendProperties
  <1> HIDE DEF ranges
  <1>5. \A i \in 1 .. Len(ranges) : i \in 1 .. Len(w.segments)  BY <1>1, <1>4
  <1> QED BY <1>1, <1>4, <1>5 DEF Keeps, ranges

LEMMA GoesKeeps ==
  ASSUME NEW g, NEW w, NEW score, Sound(g), Goes(g, w, score)
  PROVE  Keeps(g, w)
  <1>1. CASE w.segments = g.segments  BY <1>1 DEF Keeps
  <1>2. CASE w.segments # g.segments
    <2>1. PICK e \in Nat : w.segments = Append(g.segments, [start |-> g.active, end |-> e,
                                                            audio |-> UnitsAfter(g.active, e)])
      BY <1>2 DEF Goes
    <2> QED BY <2>1, ClosesBehind
  <1> QED BY <1>1, <1>2

\* Where the pause began is where the last frame that is not silence ended.
LEMMA PauseIs ==
  ASSUME NEW g, NEW ends, NEW scores, FramesFit(g, ends, scores),
         NEW i \in 1 .. Len(scores), NEW k \in i .. Len(scores), Confirmed(g, ends, scores, i, k)
  PROVE  PauseSince(g) = ends[k] /\ k \in 1 .. Len(scores)
  <1> DEFINE n == Len(scores)
  <1>1. g.silence = IF k = n THEN Unset ELSE ends[k]  BY DEF Confirmed
  <1>2. n \in Nat /\ \A m \in 1 .. n : ends[m] \in Nat /\ StartOfFrame(ends, m + 1) = ends[m]
    BY FramesParts
  <1>3. g.position = StartOfFrame(ends, n + 1)  BY DEF FramesFit
  <1>4. i \in 1 .. n /\ k \in i .. n  OBVIOUS
  <1> HIDE DEF n
  <1>5. k \in 1 .. n  BY <1>2, <1>4
  <1>6. CASE k = n  BY <1>1, <1>2, <1>3, <1>5, <1>6 DEF PauseSince
  <1>7. CASE k # n  BY <1>1, <1>2, <1>5, <1>7 DEF PauseSince, Unset
  <1> QED BY <1>5, <1>6, <1>7 DEF n

\* A range that is closed after the pause, but for the padding, is speech.
LEMMA RangeComes ==
  ASSUME NEW g, NEW ends, NEW scores, Sound(g), FramesFit(g, ends, scores), UnderWay(g, ends, scores),
         g.active # Unset, NEW r, r.start = g.active, r.end \in PauseSince(g) .. PauseSince(g) + Padding
  PROVE  \E i, k \in 1 .. Len(scores) : i <= k /\ ComesFrom(r, ends, scores, i, k)
  <1> DEFINE n == Len(scores)
  <1>1. g.candidate # Unset  BY DEF Sound, Placed
  <1>2. PICK i \in 1 .. n : Begun(g, ends, scores, i) /\ \E k \in i .. n : Confirmed(g, ends, scores, i, k)
    BY <1>1 DEF UnderWay
  <1>3. PICK k \in i .. n : Confirmed(g, ends, scores, i, k)  BY <1>2
  <1>4. PauseSince(g) = ends[k] /\ k \in 1 .. n  BY <1>3, PauseIs
  <1>5. /\ g.active \in g.candidate - Padding .. g.candidate
        /\ \E j \in i .. n : Lasts(ends, scores, i, j, "speech", MinSpeech)
        /\ scores[k] # "silence" /\ \A m \in k + 1 .. n : scores[m] = "silence"
        /\ ~\E a, b \in i .. n : a <= b /\ Lasts(ends, scores, a, b, "silence", MinSilence)
    BY <1>3 DEF Confirmed
  <1>6. n \in Nat  BY FramesParts
  <1> HIDE DEF n
  <1>7. PICK j \in i .. n : Lasts(ends, scores, i, j, "speech", MinSpeech)  BY <1>5
  <1>8. j \in i .. k
    <2>1. CASE k < j
      <3>1. j \in k + 1 .. n /\ j \in i .. j  BY <1>6, <2>1
      <3>2. scores[j] = "silence" /\ scores[j] = "speech"  BY <1>5, <1>7, <3>1 DEF Lasts
      <3> QED BY <3>2
    <2> QED BY <1>6, <2>1
  <1>9. \A a \in i .. k : a \in i .. n  BY <1>6
  <1>10. r.start \in StartOfFrame(ends, i) - Padding .. StartOfFrame(ends, i)
    BY <1>2, <1>5 DEF Begun
  <1>11. r.end \in ends[k] .. ends[k] + Padding  BY <1>4
  <1>12. ComesFrom(r, ends, scores, i, k)
    BY <1>5, <1>7, <1>8, <1>9, <1>10, <1>11, Zenon DEF ComesFrom
  <1>13. i <= k  BY <1>6
  <1> QED BY <1>4, <1>12, <1>13 DEF n

LEMMA BasedGoesOn ==
  ASSUME NEW g, NEW w, NEW ends, NEW scores, NEW longer, NEW more, NEW p, NEW score,
         FrameIn(g, w, ends, scores, longer, more, p, score), UnderWay(g, ends, scores),
         Based(g, ends, scores)
  PROVE  Based(w, longer, more)
  <1> DEFINE n == Len(scores)  l == Len(g.segments)
  <1>1. n \in Nat /\ Len(more) = n + 1 /\ PauseSince(g) \in Nat  BY FrameParts
  <1>2. /\ FramesFit(g, ends, scores) /\ Grown(ends, scores, longer, more, p, score)
        /\ Sound(g) /\ Goes(g, w, score)
    BY DEF FrameIn
  <1>3. ASSUME NEW r, NEW i \in 1 .. n, NEW k \in 1 .. n, i <= k, ComesFrom(r, ends, scores, i, k)
        PROVE  \E a, b \in 1 .. Len(more) : a <= b /\ ComesFrom(r, longer, more, a, b)
    <2>1. ComesFrom(r, longer, more, i, k)  BY <1>2, <1>3, GrownComes
    <2>2. i \in 1 .. Len(more) /\ k \in 1 .. Len(more)  BY <1>1
    <2> QED BY <1>3, <2>1, <2>2
  <1>4. \A r \in 1 .. l : \E i, k \in 1 .. n : i <= k /\ ComesFrom(g.segments[r], ends, scores, i, k)
    BY DEF Based
  <1> HIDE DEF n
  <1>5. \A r \in 1 .. l : \E a, b \in 1 .. Len(more) : a <= b /\ ComesFrom(g.segments[r], longer, more, a, b)
    <2>1. ASSUME NEW r \in 1 .. l
          PROVE  \E a, b \in 1 .. Len(more) : a <= b /\ ComesFrom(g.segments[r], longer, more, a, b)
      <3>1. PICK i \in 1 .. n, k \in 1 .. n : i <= k /\ ComesFrom(g.segments[r], ends, scores, i, k)
        BY <1>4
      <3> QED BY <1>3, <3>1
    <2> QED BY <2>1
  <1>6. CASE w.segments = g.segments  BY <1>5, <1>6 DEF Based
  <1>7. CASE w.segments # g.segments
    <2>1. PICK e \in Nat :
            /\ g.active # Unset /\ e >= PauseSince(g) /\ e <= PauseSince(g) + Padding
            /\ w.segments = Append(g.segments, [start |-> g.active, end |-> e,
                                                audio |-> UnitsAfter(g.active, e)])
      BY <1>2, <1>7 DEF Goes
    <2> DEFINE x == [start |-> g.active, end |-> e, audio |-> UnitsAfter(g.active, e)]
    <2>2. x.start = g.active /\ x.end = e /\ w.segments = Append(g.segments, x)  BY <2>1
    <2> HIDE DEF x
    <2>3. x.end \in PauseSince(g) .. PauseSince(g) + Padding  BY <1>1, <2>1, <2>2
    <2>4. PICK i \in 1 .. n, k \in 1 .. n : i <= k /\ ComesFrom(x, ends, scores, i, k)
      BY <1>2, <2>1, <2>2, <2>3, RangeComes DEF n
    <2>5. Keeps(g, w) /\ l \in Nat /\ Len(w.segments) = l + 1 /\ w.segments[l + 1] = x
      BY <1>2, <2>2, ClosesBehind
    <2>6. ASSUME NEW r \in 1 .. Len(w.segments)
          PROVE  \E a, b \in 1 .. Len(more) : a <= b /\ ComesFrom(w.segments[r], longer, more, a, b)
      <3>1. CASE r = l + 1  BY <1>3, <2>4, <2>5, <3>1
      <3>2. CASE r # l + 1
        <4>1. r \in 1 .. l  BY <2>5, <3>2
        <4>2. w.segments[r] = g.segments[r]  BY <2>5, <4>1 DEF Keeps
        <4> QED BY <1>5, <4>1, <4>2
      <3> QED BY <3>1, <3>2
    <2> QED BY <2>6 DEF Based
  <1> QED BY <1>6, <1>7

\* Speech that goes on in this frame began where the candidate did, or later.
LEMMA SpeechSince ==
  ASSUME NEW g, NEW w, NEW ends, NEW scores, NEW longer, NEW more, NEW p, NEW score,
         FrameIn(g, w, ends, scores, longer, more, p, score), UnderWay(g, ends, scores),
         score = "speech", NEW i \in 1 .. Len(more),
         \A k \in i .. Len(more) : more[k] = "speech",
         w.candidate = IF g.active = Unset THEN Since(g) ELSE g.candidate
  PROVE  w.candidate <= StartOfFrame(longer, i) /\ StartOfFrame(longer, i) \in Nat
  <1> DEFINE n == Len(scores)
  <1>1. /\ n \in Nat /\ Len(more) = n + 1 /\ p \in Nat /\ g.position <= p
        /\ w.position = p
    BY FrameParts
  <1>2. FramesFit(g, ends, scores) /\ Grown(ends, scores, longer, more, p, score) /\ Sound(g)
    BY DEF FrameIn
  <1>3. \E j \in 1 .. n + 1 : Begun(w, longer, more, j)
    <2>1. CASE g.active = Unset
      <3>1. w.candidate = Since(g)  BY <2>1
      <3>2. \E j \in 1 .. n + 1 : /\ Begun(w, longer, more, j)
                                  /\ \A k \in j .. n + 1 : more[k] = "speech"
        BY <2>1, <3>1, BeginsOrWent
      <3> HIDE DEF n
      <3> QED BY <3>2
    <2>2. CASE g.active # Unset
      <3>1. g.candidate # Unset  BY <1>2, <2>2 DEF Sound, Placed
      <3>2. PICK j \in 1 .. n : Begun(g, ends, scores, j)  BY <3>1 DEF UnderWay
      <3>3. w.candidate = g.candidate  BY <2>2
      <3>4. Begun(w, longer, more, j)  BY <3>2, <3>3, BegunStays
      <3> HIDE DEF n
      <3>5. j \in 1 .. n + 1  BY <1>1
      <3> QED BY <3>4, <3>5
    <2> QED BY <2>1, <2>2
  <1>4. PICK j \in 1 .. n + 1 : Begun(w, longer, more, j)  BY <1>3
  <1>5. w.candidate = StartOfFrame(longer, j) /\ (j = 1 \/ more[j - 1] # "speech")  BY <1>4 DEF Begun
  <1> HIDE DEF n
  <1>6. j <= i
    <2>1. CASE i < j
      <3>1. j # 1 /\ j - 1 \in i .. n + 1  BY <1>1, <2>1
      <3> QED BY <1>1, <1>5, <3>1
    <2> QED BY <1>1, <2>1
  <1>7. FramesFit(w, longer, more)  BY <1>1, <1>2, GrownFrames
  <1>8. /\ \A a, b \in 1 .. Len(more) + 1 : a <= b => StartOfFrame(longer, a) <= StartOfFrame(longer, b)
        /\ \A a \in 1 .. Len(more) + 1 : StartOfFrame(longer, a) \in Nat
    BY <1>7, FramesParts DEF FramesFit
  <1>9. i \in 1 .. Len(more) + 1 /\ j \in 1 .. Len(more) + 1  BY <1>1
  <1> QED BY <1>5, <1>6, <1>8, <1>9

\* What Found says of one stretch of speech.
FoundOne(g, ends, i, j) ==
  \/ \E r \in 1 .. Len(g.segments) : Covers(g.segments[r], ends, i, j)
  \/ g.active # Unset /\ g.active <= StartOfFrame(ends, i) /\ ends[j] <= PauseSince(g)

LEMMA FoundIsOne ==
  ASSUME NEW g, NEW ends, NEW scores
  PROVE  Found(g, ends, scores) <=>
           \A i, j \in 1 .. Len(scores) : i <= j /\ Lasts(ends, scores, i, j, "speech", MinSpeech) =>
             FoundOne(g, ends, i, j)
  BY Zenon DEF Found, FoundOne, PauseSince

\* What was found stays found.
LEMMA FoundStays ==
  ASSUME NEW g, NEW w, NEW ends, NEW scores, NEW longer, NEW more, NEW p, NEW score,
         FrameIn(g, w, ends, scores, longer, more, p, score),
         NEW i \in 1 .. Len(scores), NEW j \in 1 .. Len(scores), FoundOne(g, ends, i, j)
  PROVE  FoundOne(w, longer, i, j)
  <1> DEFINE n == Len(scores)  l == Len(g.segments)
  <1>1. /\ n \in Nat /\ p \in Nat /\ g.position <= p /\ g.position \in Nat /\ w.position = p
        /\ \A k \in 1 .. n : longer[k] = ends[k] /\ ends[k] \in Nat
        /\ \A k \in 1 .. n + 1 : StartOfFrame(longer, k) = StartOfFrame(ends, k) /\ StartOfFrame(ends, k) \in Nat
        /\ PauseSince(g) \in Nat /\ PauseSince(g) <= g.position
    BY FrameParts
  <1>2. Sound(g) /\ Goes(g, w, score)  BY DEF FrameIn
  <1>3. i \in 1 .. n /\ j \in 1 .. n  OBVIOUS
  <1> HIDE DEF n
  <1>4. /\ longer[j] = ends[j] /\ ends[j] \in Nat
        /\ StartOfFrame(longer, i) = StartOfFrame(ends, i) /\ StartOfFrame(ends, i) \in Nat
    <2>1. i \in 1 .. n + 1  BY <1>1, <1>3
    <2> QED BY <1>1, <1>3, <2>1
  <1>5. \A r : Covers(r, ends, i, j) => Covers(r, longer, i, j)  BY <1>4 DEF Covers
  <1>6. CASE \E r \in 1 .. l : Covers(g.segments[r], ends, i, j)
    <2>1. PICK r \in 1 .. l : Covers(g.segments[r], ends, i, j)  BY <1>6
    <2>2. r \in 1 .. Len(w.segments) /\ w.segments[r] = g.segments[r]
      BY <1>2, <2>1, GoesKeeps DEF Keeps
    <2>3. Covers(w.segments[r], longer, i, j)  BY <1>5, <2>1, <2>2
    <2> QED BY <2>2, <2>3 DEF FoundOne
  <1>7. CASE g.active # Unset /\ g.active <= StartOfFrame(ends, i) /\ ends[j] <= PauseSince(g)
    <2>1. CASE w.active = g.active /\ (w.silence = Unset \/ w.silence = PauseSince(g))
      <3>1. PauseSince(g) <= PauseSince(w) /\ PauseSince(w) \in Nat
        <4>1. PauseSince(w) = IF w.silence = Unset THEN p ELSE w.silence  BY <1>1 DEF PauseSince
        <4>2. PauseSince(w) = p \/ PauseSince(w) = PauseSince(g)  BY <2>1, <4>1
        <4> QED BY <1>1, <4>2
      <3>2. longer[j] <= PauseSince(w)  BY <1>1, <1>4, <1>7, <3>1
      <3> QED BY <1>4, <1>7, <2>1, <3>2 DEF FoundOne
    <2>2. CASE \E e \in Nat : /\ e >= PauseSince(g)
                              /\ w.segments = Append(g.segments, [start |-> g.active, end |-> e,
                                                                  audio |-> UnitsAfter(g.active, e)])
      <3>1. PICK e \in Nat : /\ e >= PauseSince(g)
                             /\ w.segments = Append(g.segments, [start |-> g.active, end |-> e,
                                                                 audio |-> UnitsAfter(g.active, e)])
        BY <2>2
      <3> DEFINE x == [start |-> g.active, end |-> e, audio |-> UnitsAfter(g.active, e)]
      <3>2. x.start = g.active /\ x.end = e /\ w.segments = Append(g.segments, x)  BY <3>1
      <3> HIDE DEF x
      <3>3. l \in Nat /\ Len(w.segments) = l + 1 /\ w.segments[l + 1] = x
        BY <1>2, <3>2, ClosesBehind
      <3>4. Covers(x, longer, i, j)
        <4>1. longer[j] <= e  BY <1>1, <1>4, <1>7, <3>1
        <4> QED BY <1>4, <1>7, <3>2, <4>1 DEF Covers
      <3>5. l + 1 \in 1 .. Len(w.segments)  BY <3>3
      <3> QED BY <3>3, <3>4, <3>5 DEF FoundOne
    <2> QED BY <1>2, <1>7, <2>1, <2>2 DEF Goes
  <1> QED BY <1>6, <1>7 DEF FoundOne

LEMMA FoundGoesOn ==
  ASSUME NEW g, NEW w, NEW ends, NEW scores, NEW longer, NEW more, NEW p, NEW score,
         FrameIn(g, w, ends, scores, longer, more, p, score), UnderWay(g, ends, scores),
         Found(g, ends, scores)
  PROVE  Found(w, longer, more)
  <1> DEFINE n == Len(scores)
  <1>1. /\ n \in Nat /\ Len(more) = n + 1 /\ p \in Nat /\ w.position = p /\ MinSpeech \in Nat
        /\ longer[n + 1] = p /\ more[n + 1] = score
        /\ Since(g) \in Nat
    BY FrameParts
  <1>2. /\ FramesFit(g, ends, scores) /\ Grown(ends, scores, longer, more, p, score)
        /\ Sound(g) /\ Goes(g, w, score)
    BY DEF FrameIn
  <1>3. ASSUME NEW i \in 1 .. Len(more), NEW j \in 1 .. Len(more), i <= j,
               Lasts(longer, more, i, j, "speech", MinSpeech)
        PROVE  FoundOne(w, longer, i, j)
    <2>1. CASE j # n + 1
      <3>1. i \in 1 .. n /\ j \in 1 .. n
        <4> HIDE DEF n
        <4> QED BY <1>1, <1>3, <2>1
      <3>2. Lasts(ends, scores, i, j, "speech", MinSpeech)  BY <1>2, <1>3, <3>1, GrownLasts
      <3>3. FoundOne(g, ends, i, j)  BY <1>3, <3>1, <3>2, FoundIsOne
      <3> QED BY <3>1, <3>3, FoundStays
    <2>2. CASE j = n + 1
      <3> HIDE DEF n
      <3>1. (\A k \in i .. n + 1 : more[k] = "speech") /\ p - StartOfFrame(longer, i) >= MinSpeech
        BY <1>1, <1>3, <2>2 DEF Lasts
      <3>2. score = "speech"
        <4>1. n + 1 \in i .. n + 1  BY <1>1
        <4> QED BY <1>1, <3>1, <4>1
      <3>3. CASE g.active = Unset
        <4>1. w.candidate = Since(g)  BY <1>2, <3>2, <3>3 DEF Goes
        <4>a. w.candidate = IF g.active = Unset THEN Since(g) ELSE g.candidate  BY <3>3, <4>1
        <4>b. \A k \in i .. Len(more) : more[k] = "speech"  BY <1>1, <3>1
        <4>2. Since(g) <= StartOfFrame(longer, i) /\ StartOfFrame(longer, i) \in Nat
          <5>1. w.candidate <= StartOfFrame(longer, i) /\ StartOfFrame(longer, i) \in Nat
            BY <3>2, <4>a, <4>b, SpeechSince
          <5> QED BY <4>1, <5>1
        <4>3. p - Since(g) >= MinSpeech  BY <1>1, <3>1, <4>2
        <4>4. w.active \in Nat /\ w.active <= Since(g) /\ w.silence = Unset
          <5>1. ~(p - Since(g) < MinSpeech)  BY <1>1, <4>3
          <5> QED BY <1>1, <1>2, <3>2, <3>3, <5>1 DEF Goes
        <4>5. w.active # Unset /\ w.active <= StartOfFrame(longer, i)  BY <1>1, <4>2, <4>4 DEF Unset
        <4>6. PauseSince(w) = p  BY <1>1, <4>4 DEF PauseSince
        <4> QED BY <1>1, <2>2, <4>5, <4>6 DEF FoundOne
      <3>4. CASE g.active # Unset
        <4>1. w.candidate = g.candidate /\ w.active = g.active /\ w.silence = Unset
          BY <1>2, <3>2, <3>4 DEF Goes
        <4>a. w.candidate = IF g.active = Unset THEN Since(g) ELSE g.candidate  BY <3>4, <4>1
        <4>b. \A k \in i .. Len(more) : more[k] = "speech"  BY <1>1, <3>1
        <4>2. g.candidate <= StartOfFrame(longer, i) /\ StartOfFrame(longer, i) \in Nat
          <5>1. w.candidate <= StartOfFrame(longer, i) /\ StartOfFrame(longer, i) \in Nat
            BY <3>2, <4>a, <4>b, SpeechSince
          <5> QED BY <4>1, <5>1
        <4>3. g.active \in Nat /\ g.active <= g.candidate /\ g.candidate \in Nat
          BY <1>2, <3>4, SinceParts
        <4>4. w.active <= StartOfFrame(longer, i)  BY <4>1, <4>2, <4>3
        <4>5. PauseSince(w) = p  BY <1>1, <4>1 DEF PauseSince
        <4> QED BY <1>1, <2>2, <3>4, <4>1, <4>4, <4>5 DEF FoundOne
      <3> QED BY <3>3, <3>4
    <2> QED BY <2>1, <2>2
  <1> QED BY <1>3, FoundIsOne

\* All a frame does: the segmenter stays sound, and has heard it.
LEMMA FedHeard ==
  ASSUME NEW g, Sound(g), NEW ends, NEW scores, Heard(g, ends, scores), NEW n \in Nat, NEW score \in Scores
  PROVE  LET w == Feed(g, UnitsAfter(g.position, g.position + n), score) IN
         /\ Sound(w) /\ Heard(w, Append(ends, g.position + n), Append(scores, score))
         /\ w.position = g.position + n
  <1> DEFINE p == g.position + n  w == Feed(g, UnitsAfter(g.position, g.position + n), score)
             longer == Append(ends, p)  more == Append(scores, score)
  <1>1. Sound(w) /\ Goes(g, w, score) /\ w.position = p  BY FeedSound
  <1>2. p \in Nat /\ g.position <= p  BY SinceParts
  <1>3. /\ FramesFit(g, ends, scores) /\ UnderWay(g, ends, scores)
        /\ Found(g, ends, scores) /\ Based(g, ends, scores)
    BY DEF Heard
  <1> HIDE DEF p, w
  <1>4. Grown(ends, scores, longer, more, p, score)  BY <1>2, <1>3, AppendGrows
  <1> HIDE DEF longer, more
  <1>5. FrameIn(g, w, ends, scores, longer, more, p, score)  BY <1>1, <1>2, <1>3, <1>4 DEF FrameIn
  <1>6. FramesFit(w, longer, more)  BY <1>1, <1>2, <1>3, <1>4, GrownFrames
  <1>7. UnderWay(w, longer, more)  BY <1>3, <1>5, WayGoesOn
  <1>8. Found(w, longer, more)  BY <1>3, <1>5, FoundGoesOn
  <1>9. Based(w, longer, more)  BY <1>3, <1>5, BasedGoesOn
  <1>10. Heard(w, longer, more)  BY <1>6, <1>7, <1>8, <1>9 DEF Heard
  <1> QED BY <1>1, <1>10 DEF p, w, longer, more

LEMMA InitHeard == Heard(NewSegmenter, <<>>, <<>>)
  <1> DEFINE g == NewSegmenter
  <1>1. <<>> \in Seq(Nat) /\ <<>> \in Seq(Scores) /\ Len(<<>>) = 0  BY EmptySeq
  <1>2. g.position = 0 /\ g.candidate = Unset /\ g.active = Unset /\ g.segments = <<>>
    BY DEF NewSegmenter
  <1> HIDE DEF g
  <1>3. \A i \in 1 .. 0 + 1 : i = 1 /\ StartOfFrame(<<>>, i) = 0  BY DEF StartOfFrame
  <1>4. FramesFit(g, <<>>, <<>>)
    <2>1. \A i, j \in 1 .. 0 + 1 : StartOfFrame(<<>>, i) <= StartOfFrame(<<>>, j)  BY <1>3
    <2>2. g.position = StartOfFrame(<<>>, 0 + 1)  BY <1>2 DEF StartOfFrame
    <2> QED BY <1>1, <2>1, <2>2 DEF FramesFit
  <1>5. UnderWay(g, <<>>, <<>>)  BY <1>1, <1>2 DEF UnderWay
  <1>6. Found(g, <<>>, <<>>) /\ Based(g, <<>>, <<>>)  BY <1>1, <1>2 DEF Found, Based
  <1> QED BY <1>4, <1>5, <1>6 DEF Heard, g

----------------------------------------------------------------------------
(* The end of the audio. *)

\* All speech that lasts is in a range, and the ranges are speech.
LEMMA RangesFound ==
  ASSUME NEW w, NEW ends, NEW scores, scores \in Seq(Scores), w.segments \in Seq(Segment),
         \A i, j \in 1 .. Len(scores) : i <= j /\ Lasts(ends, scores, i, j, "speech", MinSpeech) =>
           \E r \in 1 .. Len(w.segments) : Covers(w.segments[r], ends, i, j),
         Based(w, ends, scores)
  PROVE  SpeechIsFound(w, ends, scores)
  <1>1. DOMAIN scores = 1 .. Len(scores) /\ DOMAIN w.segments = 1 .. Len(w.segments)  BY LenProperties
  <1> QED BY <1>1, Zenon DEF SpeechIsFound, Based, Covers

LEMMA FinishFinds ==
  ASSUME NEW g, Sound(g), NEW ends, NEW scores, Heard(g, ends, scores)
  PROVE  LET w == FinishSegments(g) IN
         /\ w \in SegmenterRecord /\ WellFormed(w) /\ w.position = g.position
         /\ SpeechIsFound(w, ends, scores)
  <1> DEFINE w == FinishSegments(g)  l == Len(g.segments)
  <1>1. /\ FramesFit(g, ends, scores) /\ UnderWay(g, ends, scores)
        /\ Found(g, ends, scores) /\ Based(g, ends, scores) /\ scores \in Seq(Scores)
    BY DEF Heard, FramesFit
  <1>2. /\ Fields(g) /\ Placed(g) /\ SegmentsOK(g) /\ g \in SegmenterRecord /\ WellFormed(g)
        /\ g.segments \in Seq(Segment)
    BY SinceParts DEF Sound, Fields, SegmentsOK
  <1>3. CASE g.active = Unset
    <2>1. w = g  BY <1>3 DEF FinishSegments
    <2>2. ASSUME NEW i \in 1 .. Len(scores), NEW j \in 1 .. Len(scores), i <= j,
                 Lasts(ends, scores, i, j, "speech", MinSpeech)
          PROVE  \E r \in 1 .. l : Covers(g.segments[r], ends, i, j)
      <3>1. FoundOne(g, ends, i, j)  BY <1>1, <2>2, FoundIsOne
      <3> QED BY <1>3, <3>1 DEF FoundOne
    <2>3. SpeechIsFound(g, ends, scores)  BY <1>1, <1>2, <2>2, RangesFound
    <2> QED BY <1>2, <2>1, <2>3
  <1>4. CASE g.active # Unset
    <2> DEFINE q == PauseSince(g)  e == IF g.silence = Unset THEN g.position ELSE Min({g.position, g.silence + Padding})
               x == [start |-> g.active, end |-> e, audio |-> UnitsAfter(g.active, e)]
    <2>1. /\ g.position \in Nat /\ q \in Nat /\ q <= g.position /\ g.active \in Nat /\ Padding \in Nat
          /\ g.active <= q /\ g.silence \in Int
      <3>1. /\ g.position \in Nat /\ PauseSince(g) \in Nat /\ PauseSince(g) <= g.position /\ g.active \in Nat
            /\ Padding \in Nat /\ g.active <= g.candidate /\ g.candidate <= PauseSince(g) /\ g.candidate \in Nat
            /\ g.silence \in Int
        BY <1>4, SinceParts
      <3> QED BY <3>1
    <2>2. e \in Nat /\ q <= e /\ e <= q + Padding /\ e <= g.position
      <3>1. CASE g.silence = Unset
        <4>1. q = g.position /\ e = g.position  BY <3>1 DEF PauseSince
        <4> QED BY <2>1, <4>1
      <3>2. CASE g.silence # Unset
        <4>1. q = g.silence  BY <3>2 DEF PauseSince
        <4>2. e = IF g.position <= q + Padding THEN g.position ELSE q + Padding
          <5>1. q + Padding \in Int /\ g.position \in Int  BY <2>1
          <5>2. Min({g.position, q + Padding}) = IF g.position <= q + Padding THEN g.position ELSE q + Padding
            <6> HIDE DEF q
            <6> QED BY <5>1, MinOfTwo
          <5> QED BY <3>2, <4>1, <5>2
        <4> HIDE DEF q, e
        <4> QED BY <2>1, <4>2
      <3> QED BY <3>1, <3>2
    <2>3. w = Close(g, e)  BY <1>4 DEF FinishSegments
    <2> HIDE DEF q, e
    <2>4. g.retainedStart <= g.active /\ g.retained = UnitsAfter(g.retainedStart, g.position)
      <3>1. g.retainedStart = g.active /\ g.retained = UnitsAfter(g.retainedStart, g.position)
        BY <1>2, <1>4, NeededIs DEF Sound, AudioKept
      <3> QED BY <2>1, <3>1
    <2>5. /\ w.segments = Append(g.segments, x) /\ w.position = g.position
          /\ Fields(w) /\ SegmentsOK(w)
      <3> DEFINE z == ClosedAt(g, e)
      <3>1. e \in Int  BY <2>2
      <3>2. /\ z = IF e <= g.active THEN g.active ELSE IF e <= g.position THEN e ELSE g.position
            /\ w.segments = Append(g.segments, [start |-> g.active, end |-> z, audio |-> UnitsAfter(g.active, z)])
            /\ w.position = g.position /\ Fields(w) /\ SegmentsOK(w)
        <4> HIDE DEF z
        <4> QED BY <1>2, <1>4, <2>3, <2>4, <3>1, CloseSound DEF z
      <3> HIDE DEF z, w
      <3>3. z = e  BY <2>1, <2>2, <3>2
      <3> QED BY <3>2, <3>3
    <2>6. x.start = g.active /\ x.end = e  OBVIOUS
    <2> HIDE DEF x, w
    <2>7. Keeps(g, w) /\ l \in Nat /\ Len(w.segments) = l + 1 /\ w.segments[l + 1] = x
      BY <2>5, ClosesBehind
    <2>8. ASSUME NEW i \in 1 .. Len(scores), NEW j \in 1 .. Len(scores), i <= j,
                 Lasts(ends, scores, i, j, "speech", MinSpeech)
          PROVE  \E r \in 1 .. Len(w.segments) : Covers(w.segments[r], ends, i, j)
      <3>1. FoundOne(g, ends, i, j)  BY <1>1, <2>8, FoundIsOne
      <3>2. CASE \E r \in 1 .. l : Covers(g.segments[r], ends, i, j)
        <4>1. PICK r \in 1 .. l : Covers(g.segments[r], ends, i, j)  BY <3>2
        <4> QED BY <2>7, <4>1 DEF Keeps
      <3>3. CASE g.active <= StartOfFrame(ends, i) /\ ends[j] <= q
        <4>1. ends[j] \in Nat  BY <1>1, FramesParts
        <4>2. ends[j] <= e  BY <2>1, <2>2, <3>3, <4>1
        <4>3. Covers(x, ends, i, j)  BY <2>6, <3>3, <4>2 DEF Covers
        <4>4. l + 1 \in 1 .. Len(w.segments)  BY <2>7
        <4> QED BY <2>7, <4>3, <4>4
      <3> QED BY <3>1, <3>2, <3>3 DEF FoundOne, q
    <2>9. Based(w, ends, scores)
      <3>1. x.end \in q .. q + Padding  BY <2>1, <2>2, <2>6
      <3>2. \E i, k \in 1 .. Len(scores) : i <= k /\ ComesFrom(x, ends, scores, i, k)
        BY <1>1, <1>4, <2>6, <3>1, RangeComes DEF q
      <3>3. ASSUME NEW r \in 1 .. Len(w.segments)
            PROVE  \E i, k \in 1 .. Len(scores) : i <= k /\ ComesFrom(w.segments[r], ends, scores, i, k)
        <4>1. CASE r = l + 1  BY <2>7, <3>2, <4>1
        <4>2. CASE r # l + 1
          <5>1. r \in 1 .. l  BY <2>7, <4>2
          <5>2. w.segments[r] = g.segments[r]  BY <2>7, <5>1 DEF Keeps
          <5> QED BY <1>1, <5>1, <5>2 DEF Based
        <4> QED BY <4>1, <4>2
      <3> QED BY <3>3 DEF Based
    <2>10. w \in SegmenterRecord /\ WellFormed(w) /\ w.segments \in Seq(Segment)
      BY <2>5 DEF Fields, SegmentsOK, SegmenterRecord, RecordOf
    <2>11. SpeechIsFound(w, ends, scores)  BY <1>1, <2>8, <2>9, <2>10, RangesFound
    <2> QED BY <2>5, <2>10, <2>11 DEF w
  <1> QED BY <1>3, <1>4

\* clear() keeps the ranges.
LEMMA ClearFits ==
  ASSUME NEW g \in SegmenterRecord
  PROVE  /\ Clear(g) \in SegmenterRecord
         /\ Clear(g).position = g.position /\ Clear(g).segments = g.segments
         /\ WellFormed(g) => WellFormed(Clear(g))
         /\ \A ends, scores : SpeechIsFound(g, ends, scores) => SpeechIsFound(Clear(g), ends, scores)
  <1> DEFINE w == Clear(g)
  <1>1. <<>> \in Seq(Nat) /\ Unset \in Int  BY EmptySeq DEF Unset
  <1>2. w \in SegmenterRecord /\ w.position = g.position /\ w.segments = g.segments
    <2> DEFINE h == [g EXCEPT !.retained = <<>>, !.active = Unset]
               k == [h EXCEPT !.candidate = Unset, !.silence = Unset]
    <2>1. h \in SegmenterRecord /\ h.position = g.position /\ h.segments = g.segments
      BY <1>1 DEF SegmenterRecord, RecordOf
    <2>2. w = k  BY DEF Clear
    <2> HIDE DEF h, w
    <2>3. k \in SegmenterRecord /\ k.position = h.position /\ k.segments = h.segments
      BY <1>1, <2>1 DEF SegmenterRecord, RecordOf
    <2> HIDE DEF k
    <2> QED BY <2>1, <2>2, <2>3
  <1> HIDE DEF w
  <1>3. WellFormed(g) => WellFormed(w)  BY <1>2 DEF WellFormed
  <1>4. \A ends, scores : SpeechIsFound(g, ends, scores) => SpeechIsFound(w, ends, scores)
    BY <1>2, Zenon DEF SpeechIsFound
  <1> QED BY <1>2, <1>3, <1>4 DEF w

----------------------------------------------------------------------------
(* The microphone, and how an operation ends. *)

Silent(m) == m.at # "none" => m.stopped

LEMMA StopFits ==
  ASSUME NEW m \in CaptureRecord
  PROVE  Stop(m) \in CaptureRecord /\ NoLeak(Stop(m)) /\ Stop(m).stopped
  BY DEF Stop, CaptureRecord, CaptureStages, NoLeak

LEMMA RejectedFits ==
  ASSUME NEW m \in CaptureRecord
  PROVE  /\ Rejected(m) \in CaptureRecord /\ Rejected(m).stopped = m.stopped
         /\ Rejected(m).tracks = m.tracks /\ Rejected(m).at = m.at
  BY DEF Rejected, CaptureRecord, CaptureStages

LEMMA CancelFits ==
  ASSUME NEW m \in CaptureRecord, NoLeak(m)
  PROVE  /\ Cancel(m) \in CaptureRecord /\ NoLeak(Cancel(m)) /\ Silent(Cancel(m))
         /\ m.at = "none" => Cancel(m) = m
  <1> DEFINE n == Stop(m)
  <1>1. n \in CaptureRecord /\ NoLeak(n) /\ n.stopped  BY StopFits
  <1> HIDE DEF n
  <1>2. /\ Rejected(n) \in CaptureRecord /\ Rejected(n).stopped = n.stopped
        /\ Rejected(n).tracks = n.tracks
    BY <1>1, RejectedFits
  <1>3. Cancel(m) = IF m.at = "none" \/ m.stopped THEN m ELSE Rejected(n)  BY DEF Cancel, n
  <1> QED BY <1>1, <1>2, <1>3 DEF NoLeak, Silent

\* A turn of a capture leaks no device, and starts no capture again.
LEMMA TurnFits ==
  ASSUME NEW m \in CaptureRecord, NoLeak(m), NEW n \in CaptureTurns(m)
  PROVE  /\ n \in CaptureRecord /\ NoLeak(n) /\ (m.stopped => n.stopped) /\ m.at # "none"
  <1> DEFINE b == Broken(m)
  <1>1. b \in CaptureRecord /\ NoLeak(b) /\ b.stopped
    <2>1. CASE m.stopped  BY <2>1 DEF Broken
    <2>2. CASE ~m.stopped
      <3> DEFINE r == Rejected(Stop(m))  x == Started(m)
      <3>1. Stop(m) \in CaptureRecord /\ NoLeak(Stop(m)) /\ Stop(m).stopped  BY StopFits
      <3>2. r \in CaptureRecord /\ r.stopped = Stop(m).stopped /\ r.tracks = Stop(m).tracks
        BY <3>1, RejectedFits
      <3>3. x \in BOOLEAN  BY DEF Started
      <3>4. b = [r EXCEPT !.failed = x]  BY <2>2 DEF Broken
      <3> HIDE DEF b, r, x
      <3>5. b \in CaptureRecord /\ b.stopped = r.stopped /\ b.tracks = r.tracks
        BY <3>2, <3>3, <3>4 DEF CaptureRecord
      <3> QED BY <3>1, <3>2, <3>5 DEF NoLeak
    <2> QED BY <2>1, <2>2
  <1> HIDE DEF b
  <1>2. \/ m.at = "asking" /\ n = Granted(m)
        \/ m.at = "asking" /\ n = [b EXCEPT !.at = "over"]
        \/ m.at # "none" /\ ~m.stopped /\ n = b
        \/ m.at \in {"asking", "resuming"} /\ ~m.stopped /\ n = [m EXCEPT !.resumed = TRUE]
        \/ m.at = "resuming" /\ ~m.stopped /\ n = [m EXCEPT !.at = "loading"]
        \/ m.at \in {"resuming", "loading"} /\ ~m.stopped /\ n = Connected(m)
    BY DEF CaptureTurns, b
  <1>3. CASE m.at = "asking" /\ n = Granted(m)
    BY <1>3 DEF Granted, CaptureRecord, CaptureStages, NoLeak
  <1>4. CASE m.at = "asking" /\ n = [b EXCEPT !.at = "over"]
    BY <1>1, <1>4 DEF CaptureRecord, CaptureStages, NoLeak
  <1>5. CASE m.at # "none" /\ n = b  BY <1>1, <1>5
  <1>6. CASE m.at \in {"asking", "resuming"} /\ ~m.stopped /\ n = [m EXCEPT !.resumed = TRUE]
    BY <1>6 DEF CaptureRecord, CaptureStages, NoLeak
  <1>7. CASE m.at = "resuming" /\ ~m.stopped /\ n = [m EXCEPT !.at = "loading"]
    BY <1>7 DEF CaptureRecord, CaptureStages, NoLeak
  <1>8. CASE m.at \in {"resuming", "loading"} /\ ~m.stopped /\ n = Connected(m)
    BY <1>8 DEF Connected, CaptureRecord, CaptureStages, NoLeak
  <1> QED BY <1>2, <1>3, <1>4, <1>5, <1>6, <1>7, <1>8

\* t differs from s in what it listens to only.
CapturedFrom(s, t) ==
  /\ t \in OpRecord /\ ~t.attached
  /\ t.kind = s.kind /\ t.at = s.at /\ t.terminal = s.terminal /\ t.result = s.result
  /\ t.ending = s.ending /\ t.pump = s.pump /\ t.queue = s.queue /\ t.frame = s.frame
  /\ t.accepted = s.accepted /\ t.held = s.held /\ t.source = s.source /\ t.seg = s.seg
  /\ t.ends = s.ends /\ t.scores = s.scores

LEMMA StopCaptureFits ==
  ASSUME NEW s \in OpRecord, NoLeak(s.mic)
  PROVE  /\ CapturedFrom(s, StopCapture(s)) /\ NoLeak(StopCapture(s).mic)
         /\ Silent(StopCapture(s).mic)
         /\ s.mic.at = "none" => StopCapture(s).mic = s.mic
  <1> DEFINE m == Cancel(s.mic)  c == s.closing \/ s.capture = "held"
             p == IF s.capture = "held" THEN "none" ELSE s.capture
             t == [s EXCEPT !.attached = FALSE, !.mic = m, !.closing = c, !.capture = p]
  <1>1. StopCapture(s) = t  BY DEF StopCapture
  <1>2. s.mic \in CaptureRecord  BY DEF OpRecord
  <1>3. m \in CaptureRecord /\ NoLeak(m) /\ Silent(m) /\ (s.mic.at = "none" => m = s.mic)
    BY <1>2, CancelFits
  <1>4. c \in BOOLEAN /\ p \in {"none", "starting", "held"}  BY DEF OpRecord
  <1> HIDE DEF m, c, p
  <1>5. CapturedFrom(s, t) /\ t.mic = m  BY <1>3, <1>4 DEF CapturedFrom, OpRecord
  <1> QED BY <1>1, <1>3, <1>5

\* t is s, settled: of what it heard only the ranges are left.
SettledFrom(s, t, how) ==
  /\ t \in OpRecord /\ t.terminal /\ t.result = how /\ t.queue = <<>> /\ t.held = 0
  /\ ~t.attached /\ NoLeak(t.mic) /\ Silent(t.mic) /\ t.seg = Clear(s.seg)
  /\ t.kind = s.kind /\ t.at = s.at /\ t.ending = s.ending /\ t.pump = s.pump
  /\ t.frame = s.frame /\ t.accepted = s.accepted /\ t.source = s.source
  /\ t.ends = s.ends /\ t.scores = s.scores

LEMMA SettleFits ==
  ASSUME NEW s \in OpRecord, NoLeak(s.mic), NEW how \in Results, ~s.terminal
  PROVE  SettledFrom(s, Settle(s, how), how)
  <1> DEFINE u == StopCapture(s)  w == Clear(u.seg)
             t == [u EXCEPT !.terminal = TRUE, !.result = how, !.queue = <<>>, !.held = 0, !.seg = w]
  <1>1. Settle(s, how) = t  BY DEF Settle
  <1>2. CapturedFrom(s, u) /\ NoLeak(u.mic) /\ Silent(u.mic)  BY StopCaptureFits
  <1> HIDE DEF u
  <1>3. u \in OpRecord /\ u.seg = s.seg  BY <1>2 DEF CapturedFrom
  <1>4. u.seg \in SegmenterRecord  BY <1>3 DEF OpRecord
  <1>5. <<>> \in Seq(Nat) /\ w \in SegmenterRecord /\ w = Clear(s.seg)  BY <1>3, <1>4, EmptySeq, ClearFits
  <1> HIDE DEF w
  <1>6. t \in OpRecord
    <2>1. TRUE \in BOOLEAN /\ 0 \in 0 .. 1  OBVIOUS
    <2> QED BY <1>3, <1>5, <2>1 DEF OpRecord
  <1>7. /\ t.terminal = TRUE /\ t.result = how /\ t.queue = <<>> /\ t.held = 0 /\ t.seg = w
        /\ t.mic = u.mic /\ t.attached = u.attached
        /\ t.kind = u.kind /\ t.at = u.at /\ t.ending = u.ending /\ t.pump = u.pump
        /\ t.frame = u.frame /\ t.accepted = u.accepted /\ t.source = u.source
        /\ t.ends = u.ends /\ t.scores = u.scores
    BY <1>3, <1>5, <1>6 DEF OpRecord
  <1> HIDE DEF t
  <1> QED BY <1>1, <1>2, <1>5, <1>6, <1>7 DEF SettledFrom, CapturedFrom

LEMMA SettledAlready == ASSUME NEW s, NEW how, s.terminal PROVE Settle(s, how) = s
  BY DEF Settle

----------------------------------------------------------------------------
(* What a step of an operation leaves as it was. *)

\* The work that goes on was going on before; who still listens has heard no more.
GoesOn(s, t) ==
  /\ t.kind = s.kind /\ t.at = s.at
  /\ AtWork(t) => AtWork(s) /\ t.scores = s.scores
  /\ t.attached => s.attached /\ t.accepted = s.accepted

\* What has settled fits, whatever it had under way.
LEMMA SettledFits ==
  ASSUME NEW s, StandsRight(s), Len(s.frame) <= FrameSize, s.pump # "score" => s.frame = <<>>,
         s.seg.position <= s.accepted, WellFormed(s.seg),
         NEW t, NEW how \in Results \ {"none"}, SettledFrom(s, t, how),
         how = "complete" /\ s.at = "live" =>
           s.seg.position = s.accepted /\ SpeechIsFound(s.seg, s.ends, s.scores)
  PROVE  OpFit(t)
  <1>1. s \in OpRecord /\ s.seg \in SegmenterRecord  BY DEF StandsRight, OpRecord
  <1>2. /\ t.seg.position = s.seg.position /\ WellFormed(t.seg)
        /\ SpeechIsFound(s.seg, s.ends, s.scores) => SpeechIsFound(t.seg, t.ends, t.scores)
    BY <1>1, ClearFits DEF SettledFrom
  <1>3. StandsRight(t)  BY DEF StandsRight, SettledFrom
  <1>4. MicFits(t)  BY DEF MicFits, SettledFrom, Silent
  <1>5. ListensRight(t)  BY DEF ListensRight, SettledFrom
  <1>6. AudioFits(t)  BY <1>2 DEF AudioFits, SettledFrom
  <1> QED BY <1>3, <1>4, <1>5, <1>6 DEF OpFit

\* cancel(), fail().
LEMMA SettleKeeps ==
  ASSUME NEW s, OpFit(s), NEW how \in {"cancelled", "failed"}
  PROVE  /\ OpFit(Settle(s, how)) /\ GoesOn(s, Settle(s, how)) /\ Settle(s, how).terminal
         /\ Settle(s, how).pump = s.pump /\ ~Settle(s, how).attached
  <1>1. CASE s.terminal
    <2>1. Settle(s, how) = s  BY <1>1, SettledAlready
    <2> QED BY <1>1, <2>1 DEF GoesOn, OpFit, ListensRight
  <1>2. CASE ~s.terminal
    <2>1. how \in Results \ {"none"} /\ how # "complete"  BY DEF Results
    <2>2. s \in OpRecord /\ NoLeak(s.mic) /\ StandsRight(s)  BY DEF OpFit, StandsRight, MicFits
    <2> DEFINE t == Settle(s, how)
    <2>3. SettledFrom(s, t, how)  BY <1>2, <2>1, <2>2, SettleFits
    <2> HIDE DEF t
    <2>4. /\ Len(s.frame) <= FrameSize /\ (s.pump # "score" => s.frame = <<>>)
          /\ s.seg.position <= s.accepted /\ WellFormed(s.seg)
      BY DEF OpFit, AudioFits
    <2>5. OpFit(t)  BY <2>1, <2>2, <2>3, <2>4, SettledFits
    <2>6. GoesOn(s, t) /\ t.terminal /\ t.pump = s.pump /\ ~t.attached
      BY <1>2, <2>3 DEF SettledFrom, GoesOn, AtWork
    <2> QED BY <2>5, <2>6 DEF t
  <1> QED BY <1>1, <1>2

----------------------------------------------------------------------------
(* The pump. *)

\* A session or a recording at work, whatever frame it has under way.
AudioBetween(s) ==
  /\ s.seg.position <= s.accepted /\ WellFormed(s.seg)
  /\ s.terminal => s.queue = <<>>
  /\ ~s.terminal =>
       /\ Sound(s.seg) /\ Heard(s.seg, s.ends, s.scores)
       /\ s.seg.position <= s.accepted - s.held
       /\ s.queue = UnitsAfter(s.seg.position, s.accepted - s.held)
       /\ s.ending => s.held = 0
  /\ s.result = "complete" => s.seg.position = s.accepted /\ SpeechIsFound(s.seg, s.ends, s.scores)
Between(s) ==
  s.at = "live" /\ StandsRight(s) /\ MicFits(s) /\ ListensRight(s) /\ AudioBetween(s)

\* t is s with another frame under way.
FrameOf(s, t) ==
  /\ t \in OpRecord /\ t.kind = s.kind /\ t.at = s.at /\ t.terminal = s.terminal
  /\ t.result = s.result /\ t.ending = s.ending /\ t.accepted = s.accepted /\ t.held = s.held
  /\ t.source = s.source /\ t.mic = s.mic /\ t.attached = s.attached /\ t.seg = s.seg
  /\ t.ends = s.ends /\ t.scores = s.scores

LEMMA FrameRests ==
  ASSUME NEW s, Between(s), NEW t, FrameOf(s, t)
  PROVE  /\ StandsRight(t) /\ MicFits(t) /\ ListensRight(t)
         /\ t.pump = "settle" /\ t.frame = <<>> /\ t.queue = s.queue => OpFit(t)
  <1>1. StandsRight(t)  BY DEF Between, FrameOf, StandsRight
  <1>2. MicFits(t)  BY DEF Between, FrameOf, MicFits
  <1>3. ListensRight(t)  BY DEF Between, FrameOf, ListensRight
  <1>4. ASSUME t.pump = "settle", t.frame = <<>>, t.queue = s.queue PROVE AudioFits(t)
    <2>1. /\ s.seg.position \in Nat /\ FrameSize \in Nat /\ Len(<<>>) = 0
          /\ s.seg.position + 0 = s.seg.position
      BY ListeningAssumption, EmptySeq DEF Between, StandsRight, OpRecord, SegmenterRecord, RecordOf
    <2>2. UnitsAfter(s.seg.position, s.seg.position) = <<>>  BY <2>1, NoUnits
    <2>3. AudioBetween(s) /\ t.at = "live" /\ s.at = "live"  BY DEF Between, FrameOf
    <2>4. ~s.terminal => Queued(t)
      BY <1>4, <2>1, <2>2, <2>3 DEF AudioBetween, FrameOf, Queued
    <2> QED BY <1>4, <2>1, <2>3, <2>4 DEF AudioBetween, AudioFits, FrameOf
  <1> QED BY <1>1, <1>2, <1>3, <1>4 DEF OpFit

\* What the pump does at the head of its loop.
Pumped(s, t) ==
  /\ OpFit(t) /\ t.kind = s.kind /\ t.at = s.at /\ t.accepted = s.accepted
  /\ t.ends = s.ends /\ t.scores = s.scores /\ t.pump \in {"score", "settle"}
  /\ s.terminal => t.terminal /\ t.pump = "settle"
  /\ t.attached => s.attached
  /\ ~s.ending => t.attached = s.attached

LEMMA PumpLoopFits ==
  ASSUME NEW s, Between(s)
  PROVE  Pumped(s, PumpLoop(s))
  <1> DEFINE k == FrameSize  l == Len(s.queue)  n == Min({k, l})  p == s.seg.position
  <1>1. /\ s \in OpRecord /\ s.at = "live" /\ NoLeak(s.mic) /\ StandsRight(s) /\ AudioBetween(s)
        /\ s.seg \in SegmenterRecord /\ p \in Nat /\ s.queue \in Seq(Nat) /\ s.accepted \in Nat
        /\ s.held \in Nat
    BY DEF Between, StandsRight, MicFits, OpRecord, SegmenterRecord, RecordOf
  <1>2. /\ k \in Nat /\ l \in Nat /\ n = (IF k <= l THEN k ELSE l)  
    <2>1. k \in Nat /\ l \in Nat  BY <1>1, LenProperties, ListeningAssumption
    <2> HIDE DEF k, l
    <2> QED BY <2>1, MinOfTwo
  <1>3. CASE ~s.terminal /\ n > 0 /\ (n = FrameSize \/ s.ending)
    <2> DEFINE f == SubSeq(s.queue, 1, n)  q == Past(s.queue, n)
               t == [s EXCEPT !.pump = "score", !.frame = f, !.queue = q]
               b == s.accepted - s.held
    <2>1. PumpLoop(s) = t  BY <1>3 DEF PumpLoop
    <2>2. /\ Sound(s.seg) /\ Heard(s.seg, s.ends, s.scores) /\ p <= b /\ s.queue = UnitsAfter(p, b)
          /\ (s.ending => s.held = 0) /\ WellFormed(s.seg)
      BY <1>1, <1>3 DEF AudioBetween
    <2>3. b \in Nat /\ p + n \in Nat /\ p <= p + n /\ n = (p + n) - p /\ l = b - p /\ p + n <= b
          /\ n \in Nat /\ n <= FrameSize
      <3>1. b \in Int  BY <1>1
      <3> HIDE DEF b, p, k, l, n
      <3>2. b \in Nat /\ b - p \in Nat  BY <1>1, <2>2, <3>1
      <3>3. l = b - p  BY <1>1, <2>2, <3>2, UnitsParts DEF l
      <3>4. n \in Nat /\ n <= l /\ n <= k  BY <1>2
      <3> QED BY <1>1, <3>2, <3>3, <3>4 DEF k
    <2> HIDE DEF b, p, n
    <2>4. f = UnitsAfter(p, p + n)
      <3> DEFINE c == p + n
      <3>1. /\ c \in Nat /\ p <= c /\ c <= b /\ n = c - p /\ 1 \in Nat /\ 1 = p - p + 1 /\ p <= p
            /\ p \in Nat /\ b \in Nat /\ n \in Nat
        BY <1>1, <2>3
      <3> HIDE DEF c
      <3>2. SubSeq(UnitsAfter(p, b), 1, n) = UnitsAfter(p, c)  BY <3>1, UnitsBetween
      <3> QED BY <2>2, <3>2 DEF c
    <2>5. q = UnitsAfter(p + n, b)
      <3> DEFINE c == p + n
      <3>1. c \in Nat /\ p <= c /\ c <= b /\ n = c - p  BY <2>3
      <3> HIDE DEF c
      <3>2. q = UnitsAfter(c, b)  BY <1>1, <2>2, <2>3, <3>1, UnitsPast
      <3> QED BY <3>2 DEF c
    <2>6. f \in Seq(Nat) /\ Len(f) = n /\ q \in Seq(Nat)
      <3> DEFINE c == p + n
      <3>1. c \in Nat /\ p <= c /\ c <= b /\ n = c - p  BY <2>3
      <3> HIDE DEF c, f, q
      <3> QED BY <1>1, <2>3, <2>4, <2>5, <3>1, UnitsParts DEF c
    <2> HIDE DEF f, q
    <2>7. /\ FrameOf(s, t) /\ t.pump = "score" /\ t.frame = f /\ t.queue = q
      BY <1>1, <2>6 DEF FrameOf, OpRecord
    <2> HIDE DEF t
    <2>8. StandsRight(t) /\ MicFits(t) /\ ListensRight(t)  BY <2>7, FrameRests
    <2>9. Queued(t)
      <3>1. /\ t.seg.position = p /\ t.accepted - t.held = b /\ Len(t.frame) = n /\ t.frame = f
            /\ t.queue = q
        BY <2>6, <2>7 DEF FrameOf, b, p
      <3> QED BY <2>3, <2>4, <2>5, <3>1 DEF Queued
    <2>10. AudioFits(t)
      <3>1. /\ t.at = "live" /\ ~t.terminal /\ t.result # "complete" /\ Len(t.frame) <= FrameSize
            /\ t.seg.position <= t.accepted /\ t.pump = "score"
        BY <1>1, <1>3, <2>3, <2>6, <2>7 DEF FrameOf, StandsRight, AudioBetween
      <3> QED BY <2>2, <2>7, <2>9, <3>1 DEF AudioFits, FrameOf
    <2> QED BY <1>3, <2>1, <2>7, <2>8, <2>10 DEF Pumped, OpFit, FrameOf
  <1>4. CASE ~(~s.terminal /\ n > 0 /\ (n = FrameSize \/ s.ending)) /\ s.ending /\ ~s.terminal
    <2> DEFINE w == FinishSegments(s.seg)  v == [s EXCEPT !.seg = w]  u == Settle(v, "complete")
               t == [u EXCEPT !.pump = "settle", !.frame = <<>>]
    <2>1. PumpLoop(s) = t  BY <1>4 DEF PumpLoop
    <2>2. /\ Sound(s.seg) /\ Heard(s.seg, s.ends, s.scores) /\ p <= s.accepted - s.held
          /\ s.queue = UnitsAfter(p, s.accepted - s.held) /\ s.held = 0
      BY <1>1, <1>4 DEF AudioBetween
    <2>3. p = s.accepted
      <3>1. l = s.accepted - p /\ p <= s.accepted
        <4>1. p <= s.accepted /\ s.queue = UnitsAfter(p, s.accepted)  BY <1>1, <2>2
        <4> HIDE DEF p
        <4> QED BY <1>1, <4>1, UnitsParts
      <3>2. ~(n > 0) /\ k > 0  BY <1>4, ListeningAssumption
      <3> HIDE DEF n, k, l, p
      <3> QED BY <1>1, <1>2, <3>1, <3>2
    <2>4. w \in SegmenterRecord /\ WellFormed(w) /\ w.position = p /\ SpeechIsFound(w, s.ends, s.scores)
      BY <2>2, FinishFinds
    <2> HIDE DEF w
    <2>5. /\ v \in OpRecord /\ v.seg = w /\ v.terminal = s.terminal /\ v.kind = s.kind /\ v.at = s.at
          /\ v.result = s.result /\ v.ending = s.ending /\ v.pump = s.pump /\ v.queue = s.queue
          /\ v.frame = s.frame /\ v.accepted = s.accepted /\ v.held = s.held /\ v.source = s.source
          /\ v.mic = s.mic /\ v.attached = s.attached /\ v.ends = s.ends /\ v.scores = s.scores
      BY <1>1, <2>4 DEF OpRecord
    <2> HIDE DEF v
    <2>6. SettledFrom(v, u, "complete")
      <3>1. "complete" \in Results  BY DEF Results
      <3> QED BY <1>1, <1>4, <2>5, <3>1, SettleFits
    <2> HIDE DEF u
    <2>7. u \in OpRecord  BY <2>6 DEF SettledFrom
    <2>8. /\ t \in OpRecord /\ t.pump = "settle" /\ t.frame = <<>> /\ t.kind = u.kind /\ t.at = u.at
          /\ t.terminal = u.terminal /\ t.result = u.result /\ t.ending = u.ending
          /\ t.queue = u.queue /\ t.accepted = u.accepted /\ t.held = u.held /\ t.source = u.source
          /\ t.mic = u.mic /\ t.attached = u.attached /\ t.seg = u.seg /\ t.ends = u.ends
          /\ t.scores = u.scores
      <3>1. <<>> \in Seq(Nat)  BY EmptySeq
      <3> QED BY <2>7, <3>1 DEF OpRecord
    <2> HIDE DEF t
    <2>9. /\ t.seg.position = w.position /\ WellFormed(t.seg)
          /\ SpeechIsFound(t.seg, s.ends, s.scores)
      BY <2>4, <2>5, <2>6, <2>8, ClearFits DEF SettledFrom
    <2>10. StandsRight(t)  BY <1>1, <2>5, <2>6, <2>8 DEF StandsRight, SettledFrom
    <2>11. MicFits(t)  BY <2>6, <2>8 DEF MicFits, SettledFrom, Silent
    <2>12. ListensRight(t)  BY <2>6, <2>8 DEF ListensRight, SettledFrom
    <2>13. AudioFits(t)
      <3>1. /\ t.terminal /\ t.queue = <<>> /\ t.seg.position <= t.accepted
            /\ t.seg.position = t.accepted /\ t.ends = s.ends /\ t.scores = s.scores
        BY <1>1, <2>3, <2>4, <2>5, <2>6, <2>8, <2>9 DEF SettledFrom
      <3>2. Len(<<>>) = 0 /\ 0 <= FrameSize  BY EmptySeq, ListeningAssumption
      <3> QED BY <2>8, <2>9, <3>1, <3>2 DEF AudioFits
    <2>14. OpFit(t)  BY <2>10, <2>11, <2>12, <2>13 DEF OpFit
    <2> QED BY <1>4, <2>1, <2>5, <2>6, <2>8, <2>14 DEF Pumped, SettledFrom
  <1>5. CASE ~(~s.terminal /\ n > 0 /\ (n = FrameSize \/ s.ending)) /\ ~(s.ending /\ ~s.terminal)
    <2> DEFINE t == [s EXCEPT !.pump = "settle", !.frame = <<>>]
    <2>1. PumpLoop(s) = t  BY <1>5 DEF PumpLoop
    <2>2. <<>> \in Seq(Nat)  BY EmptySeq
    <2>3. FrameOf(s, t) /\ t.pump = "settle" /\ t.frame = <<>> /\ t.queue = s.queue
      BY <1>1, <2>2 DEF FrameOf, OpRecord
    <2> HIDE DEF t
    <2>4. OpFit(t)  BY <2>3, FrameRests
    <2> QED BY <2>1, <2>3, <2>4 DEF Pumped, FrameOf
  <1> QED BY <1>3, <1>4, <1>5

\* An operation whose pump has no frame under way.
LEMMA RestBetween ==
  ASSUME NEW s, OpFit(s), s.at = "live", s.pump # "score"
  PROVE  Between(s)
  <1>1. StandsRight(s) /\ MicFits(s) /\ ListensRight(s) /\ AudioFits(s)  BY DEF OpFit
  <1>2. /\ s.seg.position \in Nat /\ Len(<<>>) = 0 /\ s.seg.position + 0 = s.seg.position
    BY <1>1, EmptySeq DEF StandsRight, OpRecord, SegmenterRecord, RecordOf
  <1>3. s.frame = <<>>  BY <1>1 DEF AudioFits
  <1>4. ~s.terminal => /\ s.seg.position <= s.accepted - s.held
                       /\ s.queue = UnitsAfter(s.seg.position, s.accepted - s.held)
    BY <1>1, <1>2, <1>3 DEF AudioFits, Queued
  <1>5. AudioBetween(s)  BY <1>1, <1>4 DEF AudioFits, AudioBetween
  <1> QED BY <1>1, <1>5 DEF Between

\* kick().
LEMMA KickFits ==
  ASSUME NEW s, OpFit(s)
  PROVE  /\ OpFit(Kick(s)) /\ GoesOn(s, Kick(s)) /\ (s.terminal => Kick(s) = s)
         /\ (~s.ending => Kick(s).attached = s.attached) /\ Kick(s).accepted = s.accepted
  <1>1. CASE s.terminal \/ s.pump # "idle" \/ s.at # "live"
    <2>1. Kick(s) = s  BY <1>1 DEF Kick
    <2> QED BY <2>1 DEF GoesOn
  <1>2. CASE ~(s.terminal \/ s.pump # "idle" \/ s.at # "live")
    <2>1. Kick(s) = PumpLoop(s)  BY <1>2 DEF Kick
    <2>2. Between(s)  BY <1>2, RestBetween
    <2>3. Pumped(s, Kick(s))  BY <2>1, <2>2, PumpLoopFits
    <2>4. AtWork(s)  BY <1>2 DEF AtWork
    <2> QED BY <1>2, <2>3, <2>4 DEF Pumped, GoesOn
  <1> QED BY <1>1, <1>2

\* The last turn of the pump.
LEMMA PumpSettlesFits ==
  ASSUME NEW s, OpFit(s), s.pump = "settle"
  PROVE  LET t == KickAgain([s EXCEPT !.pump = "idle"]) IN OpFit(t) /\ GoesOn(s, t)
  <1> DEFINE u == [s EXCEPT !.pump = "idle"]  t == KickAgain(u)
  <1>1. s \in OpRecord /\ s.at = "live"  BY DEF OpFit, StandsRight
  <1>2. FrameOf(s, u) /\ u.pump = "idle" /\ u.frame = s.frame /\ u.queue = s.queue
    BY <1>1 DEF FrameOf, OpRecord
  <1> HIDE DEF u
  <1>3. Between(s)  BY <1>1, RestBetween
  <1>4. StandsRight(u) /\ MicFits(u) /\ ListensRight(u)  BY <1>2, <1>3, FrameRests
  <1>5. AudioFits(u)
    <2>1. Queued(s) => Queued(u)  BY <1>2 DEF FrameOf, Queued
    <2> QED BY <1>1, <1>2, <2>1 DEF OpFit, AudioFits, FrameOf
  <1>6. OpFit(u) /\ GoesOn(s, u)  BY <1>2, <1>4, <1>5 DEF OpFit, GoesOn, AtWork, FrameOf
  <1>7. t = Kick(u) \/ t = u  BY DEF KickAgain
  <1>8. OpFit(t) /\ GoesOn(u, t)
    <2>1. CASE t = Kick(u)  BY <1>6, <2>1, KickFits
    <2>2. CASE t = u  BY <1>6, <2>2 DEF GoesOn
    <2> QED BY <1>7, <2>1, <2>2
  <1> HIDE DEF t
  <1>9. GoesOn(s, t)  BY <1>6, <1>8 DEF GoesOn
  <1> QED BY <1>8, <1>9 DEF t, u

\* score() answered: the frame has been heard, or the operation is over.
LEMMA ScoredFits ==
  ASSUME NEW s, OpFit(s), s.pump = "score", NEW outcome \in Outcomes(s)
  PROVE  LET t == Scored(s, outcome) IN
         /\ OpFit(t) /\ t.kind = s.kind /\ t.at = "live" /\ t.accepted = s.accepted
         /\ t.attached => s.attached
         /\ AtWork(t) => Len(t.scores) = Len(s.scores) + 1
  <1> DEFINE t == Scored(s, outcome)
  <1>1. /\ s \in OpRecord /\ s.at = "live" /\ StandsRight(s) /\ MicFits(s) /\ ListensRight(s)
        /\ AudioFits(s)
    BY DEF OpFit, StandsRight
  <1>2. CASE s.terminal
    <2>1. t = PumpLoop(s)  BY <1>2 DEF Scored
    <2>2. AudioBetween(s)  BY <1>1, <1>2 DEF AudioFits, AudioBetween
    <2>3. Between(s)  BY <1>1, <2>2 DEF Between
    <2>4. Pumped(s, t)  BY <2>1, <2>3, PumpLoopFits
    <2> HIDE DEF t
    <2>5. ~AtWork(t)  BY <1>2, <2>4 DEF Pumped, AtWork
    <2> QED BY <1>1, <2>4, <2>5 DEF Pumped, t
  <1>3. CASE ~s.terminal
    <2> DEFINE g == s.seg  p == g.position  n == Len(s.frame)
               w == outcome.seg  score == outcome.score
               es == Append(s.ends, p + n)  ss == Append(s.scores, score)
               u == [s EXCEPT !.seg = w, !.scores = ss, !.ends = es]
    <2>1. t = PumpLoop(u)  BY <1>3 DEF Scored
    <2>2. score \in Scores /\ w = Feed(g, s.frame, score)  BY DEF Outcomes, Fed
    <2>3. /\ Sound(g) /\ Heard(g, s.ends, s.scores) /\ p + n <= s.accepted - s.held
          /\ s.frame = UnitsAfter(p, p + n) /\ s.queue = UnitsAfter(p + n, s.accepted - s.held)
          /\ (s.ending => s.held = 0)
      BY <1>1, <1>3 DEF AudioFits, Queued
    <2>4. /\ p \in Nat /\ n \in Nat /\ s.ends \in Seq(Nat) /\ s.scores \in Seq(Scores)
          /\ s.accepted \in Nat /\ s.held \in Nat
      BY <1>1, LenProperties DEF OpRecord, SegmenterRecord, RecordOf
    <2> HIDE DEF w, score, n
    <2>5. Sound(w) /\ Heard(w, es, ss) /\ w.position = p + n
      BY <2>2, <2>3, <2>4, FedHeard
    <2>6. w \in SegmenterRecord /\ WellFormed(w)  BY <2>5 DEF Sound, Fields, SegmentsOK
    <2>7. es \in Seq(Nat) /\ ss \in Seq(Scores) /\ Len(ss) = Len(s.scores) + 1
      <3>1. p + n \in Nat  BY <2>4
      <3> HIDE DEF p
      <3> QED BY <2>2, <2>4, <3>1, AppendProperties
    <2> HIDE DEF es, ss
    <2>8. /\ u \in OpRecord /\ u.seg = w /\ u.scores = ss /\ u.ends = es
          /\ u.kind = s.kind /\ u.at = s.at /\ u.terminal = s.terminal
          /\ u.result = s.result /\ u.ending = s.ending /\ u.accepted = s.accepted /\ u.held = s.held
          /\ u.source = s.source /\ u.mic = s.mic /\ u.attached = s.attached /\ u.queue = s.queue
          /\ u.pump = s.pump
      BY <1>1, <2>6, <2>7 DEF OpRecord
    <2> HIDE DEF u
    <2>9. StandsRight(u) /\ MicFits(u) /\ ListensRight(u)
      BY <1>1, <2>8 DEF StandsRight, MicFits, ListensRight
    <2>10. AudioBetween(u)
      <3>1. w.position <= s.accepted
        <4> HIDE DEF p
        <4> QED BY <2>3, <2>4, <2>5
      <3>2. u.result # "complete" /\ ~u.terminal  BY <1>1, <1>3, <2>8 DEF StandsRight
      <3> HIDE DEF p
      <3> QED BY <2>3, <2>5, <2>6, <2>8, <3>1, <3>2 DEF AudioBetween
    <2>11. Between(u)  BY <1>1, <2>8, <2>9, <2>10 DEF Between
    <2>12. Pumped(u, t)  BY <2>1, <2>11, PumpLoopFits
    <2> HIDE DEF t
    <2> QED BY <1>1, <2>7, <2>8, <2>12 DEF Pumped, t
  <1> QED BY <1>2, <1>3

----------------------------------------------------------------------------
(* Audio arrives, and ends. *)

\* t is s with more audio, or with the end of it.
LongerFrom(s, t) ==
  /\ t \in OpRecord /\ t.kind = s.kind /\ t.at = s.at /\ t.terminal = s.terminal
  /\ t.result = s.result /\ t.pump = s.pump /\ t.frame = s.frame /\ t.source = s.source
  /\ t.seg = s.seg /\ t.ends = s.ends /\ t.scores = s.scores

\* The audio queued continues what was queued.
LEMMA QueueJoins ==
  ASSUME NEW s, StandsRight(s), AudioFits(s), s.at = "live", ~s.terminal,
         NEW e \in Nat, s.accepted - s.held <= e
  PROVE  LET p == s.seg.position + Len(s.frame) IN
         /\ s.queue \o UnitsAfter(s.accepted - s.held, e) = UnitsAfter(p, e) /\ p \in Nat /\ p <= e
         /\ s.queue \o UnitsAfter(s.accepted - s.held, e) \in Seq(Nat)
  <1> DEFINE p == s.seg.position + Len(s.frame)  b == s.accepted - s.held
             q == s.queue \o UnitsAfter(b, e)
  <1>1. p \in Nat /\ b \in Int
    <2>1. /\ s.seg.position \in Nat /\ s.frame \in Seq(Nat) /\ s.accepted \in Nat /\ s.held \in Nat
      BY DEF StandsRight, OpRecord, SegmenterRecord, RecordOf
    <2>2. Len(s.frame) \in Nat  BY <2>1, LenProperties
    <2> QED BY <2>1, <2>2
  <1>2. Queued(s)  BY DEF AudioFits
  <1>3. p <= b /\ s.queue = UnitsAfter(p, b)  BY <1>2 DEF Queued
  <1> HIDE DEF p
  <1>4. b <= e  OBVIOUS
  <1> HIDE DEF b
  <1>5. b \in Nat /\ p <= e  BY <1>1, <1>3, <1>4
  <1>6. q = UnitsAfter(p, e)
    <2>1. UnitsAfter(p, b) \o UnitsAfter(b, e) = UnitsAfter(p, e)
      BY <1>1, <1>3, <1>4, <1>5, UnitsJoin
    <2> QED BY <1>3, <2>1
  <1>7. UnitsAfter(p, e) \in Seq(Nat)  BY <1>1, <1>5, UnitsParts
  <1> HIDE DEF q
  <1>8. q \in Seq(Nat)  BY <1>6, <1>7
  <1> QED BY <1>1, <1>5, <1>6, <1>8 DEF q, p, b

LEMMA LongerFits ==
  ASSUME NEW s, OpFit(s), s.at = "live", ~s.terminal, NEW t, LongerFrom(s, t),
         s.accepted <= t.accepted, s.accepted - s.held <= t.accepted - t.held,
         t.queue = s.queue \o UnitsAfter(s.accepted - s.held, t.accepted - t.held),
         t.accepted - t.held \in Nat, t.ending => t.held = 0
  PROVE  AudioFits(t)
  <1>1. StandsRight(s) /\ AudioFits(s)  BY DEF OpFit
  <1>2. /\ t.queue = UnitsAfter(s.seg.position + Len(s.frame), t.accepted - t.held)
        /\ s.seg.position + Len(s.frame) <= t.accepted - t.held
    <2> DEFINE e == t.accepted - t.held
    <2>1. e \in Nat /\ s.accepted - s.held <= e /\ t.queue = s.queue \o UnitsAfter(s.accepted - s.held, e)
      OBVIOUS
    <2> HIDE DEF e
    <2>2. /\ s.queue \o UnitsAfter(s.accepted - s.held, e) = UnitsAfter(s.seg.position + Len(s.frame), e)
          /\ s.seg.position + Len(s.frame) <= e
      BY <1>1, <2>1, QueueJoins
    <2> QED BY <2>1, <2>2 DEF e
  <1>3. Queued(t)
    <2>1. Queued(s)  BY <1>1 DEF AudioFits
    <2> QED BY <1>2, <2>1 DEF Queued, LongerFrom
  <1>4. t.seg.position <= t.accepted
    <2>1. s.seg.position \in Nat /\ s.accepted \in Nat /\ t.accepted \in Nat /\ s.seg.position <= s.accepted
      BY <1>1 DEF StandsRight, OpRecord, SegmenterRecord, RecordOf, LongerFrom, AudioFits
    <2>2. t.seg.position = s.seg.position  BY DEF LongerFrom
    <2> QED BY <2>1, <2>2
  <1>5. t.result # "complete" /\ ~t.terminal /\ t.at = "live"  BY <1>1 DEF StandsRight, LongerFrom
  <1> QED BY <1>1, <1>3, <1>4, <1>5 DEF AudioFits, LongerFrom

\* accept().
LEMMA AcceptFits ==
  ASSUME NEW s, OpFit(s), s.at = "live", NEW n \in Nat, NEW keeps \in 0 .. 1, keeps <= n,
         s.kind = "session" => s.source # "none"
  PROVE  LET t == Accept(s, n, keeps) IN
         /\ OpFit(t) /\ t.kind = s.kind /\ t.at = "live"
         /\ AtWork(t) => AtWork(s) /\ t.scores = s.scores
         /\ t.attached = s.attached
         /\ IF s.terminal \/ s.ending THEN t = s ELSE t.accepted = s.accepted + n
  <1> DEFINE t == Accept(s, n, keeps)
  <1>1. CASE s.terminal \/ s.ending
    <2>1. t = s  BY <1>1 DEF Accept
    <2> QED BY <1>1, <2>1
  <1>2. CASE ~(s.terminal \/ s.ending)
    <2> DEFINE b == s.accepted - s.held  c == s.accepted + n  e == s.accepted + n - keeps
               q == s.queue \o UnitsAfter(b, e)
               u == [s EXCEPT !.queue = q, !.accepted = c, !.held = keeps]
    <2>1. t = Kick(u)  BY <1>2 DEF Accept
    <2>2. /\ s \in OpRecord /\ StandsRight(s) /\ MicFits(s) /\ ListensRight(s) /\ AudioFits(s)
          /\ s.accepted \in Nat /\ s.held \in 0 .. 1
      BY DEF OpFit, StandsRight, OpRecord
    <2>3. c \in Nat /\ e \in Nat /\ b <= e /\ s.accepted <= c /\ e = c - keeps  BY <2>2
    <2>4. q \in Seq(Nat)
      <3> HIDE DEF e
      <3>1. ~s.terminal /\ b <= e /\ e \in Nat  BY <1>2, <2>3
      <3> QED BY <2>2, <3>1, QueueJoins
    <2> HIDE DEF q, c
    <2>5. LongerFrom(s, u) /\ u.queue = q /\ u.accepted = c /\ u.held = keeps
          /\ u.ending = s.ending /\ u.mic = s.mic /\ u.attached = s.attached
      BY <2>2, <2>3, <2>4 DEF LongerFrom, OpRecord
    <2> HIDE DEF u
    <2>6. AudioFits(u)
      <3>1. u.accepted - u.held = e /\ s.accepted <= u.accepted /\ ~s.terminal /\ ~u.ending
        BY <1>2, <2>3, <2>5
      <3> HIDE DEF e
      <3>2. s.accepted - s.held <= u.accepted - u.held /\ u.accepted - u.held \in Nat
            /\ u.queue = s.queue \o UnitsAfter(s.accepted - s.held, u.accepted - u.held)
        BY <2>3, <2>5, <3>1 DEF q
      <3> QED BY <2>5, <3>1, <3>2, LongerFits
    <2>7. StandsRight(u)  BY <2>2, <2>5 DEF StandsRight, LongerFrom
    <2>8. MicFits(u) /\ ListensRight(u)  BY <2>2, <2>5 DEF MicFits, ListensRight, LongerFrom
    <2>9. OpFit(u)  BY <2>6, <2>7, <2>8 DEF OpFit
    <2>10. OpFit(t) /\ GoesOn(u, t) /\ t.attached = u.attached /\ t.accepted = u.accepted
      BY <1>2, <2>1, <2>5, <2>9, KickFits
    <2>11. AtWork(u) => AtWork(s)  BY <2>5 DEF AtWork, LongerFrom
    <2> HIDE DEF t
    <2>12. t.kind = s.kind /\ t.at = "live" /\ (AtWork(t) => AtWork(s) /\ t.scores = s.scores)
      BY <2>5, <2>10, <2>11 DEF GoesOn, LongerFrom
    <2> QED BY <1>2, <2>5, <2>10, <2>12 DEF t, c
  <1> QED BY <1>1, <1>2

\* finish().
LEMMA FinishFits ==
  ASSUME NEW s, OpFit(s), s.at = "live"
  PROVE  OpFit(Finish(s)) /\ GoesOn(s, Finish(s)) /\ ~Finish(s).attached
  <1> DEFINE t == Finish(s)
  <1>0. /\ s \in OpRecord /\ StandsRight(s) /\ MicFits(s) /\ ListensRight(s) /\ AudioFits(s)
        /\ NoLeak(s.mic) /\ s.accepted \in Nat /\ s.held \in 0 .. 1
    BY DEF OpFit, StandsRight, MicFits, OpRecord
  <1>1. CASE s.terminal \/ s.ending
    <2>1. t = s  BY <1>1 DEF Finish
    <2> QED BY <1>0, <1>1, <2>1 DEF GoesOn, ListensRight
  <1>2. CASE ~(s.terminal \/ s.ending)
    <2> DEFINE b == s.accepted - s.held  q == s.queue \o UnitsAfter(b, s.accepted)
               v == StopCapture(s)
               u == [v EXCEPT !.ending = TRUE, !.held = 0, !.queue = q]
    <2>1. CapturedFrom(s, v) /\ NoLeak(v.mic) /\ Silent(v.mic) /\ (s.mic.at = "none" => v.mic = s.mic)
      BY <1>0, StopCaptureFits
    <2>2. t = Kick(u)
      <3>1. v.queue = s.queue  BY <2>1 DEF CapturedFrom
      <3> QED BY <1>2, <3>1 DEF Finish
    <2> HIDE DEF v
    <2>3. b <= s.accepted /\ s.accepted - 0 = s.accepted  BY <1>0
    <2>4. q \in Seq(Nat)  BY <1>0, <1>2, <2>3, QueueJoins
    <2> HIDE DEF q
    <2>5. v \in OpRecord  BY <2>1 DEF CapturedFrom
    <2>6. /\ u \in OpRecord /\ u.queue = q /\ u.held = 0 /\ u.ending = TRUE
          /\ u.kind = v.kind /\ u.at = v.at /\ u.terminal = v.terminal /\ u.result = v.result
          /\ u.pump = v.pump /\ u.frame = v.frame /\ u.accepted = v.accepted /\ u.source = v.source
          /\ u.mic = v.mic /\ u.attached = v.attached /\ u.seg = v.seg /\ u.ends = v.ends
          /\ u.scores = v.scores
      <3>1. TRUE \in BOOLEAN /\ 0 \in 0 .. 1  OBVIOUS
      <3> QED BY <2>4, <2>5, <3>1 DEF OpRecord
    <2> HIDE DEF u
    <2>7. LongerFrom(s, u) /\ u.accepted = s.accepted /\ ~u.attached
      BY <2>1, <2>6 DEF LongerFrom, CapturedFrom
    <2>8. AudioFits(u)
      <3>1. /\ s.accepted <= u.accepted /\ s.accepted - s.held <= u.accepted - u.held
            /\ u.queue = s.queue \o UnitsAfter(s.accepted - s.held, u.accepted - u.held)
            /\ u.accepted - u.held \in Nat
        <4>1. u.accepted - u.held = s.accepted /\ s.accepted <= s.accepted  BY <1>0, <2>3, <2>6, <2>7
        <4>2. u.queue = s.queue \o UnitsAfter(s.accepted - s.held, u.accepted - u.held)
          BY <2>6, <4>1 DEF q
        <4> QED BY <1>0, <2>3, <2>7, <4>1, <4>2
      <3> QED BY <1>2, <2>6, <2>7, <3>1, LongerFits
    <2>9. StandsRight(u)  BY <1>0, <2>6, <2>7 DEF StandsRight, LongerFrom
    <2>10. MicFits(u)
      <3>1. ~u.terminal /\ u.source # "owned" => s.mic.at = "none" /\ s.mic.promise = "pending"
        BY <1>0, <2>7 DEF MicFits, LongerFrom
      <3> QED BY <2>1, <2>6, <3>1 DEF MicFits, Silent
    <2>11. ListensRight(u)  BY <2>6, <2>7 DEF ListensRight
    <2>12. OpFit(u)  BY <2>8, <2>9, <2>10, <2>11 DEF OpFit
    <2>13. OpFit(t) /\ GoesOn(u, t)  BY <2>2, <2>12, KickFits
    <2>14. GoesOn(s, u)  BY <2>7 DEF GoesOn, AtWork, LongerFrom
    <2> HIDE DEF t
    <2>15. GoesOn(s, t) /\ ~t.attached  BY <2>7, <2>13, <2>14 DEF GoesOn
    <2> QED BY <2>13, <2>15 DEF t
  <1> QED BY <1>1, <1>2

----------------------------------------------------------------------------
(* The way of an operation through the queue. *)

\* t is s in another place.
MovedFrom(s, t) ==
  /\ t \in OpRecord /\ t.kind = s.kind /\ t.terminal = s.terminal /\ t.result = s.result
  /\ t.ending = s.ending /\ t.pump = s.pump /\ t.queue = s.queue /\ t.frame = s.frame
  /\ t.held = s.held /\ t.source = s.source /\ t.mic = s.mic /\ t.attached = s.attached
  /\ t.seg = s.seg /\ t.ends = s.ends /\ t.scores = s.scores

LEMMA MoveFits ==
  ASSUME NEW s, OpFit(s), s.pump = "idle", NEW t, MovedFrom(s, t), t.accepted = s.accepted,
         \/ t.at \in {"normalize", "reset"} /\ s.at \notin {"live", "over"}
         \/ t.at = "over" /\ s.terminal
  PROVE  OpFit(t) /\ ~AtWork(t) /\ ~t.attached
  <1>1. StandsRight(s) /\ MicFits(s) /\ ListensRight(s) /\ AudioFits(s)  BY DEF OpFit
  <1>2. StandsRight(t)  BY <1>1 DEF StandsRight, MovedFrom
  <1>3. MicFits(t) /\ ListensRight(t)  BY <1>1 DEF MicFits, ListensRight, MovedFrom
  <1>4. AudioFits(t)  BY <1>1 DEF AudioFits, MovedFrom, Unheard
  <1>5. ~AtWork(t)  BY DEF AtWork
  <1>6. ~t.attached  BY <1>1 DEF ListensRight, StandsRight, MovedFrom
  <1> QED BY <1>2, <1>3, <1>4, <1>5, <1>6 DEF OpFit

LEMMA GoesLive ==
  ASSUME NEW s, OpFit(s), ~s.terminal, s.at \notin {"live", "over"}, NEW t, MovedFrom(s, t),
         t.at = "live", t.accepted = 0
  PROVE  OpFit(t) /\ ~t.attached /\ t.scores = <<>> /\ ~t.ending
  <1>1. StandsRight(s) /\ MicFits(s) /\ ListensRight(s) /\ AudioFits(s)  BY DEF OpFit
  <1>2. StandsRight(t)  BY <1>1 DEF StandsRight, MovedFrom
  <1>3. MicFits(t) /\ ListensRight(t)  BY <1>1 DEF MicFits, ListensRight, MovedFrom
  <1>4. ~t.attached /\ ~t.ending  BY <1>1 DEF ListensRight, StandsRight, MovedFrom
  <1>5. Unheard(s) /\ s.frame = <<>>  BY <1>1 DEF AudioFits, StandsRight
  <1>6. Queued(t)
    <2>1. UnitsAfter(0, 0) = <<>>  BY NoUnits
    <2>2. t.seg.position = 0 /\ t.frame = <<>> /\ t.queue = <<>> /\ t.accepted - t.held = 0 /\ Len(t.frame) = 0
      <3>1. t.seg.position = 0 /\ t.frame = <<>> /\ t.queue = <<>> /\ t.held = 0 /\ Len(<<>>) = 0 /\ 0 - 0 = 0
        BY <1>5, EmptySeq DEF Unheard, MovedFrom
      <3> QED BY <3>1
    <2> QED BY <2>1, <2>2 DEF Queued
  <1>7. AudioFits(t)
    <2>1. t.result # "complete" /\ ~t.terminal  BY <1>1 DEF StandsRight, MovedFrom
    <2>2. t.seg.position <= t.accepted  BY <1>5 DEF Unheard, MovedFrom
    <2> QED BY <1>1, <1>6, <2>1, <2>2 DEF AudioFits, MovedFrom
  <1>8. t.scores = <<>>  BY <1>5 DEF Unheard, MovedFrom
  <1> QED BY <1>2, <1>3, <1>4, <1>7, <1>8 DEF OpFit

LEMMA UnbornFits ==
  ASSUME NEW s, OpFit(s), s.at \notin {"live"}
  PROVE  OpFit(Unborn(s)) /\ Unborn(s).at = "over" /\ ~Unborn(s).attached /\ Unborn(s).kind = s.kind
  <1> DEFINE u == Settle(s, "failed")  t == [u EXCEPT !.at = "over"]
  <1>1. OpFit(u) /\ u.terminal /\ u.pump = s.pump /\ u.kind = s.kind  BY SettleKeeps DEF GoesOn
  <1> HIDE DEF u
  <1>2. u \in OpRecord /\ u.pump = "idle"  BY <1>1 DEF OpFit, StandsRight
  <1>3. MovedFrom(u, t) /\ t.at = "over" /\ t.accepted = u.accepted
    BY <1>2 DEF OpRecord, Stages, MovedFrom
  <1>4. t = Unborn(s)  BY DEF Unborn, u
  <1> HIDE DEF t
  <1>5. OpFit(t) /\ ~t.attached  BY <1>1, <1>2, <1>3, MoveFits
  <1> QED BY <1>1, <1>3, <1>4, <1>5 DEF MovedFrom

\* The work of an operation that begins.
LEMMA BeginsFits ==
  ASSUME NEW s, OpFit(s), s.at = "reset"
  PROVE  /\ OpFit(Begins(s)) /\ Begins(s).at \in {"live", "over"} /\ ~Begins(s).attached
         /\ AtWork(Begins(s)) => Begins(s).scores = <<>>
  <1> DEFINE t == Begins(s)
  <1>0. /\ s \in OpRecord /\ s.kind \in {"file", "session"} /\ s.pump = "idle" /\ s.accepted \in Nat
        /\ (s.kind = "session" => s.accepted = 0) /\ {"live", "over"} \subseteq Stages
    BY DEF OpFit, StandsRight, OpRecord, Stages
  <1>1. CASE s.terminal
    <2> DEFINE u == [s EXCEPT !.at = "over"]
    <2>1. t = u  BY <1>1 DEF Begins
    <2>2. MovedFrom(s, u) /\ u.at = "over" /\ u.accepted = s.accepted
      BY <1>0 DEF OpRecord, MovedFrom
    <2> HIDE DEF u
    <2>3. OpFit(u) /\ ~u.attached /\ ~AtWork(u)  BY <1>0, <1>1, <2>2, MoveFits
    <2> QED BY <2>1, <2>2, <2>3
  <1>2. CASE ~s.terminal /\ s.kind = "session" /\ ~Available
    <2>1. t = Unborn(s)  BY <1>2 DEF Begins
    <2> QED BY <2>1, UnbornFits DEF AtWork
  <1>3. CASE ~s.terminal /\ s.kind = "session" /\ Available
    <2> DEFINE u == [s EXCEPT !.at = "live"]
    <2>1. t = u  BY <1>3 DEF Begins
    <2>2. MovedFrom(s, u) /\ u.at = "live" /\ u.accepted = 0
      BY <1>0, <1>3 DEF OpRecord, MovedFrom
    <2> HIDE DEF u
    <2>3. OpFit(u) /\ ~u.attached /\ u.scores = <<>>  BY <1>3, <2>2, GoesLive
    <2> QED BY <2>1, <2>2, <2>3
  <1>4. CASE ~s.terminal /\ s.kind # "session"
    <2> DEFINE u == [s EXCEPT !.at = "live", !.accepted = 0]  n == s.accepted  v == Accept(u, n, 0)
    <2>1. t = Finish(v)  BY <1>4 DEF Begins
    <2>2. MovedFrom(s, u) /\ u.at = "live" /\ u.accepted = 0
      <3>1. 0 \in Nat  OBVIOUS
      <3> QED BY <1>0, <3>1 DEF OpRecord, MovedFrom
    <2> HIDE DEF u
    <2>3. OpFit(u) /\ u.scores = <<>> /\ u.kind # "session"
      <3>1. u.kind # "session"  BY <1>4, <2>2 DEF MovedFrom
      <3> QED BY <1>4, <2>2, <3>1, GoesLive
    <2>4. n \in Nat /\ 0 \in 0 .. 1 /\ 0 <= n  BY <1>0
    <2> HIDE DEF n
    <2>5. OpFit(v) /\ v.at = "live" /\ (AtWork(v) => v.scores = <<>>)
      BY <2>2, <2>3, <2>4, AcceptFits
    <2> HIDE DEF v
    <2>6. OpFit(t) /\ t.at = "live" /\ (AtWork(t) => t.scores = <<>>) /\ ~t.attached
      BY <2>1, <2>5, FinishFits DEF GoesOn
    <2> QED BY <2>6
  <1> QED BY <1>0, <1>1, <1>2, <1>3, <1>4

\* What is kept of an operation that is over.
LEMMA KeptFits ==
  ASSUME NEW s, OpFit(s)
  PROVE  /\ OpFit(Kept(s)) /\ Kept(s).at = s.at /\ Kept(s).kind = s.kind
         /\ s.at # "over" => Kept(s) = s
         /\ s.at = "over" => ~Kept(s).attached /\ ~s.attached /\ Kept(s).source = "none"
  <1>0. /\ s \in OpRecord /\ (s.at = "over" => s.terminal /\ s.pump = "idle" /\ ~s.attached)
        /\ MicFits(s) /\ s.kind \in {"file", "session"} /\ s.capture \in {"none", "starting", "held"}
        /\ s.mic \in CaptureRecord
    BY DEF OpFit, StandsRight, ListensRight, OpRecord
  <1>1. CASE s.at # "over"  BY <1>1 DEF Kept
  <1>2. CASE s.at = "over"
    <2> DEFINE m == IF s.mic.stopped THEN [Stop(NewCapture) EXCEPT !.at = s.mic.at] ELSE s.mic
               n == NewOperation(s.kind)
               u == [n EXCEPT !.at = "over", !.terminal = TRUE, !.result = "complete",
                       !.capture = s.capture, !.mic = m]
    <2>1. Kept(s) = u  BY <1>0, <1>2 DEF Kept
    <2>2. m \in CaptureRecord /\ NoLeak(m) /\ Silent(m)
      <3>1. CASE s.mic.stopped
        <4>1. NewCapture \in CaptureRecord  BY DEF NewCapture, NoCapture, CaptureRecord, CaptureStages
        <4> DEFINE k == Stop(NewCapture)
        <4>2. k \in CaptureRecord /\ NoLeak(k) /\ k.stopped  BY <4>1, StopFits
        <4>3. s.mic.at \in CaptureStages  BY <1>0 DEF CaptureRecord
        <4>4. m = [k EXCEPT !.at = s.mic.at]  BY <3>1
        <4> HIDE DEF m, k
        <4>5. [k EXCEPT !.at = s.mic.at] \in CaptureRecord /\ [k EXCEPT !.at = s.mic.at].stopped = k.stopped
              /\ [k EXCEPT !.at = s.mic.at].tracks = k.tracks
          BY <4>2, <4>3 DEF CaptureRecord
        <4> QED BY <4>2, <4>4, <4>5 DEF NoLeak, Silent
      <3>2. CASE ~s.mic.stopped
        <4>1. m = s.mic  BY <3>2
        <4> QED BY <1>0, <1>2, <4>1 DEF MicFits, Silent
      <3> QED BY <3>1, <3>2
    <2> HIDE DEF m
    <2>3. n \in OpRecord
      <3>1. <<>> \in Seq(Nat) /\ <<>> \in Seq(Scores)  BY EmptySeq
      <3>2. "queued" \in Stages /\ "none" \in Results /\ NoCapture \in CaptureRecord
        BY DEF Stages, Results, NoCapture, CaptureRecord, CaptureStages
      <3>3. NewSegmenter \in SegmenterRecord  BY InitSound DEF Sound, Fields
      <3>4. 0 \in 0 .. 1  OBVIOUS
      <3> QED BY <1>0, <3>1, <3>2, <3>3, <3>4 DEF NewOperation, OpRecord
    <2>4. /\ n.kind = s.kind /\ n.ending = FALSE /\ n.pump = "idle" /\ n.queue = <<>> /\ n.frame = <<>>
          /\ n.accepted = 0 /\ n.source = "none" /\ n.attached = FALSE /\ n.seg = NewSegmenter
      BY DEF NewOperation
    <2> HIDE DEF n
    <2>5. /\ u \in OpRecord /\ u.at = "over" /\ u.terminal = TRUE /\ u.result = "complete" /\ u.mic = m
          /\ u.kind = n.kind /\ u.ending = n.ending /\ u.pump = n.pump /\ u.queue = n.queue
          /\ u.frame = n.frame /\ u.accepted = n.accepted /\ u.source = n.source
          /\ u.attached = n.attached /\ u.seg = n.seg
      <3>1. "over" \in Stages /\ TRUE \in BOOLEAN /\ "complete" \in Results  BY DEF Stages, Results
      <3> QED BY <1>0, <2>2, <2>3, <3>1 DEF OpRecord
    <2> HIDE DEF u
    <2>6. StandsRight(u)  BY <2>4, <2>5 DEF StandsRight
    <2>7. MicFits(u) /\ ListensRight(u)  BY <2>2, <2>4, <2>5 DEF MicFits, Silent, ListensRight
    <2>8. AudioFits(u)
      <3>1. Sound(NewSegmenter) /\ NewSegmenter.position = 0  BY InitSound DEF NewSegmenter
      <3>2. WellFormed(u.seg) /\ u.seg.position <= u.accepted  BY <2>4, <2>5, <3>1 DEF Sound, SegmentsOK
      <3>3. Len(u.frame) <= FrameSize
        <4>1. Len(<<>>) = 0 /\ 0 <= FrameSize  BY EmptySeq, ListeningAssumption
        <4> QED BY <2>4, <2>5, <4>1
      <3> QED BY <2>4, <2>5, <3>2, <3>3 DEF AudioFits
    <2>9. OpFit(u)  BY <2>6, <2>7, <2>8 DEF OpFit
    <2> QED BY <1>0, <1>2, <2>1, <2>4, <2>5, <2>9
  <1> QED BY <1>1, <1>2

\* t is s with another microphone, or another source of audio.
TookFrom(s, t) ==
  /\ t \in OpRecord /\ t.kind = s.kind /\ t.at = s.at /\ t.terminal = s.terminal
  /\ t.result = s.result /\ t.ending = s.ending /\ t.pump = s.pump /\ t.queue = s.queue
  /\ t.frame = s.frame /\ t.accepted = s.accepted /\ t.held = s.held /\ t.seg = s.seg
  /\ t.ends = s.ends /\ t.scores = s.scores

LEMMA TakesFits ==
  ASSUME NEW s, OpFit(s), NEW t, TookFrom(s, t), MicFits(t), ListensRight(t),
         t.source = s.source \/ (s.kind = "session" /\ s.at = "live" /\ t.source # "none")
  PROVE  OpFit(t) /\ t.at = s.at /\ (AtWork(t) => AtWork(s) /\ t.scores = s.scores)
  <1>1. StandsRight(s) /\ AudioFits(s)  BY DEF OpFit
  <1>2. StandsRight(t)  BY <1>1 DEF StandsRight, TookFrom
  <1>3. Queued(s) => Queued(t)  BY DEF Queued, TookFrom
  <1>4. AudioFits(t)  BY <1>1, <1>3 DEF AudioFits, TookFrom, Unheard
  <1>5. t.at = s.at /\ (AtWork(t) => AtWork(s) /\ t.scores = s.scores)  BY DEF AtWork, TookFrom
  <1> QED BY <1>2, <1>4, <1>5 DEF OpFit

----------------------------------------------------------------------------
(* The shared capture. *)

LEMMA DetachFits ==
  ASSUME NEW h, HelperFits(h), NEW c
  PROVE  /\ HelperFits(Detach(h, c)) /\ Detach(h, c).consumers = h.consumers \ {c}
         /\ Detach(h, c).state = h.state /\ Detach(h, c).heard = h.heard
  <1> DEFINE d == Detach(h, c)
  <1>1. h \in SharedRecord  BY DEF HelperFits
  <1>2. /\ d \in SharedRecord /\ d.consumers = h.consumers \ {c} /\ d.state = h.state
        /\ d.heard = h.heard /\ d.mic = h.mic
    BY <1>1 DEF Detach, SharedRecord
  <1> HIDE DEF d
  <1>3. HelperFits(d)  BY <1>2 DEF HelperFits, Terminal
  <1> QED BY <1>2, <1>3 DEF d

\* d is h, ended unless it has been already.
EndedFrom(h, d, a) ==
  /\ HelperFits(d) /\ d.heard = h.heard
  /\ IF Terminal(h) THEN d = h ELSE d.consumers = {} /\ d.state = a

\* fail() and stop() release the device and leave nobody attached.
LEMMA ReleaseFits ==
  ASSUME NEW h, HelperFits(h), NEW a \in {"stopped", "failed"}
  PROVE  LET d == Release([h EXCEPT !.state = a, !.consumers = {}]) IN
         HelperFits(d) /\ d.consumers = {} /\ d.state = a /\ d.heard = h.heard
  <1> DEFINE g == [h EXCEPT !.state = a, !.consumers = {}]
             m == IF h.held THEN Stop(h.mic) ELSE Cancel(h.mic)
             k == [g EXCEPT !.held = FALSE, !.mic = m]
             d == Release(g)
  <1>1. h \in SharedRecord /\ h.mic \in CaptureRecord /\ NoLeak(h.mic)
    BY DEF HelperFits, SharedRecord
  <1>2. m \in CaptureRecord /\ NoLeak(m) /\ Silent(m)
    BY <1>1, StopFits, CancelFits DEF Silent
  <1>3. /\ g \in SharedRecord /\ g.consumers = {} /\ g.state = a /\ g.heard = h.heard
        /\ g.mic = h.mic /\ g.held = h.held
    BY <1>1 DEF SharedRecord, HelperStates
  <1> HIDE DEF g
  <1>4. d = k  BY <1>3 DEF Release
  <1> HIDE DEF m
  <1>5. /\ k \in SharedRecord /\ k.consumers = {} /\ k.state = a /\ k.heard = h.heard /\ k.mic = m
    BY <1>2, <1>3 DEF SharedRecord
  <1> HIDE DEF d, k
  <1>6. HelperFits(k)  BY <1>2, <1>5 DEF HelperFits, Silent
  <1> QED BY <1>4, <1>5, <1>6 DEF d, g

LEMMA StopHelperFits ==
  ASSUME NEW h, HelperFits(h)
  PROVE  EndedFrom(h, StopHelper(h), "stopped")
  <1>1. CASE Terminal(h)  BY <1>1 DEF StopHelper, EndedFrom
  <1>2. CASE ~Terminal(h)
    <2>1. StopHelper(h) = Release([h EXCEPT !.state = "stopped", !.consumers = {}])  BY <1>2 DEF StopHelper
    <2>2. "stopped" \in {"stopped", "failed"}  OBVIOUS
    <2> QED BY <1>2, <2>1, <2>2, ReleaseFits DEF EndedFrom
  <1> QED BY <1>1, <1>2

LEMMA FailHelperFits ==
  ASSUME NEW h, HelperFits(h)
  PROVE  EndedFrom(h, FailHelper(h), "failed")
  <1>1. CASE Terminal(h)  BY <1>1 DEF FailHelper, EndedFrom
  <1>2. CASE ~Terminal(h)
    <2>1. FailHelper(h) = Release([h EXCEPT !.state = "failed", !.consumers = {}])  BY <1>2 DEF FailHelper
    <2>2. "failed" \in {"stopped", "failed"}  OBVIOUS
    <2> QED BY <1>2, <2>1, <2>2, ReleaseFits DEF EndedFrom
  <1> QED BY <1>1, <1>2

\* What the capture becomes by itself: it loses its consumers when it fails only.
Follows(h, d) ==
  /\ HelperFits(d) /\ d.heard = h.heard
  /\ d.consumers = h.consumers \/ (d.state = "failed" /\ d.consumers = {})
  /\ h.state = "stopped" => d.state = "stopped"

LEMMA HelperTurns ==
  ASSUME NEW h, HelperFits(h), NEW m \in CaptureTurns(h.mic)
  PROVE  /\ Follows(h, [h EXCEPT !.mic = m])
         /\ Follows(h, FailHelper([h EXCEPT !.mic = m]))
  <1> DEFINE g == [h EXCEPT !.mic = m]
  <1>1. h \in SharedRecord /\ h.mic \in CaptureRecord /\ NoLeak(h.mic)
    BY DEF HelperFits, SharedRecord
  <1>2. m \in CaptureRecord /\ NoLeak(m) /\ (h.mic.stopped => m.stopped) /\ h.mic.at # "none"
    BY <1>1, TurnFits
  <1>3. /\ g \in SharedRecord /\ g.consumers = h.consumers /\ g.state = h.state /\ g.heard = h.heard
        /\ g.mic = m
    BY <1>1, <1>2 DEF SharedRecord
  <1> HIDE DEF g
  <1>4. HelperFits(g)  BY <1>2, <1>3 DEF HelperFits, Terminal
  <1>5. Follows(h, g)  BY <1>3, <1>4 DEF Follows
  <1>6. Follows(h, FailHelper(g))
    <2>1. EndedFrom(g, FailHelper(g), "failed")  BY <1>4, FailHelperFits
    <2> QED BY <1>3, <2>1 DEF EndedFrom, Follows, Terminal
  <1> QED BY <1>5, <1>6 DEF g

LEMMA HelperAcquires ==
  ASSUME NEW h, HelperFits(h)
  PROVE  Follows(h, Acquired(h))
  <1> DEFINE g == [h EXCEPT !.answered = TRUE]
  <1>1. h \in SharedRecord  BY DEF HelperFits
  <1>2. /\ g \in SharedRecord /\ g.consumers = h.consumers /\ g.state = h.state /\ g.heard = h.heard
        /\ g.mic = h.mic
    BY <1>1 DEF SharedRecord
  <1>3. /\ h.mic.promise = "rejected" => Acquired(h) = FailHelper(g)
        /\ h.mic.promise # "rejected" /\ h.state # "starting" => Acquired(h) = [g EXCEPT !.mic = Stop(h.mic)]
        /\ h.mic.promise # "rejected" /\ h.state = "starting" =>
             Acquired(h) = [g EXCEPT !.state = "running", !.held = TRUE]
    BY <1>2 DEF Acquired
  <1> HIDE DEF g
  <1>4. HelperFits(g)  BY <1>2 DEF HelperFits, Terminal
  <1>5. CASE h.mic.promise = "rejected"
    <2>1. EndedFrom(g, FailHelper(g), "failed")  BY <1>4, FailHelperFits
    <2> QED BY <1>2, <1>3, <1>5, <2>1 DEF EndedFrom, Follows, Terminal
  <1>6. CASE h.mic.promise # "rejected" /\ h.state # "starting"
    <2> DEFINE n == Stop(h.mic)  d == [g EXCEPT !.mic = n]
    <2>1. h.mic \in CaptureRecord  BY <1>1 DEF SharedRecord
    <2>2. n \in CaptureRecord /\ NoLeak(n) /\ n.stopped  BY <2>1, StopFits
    <2> HIDE DEF n
    <2>3. d \in SharedRecord /\ d.consumers = g.consumers /\ d.state = g.state /\ d.heard = g.heard /\ d.mic = n
      BY <1>2, <2>2 DEF SharedRecord
    <2>4. Acquired(h) = d  BY <1>3, <1>6 DEF n
    <2> HIDE DEF d
    <2>5. HelperFits(d)  BY <1>4, <2>2, <2>3 DEF HelperFits, Terminal
    <2> QED BY <1>2, <2>3, <2>4, <2>5 DEF Follows
  <1>7. CASE h.mic.promise # "rejected" /\ h.state = "starting"
    <2> DEFINE d == [g EXCEPT !.state = "running", !.held = TRUE]
    <2>1. d \in SharedRecord /\ d.consumers = g.consumers /\ d.state = "running" /\ d.heard = g.heard /\ d.mic = g.mic
      BY <1>2 DEF SharedRecord, HelperStates
    <2>2. Acquired(h) = d  BY <1>3, <1>7
    <2> HIDE DEF d
    <2>3. HelperFits(d)  BY <1>4, <2>1 DEF HelperFits, Terminal
    <2> QED BY <1>2, <1>7, <2>1, <2>2, <2>3 DEF Follows
  <1> QED BY <1>5, <1>6, <1>7

----------------------------------------------------------------------------
(* One operation changes, or many do. *)

LEMMA Known ==
  ASSUME ListeningInv
  PROVE  /\ ops \in Seq(OpRecord) /\ Len(ops) \in Nat /\ Ops = 1 .. Len(ops) /\ Len(ops) <= MaxOps
         /\ \A o \in Ops : OpFit(ops[o]) /\ StandsRight(ops[o]) /\ ops[o] \in OpRecord
         /\ HelperFits(shared) /\ shared.consumers \subseteq Ops \cup {Other}
         /\ \A o \in Ops : Serves(shared, o, ops[o])
         /\ InTurn /\ ScorerFits
         /\ dead \in BOOLEAN /\ unload \in {"no", "queued", "asked", "done"}
  BY LenProperties DEF ListeningInv, SharedFits, Ops, OpFit, StandsRight

\* The work of an operation goes on, in its turn, and ends once.
Proceeds(o, t) ==
  /\ t.at = "queued" => ops[o].at = "queued"
  /\ ops[o].at = "queued" /\ t.at # "queued" => Turn(o)
  /\ ops[o].at = "over" => t.at = "over"

LEMMA Steps ==
  ASSUME ListeningInv, ops' \in Seq(OpRecord), Len(ops') = Len(ops),
         dead' \in BOOLEAN, unload' \in {"no", "queued", "asked", "done"},
         \A o \in Ops : OpFit(ops'[o]) /\ Proceeds(o, ops'[o]),
         unload' \in {"asked", "done"} => \A o \in Ops : ops'[o].at = "over",
         ScorerFits', SharedFits'
  PROVE  ListeningInv'
  <1>1. Ops' = Ops  BY Known, LenProperties DEF Ops
  <1>2. InTurn'
    <2>1. ASSUME NEW o \in Ops, NEW p \in Ops, o < p, ops'[p].at # "queued" PROVE ops'[o].at = "over"
      <3>1. ops[o].at = "over"
        <4>1. CASE ops[p].at = "queued"  BY <2>1, <4>1 DEF Proceeds, Turn
        <4>2. CASE ops[p].at # "queued"  BY <2>1, <4>2, Known DEF InTurn
        <4> QED BY <4>1, <4>2
      <3> QED BY <3>1 DEF Proceeds
    <2> QED BY <1>1, <2>1 DEF InTurn
  <1>3. Len(ops') <= MaxOps  BY Known
  <1> QED BY <1>1, <1>2, <1>3 DEF ListeningInv

\* The scorer knows, after a step, what it must.
Told(o, t, s) ==
  /\ s.of \in 0 .. Len(ops) /\ s.frames \in Nat
  /\ ~dead => /\ AtWork(t) => s = [of |-> o, frames |-> Len(t.scores)]
              /\ \A p \in Ops \ {o} : AtWork(ops[p]) => s = [of |-> p, frames |-> Len(ops[p].scores)]
\* The shared capture h knows it.
Shares(h, o, t) ==
  /\ HelperFits(h) /\ h.consumers \subseteq Ops \cup {Other}
  /\ Serves(h, o, t) /\ \A p \in Ops \ {o} : Serves(h, p, ops[p])

LEMMA BecomesWith ==
  ASSUME ListeningInv, NEW o \in Ops, NEW t, OpFit(t), Proceeds(o, t),
         ops' = [ops EXCEPT ![o] = Kept(t)], UNCHANGED <<unload, dead>>,
         Told(o, t, scorer'), Shares(shared', o, t)
  PROVE  ListeningInv'
  <1> DEFINE u == Kept(t)
  <1>0. /\ ops \in Seq(OpRecord) /\ Len(ops) \in Nat /\ Ops = 1 .. Len(ops)
        /\ \A p \in Ops : OpFit(ops[p])
    BY Known
  <1>1. /\ OpFit(u) /\ u.at = t.at /\ (t.at # "over" => u = t)
        /\ (t.at = "over" => ~u.attached /\ ~t.attached)
    BY KeptFits
  <1>2. ops' = [ops EXCEPT ![o] = u]  OBVIOUS
  <1> HIDE DEF u
  <1>3. u \in OpRecord  BY <1>1 DEF OpFit, StandsRight
  <1>4. ops' \in Seq(OpRecord) /\ Len(ops') = Len(ops)  BY <1>0, <1>2, <1>3, ExceptSeq
  <1>5. Ops' = Ops /\ ops'[o] = u /\ \A p \in Ops \ {o} : ops'[p] = ops[p]
    BY <1>0, <1>2, <1>4, LenProperties DEF Ops
  <1>6. \A p \in Ops : OpFit(ops'[p]) /\ Proceeds(p, ops'[p])
    <2>1. Proceeds(o, u)  BY <1>1 DEF Proceeds
    <2>2. \A p \in Ops \ {o} : Proceeds(p, ops[p])  BY DEF Proceeds
    <2> QED BY <1>0, <1>1, <1>5, <2>1, <2>2
  <1>7. unload' \in {"asked", "done"} => \A p \in Ops : ops'[p].at = "over"
    <2>1. unload' \in {"asked", "done"} => \A p \in Ops : ops[p].at = "over"  BY Known DEF InTurn
    <2> QED BY <1>6, <2>1 DEF Proceeds
  <1>8. ScorerFits'
    <2> DEFINE s == scorer'
    <2>1. Told(o, t, s)  OBVIOUS
    <2> HIDE DEF s
    <2>2. AtWork(u) => u = t /\ AtWork(t)  BY <1>1 DEF AtWork
    <2>3. ASSUME ~dead, NEW p \in Ops, AtWork(ops'[p])
          PROVE  s = [of |-> p, frames |-> Len(ops'[p].scores)]
      <3>1. CASE p = o  BY <1>5, <2>1, <2>2, <2>3, <3>1 DEF Told
      <3>2. CASE p # o  BY <1>5, <2>1, <2>3, <3>2 DEF Told
      <3> QED BY <3>1, <3>2
    <2> QED BY <1>4, <1>5, <2>1, <2>3 DEF ScorerFits, Told, s
  <1>9. SharedFits'
    <2> DEFINE h == shared'
    <2>1. Shares(h, o, t)  OBVIOUS
    <2> HIDE DEF h
    <2>2. Serves(h, o, u)  BY <1>1, <2>1 DEF Shares, Serves
    <2>3. \A p \in Ops : Serves(h, p, ops'[p])  BY <1>5, <2>1, <2>2 DEF Shares
    <2> QED BY <1>5, <2>1, <2>3 DEF SharedFits, Shares, h
  <1>10. dead' \in BOOLEAN /\ unload' \in {"no", "queued", "asked", "done"}  BY Known
  <1> QED BY <1>4, <1>6, <1>7, <1>8, <1>9, <1>10, Steps

\* An operation changes and leaves the shared capture, or goes on hearing it.
LEMMA Becomes ==
  ASSUME ListeningInv, NEW o \in Ops, NEW t, OpFit(t), Proceeds(o, t), Become(o, t),
         UNCHANGED <<unload, dead>>, Told(o, t, scorer'),
         t.attached => ops[o].attached /\ t.accepted = ops[o].accepted
  PROVE  ListeningInv'
  <1>1. ops' = [ops EXCEPT ![o] = Kept(t)] /\ shared' = IF t.attached THEN shared ELSE Detach(shared, o)
    BY DEF Become
  <1>2. HelperFits(shared) /\ shared.consumers \subseteq Ops \cup {Other} /\ \A p \in Ops : Serves(shared, p, ops[p])
    BY Known
  <1>3. Shares(shared', o, t)
    <2>1. CASE t.attached
      <3>1. Serves(shared, o, t)  BY <1>2, <2>1 DEF Serves
      <3> QED BY <1>1, <1>2, <2>1, <3>1 DEF Shares
    <2>2. CASE ~t.attached
      <3> DEFINE d == Detach(shared, o)
      <3>1. HelperFits(d) /\ d.consumers = shared.consumers \ {o} /\ d.state = shared.state /\ d.heard = shared.heard
        BY <1>2, DetachFits
      <3>2. shared' = d  BY <1>1, <2>2
      <3> HIDE DEF d
      <3>3. Serves(d, o, t)  BY <2>2, <3>1 DEF Serves
      <3>4. \A p \in Ops \ {o} : Serves(d, p, ops[p])  BY <1>2, <3>1 DEF Serves
      <3>5. d.consumers \subseteq Ops \cup {Other}  BY <1>2, <3>1
      <3> QED BY <3>1, <3>2, <3>3, <3>4, <3>5 DEF Shares
    <2> QED BY <2>1, <2>2
  <1> QED BY <1>1, <1>3, BecomesWith

\* An operation that asks nothing more of the scorer.
LEMMA TellsNothing ==
  ASSUME ListeningInv, NEW o \in Ops, NEW t, ~dead => (AtWork(t) => AtWork(ops[o]) /\ t.scores = ops[o].scores)
  PROVE  Told(o, t, scorer)
  BY Known DEF ScorerFits, Told

\* An operation that stays where it is.
LEMMA BecomesStill ==
  ASSUME ListeningInv, NEW o \in Ops, NEW t, OpFit(t), GoesOn(ops[o], t), Become(o, t),
         UNCHANGED <<unload, dead, scorer>>
  PROVE  ListeningInv'
  <1>1. Proceeds(o, t)  BY DEF Proceeds, GoesOn
  <1>2. Told(o, t, scorer)  BY TellsNothing DEF GoesOn
  <1>3. Told(o, t, scorer')  BY <1>2
  <1> QED BY <1>1, <1>3, Becomes DEF GoesOn

\* An operation in its turn that does not work now, and listens to nobody.
LEMMA BecomesIdle ==
  ASSUME ListeningInv, NEW o \in Ops, NEW t, OpFit(t), Proceeds(o, t), ~AtWork(t), ~t.attached,
         Become(o, t), UNCHANGED <<unload, dead, scorer>>
  PROVE  ListeningInv'
  <1>1. Told(o, t, scorer)  BY TellsNothing
  <1>2. Told(o, t, scorer')  BY <1>1
  <1> QED BY <1>2, Becomes

\* While one operation is at work, the others wait for their turn or are over.
LEMMA OnlyOne ==
  ASSUME ListeningInv, NEW o \in Ops, ops[o].at \notin {"queued", "over"}
  PROVE  \A p \in Ops \ {o} : ~AtWork(ops[p])
  <1>0. Len(ops) \in Nat /\ Ops = 1 .. Len(ops) /\ InTurn  BY Known
  <1>1. ASSUME NEW p \in Ops \ {o} PROVE ops[p].at \in {"queued", "over"}
    <2>1. p < o \/ o < p  BY <1>0
    <2>2. CASE p < o  BY <1>0, <2>2 DEF InTurn
    <2>3. CASE o < p  BY <1>0, <2>3 DEF InTurn
    <2> QED BY <2>1, <2>2, <2>3
  <1> QED BY <1>1 DEF AtWork

\* Many operations change at once, each where it is.
LEMMA AllGoOn ==
  ASSUME ListeningInv, DOMAIN ops' = Ops, ops' = [o \in Ops |-> ops'[o]], scorer' = scorer,
         \A o \in Ops : /\ OpFit(ops'[o]) /\ ops'[o].at = ops[o].at
                        /\ AtWork(ops'[o]) => AtWork(ops[o]) /\ ops'[o].scores = ops[o].scores,
         dead' \in BOOLEAN, dead => dead', unload' \in {"no", "queued", "asked", "done"},
         unload' \in {"asked", "done"} => unload \in {"asked", "done"},
         HelperFits(shared'), shared'.consumers \subseteq Ops \cup {Other},
         \A o \in Ops : Serves(shared', o, ops'[o])
  PROVE  ListeningInv'
  <1>0. ops \in Seq(OpRecord) /\ Len(ops) \in Nat /\ Ops = 1 .. Len(ops) /\ InTurn /\ ScorerFits  BY Known
  <1>1. ops' \in [1 .. Len(ops) -> OpRecord]
    <2>1. \A o \in Ops : ops'[o] \in OpRecord  BY DEF OpFit, StandsRight
    <2> QED BY <1>0, <2>1
  <1>2. ops' \in Seq(OpRecord)  BY <1>0, <1>1, SeqDef
  <1>3. Len(ops') = Len(ops)
    <2> DEFINE l == Len(ops')  n == Len(ops)
    <2>1. DOMAIN ops' = 1 .. n  BY <1>0
    <2>2. l \in Nat /\ n \in Nat /\ 1 .. l = 1 .. n  BY <1>0, <1>2, <2>1, LenProperties
    <2> HIDE DEF l, n
    <2>3. CASE l < n
      <3>1. n \in 1 .. n /\ n \notin 1 .. l  BY <2>2, <2>3
      <3> QED BY <2>2, <3>1
    <2>4. CASE n < l
      <3>1. l \in 1 .. l /\ l \notin 1 .. n  BY <2>2, <2>4
      <3> QED BY <2>2, <3>1
    <2>5. l = n  BY <2>2, <2>3, <2>4
    <2> QED BY <2>5 DEF l, n
  <1>4. Ops' = Ops  BY <1>0, <1>2, <1>3, LenProperties DEF Ops
  <1>5. \A o \in Ops : OpFit(ops'[o]) /\ Proceeds(o, ops'[o])  BY DEF Proceeds
  <1>6. unload' \in {"asked", "done"} => \A o \in Ops : ops'[o].at = "over"  BY <1>0 DEF InTurn
  <1>7. ScorerFits'
    <2>1. scorer.of \in 0 .. Len(ops') /\ scorer.frames \in Nat  BY <1>0, <1>3 DEF ScorerFits
    <2>2. ASSUME ~dead', NEW o \in Ops, AtWork(ops'[o])
          PROVE  scorer = [of |-> o, frames |-> Len(ops'[o].scores)]
      BY <1>0, <2>2 DEF ScorerFits
    <2> QED BY <1>4, <2>1, <2>2 DEF ScorerFits
  <1>8. SharedFits'  BY <1>4 DEF SharedFits
  <1> QED BY <1>2, <1>3, <1>5, <1>6, <1>7, <1>8, Steps

----------------------------------------------------------------------------
(* The steps of the model and its worker. *)

LEMMA WorkStartsKeeps ==
  ASSUME ListeningInv, NEW o \in Ops, WorkStarts(o)
  PROVE  ListeningInv'
  <1> DEFINE s == ops[o]
             t == IF s.kind = "session" THEN IF Available THEN [s EXCEPT !.at = "reset"] ELSE Unborn(s)
                  ELSE [s EXCEPT !.at = IF s.terminal THEN "over" ELSE "normalize"]
  <1>1. s.at = "queued" /\ Turn(o) /\ Become(o, t) /\ UNCHANGED <<unload, dead, scorer>>
    BY DEF WorkStarts
  <1>2. OpFit(s) /\ s \in OpRecord /\ s.pump = "idle"  BY <1>1, Known DEF StandsRight, OpRecord
  <1> HIDE DEF s
  <1>3. ASSUME NEW a \in {"reset", "over", "normalize"}, a = "over" => s.terminal
        PROVE  LET u == [s EXCEPT !.at = a] IN OpFit(u) /\ ~AtWork(u) /\ ~u.attached /\ u.at = a
    <2> DEFINE u == [s EXCEPT !.at = a]
    <2>1. MovedFrom(s, u) /\ u.at = a /\ u.accepted = s.accepted
      BY <1>2 DEF OpRecord, MovedFrom, Stages
    <2> HIDE DEF u
    <2>2. OpFit(u) /\ ~AtWork(u) /\ ~u.attached  BY <1>1, <1>2, <1>3, <2>1, MoveFits
    <2> QED BY <2>1, <2>2 DEF u
  <1>4. OpFit(t) /\ ~AtWork(t) /\ ~t.attached /\ t.at # "queued"
    <2>1. CASE s.kind = "session" /\ Available
      <3>1. t = [s EXCEPT !.at = "reset"]  BY <2>1
      <3> QED BY <1>3, <3>1
    <2>2. CASE s.kind = "session" /\ ~Available
      <3>1. t = Unborn(s)  BY <2>2
      <3> QED BY <1>1, <1>2, <3>1, UnbornFits DEF AtWork
    <2>3. CASE s.kind # "session"
      <3> DEFINE a == IF s.terminal THEN "over" ELSE "normalize"
      <3>1. t = [s EXCEPT !.at = a]  BY <2>3
      <3>2. a \in {"reset", "over", "normalize"} /\ (a = "over" => s.terminal)  OBVIOUS
      <3> HIDE DEF a, t
      <3> QED BY <1>3, <3>1, <3>2
    <2> QED BY <2>1, <2>2, <2>3
  <1> HIDE DEF t
  <1>5. Proceeds(o, t)  BY <1>1, <1>4 DEF Proceeds, s
  <1> QED BY <1>1, <1>4, <1>5, BecomesIdle

LEMMA NormalizesKeeps ==
  ASSUME ListeningInv, NEW o \in Ops, Normalizes(o)
  PROVE  ListeningInv'
  <1> DEFINE s == ops[o]  a == IF s.terminal THEN "over" ELSE "reset"  u == [s EXCEPT !.at = a]
  <1>1. /\ s.at = "normalize" /\ UNCHANGED <<unload, dead, scorer>>
        /\ Become(o, u) \/ Become(o, Unborn(s))
    BY DEF Normalizes
  <1>2. OpFit(s) /\ s \in OpRecord /\ s.pump = "idle"  BY <1>1, Known DEF StandsRight, OpRecord
  <1>3. CASE Become(o, u)
    <2>1. a \in Stages /\ a \in {"reset", "over"} /\ (a = "over" => s.terminal)  BY DEF Stages
    <2> HIDE DEF s, a
    <2>2. MovedFrom(s, u) /\ u.at = a /\ u.accepted = s.accepted
      BY <1>2, <2>1 DEF OpRecord, MovedFrom
    <2> HIDE DEF u
    <2>3. OpFit(u) /\ ~AtWork(u) /\ ~u.attached  BY <1>1, <1>2, <2>1, <2>2, MoveFits
    <2>4. Proceeds(o, u)  BY <1>1, <2>1, <2>2 DEF Proceeds, s
    <2> QED BY <1>1, <1>3, <2>3, <2>4, BecomesIdle
  <1>4. CASE Become(o, Unborn(s))
    <2> DEFINE t == Unborn(s)
    <2>1. OpFit(t) /\ t.at = "over" /\ ~t.attached /\ ~AtWork(t)  BY <1>1, <1>2, UnbornFits DEF AtWork
    <2>2. Become(o, t)  BY <1>4
    <2> HIDE DEF t
    <2>3. Proceeds(o, t)  BY <1>1, <2>1 DEF Proceeds
    <2> QED BY <1>1, <2>1, <2>2, <2>3, BecomesIdle
  <1> QED BY <1>1, <1>3, <1>4

LEMMA ResetsKeeps ==
  ASSUME ListeningInv, NEW o \in Ops, Resets(o)
  PROVE  ListeningInv'
  <1> DEFINE s == ops[o]  t == Begins(s)
  <1>1. /\ s.at = "reset" /\ Become(o, t) /\ UNCHANGED <<unload, dead>>
        /\ scorer' = [of |-> o, frames |-> 0]
    BY DEF Resets
  <1>2. OpFit(s)  BY Known
  <1>3. OpFit(t) /\ t.at \in {"live", "over"} /\ ~t.attached /\ (AtWork(t) => t.scores = <<>>)
    BY <1>1, <1>2, BeginsFits
  <1> HIDE DEF t
  <1>4. Proceeds(o, t)  BY <1>1, <1>3 DEF Proceeds
  <1>5. \A p \in Ops \ {o} : ~AtWork(ops[p])  BY <1>1, OnlyOne
  <1>6. Told(o, t, scorer')
    <2>1. Len(<<>>) = 0 /\ 0 \in Nat  BY EmptySeq
    <2>2. o \in 0 .. Len(ops)  BY Known
    <2> QED BY <1>1, <1>3, <1>5, <2>1, <2>2 DEF Told
  <1> QED BY <1>1, <1>3, <1>4, <1>6, Becomes

LEMMA FrameScoredKeeps ==
  ASSUME ListeningInv, NEW o \in Ops, FrameScored(o)
  PROVE  ListeningInv'
  <1> DEFINE s == ops[o]
  <1>1. /\ s.pump = "score" /\ ~dead /\ UNCHANGED <<unload, dead>>
        /\ scorer' = [scorer EXCEPT !.frames = @ + 1]
    BY DEF FrameScored
  <1>2. PICK outcome \in Outcomes(s) : Become(o, Scored(s, outcome))  BY DEF FrameScored
  <1> DEFINE t == Scored(s, outcome)  n == Len(s.scores)
  <1>3. OpFit(s) /\ s \in OpRecord /\ s.at = "live" /\ n \in Nat
    BY <1>1, Known, LenProperties DEF StandsRight, OpRecord
  <1>4. /\ OpFit(t) /\ t.at = "live" /\ t.accepted = s.accepted
        /\ (t.attached => s.attached) /\ (AtWork(t) => Len(t.scores) = n + 1)
    BY <1>1, <1>3, ScoredFits
  <1>5. Become(o, t)  BY <1>2
  <1> HIDE DEF t
  <1>6. scorer = [of |-> o, frames |-> n]  BY <1>1, <1>3, Known DEF ScorerFits, AtWork
  <1> HIDE DEF n
  <1>7. scorer' = [of |-> o, frames |-> n + 1]  BY <1>1, <1>6
  <1>8. Proceeds(o, t)  BY <1>3, <1>4 DEF Proceeds
  <1>9. \A p \in Ops \ {o} : ~AtWork(ops[p])  BY <1>3, OnlyOne
  <1>10. Told(o, t, scorer')
    <2>1. o \in 0 .. Len(ops) /\ n + 1 \in Nat  BY <1>3, Known
    <2> QED BY <1>4, <1>7, <1>9, <2>1 DEF Told
  <1> QED BY <1>1, <1>4, <1>5, <1>8, <1>10, Becomes

LEMMA RefusesKeeps ==
  ASSUME ListeningInv, NEW o \in Ops, Refuses(o)
  PROVE  ListeningInv'
  <1> DEFINE s == ops[o]  u == Settle(s, "failed")  t == [u EXCEPT !.pump = "settle", !.frame = <<>>]
  <1>1. /\ UNCHANGED <<unload, dead, scorer>>
        /\ \/ s.at = "reset" /\ Become(o, Unborn(s))
           \/ s.pump = "score" /\ Become(o, t)
    BY DEF Refuses
  <1>2. OpFit(s) /\ StandsRight(s)  BY Known
  <1>3. CASE s.at = "reset" /\ Become(o, Unborn(s))
    <2> DEFINE v == Unborn(s)
    <2>1. OpFit(v) /\ v.at = "over" /\ ~v.attached /\ ~AtWork(v)  BY <1>2, <1>3, UnbornFits DEF AtWork
    <2>2. Become(o, v)  BY <1>3
    <2> HIDE DEF v
    <2>3. Proceeds(o, v)  BY <1>3, <2>1 DEF Proceeds
    <2> QED BY <1>1, <2>1, <2>2, <2>3, BecomesIdle
  <1>4. CASE s.pump = "score" /\ Become(o, t)
    <2>1. s.at = "live"  BY <1>2, <1>4 DEF StandsRight
    <2>2. OpFit(u) /\ u.terminal /\ ~u.attached /\ u.at = "live"
      BY <1>2, <2>1, SettleKeeps DEF GoesOn
    <2> HIDE DEF u
    <2>3. Between(u)
      <3>1. AudioBetween(u)  BY <2>2 DEF OpFit, AudioFits, AudioBetween
      <3> QED BY <2>2, <3>1 DEF OpFit, Between
    <2>4. FrameOf(u, t) /\ t.pump = "settle" /\ t.frame = <<>> /\ t.queue = u.queue
      <3>1. u \in OpRecord /\ <<>> \in Seq(Nat)  BY <2>2, EmptySeq DEF OpFit, StandsRight
      <3> QED BY <3>1 DEF FrameOf, OpRecord
    <2>5. Become(o, t)  BY <1>4
    <2> HIDE DEF t
    <2>6. OpFit(t)  BY <2>3, <2>4, FrameRests
    <2>7. ~AtWork(t) /\ ~t.attached /\ t.at = "live"  BY <2>2, <2>4 DEF FrameOf, AtWork
    <2>8. Proceeds(o, t)  BY <2>1, <2>7 DEF Proceeds
    <2> QED BY <1>1, <2>5, <2>6, <2>7, <2>8, BecomesIdle
  <1> QED BY <1>1, <1>3, <1>4

LEMMA PumpSettledKeeps ==
  ASSUME ListeningInv, NEW o \in Ops, PumpSettled(o)
  PROVE  ListeningInv'
  <1> DEFINE s == ops[o]  t == KickAgain([s EXCEPT !.pump = "idle"])
  <1>1. s.pump = "settle" /\ Become(o, t) /\ UNCHANGED <<unload, dead, scorer>>  BY DEF PumpSettled
  <1>2. OpFit(s)  BY Known
  <1>3. OpFit(t) /\ GoesOn(s, t)  BY <1>1, <1>2, PumpSettlesFits
  <1> HIDE DEF t
  <1> QED BY <1>1, <1>3, BecomesStill

LEMMA WorkEndsKeeps ==
  ASSUME ListeningInv, NEW o \in Ops, WorkEnds(o)
  PROVE  ListeningInv'
  <1> DEFINE s == ops[o]  t == [s EXCEPT !.at = "over"]
  <1>1. /\ s.at = "live" /\ s.terminal /\ s.pump = "idle" /\ Become(o, t)
        /\ UNCHANGED <<unload, dead, scorer>>
    BY DEF WorkEnds, Released
  <1>2. OpFit(s) /\ s \in OpRecord  BY Known
  <1>3. MovedFrom(s, t) /\ t.at = "over" /\ t.accepted = s.accepted
    <2> HIDE DEF s
    <2> QED BY <1>2 DEF OpRecord, MovedFrom, Stages
  <1> HIDE DEF t
  <1>4. OpFit(t) /\ ~AtWork(t) /\ ~t.attached
    <2> HIDE DEF s
    <2> QED BY <1>1, <1>2, <1>3, MoveFits
  <1>5. Proceeds(o, t)  BY <1>1, <1>3 DEF Proceeds
  <1> QED BY <1>1, <1>4, <1>5, BecomesIdle

\* Everything that is handed out is settled at once.
LEMMA AllSettleKeeps ==
  ASSUME ListeningInv, NEW how \in {"cancelled", "failed"}, AllSettle(how), UNCHANGED scorer,
         dead' \in BOOLEAN, dead => dead', unload' \in {"no", "queued", "asked", "done"},
         unload' \in {"asked", "done"} => unload \in {"asked", "done"}
  PROVE  ListeningInv'
  <1>1. /\ ops' = [o \in Ops |-> IF Active(o) THEN Settle(ops[o], how) ELSE ops[o]]
        /\ shared' = [shared EXCEPT !.consumers = @ \ Ops]
    BY DEF AllSettle
  <1>2. DOMAIN ops' = Ops /\ ops' = [o \in Ops |-> ops'[o]]  BY <1>1
  <1>3. ASSUME NEW o \in Ops
        PROVE  /\ OpFit(ops'[o]) /\ ops'[o].at = ops[o].at /\ ~ops'[o].attached
               /\ AtWork(ops'[o]) => AtWork(ops[o]) /\ ops'[o].scores = ops[o].scores
    <2>1. OpFit(ops[o]) /\ StandsRight(ops[o])  BY Known
    <2>2. CASE Active(o)
      <3> DEFINE s == ops[o]  t == Settle(s, how)
      <3>1. OpFit(t) /\ GoesOn(s, t) /\ ~t.attached  BY <2>1, SettleKeeps
      <3>2. ops'[o] = t  BY <1>1, <2>2
      <3> HIDE DEF t
      <3> QED BY <3>1, <3>2 DEF GoesOn
    <2>3. CASE ~Active(o)
      <3>1. ops'[o] = ops[o]  BY <1>1, <2>3
      <3>2. ~ops[o].attached
        BY <2>1, <2>3 DEF Active, OpFit, ListensRight, StandsRight, OpRecord
      <3> QED BY <2>1, <3>1, <3>2
    <2> QED BY <2>2, <2>3
  <1>4. HelperFits(shared')
    <2>1. HelperFits(shared) /\ shared \in SharedRecord  BY Known DEF HelperFits
    <2> DEFINE c == shared.consumers \ Ops  h == [shared EXCEPT !.consumers = c]
    <2>2. shared' = h  BY <1>1
    <2>3. c \in SUBSET Nat /\ (shared.consumers = {} => c = {})  BY <2>1 DEF SharedRecord
    <2> HIDE DEF c
    <2>4. /\ h \in SharedRecord /\ h.consumers = c /\ h.mic = shared.mic /\ h.state = shared.state
          /\ h.heard = shared.heard
      BY <2>1, <2>3 DEF SharedRecord
    <2> HIDE DEF h
    <2>5. HelperFits(h)  BY <2>1, <2>3, <2>4 DEF HelperFits, Terminal
    <2> QED BY <2>2, <2>5
  <1>5. shared'.consumers = shared.consumers \ Ops
    <2>1. shared \in SharedRecord  BY Known DEF HelperFits
    <2> QED BY <1>1, <2>1 DEF SharedRecord
  <1>6. shared'.consumers \subseteq Ops \cup {Other}  BY <1>5, Known
  <1>7. \A o \in Ops : Serves(shared', o, ops'[o])  BY <1>3, <1>5 DEF Serves
  <1>8. \A o \in Ops : /\ OpFit(ops'[o]) /\ ops'[o].at = ops[o].at
                       /\ AtWork(ops'[o]) => AtWork(ops[o]) /\ ops'[o].scores = ops[o].scores
    BY <1>3
  <1> QED BY <1>2, <1>4, <1>6, <1>7, <1>8, AllGoOn

LEMMA WorkerFailsKeeps ==
  ASSUME ListeningInv, WorkerFails
  PROVE  ListeningInv'
  <1>1. AllSettle("failed") /\ dead' = TRUE /\ UNCHANGED <<unload, scorer>>  BY DEF WorkerFails
  <1> QED BY <1>1, Known, AllSettleKeeps

LEMMA UnloadKeeps ==
  ASSUME ListeningInv, Unload
  PROVE  ListeningInv'
  <1>1. AllSettle("cancelled") /\ unload' = "queued" /\ UNCHANGED <<dead, scorer>>  BY DEF Unload
  <1> QED BY <1>1, Known, AllSettleKeeps

\* unload() goes on when everything before it is over.
LEMMA UnloadGoesOn ==
  ASSUME ListeningInv, \A o \in Ops : ops[o].at = "over", unload' \in {"asked", "done"},
         UNCHANGED <<ops, dead, scorer, shared>>
  PROVE  ListeningInv'
  <1>1. \A o \in Ops : OpFit(ops'[o]) /\ Proceeds(o, ops'[o])  BY Known DEF Proceeds
  <1>2. ScorerFits'  BY Known DEF ScorerFits, Ops
  <1>3. SharedFits'  BY DEF ListeningInv, SharedFits, Ops
  <1> QED BY <1>1, <1>2, <1>3, Known, Steps

LEMMA UnloadStartsKeeps ==
  ASSUME ListeningInv, UnloadStarts
  PROVE  ListeningInv'
  <1>1. Turn(Len(ops) + 1) /\ unload' = "asked" /\ UNCHANGED <<ops, dead, scorer, shared>>
    BY DEF UnloadStarts
  <1>2. \A o \in Ops : o < Len(ops) + 1  BY Known
  <1>3. \A o \in Ops : ops[o].at = "over"  BY <1>1, <1>2 DEF Turn
  <1> QED BY <1>1, <1>3, UnloadGoesOn

LEMMA UnloadEndsKeeps ==
  ASSUME ListeningInv, UnloadEnds
  PROVE  ListeningInv'
  <1>1. unload = "asked" /\ unload' = "done" /\ UNCHANGED <<ops, dead, scorer, shared>>  BY DEF UnloadEnds
  <1>2. \A o \in Ops : ops[o].at = "over"  BY <1>1, Known DEF InTurn
  <1> QED BY <1>1, <1>2, UnloadGoesOn

\* An operation that is new is queued last.
LEMMA NewOneKeeps ==
  ASSUME ListeningInv, NEW s, OpFit(s), s.at = "queued", Len(ops) < MaxOps, Available,
         ops' = Append(ops, s), UNCHANGED <<unload, dead, scorer, shared>>
  PROVE  ListeningInv'
  <1>0. ops \in Seq(OpRecord) /\ Len(ops) \in Nat /\ Ops = 1 .. Len(ops) /\ MaxOps \in Nat
    BY Known, ListeningAssumption
  <1>1. s \in OpRecord /\ ~s.attached /\ ~AtWork(s)  BY DEF OpFit, StandsRight, ListensRight, AtWork
  <1> DEFINE n == Len(ops) + 1
  <1>2. /\ ops' \in Seq(OpRecord) /\ Len(ops') = n /\ ops'[n] = s
        /\ \A o \in Ops : ops'[o] = ops[o]
    BY <1>0, <1>1, AppendProperties
  <1>3. Ops' = 1 .. n /\ Ops' = Ops \cup {n} /\ \A o \in Ops : o < n
    BY <1>0, <1>2, LenProperties DEF Ops
  <1>4. \A o \in Ops' : OpFit(ops'[o])  BY <1>2, <1>3, Known
  <1>5. InTurn'
    <2>1. ASSUME NEW o \in Ops', NEW p \in Ops', o < p, ops'[p].at # "queued" PROVE ops'[o].at = "over"
      <3>1. p # n /\ p \in Ops  BY <1>2, <1>3, <2>1
      <3>2. o \in Ops  BY <1>0, <1>3, <2>1, <3>1
      <3> QED BY <1>2, <2>1, <3>1, <3>2, Known DEF InTurn
    <2>2. unload' \notin {"asked", "done"}  BY DEF Available
    <2> QED BY <2>1, <2>2 DEF InTurn
  <1>6. ScorerFits'
    <2>1. scorer.of \in 0 .. n /\ scorer.frames \in Nat  BY <1>0, Known DEF ScorerFits
    <2>2. ASSUME ~dead, NEW o \in Ops', AtWork(ops'[o])
          PROVE  scorer = [of |-> o, frames |-> Len(ops'[o].scores)]
      <3>1. o \in Ops  BY <1>1, <1>2, <1>3, <2>2
      <3> QED BY <1>2, <2>2, <3>1, Known DEF ScorerFits
    <2> HIDE DEF n
    <2> QED BY <1>2, <2>1, <2>2 DEF ScorerFits
  <1>7. SharedFits'
    <2>1. n \notin shared.consumers
      <3>1. n \notin Ops /\ n # Other  BY <1>0 DEF Other
      <3> HIDE DEF n
      <3> QED BY <3>1, Known
    <2>2. \A o \in Ops' : Serves(shared, o, ops'[o])
      <3>1. Serves(shared, n, ops'[n])  BY <1>1, <1>2, <2>1 DEF Serves
      <3> HIDE DEF n
      <3> QED BY <1>2, <1>3, <3>1, Known
    <2>3. shared.consumers \subseteq Ops' \cup {Other}  BY <1>3, Known
    <2> HIDE DEF n
    <2> QED BY <2>2, <2>3, Known DEF SharedFits
  <1>8. Len(ops') <= MaxOps  BY <1>0, <1>2
  <1>9. dead' \in BOOLEAN /\ unload' \in {"no", "queued", "asked", "done"}  BY Known
  <1> HIDE DEF n
  <1> QED BY <1>2, <1>4, <1>5, <1>6, <1>7, <1>8, <1>9 DEF ListeningInv

\* What a new operation is.
LEMMA NewFits ==
  ASSUME NEW k \in {"file", "session"}, NEW n \in Nat, NEW s, k = "session" => n = 0,
         \/ s = [NewOperation(k) EXCEPT !.accepted = n]
         \/ s = NewOperation(k) /\ n = 0
  PROVE  OpFit(s) /\ s.at = "queued"
  <1> DEFINE u == NewOperation(k)
  <1>1. <<>> \in Seq(Nat) /\ <<>> \in Seq(Scores) /\ Len(<<>>) = 0  BY EmptySeq
  <1>2. /\ NoCapture \in CaptureRecord /\ NoCapture.at = "none" /\ NoCapture.stopped = FALSE
        /\ NoCapture.promise = "pending"
    BY DEF NoCapture, CaptureRecord, CaptureStages
  <1>3. Sound(NewSegmenter) /\ NewSegmenter.position = 0  BY InitSound DEF NewSegmenter
  <1>4. NewSegmenter \in SegmenterRecord /\ WellFormed(NewSegmenter)
    BY <1>3 DEF Sound, Fields, SegmentsOK
  <1>5. u \in OpRecord
    <2>1. "queued" \in Stages /\ "none" \in Results /\ 0 \in 0 .. 1  BY DEF Stages, Results
    <2> QED BY <1>1, <1>2, <1>4, <2>1 DEF NewOperation, OpRecord
  <1>6. /\ u.kind = k /\ u.at = "queued" /\ u.terminal = FALSE /\ u.result = "none" /\ u.ending = FALSE
        /\ u.pump = "idle" /\ u.queue = <<>> /\ u.frame = <<>> /\ u.held = 0 /\ u.accepted = 0
        /\ u.source = "none" /\ u.mic = NoCapture /\ u.attached = FALSE /\ u.seg = NewSegmenter
        /\ u.ends = <<>> /\ u.scores = <<>>
    BY DEF NewOperation
  <1>7. s = [u EXCEPT !.accepted = n] \/ (s = u /\ n = 0)  OBVIOUS
  <1> HIDE DEF u
  <1>8. /\ s \in OpRecord /\ s.accepted = n
        /\ s.kind = k /\ s.at = "queued" /\ s.terminal = FALSE /\ s.result = "none" /\ s.ending = FALSE
        /\ s.pump = "idle" /\ s.queue = <<>> /\ s.frame = <<>> /\ s.held = 0
        /\ s.source = "none" /\ s.mic = NoCapture /\ s.attached = FALSE /\ s.seg = NewSegmenter
        /\ s.ends = <<>> /\ s.scores = <<>>
    <2>1. CASE s = [u EXCEPT !.accepted = n]  BY <1>5, <1>6, <2>1 DEF OpRecord
    <2>2. CASE s = u /\ n = 0  BY <1>5, <1>6, <2>2
    <2> QED BY <1>7, <2>1, <2>2
  <1> HIDE DEF NoCapture
  <1>9. StandsRight(s)  BY <1>8 DEF StandsRight
  <1>10. MicFits(s) /\ ListensRight(s)  BY <1>2, <1>8 DEF MicFits, NoLeak, ListensRight
  <1>11. AudioFits(s)
    <2>1. 0 <= FrameSize  BY ListeningAssumption
    <2>2. Heard(s.seg, s.ends, s.scores)  BY <1>8, InitHeard
    <2>3. Unheard(s)  BY <1>3, <1>8 DEF Unheard
    <2>4. s.seg.position <= s.accepted  BY <1>3, <1>8
    <2> QED BY <1>1, <1>3, <1>4, <1>8, <2>1, <2>2, <2>3, <2>4 DEF AudioFits
  <1> QED BY <1>8, <1>9, <1>10, <1>11 DEF OpFit

LEMMA DetectKeeps ==
  ASSUME ListeningInv, NEW n \in FileLengths, Detect(n)
  PROVE  ListeningInv'
  <1> DEFINE s == [NewOperation("file") EXCEPT !.accepted = n]
  <1>1. /\ Len(ops) < MaxOps /\ Available /\ ops' = Append(ops, s)
        /\ UNCHANGED <<unload, dead, scorer, shared>>
    BY DEF Detect
  <1>2. n \in Nat  BY ListeningAssumption
  <1>3. OpFit(s) /\ s.at = "queued"
    <2> DEFINE k == "file"
    <2>1. s = [NewOperation(k) EXCEPT !.accepted = n]  OBVIOUS
    <2>2. k \in {"file", "session"} /\ k # "session"  OBVIOUS
    <2> HIDE DEF k, s
    <2> QED BY <1>2, <2>1, <2>2, NewFits
  <1> HIDE DEF s
  <1> QED BY <1>1, <1>3, NewOneKeeps

LEMMA CreateSessionKeeps ==
  ASSUME ListeningInv, CreateSession
  PROVE  ListeningInv'
  <1> DEFINE s == NewOperation("session")
  <1>1. /\ Len(ops) < MaxOps /\ Available /\ ops' = Append(ops, s)
        /\ UNCHANGED <<unload, dead, scorer, shared>>
    BY DEF CreateSession
  <1>2. OpFit(s) /\ s.at = "queued"
    <2> DEFINE k == "session"  n == 0
    <2>1. s = NewOperation(k) /\ n = 0 /\ k \in {"file", "session"} /\ n \in Nat  OBVIOUS
    <2> HIDE DEF k, n, s
    <2> QED BY <2>1, NewFits
  <1> HIDE DEF s
  <1> QED BY <1>1, <1>2, NewOneKeeps

----------------------------------------------------------------------------
(* The steps of the callers and of the microphones. *)

LEMMA CallerCancelsKeeps ==
  ASSUME ListeningInv, NEW o \in Ops, CallerCancels(o)
  PROVE  ListeningInv'
  <1> DEFINE s == ops[o]  t == Settle(s, "cancelled")
  <1>1. Become(o, t) /\ UNCHANGED <<unload, dead, scorer>>  BY DEF CallerCancels, Quietly
  <1>2. OpFit(t) /\ GoesOn(s, t)  BY Known, SettleKeeps
  <1> HIDE DEF t
  <1> QED BY <1>1, <1>2, BecomesStill

\* A session that takes audio is at work.
LEMMA TakesLive ==
  ASSUME ListeningInv, NEW o \in Ops, Takes(o)
  PROVE  /\ OpFit(ops[o]) /\ ops[o] \in OpRecord /\ ops[o].at = "live" /\ ops[o].kind = "session"
         /\ ~ops[o].terminal /\ ~ops[o].ending
  BY Known DEF Takes, Live, Active

LEMMA CallerFinishesKeeps ==
  ASSUME ListeningInv, NEW o \in Ops, CallerFinishes(o)
  PROVE  ListeningInv'
  <1> DEFINE s == ops[o]  t == Finish(s)
  <1>1. Takes(o) /\ Become(o, t) /\ UNCHANGED <<unload, dead, scorer>>
    BY DEF CallerFinishes, Quietly
  <1>2. OpFit(t) /\ GoesOn(s, t)  BY <1>1, TakesLive, FinishFits
  <1> HIDE DEF t
  <1> QED BY <1>1, <1>2, BecomesStill

\* A session, u but for where its audio comes from, that is not attached hears n units.
LEMMA HearsKeeps ==
  ASSUME ListeningInv, NEW o \in Ops, NEW u, OpFit(u), u.at = "live", ops[o].at = "live", ~u.attached,
         u.source # "none", AtWork(u) => AtWork(ops[o]) /\ u.scores = ops[o].scores,
         NEW n \in Chunks, NEW keeps \in 0 .. 1, Become(o, Accept(u, n, keeps)),
         UNCHANGED <<unload, dead, scorer>>
  PROVE  ListeningInv'
  <1> DEFINE t == Accept(u, n, keeps)
  <1>1. n \in Nat /\ keeps <= n
    <2>1. n \in Nat /\ n # 0  BY ListeningAssumption
    <2> QED BY <2>1
  <1>2. /\ OpFit(t) /\ t.at = "live" /\ (AtWork(t) => AtWork(u) /\ t.scores = u.scores)
        /\ t.attached = u.attached
    BY <1>1, AcceptFits
  <1>3. Become(o, t)  OBVIOUS
  <1> HIDE DEF t
  <1>4. Proceeds(o, t)  BY <1>2 DEF Proceeds
  <1>5. Told(o, t, scorer)  BY <1>2, TellsNothing
  <1>6. Told(o, t, scorer')  BY <1>5
  <1> QED BY <1>2, <1>3, <1>4, <1>6, Becomes

LEMMA CallerPushesKeeps ==
  ASSUME ListeningInv, NEW o \in Ops, CallerPushes(o)
  PROVE  ListeningInv'
  <1> DEFINE s == ops[o]  u == [s EXCEPT !.source = "external"]
  <1>1. Takes(o) /\ s.source \in {"none", "external"} /\ UNCHANGED <<unload, dead, scorer>>
    BY DEF CallerPushes, Quietly
  <1>2. PICK n \in Chunks, keeps \in 0 .. 1 : Become(o, Accept(u, n, keeps))  BY DEF CallerPushes
  <1>3. OpFit(s) /\ s \in OpRecord /\ s.at = "live" /\ s.kind = "session"  BY <1>1, TakesLive
  <1>4. /\ TookFrom(s, u) /\ u.source = "external" /\ u.mic = s.mic /\ u.attached = s.attached
    <2> HIDE DEF s
    <2> QED BY <1>3 DEF TookFrom, OpRecord
  <1>5. Become(o, Accept(u, n, keeps))  BY <1>2
  <1> HIDE DEF u
  <1>6. MicFits(u) /\ ListensRight(u) /\ ~u.attached
    BY <1>1, <1>3, <1>4 DEF OpFit, MicFits, ListensRight, TookFrom
  <1>7. OpFit(u) /\ u.at = "live" /\ (AtWork(u) => AtWork(s) /\ u.scores = s.scores)
    <2> HIDE DEF s
    <2> QED BY <1>3, <1>4, <1>6, TakesFits
  <1> QED BY <1>1, <1>3, <1>4, <1>5, <1>6, <1>7, HearsKeeps

LEMMA MicrophoneHearsKeeps ==
  ASSUME ListeningInv, NEW o \in Ops, MicrophoneHears(o)
  PROVE  ListeningInv'
  <1> DEFINE s == ops[o]
  <1>1. Takes(o) /\ Delivers(s.mic) /\ UNCHANGED <<unload, dead, scorer>>
    BY DEF MicrophoneHears, Quietly
  <1>2. PICK n \in Chunks, keeps \in 0 .. 1 : Become(o, Accept(s, n, keeps))  BY DEF MicrophoneHears
  <1>3. OpFit(s) /\ s.at = "live" /\ ~s.terminal  BY <1>1, TakesLive
  <1>4. s.source = "owned"  BY <1>1, <1>3 DEF OpFit, MicFits, Delivers, Started
  <1>5. ~s.attached  BY <1>3, <1>4 DEF OpFit, ListensRight
  <1> QED BY <1>1, <1>2, <1>3, <1>4, <1>5, HearsKeeps

LEMMA CallerStartsMicrophoneKeeps ==
  ASSUME ListeningInv, NEW o \in Ops, CallerStartsMicrophone(o)
  PROVE  ListeningInv'
  <1> DEFINE s == ops[o]
             t == [s EXCEPT !.source = "owned", !.capture = "starting", !.mic = NewCapture]
  <1>1. Takes(o) /\ s.source = "none" /\ Become(o, t) /\ UNCHANGED <<unload, dead, scorer>>
    BY DEF CallerStartsMicrophone, Quietly
  <1>2. OpFit(s) /\ s \in OpRecord /\ s.at = "live" /\ s.kind = "session" /\ ~s.terminal /\ ~s.ending
    BY <1>1, TakesLive
  <1>3. NewCapture \in CaptureRecord /\ NoLeak(NewCapture)
    BY DEF NewCapture, NoCapture, CaptureRecord, CaptureStages, NoLeak
  <1>4. TookFrom(s, t) /\ t.source = "owned" /\ t.mic = NewCapture /\ t.attached = s.attached
    <2> HIDE DEF s
    <2> QED BY <1>2, <1>3 DEF TookFrom, OpRecord
  <1> HIDE DEF t
  <1>5. MicFits(t) /\ ListensRight(t)
    BY <1>1, <1>2, <1>3, <1>4 DEF OpFit, MicFits, ListensRight, TookFrom
  <1>6. OpFit(t) /\ GoesOn(s, t)
    <2> HIDE DEF s
    <2>1. OpFit(t) /\ (AtWork(t) => AtWork(s) /\ t.scores = s.scores)
      BY <1>2, <1>4, <1>5, TakesFits
    <2> QED BY <1>4, <2>1 DEF GoesOn, TookFrom
  <1> QED BY <1>1, <1>6, BecomesStill

\* Only the microphone of an operation, or what it asked of it, changes.
LEMMA MicrophoneFits ==
  ASSUME NEW s, OpFit(s), NEW t, TookFrom(s, t), t.source = s.source, t.attached = s.attached, MicFits(t)
  PROVE  OpFit(t) /\ GoesOn(s, t)
  <1>1. ListensRight(t)  BY DEF OpFit, ListensRight, TookFrom
  <1>2. OpFit(t) /\ (AtWork(t) => AtWork(s) /\ t.scores = s.scores)  BY <1>1, TakesFits
  <1> QED BY <1>2 DEF GoesOn, TookFrom

LEMMA FailsOrNot ==
  ASSUME ListeningInv, NEW o \in Ops, NEW u, OpFit(u), GoesOn(ops[o], u),
         Become(o, u) \/ Become(o, Settle(u, "failed")), UNCHANGED <<unload, dead, scorer>>
  PROVE  ListeningInv'
  <1> DEFINE t == Settle(u, "failed")
  <1>1. OpFit(t) /\ GoesOn(u, t)  BY SettleKeeps
  <1>2. Become(o, u) \/ Become(o, t)  OBVIOUS
  <1> HIDE DEF t
  <1>3. GoesOn(ops[o], t)  BY <1>1 DEF GoesOn
  <1> QED BY <1>1, <1>2, <1>3, BecomesStill

LEMMA MicrophoneTurnsKeeps ==
  ASSUME ListeningInv, NEW o \in Ops, MicrophoneTurns(o)
  PROVE  ListeningInv'
  <1> DEFINE s == ops[o]
  <1>1. PICK m \in CaptureTurns(s.mic) :
          Become(o, IF m.failed /\ ~s.mic.failed THEN Settle([s EXCEPT !.mic = m], "failed")
                    ELSE [s EXCEPT !.mic = m])
    BY DEF MicrophoneTurns
  <1> DEFINE u == [s EXCEPT !.mic = m]
  <1>2. (Become(o, u) \/ Become(o, Settle(u, "failed"))) /\ UNCHANGED <<unload, dead, scorer>>
    BY <1>1 DEF MicrophoneTurns, Quietly
  <1>3. OpFit(s) /\ s \in OpRecord /\ MicFits(s)  BY Known DEF OpFit
  <1>4. s.mic \in CaptureRecord /\ NoLeak(s.mic)  BY <1>3 DEF OpRecord, MicFits
  <1>5. m \in CaptureRecord /\ NoLeak(m) /\ (s.mic.stopped => m.stopped) /\ s.mic.at # "none"
    BY <1>4, TurnFits
  <1>6. TookFrom(s, u) /\ u.source = s.source /\ u.attached = s.attached /\ u.mic = m
    <2> HIDE DEF s
    <2> QED BY <1>3, <1>5 DEF TookFrom, OpRecord
  <1> HIDE DEF u
  <1>7. MicFits(u)  BY <1>3, <1>5, <1>6 DEF MicFits, TookFrom
  <1>8. OpFit(u) /\ GoesOn(s, u)
    <2> HIDE DEF s
    <2> QED BY <1>3, <1>6, <1>7, MicrophoneFits
  <1> QED BY <1>2, <1>8, FailsOrNot

LEMMA MicrophoneStartsKeeps ==
  ASSUME ListeningInv, NEW o \in Ops, MicrophoneStarts(o)
  PROVE  ListeningInv'
  <1> DEFINE s == ops[o]  late == s.terminal \/ s.ending
             c == IF Started(s.mic) /\ ~late THEN "held" ELSE "none"
             m == IF Started(s.mic) /\ late THEN Stop(s.mic) ELSE s.mic
             t == [s EXCEPT !.capture = c, !.mic = m]
  <1>1. /\ s.mic.promise # "pending" /\ UNCHANGED <<unload, dead, scorer>>
        /\ Become(o, t) \/ Become(o, Settle(t, "failed"))
    BY DEF MicrophoneStarts, Quietly
  <1>2. OpFit(s) /\ s \in OpRecord /\ MicFits(s)  BY Known DEF OpFit
  <1>3. s.mic \in CaptureRecord /\ NoLeak(s.mic)  BY <1>2 DEF OpRecord, MicFits
  <1>4. /\ m \in CaptureRecord /\ NoLeak(m) /\ (m = s.mic \/ m.stopped)
        /\ c \in {"none", "starting", "held"}
    BY <1>3, StopFits
  <1> HIDE DEF c, m
  <1>5. TookFrom(s, t) /\ t.source = s.source /\ t.attached = s.attached /\ t.mic = m
    <2> HIDE DEF s
    <2> QED BY <1>2, <1>4 DEF TookFrom, OpRecord
  <1> HIDE DEF t
  <1>6. MicFits(t)
    <2>1. ~s.terminal => s.source = "owned"  BY <1>1, <1>2 DEF MicFits
    <2> QED BY <1>2, <1>4, <1>5, <2>1 DEF MicFits, TookFrom
  <1>7. OpFit(t) /\ GoesOn(s, t)
    <2> HIDE DEF s
    <2> QED BY <1>2, <1>5, <1>6, MicrophoneFits
  <1> QED BY <1>1, <1>7, FailsOrNot

LEMMA MicrophoneClosesKeeps ==
  ASSUME ListeningInv, NEW o \in Ops, MicrophoneCloses(o)
  PROVE  ListeningInv'
  <1> DEFINE s == ops[o]  t == [s EXCEPT !.closing = FALSE]
  <1>1. Become(o, t) /\ UNCHANGED <<unload, dead, scorer>>  BY DEF MicrophoneCloses, Quietly
  <1>2. OpFit(s) /\ s \in OpRecord  BY Known
  <1>3. TookFrom(s, t) /\ t.source = s.source /\ t.attached = s.attached /\ t.mic = s.mic
    <2> HIDE DEF s
    <2> QED BY <1>2 DEF TookFrom, OpRecord
  <1> HIDE DEF t
  <1>4. MicFits(t)  BY <1>2, <1>3 DEF OpFit, MicFits, TookFrom
  <1>5. OpFit(t) /\ GoesOn(s, t)
    <2> HIDE DEF s
    <2> QED BY <1>2, <1>3, <1>4, MicrophoneFits
  <1> QED BY <1>1, <1>5, BecomesStill

----------------------------------------------------------------------------
(* The steps of the shared capture. *)

LEMMA CallerAttachesKeeps ==
  ASSUME ListeningInv, NEW o \in Ops, CallerAttaches(o)
  PROVE  ListeningInv'
  <1> DEFINE s == ops[o]  t == [s EXCEPT !.source = "shared", !.attached = TRUE]
             h == [shared EXCEPT !.consumers = shared.consumers \cup {o}]
  <1>1. /\ Takes(o) /\ s.source = "none" /\ shared.state = "prepared" /\ shared' = h
        /\ ops' = [ops EXCEPT ![o].source = "shared", ![o].attached = TRUE]
        /\ UNCHANGED <<unload, dead, scorer>>
    BY DEF CallerAttaches, Quietly, MayAttach, Attach
  <1>2. OpFit(s) /\ s \in OpRecord /\ s.at = "live" /\ s.kind = "session" /\ ~s.terminal /\ ~s.ending
    BY <1>1, TakesLive
  <1>3. TookFrom(s, t) /\ t.source = "shared" /\ t.attached = TRUE /\ t.mic = s.mic
    <2> HIDE DEF s
    <2> QED BY <1>2 DEF TookFrom, OpRecord
  <1>4. ops' = [ops EXCEPT ![o] = t]
    <2>1. ops \in [1 .. Len(ops) -> OpRecord]  BY Known, LenProperties
    <2> QED BY <1>1, <1>2, <2>1 DEF OpRecord
  <1> HIDE DEF t
  <1>5. MicFits(t) /\ ListensRight(t)
    BY <1>1, <1>2, <1>3 DEF OpFit, MicFits, ListensRight, TookFrom
  <1>6. OpFit(t) /\ t.at = "live" /\ (AtWork(t) => AtWork(s) /\ t.scores = s.scores)
    <2> HIDE DEF s
    <2> QED BY <1>2, <1>3, <1>5, TakesFits
  <1>7. Kept(t) = t  BY <1>6 DEF Kept
  <1>8. Proceeds(o, t)  BY <1>2, <1>6 DEF Proceeds
  <1>9. Told(o, t, scorer)  BY <1>6, TellsNothing
  <1>10. Told(o, t, scorer')  BY <1>1, <1>9
  <1>11. Shares(shared', o, t)
    <2>1. HelperFits(shared) /\ shared \in SharedRecord /\ shared.consumers \subseteq Ops \cup {Other}
      BY Known DEF HelperFits
    <2>2. o \in Nat  BY Known
    <2>3. /\ h \in SharedRecord /\ h.consumers = shared.consumers \cup {o} /\ h.state = shared.state
          /\ h.mic = shared.mic /\ h.heard = shared.heard
      BY <2>1, <2>2 DEF SharedRecord
    <2> HIDE DEF h
    <2>4. HelperFits(h)  BY <1>1, <2>1, <2>3 DEF HelperFits, Terminal
    <2>5. t.accepted = h.heard
      <3>1. s.accepted = 0 /\ shared.heard = 0  BY <1>1, <1>2, <2>1 DEF OpFit, StandsRight, HelperFits
      <3> QED BY <1>3, <2>3, <3>1 DEF TookFrom
    <2>6. Serves(h, o, t)  BY <1>3, <2>3, <2>5 DEF Serves
    <2>7. \A p \in Ops \ {o} : Serves(h, p, ops[p])  BY <2>3, Known DEF Serves
    <2>8. h.consumers \subseteq Ops \cup {Other}  BY <2>1, <2>3
    <2>9. Shares(h, o, t)  BY <2>4, <2>6, <2>7, <2>8 DEF Shares
    <2> QED BY <1>1, <2>9
  <1>12. ops' = [ops EXCEPT ![o] = Kept(t)]  BY <1>4, <1>7
  <1> QED BY <1>1, <1>6, <1>8, <1>10, <1>11, <1>12, BecomesWith

\* The capture alone changes.
LEMMA SharedAlone ==
  ASSUME ListeningInv, UNCHANGED <<ops, unload, dead, scorer>>, HelperFits(shared'),
         shared'.consumers \subseteq Ops \cup {Other}, \A o \in Ops : Serves(shared', o, ops[o])
  PROVE  ListeningInv'
  <1>1. \A o \in Ops : OpFit(ops'[o]) /\ Proceeds(o, ops'[o])  BY Known DEF Proceeds
  <1>2. ScorerFits'  BY Known DEF ScorerFits, Ops
  <1>3. SharedFits'  BY DEF SharedFits, Ops
  <1>4. unload' \in {"asked", "done"} => \A o \in Ops : ops'[o].at = "over"  BY Known DEF InTurn
  <1> QED BY <1>1, <1>2, <1>3, <1>4, Known, Steps

LEMMA OtherMovesKeeps ==
  ASSUME ListeningInv, OtherMoves
  PROVE  ListeningInv'
  <1>0. UNCHANGED <<ops, unload, dead, scorer>>  BY DEF OtherMoves, Quietly
  <1>1. /\ HelperFits(shared) /\ shared \in SharedRecord /\ shared.consumers \subseteq Ops \cup {Other}
        /\ \A o \in Ops : Serves(shared, o, ops[o]) /\ o # Other
    <2>1. \A o \in Ops : o # Other  BY Known DEF Other
    <2> QED BY <2>1, Known DEF HelperFits
  <1>2. CASE MayAttach(shared) /\ shared' = Attach(shared, Other)
    <2> DEFINE h == [shared EXCEPT !.consumers = shared.consumers \cup {Other}]
    <2>1. shared' = h  BY <1>2 DEF Attach
    <2>2. /\ h \in SharedRecord /\ h.consumers = shared.consumers \cup {Other} /\ h.state = shared.state
          /\ h.mic = shared.mic /\ h.heard = shared.heard
      BY <1>1 DEF SharedRecord, Other
    <2> HIDE DEF h
    <2>3. HelperFits(h)  BY <1>1, <1>2, <2>2 DEF HelperFits, Terminal, MayAttach
    <2>4. \A o \in Ops : Serves(h, o, ops[o])  BY <1>1, <2>2 DEF Serves
    <2>5. h.consumers \subseteq Ops \cup {Other}  BY <1>1, <2>2
    <2> QED BY <1>0, <2>1, <2>3, <2>4, <2>5, SharedAlone
  <1>3. CASE shared' = Detach(shared, Other)
    <2> DEFINE h == Detach(shared, Other)
    <2>1. /\ HelperFits(h) /\ h.consumers = shared.consumers \ {Other} /\ h.state = shared.state
          /\ h.heard = shared.heard
      BY <1>1, DetachFits
    <2>2. shared' = h  BY <1>3
    <2> HIDE DEF h
    <2>3. \A o \in Ops : Serves(h, o, ops[o])  BY <1>1, <2>1 DEF Serves
    <2>4. h.consumers \subseteq Ops \cup {Other}  BY <1>1, <2>1
    <2> QED BY <1>0, <2>1, <2>2, <2>3, <2>4, SharedAlone
  <1> QED BY <1>2, <1>3 DEF OtherMoves

LEMMA SharedStartsKeeps ==
  ASSUME ListeningInv, SharedStarts
  PROVE  ListeningInv'
  <1> DEFINE h == [shared EXCEPT !.state = "starting", !.mic = NewCapture]
  <1>1. shared.state = "prepared" /\ shared' = h /\ UNCHANGED <<ops, unload, dead, scorer>>
    BY DEF SharedStarts, Quietly, StartHelper
  <1>2. HelperFits(shared) /\ shared \in SharedRecord /\ shared.consumers \subseteq Ops \cup {Other}
    BY Known DEF HelperFits
  <1>3. NewCapture \in CaptureRecord /\ NoLeak(NewCapture)
    BY DEF NewCapture, NoCapture, CaptureRecord, CaptureStages, NoLeak
  <1>4. /\ h \in SharedRecord /\ h.consumers = shared.consumers /\ h.state = "starting"
        /\ h.mic = NewCapture /\ h.heard = shared.heard
    BY <1>2, <1>3 DEF SharedRecord, HelperStates
  <1> HIDE DEF h
  <1>5. HelperFits(h)  BY <1>3, <1>4 DEF HelperFits, Terminal
  <1>6. \A o \in Ops : Serves(h, o, ops[o])  BY <1>1, <1>4, Known DEF Serves
  <1> QED BY <1>1, <1>2, <1>4, <1>5, <1>6, SharedAlone

LEMMA SharedStopsKeeps ==
  ASSUME ListeningInv, SharedStops
  PROVE  ListeningInv'
  <1> DEFINE h == StopHelper(shared)
  <1>1. ~Terminal(shared) /\ shared' = h /\ UNCHANGED <<ops, unload, dead, scorer>>
    BY DEF SharedStops, Quietly
  <1>2. HelperFits(h) /\ h.consumers = {} /\ h.state = "stopped"
    <2>1. EndedFrom(shared, h, "stopped")  BY Known, StopHelperFits
    <2> HIDE DEF h
    <2> QED BY <1>1, <2>1 DEF EndedFrom
  <1> HIDE DEF h
  <1>3. \A o \in Ops : Serves(h, o, ops[o])  BY <1>2 DEF Serves
  <1>4. h.consumers \subseteq Ops \cup {Other}  BY <1>2
  <1> QED BY <1>1, <1>2, <1>3, <1>4, SharedAlone

\* Whoever listens to a capture that fails fails with it.
LEMMA SharedBecomesKeeps ==
  ASSUME ListeningInv, NEW h, Follows(shared, h), SharedBecomes(h), UNCHANGED <<unload, dead, scorer>>
  PROVE  ListeningInv'
  <1> DEFINE told == IF h.state = "failed" THEN shared.consumers ELSE {}
  <1>1. /\ shared' = h
        /\ ops' = [o \in Ops |-> IF o \in told THEN Settle(ops[o], "failed") ELSE ops[o]]
    BY DEF SharedBecomes
  <1>2. DOMAIN ops' = Ops /\ ops' = [o \in Ops |-> ops'[o]]  BY <1>1
  <1>3. /\ HelperFits(h) /\ h.heard = shared.heard /\ (shared.state = "stopped" => h.state = "stopped")
        /\ h.state = "failed" => h.consumers = {}
        /\ h.state # "failed" => h.consumers = shared.consumers
    BY DEF Follows, HelperFits, Terminal
  <1>4. ASSUME NEW o \in Ops
        PROVE  /\ OpFit(ops'[o]) /\ ops'[o].at = ops[o].at
               /\ AtWork(ops'[o]) => AtWork(ops[o]) /\ ops'[o].scores = ops[o].scores
               /\ Serves(h, o, ops'[o])
    <2>1. OpFit(ops[o]) /\ Serves(shared, o, ops[o])  BY Known
    <2>2. CASE o \in told
      <3> DEFINE s == ops[o]  t == Settle(s, "failed")
      <3>1. OpFit(t) /\ GoesOn(s, t) /\ ~t.attached  BY <2>1, SettleKeeps
      <3>2. ops'[o] = t /\ h.state = "failed"  BY <1>1, <2>2
      <3> HIDE DEF t
      <3>3. Serves(h, o, t)  BY <1>3, <3>1, <3>2 DEF Serves
      <3> QED BY <3>1, <3>2, <3>3 DEF GoesOn
    <2>3. CASE o \notin told
      <3>1. ops'[o] = ops[o]  BY <1>1, <2>3
      <3>2. h.state = "failed" => o \notin shared.consumers  BY <2>3
      <3>3. Serves(h, o, ops[o])  BY <1>3, <2>1, <3>2 DEF Serves
      <3> QED BY <2>1, <3>1, <3>3
    <2> QED BY <2>2, <2>3
  <1>5. h.consumers \subseteq Ops \cup {Other}  BY <1>3, Known
  <1>6. \A o \in Ops : /\ OpFit(ops'[o]) /\ ops'[o].at = ops[o].at
                       /\ AtWork(ops'[o]) => AtWork(ops[o]) /\ ops'[o].scores = ops[o].scores
    BY <1>4
  <1>7. HelperFits(shared') /\ shared'.consumers \subseteq Ops \cup {Other}
        /\ \A o \in Ops : Serves(shared', o, ops'[o])
    BY <1>1, <1>3, <1>4, <1>5
  <1> QED BY <1>2, <1>6, <1>7, Known, AllGoOn

LEMMA SharedTurnsKeeps ==
  ASSUME ListeningInv, SharedTurns
  PROVE  ListeningInv'
  <1>1. PICK m \in CaptureTurns(shared.mic) :
          SharedBecomes(IF m.failed /\ ~shared.mic.failed THEN FailHelper([shared EXCEPT !.mic = m])
                        ELSE [shared EXCEPT !.mic = m])
    BY DEF SharedTurns
  <1> DEFINE h == IF m.failed /\ ~shared.mic.failed THEN FailHelper([shared EXCEPT !.mic = m])
                  ELSE [shared EXCEPT !.mic = m]
  <1>2. Follows(shared, h)  BY Known, HelperTurns
  <1>3. SharedBecomes(h) /\ UNCHANGED <<unload, dead, scorer>>  BY <1>1 DEF SharedTurns, Quietly
  <1> HIDE DEF h
  <1> QED BY <1>2, <1>3, SharedBecomesKeeps

LEMMA SharedAcquiresKeeps ==
  ASSUME ListeningInv, SharedAcquires
  PROVE  ListeningInv'
  <1> DEFINE h == Acquired(shared)
  <1>1. SharedBecomes(h) /\ UNCHANGED <<unload, dead, scorer>>  BY DEF SharedAcquires, Quietly
  <1>2. Follows(shared, h)  BY Known, HelperAcquires
  <1> HIDE DEF h
  <1> QED BY <1>1, <1>2, SharedBecomesKeeps

\* What a session that shares the capture hears of it.
LEMMA ServedHears ==
  ASSUME NEW s, OpFit(s), s.attached, NEW n \in Chunks, NEW keeps \in 0 .. 1
  PROVE  LET t == Accept(s, n, keeps) IN
         /\ OpFit(t) /\ t.at = s.at /\ (AtWork(t) => AtWork(s) /\ t.scores = s.scores)
         /\ t.attached /\ t.accepted = s.accepted + n
  <1>1. s.source = "shared" /\ ~s.terminal /\ ~s.ending /\ s.at = "live"
    BY DEF OpFit, ListensRight, StandsRight
  <1>2. n \in Nat /\ keeps <= n
    <2>1. n \in Nat /\ n # 0  BY ListeningAssumption
    <2> QED BY <2>1
  <1> DEFINE t == Accept(s, n, keeps)
  <1>3. /\ OpFit(t) /\ t.at = "live" /\ (AtWork(t) => AtWork(s) /\ t.scores = s.scores)
        /\ t.attached = s.attached
        /\ IF s.terminal \/ s.ending THEN t = s ELSE t.accepted = s.accepted + n
    BY <1>1, <1>2, AcceptFits
  <1> HIDE DEF t
  <1>4. t.accepted = s.accepted + n  BY <1>1, <1>3
  <1> QED BY <1>1, <1>3, <1>4 DEF t

LEMMA SharedHearsKeeps ==
  ASSUME ListeningInv, SharedHears
  PROVE  ListeningInv'
  <1>1. PICK n \in Chunks, keeps \in 0 .. 1, does \in {"hears", "throws", "stops"},
             served \in {shared.consumers \ {Other}, {}} :
          /\ does # "stops" => served = shared.consumers \ {Other}
          /\ ops' = [o \in Ops |-> IF o \in served THEN Accept(ops[o], n, keeps) ELSE ops[o]]
          /\ shared' = CASE does = "hears" -> [shared EXCEPT !.heard = @ + n]
                         [] does = "throws" -> Detach([shared EXCEPT !.heard = @ + n], Other)
                         [] does = "stops" -> StopHelper([shared EXCEPT !.heard = @ + n])
    BY DEF SharedHears
  <1>2. Listening(shared) /\ UNCHANGED <<unload, dead, scorer>>  BY DEF SharedHears, Quietly
  <1> DEFINE p == [shared EXCEPT !.heard = @ + n]
             h == CASE does = "hears" -> p [] does = "throws" -> Detach(p, Other)
                    [] does = "stops" -> StopHelper(p)
  <1>3. /\ HelperFits(shared) /\ shared \in SharedRecord /\ shared.consumers \subseteq Ops \cup {Other}
        /\ \A o \in Ops : OpFit(ops[o]) /\ Serves(shared, o, ops[o]) /\ o # Other
    <2>1. \A o \in Ops : o # Other  BY Known DEF Other
    <2> QED BY <2>1, Known DEF HelperFits
  <1>4. /\ HelperFits(p) /\ p.heard = shared.heard + n /\ p.consumers = shared.consumers
        /\ p.state = shared.state /\ ~Terminal(p)
    <2>1. n \in Nat  BY ListeningAssumption
    <2>2. shared.heard \in Nat  BY <1>3 DEF SharedRecord
    <2> DEFINE e == shared.heard + n
    <2>3. e \in Nat /\ p = [shared EXCEPT !.heard = e]  BY <2>1, <2>2
    <2> HIDE DEF e
    <2>4. /\ p \in SharedRecord /\ p.heard = e /\ p.consumers = shared.consumers
          /\ p.state = shared.state /\ p.mic = shared.mic
      BY <1>3, <2>3 DEF SharedRecord
    <2> HIDE DEF p
    <2>5. ~Terminal(p) /\ p.state # "prepared"  BY <1>2, <2>4 DEF Listening, Terminal
    <2>6. HelperFits(p)  BY <1>3, <2>4, <2>5 DEF HelperFits
    <2> QED BY <2>4, <2>5, <2>6 DEF e
  <1> HIDE DEF p
  <1>5. /\ HelperFits(h) /\ h.consumers \subseteq shared.consumers
        /\ \/ h.consumers = {} /\ h.state = "stopped"
           \/ h.heard = shared.heard + n /\ shared.consumers \ {Other} \subseteq h.consumers /\ does # "stops"
    <2>1. CASE does = "hears"
      <3>1. h = p  BY <2>1
      <3> HIDE DEF h
      <3> QED BY <1>4, <2>1, <3>1
    <2>2. CASE does = "throws"
      <3> DEFINE d == Detach(p, Other)
      <3>1. h = d  BY <2>2
      <3>2. HelperFits(d) /\ d.consumers = p.consumers \ {Other} /\ d.heard = p.heard  BY <1>4, DetachFits
      <3> HIDE DEF h, d
      <3> QED BY <1>4, <2>2, <3>1, <3>2
    <2>3. CASE does = "stops"
      <3> DEFINE d == StopHelper(p)
      <3>1. h = d  BY <2>3
      <3>2. EndedFrom(p, d, "stopped")  BY <1>4, StopHelperFits
      <3> HIDE DEF h, d
      <3> QED BY <1>4, <2>3, <3>1, <3>2 DEF EndedFrom
    <2> QED BY <2>1, <2>2, <2>3
  <1>6. shared' = h  BY <1>1 DEF p
  <1> HIDE DEF h
  <1>7. DOMAIN ops' = Ops /\ ops' = [o \in Ops |-> ops'[o]]  BY <1>1
  <1>8. ASSUME NEW o \in Ops
        PROVE  /\ OpFit(ops'[o]) /\ ops'[o].at = ops[o].at
               /\ AtWork(ops'[o]) => AtWork(ops[o]) /\ ops'[o].scores = ops[o].scores
               /\ Serves(h, o, ops'[o])
    <2>1. OpFit(ops[o]) /\ Serves(shared, o, ops[o]) /\ o # Other  BY <1>3
    <2>2. CASE o \in served
      <3> DEFINE s == ops[o]  t == Accept(s, n, keeps)
      <3>1. o \in shared.consumers  BY <1>1, <2>2
      <3>2. s.attached /\ s.accepted = shared.heard  BY <2>1, <3>1 DEF Serves
      <3>3. /\ OpFit(t) /\ t.at = s.at /\ (AtWork(t) => AtWork(s) /\ t.scores = s.scores)
            /\ t.attached /\ t.accepted = s.accepted + n
        BY <2>1, <3>2, ServedHears
      <3>4. ops'[o] = t  BY <1>1, <2>2
      <3> HIDE DEF t
      <3>5. Serves(h, o, t)  BY <1>5, <2>1, <3>1, <3>2, <3>3 DEF Serves
      <3> QED BY <3>3, <3>4, <3>5
    <2>3. CASE o \notin served
      <3>1. ops'[o] = ops[o]  BY <1>1, <2>3
      <3>2. Serves(h, o, ops[o])
        <4>1. CASE h.consumers = {} /\ h.state = "stopped"  BY <4>1 DEF Serves
        <4>2. CASE does # "stops"
          <5>1. o \notin shared.consumers  BY <1>1, <2>1, <2>3, <4>2
          <5>2. ~ops[o].attached  BY <1>2, <2>1, <5>1 DEF Serves, Listening
          <5> QED BY <1>5, <5>1, <5>2 DEF Serves
        <4> QED BY <1>5, <4>1, <4>2
      <3> QED BY <2>1, <3>1, <3>2
    <2> QED BY <2>2, <2>3
  <1>9. \A o \in Ops : /\ OpFit(ops'[o]) /\ ops'[o].at = ops[o].at
                       /\ AtWork(ops'[o]) => AtWork(ops[o]) /\ ops'[o].scores = ops[o].scores
    BY <1>8
  <1>10. HelperFits(shared') /\ shared'.consumers \subseteq Ops \cup {Other}
         /\ \A o \in Ops : Serves(shared', o, ops'[o])
    BY <1>3, <1>5, <1>6, <1>8
  <1> QED BY <1>2, <1>7, <1>9, <1>10, Known, AllGoOn

----------------------------------------------------------------------------
(* The invariant, and what it says. *)

LEMMA ListeningStarts == ListeningInit => ListeningInv
  <1> SUFFICES ASSUME ListeningInit PROVE ListeningInv  OBVIOUS
  <1>1. /\ ops = <<>> /\ unload = "no" /\ dead = FALSE
        /\ scorer = [of |-> 0, frames |-> 0] /\ shared = Prepared
    BY DEF ListeningInit
  <1>2. ops \in Seq(OpRecord) /\ Len(ops) = 0 /\ Ops = {}  BY <1>1 DEF Ops
  <1>3. Len(ops) <= MaxOps  BY <1>2, ListeningAssumption
  <1>4. ScorerFits
    <2>1. scorer.of = 0 /\ scorer.frames = 0  BY <1>1
    <2> QED BY <1>2, <2>1 DEF ScorerFits
  <1>5. InTurn  BY <1>1, <1>2 DEF InTurn
  <1>6. SharedFits
    <2>1. NoCapture \in CaptureRecord /\ NoCapture.at = "none" /\ NoCapture.stopped = FALSE
      BY DEF NoCapture, CaptureRecord, CaptureStages
    <2>2. /\ Prepared \in SharedRecord /\ Prepared.consumers = {} /\ Prepared.mic = NoCapture
          /\ Prepared.heard = 0 /\ Prepared.state = "prepared"
      BY <2>1 DEF Prepared, SharedRecord, HelperStates
    <2>3. HelperFits(Prepared)  BY <2>1, <2>2 DEF HelperFits, NoLeak, Terminal
    <2> QED BY <1>1, <1>2, <2>2, <2>3 DEF SharedFits
  <1> QED BY <1>1, <1>2, <1>3, <1>4, <1>5, <1>6 DEF ListeningInv

LEMMA ListeningGoesOn == ListeningInv /\ [ListeningNext]_vvars => ListeningInv'
  <1> SUFFICES ASSUME ListeningInv, [ListeningNext]_vvars PROVE ListeningInv'  OBVIOUS
  <1>1. CASE Owner
    <2>1. ASSUME NEW o \in Ops, WorkStarts(o) \/ WorkEnds(o) \/ PumpSettled(o) \/ MicrophoneStarts(o)
          PROVE  ListeningInv'
      BY <2>1, WorkStartsKeeps, WorkEndsKeeps, PumpSettledKeeps, MicrophoneStartsKeeps
    <2> QED BY <1>1, <2>1, UnloadStartsKeeps, SharedAcquiresKeeps DEF Owner
  <1>2. CASE Environment
    <2>1. ASSUME NEW o \in Ops,
                 Normalizes(o) \/ Resets(o) \/ FrameScored(o) \/ Refuses(o)
                 \/ MicrophoneHears(o) \/ MicrophoneTurns(o) \/ MicrophoneCloses(o)
          PROVE  ListeningInv'
      BY <2>1, NormalizesKeeps, ResetsKeeps, FrameScoredKeeps, RefusesKeeps, MicrophoneHearsKeeps,
         MicrophoneTurnsKeeps, MicrophoneClosesKeeps
    <2> QED BY <1>2, <2>1, UnloadEndsKeeps, WorkerFailsKeeps, SharedTurnsKeeps, SharedHearsKeeps
            DEF Environment
  <1>3. CASE Callers
    <2>1. ASSUME NEW o \in Ops,
                 CallerCancels(o) \/ CallerFinishes(o) \/ CallerPushes(o)
                 \/ CallerStartsMicrophone(o) \/ CallerAttaches(o)
          PROVE  ListeningInv'
      BY <2>1, CallerCancelsKeeps, CallerFinishesKeeps, CallerPushesKeeps,
         CallerStartsMicrophoneKeeps, CallerAttachesKeeps
    <2> QED BY <1>3, <2>1, DetectKeeps, CreateSessionKeeps, UnloadKeeps, OtherMovesKeeps,
               SharedStartsKeeps, SharedStopsKeeps
            DEF Callers
  <1>4. CASE UNCHANGED vvars
    <2>1. UNCHANGED <<ops, unload, dead, scorer, shared>>  BY <1>4 DEF vvars
    <2> QED BY <2>1, Known, SharedAlone
  <1> QED BY <1>1, <1>2, <1>3, <1>4 DEF ListeningNext

\* Units of audio lie in the range they are of.
LEMMA UnitsTyped ==
  ASSUME NEW a \in Nat, NEW b \in Nat, NEW c \in Nat, a <= b, b <= c
  PROVE  UnitsAfter(a, b) \in Seq(1 .. c)
  <1> DEFINE q == UnitsAfter(a, b)  n == b - a
  <1>1. q \in Seq(Nat) /\ Len(q) = n /\ n \in Nat /\ \A i \in 1 .. n : q[i] = a + i  BY UnitsParts
  <1>2. \A i \in 1 .. n : a + i \in 1 .. c  OBVIOUS
  <1> HIDE DEF q, n
  <1>3. q \in [1 .. n -> Nat]  BY <1>1, LenProperties
  <1>4. \A i \in 1 .. n : q[i] \in 1 .. c  BY <1>1, <1>2
  <1>5. q \in [1 .. n -> 1 .. c]  BY <1>3, <1>4
  <1> QED BY <1>1, <1>5, SeqDef DEF q

LEMMA OperationTyped ==
  ASSUME NEW s, OpFit(s)
  PROVE  OperationTypeOK(s)
  <1>1. /\ s \in OpRecord /\ StandsRight(s) /\ AudioFits(s)  BY DEF OpFit, StandsRight
  <1>2. /\ s.accepted \in Nat /\ s.held \in Nat /\ s.seg.position \in Nat /\ Len(s.frame) \in Nat
    BY <1>1, LenProperties DEF OpRecord, SegmenterRecord, RecordOf
  <1>3. s.queue \in Seq(1 .. s.accepted)
    <2>1. CASE s.terminal \/ s.at # "live"
      <3>1. s.queue = <<>>  BY <1>1, <2>1 DEF AudioFits, Unheard
      <3> QED BY <3>1, EmptySeq
    <2>2. CASE ~(s.terminal \/ s.at # "live")
      <3> DEFINE p == s.seg.position + Len(s.frame)  e == s.accepted - s.held  c == s.accepted
      <3>1. p <= e /\ s.queue = UnitsAfter(p, e)  BY <1>1, <2>2 DEF AudioFits, Queued
      <3>2. p \in Nat /\ e \in Int /\ e <= c /\ c \in Nat  BY <1>2
      <3> HIDE DEF p, e, c
      <3>3. e \in Nat  BY <3>1, <3>2
      <3>4. s.queue \in Seq(1 .. c)  BY <3>1, <3>2, <3>3, UnitsTyped
      <3> QED BY <3>4 DEF c
    <2> QED BY <2>1, <2>2
  <1>4. Len(s.frame) <= FrameSize /\ s.seg.position <= s.accepted /\ (s.terminal <=> s.result # "none")
    BY <1>1 DEF AudioFits, StandsRight
  <1> QED BY <1>1, <1>3, <1>4 DEF OpRecord, OperationTypeOK

LEMMA TypesFollow == ListeningInv => ListeningTypeOK
  <1> SUFFICES ASSUME ListeningInv PROVE ListeningTypeOK  OBVIOUS
  <1>1. scorer.of \in 0 .. MaxOps
    <2>1. scorer.of \in 0 .. Len(ops) /\ Len(ops) \in Nat /\ Len(ops) <= MaxOps /\ MaxOps \in Nat
      BY Known, ListeningAssumption DEF ScorerFits
    <2> QED BY <2>1
  <1>2. \A o \in Ops : OperationTypeOK(ops[o])  BY Known, OperationTyped
  <1>3. shared.state \in HelperStates /\ shared.mic \in CaptureRecord  BY Known DEF HelperFits, SharedRecord
  <1> QED BY <1>1, <1>2, <1>3, Known DEF ListeningTypeOK

LEMMA ScorerFollows == ListeningInv => ScorerIsReset
  <1> SUFFICES ASSUME ListeningInv PROVE ScorerIsReset  OBVIOUS
  <1>1. ASSUME NEW o \in Ops, ops[o].pump = "score", ~dead
        PROVE  scorer = [of |-> o, frames |-> Len(ops[o].scores)]
    <2>1. AtWork(ops[o])  BY <1>1, Known DEF StandsRight, AtWork
    <2> QED BY <1>1, <2>1, Known DEF ScorerFits
  <1>2. ASSUME unload \in {"asked", "done"}, NEW o \in Ops
        PROVE  ops[o].pump # "score" /\ ops[o].at # "reset"
    <2>1. ops[o].at = "over"  BY <1>2, Known DEF InTurn
    <2> QED BY <2>1, Known DEF StandsRight
  <1> QED BY <1>1, <1>2 DEF ScorerIsReset

LEMMA RangesFollow == ListeningInv => RangesAreTrue
  BY Known DEF RangesAreTrue, OpFit, AudioFits

LEMMA MicrophoneFollows == ListeningInv => MicrophoneIsShared
  <1> SUFFICES ASSUME ListeningInv PROVE MicrophoneIsShared  OBVIOUS
  <1>1. ASSUME NEW o \in Ops PROVE Served(o)
    <2>1. /\ StandsRight(ops[o]) /\ ops[o] \in OpRecord /\ ListensRight(ops[o])
          /\ Serves(shared, o, ops[o])
      BY Known DEF OpFit
    <2>2. ASSUME o \in Live, ops[o].source = "shared", ~ops[o].ending
          PROVE  o \in shared.consumers \/ shared.state = "stopped"
      BY <2>1, <2>2 DEF Live, Active, ListensRight, Serves
    <2>3. ASSUME o \in shared.consumers
          PROVE  o \in Live /\ ~ops[o].ending /\ ops[o].accepted = shared.heard
      <3>1. ops[o].attached /\ ops[o].accepted = shared.heard  BY <2>1, <2>3 DEF Serves
      <3>2. ops[o].source = "shared" /\ ~ops[o].terminal /\ ~ops[o].ending  BY <2>1, <3>1 DEF ListensRight
      <3>3. ops[o].kind = "session" /\ ops[o].at = "live"  BY <2>1, <3>2 DEF StandsRight, OpRecord
      <3> QED BY <3>1, <3>2, <3>3 DEF Live, Active
    <2> QED BY <2>2, <2>3 DEF Served
  <1>2. \A o \in Ops : MicFits(ops[o])  BY Known DEF OpFit
  <1> QED BY <1>1, <1>2, Known DEF MicrophoneIsShared, MicFits, HelperFits

\* What is under way and what was heard stays consistent, whatever the callers,
\* the worker, the microphones and unload() do, in any order: the audio queued,
\* being scored and scored is what was accepted, the segmenter has heard it, and
\* who listens to the shared capture has heard all of it (session.ts, model.ts).
THEOREM ListeningInvariant == ListeningSpec => []ListeningInv
  <1> QED BY ListeningStarts, ListeningGoesOn, PTL DEF ListeningSpec

\* The type invariant.
THEOREM ListeningTypeCorrect == ListeningSpec => []ListeningTypeOK
  <1> QED BY ListeningInvariant, TypesFollow, PTL

\* Whenever a frame is scored, the scorer was reset for its operation and has
\* scored all its frames since and no other's, for any number of recordings and
\* sessions, cancelled or failed at any point; an unloaded scorer is asked
\* nothing (model.ts:49, session.ts:122).
THEOREM ScorerReset == ListeningSpec => []ScorerIsReset
  <1> QED BY ListeningInvariant, ScorerFollows, PTL

\* The ranges an operation reports are in order, disjoint, and carry their
\* audio; those of one that is complete are exactly the speech that lasted, for
\* any durations, padding, frames and scores (segmenter.ts:59, :80).
THEOREM RangesTrue == ListeningSpec => []RangesAreTrue
  <1> QED BY ListeningInvariant, RangesFollow, PTL

\* Each session that shares a capture hears all of it while it takes audio, and
\* no capture that is stopped or has failed holds a device (microphone.ts:43,
\* :89).
THEOREM MicrophoneShared == ListeningSpec => []MicrophoneIsShared
  <1> QED BY ListeningInvariant, MicrophoneFollows, PTL
=============================================================================
