------------------------------ MODULE Segmenter -----------------------------
(***************************************************************************)
(* Segmenter (wfloat-web vad-next/segmenter.ts): from the scores of        *)
(* consecutive frames of audio to the ranges of speech, with the audio of  *)
(* each (returnAudio).  A score is "speech" from the speech threshold on,  *)
(* "silence" below the silence threshold, "between" otherwise.  Positions  *)
(* count units of audio, a range being the units after start up to end;    *)
(* a unit of audio is its number, so that a clip can be compared with the  *)
(* range it belongs to.                                                    *)
(***************************************************************************)
EXTENDS Integers, Sequences, FiniteSetsExt

CONSTANTS
  MinSpeech,   \* minSpeechDurationMs
  MinSilence,  \* minSilenceDurationMs
  Padding      \* speechPaddingMs

ASSUME SegmenterAssumption == {MinSpeech, MinSilence, Padding} \subseteq Nat

Scores == {"speech", "between", "silence"}
Unset == -1

NewSegmenter ==
  [position |-> 0, candidate |-> Unset, active |-> Unset, silence |-> Unset,
   previousEnd |-> 0, segments |-> <<>>,
   retained |-> <<>>, retainedStart |-> 0]

UnitsAfter(a, b) == [i \in 1 .. (IF b < a THEN 0 ELSE b - a) |-> a + i]
Past(s, n) == SubSeq(s, n + 1, Len(s))

\* close(): where a range ends that is asked to end there.
ClosedAt(g, end) == Max({g.active, Min({end, g.position})})

Close(g, wanted) ==
  LET end == ClosedAt(g, wanted)
      clip == Past(SubSeq(g.retained, 1, end - g.retainedStart), g.active - g.retainedStart)
  IN [g EXCEPT !.segments = Append(@, [start |-> g.active, end |-> end, audio |-> clip]),
               !.previousEnd = end, !.active = Unset, !.candidate = Unset, !.silence = Unset]

\* Where speech confirmed now begins: not before the last range ended.
Onset(g, candidate) == Max({g.previousEnd, 0, candidate - Padding})

\* feed(): a frame whose score decides whether speech begins or ends.
Voiced(g, start, score) ==
  IF g.active = Unset
  THEN LET c == IF g.candidate = Unset THEN start ELSE g.candidate IN
       IF score # "speech" THEN [g EXCEPT !.candidate = Unset]
       ELSE [g EXCEPT !.candidate = c,
                      !.active = IF g.position - c >= MinSpeech THEN Onset(g, c) ELSE Unset]
  ELSE LET q == IF g.silence = Unset THEN start ELSE g.silence IN
       IF score # "silence" THEN [g EXCEPT !.silence = Unset]
       ELSE IF g.position - q < MinSilence THEN [g EXCEPT !.silence = q]
       ELSE Close([g EXCEPT !.silence = q], Min({g.position, q + Padding}))

\* Mutant of Needed: what may still be padding of the next range is dropped.
NeededLess(g) == IF g.active # Unset THEN g.active
                 ELSE IF g.candidate # Unset THEN g.candidate ELSE g.position
\* trim(): where the audio that a later range may need begins.
Needed(g) ==
  IF g.active # Unset THEN g.active
  ELSE Max({g.previousEnd, 0,
            (IF g.candidate # Unset THEN g.candidate ELSE g.position) - Padding})
Trim(g) == [g EXCEPT !.retained = Past(@, Max({0, Needed(g) - g.retainedStart})),
                     !.retainedStart = Needed(g)]

Feed(g, audio, score) ==
  Trim(Voiced([g EXCEPT !.position = @ + Len(audio), !.retained = @ \o audio],
              g.position, score))

\* clear(): only the ranges are kept.
Clear(g) == [g EXCEPT !.retained = <<>>, !.active = Unset, !.candidate = Unset, !.silence = Unset]

\* finish(): the end of the audio ends the last range.
FinishSegments(g) ==
  IF g.active = Unset THEN g
  ELSE Close(g, IF g.silence = Unset THEN g.position
                ELSE Min({g.position, g.silence + Padding}))

----------------------------------------------------------------------------
(* What the ranges must be, whatever the scores. *)

\* Ranges are ordered and disjoint, lie within the audio, and carry exactly
\* the audio of their range.
WellFormed(g) ==
  /\ \A i \in DOMAIN g.segments : LET r == g.segments[i] IN
       r.start <= r.end /\ r.end <= g.position /\ r.audio = UnitsAfter(r.start, r.end)
  /\ \A i \in 1 .. Len(g.segments) - 1 : g.segments[i].end <= g.segments[i + 1].start

\* Frame k ends at ends[k], scores[k] is its score.
StartOfFrame(ends, i) == IF i = 1 THEN 0 ELSE ends[i - 1]
Lasts(ends, scores, i, j, score, least) ==
  (\A k \in i .. j : scores[k] = score) /\ ends[j] - StartOfFrame(ends, i) >= least

\* The range r comes from the frames i .. k: it begins with speech that lasts
\* and ends with the last frame that is not silence, but for the padding, and
\* no silence within it lasts.
ComesFrom(r, ends, scores, i, k) ==
  /\ r.start \in StartOfFrame(ends, i) - Padding .. StartOfFrame(ends, i)
  /\ r.end \in ends[k] .. ends[k] + Padding /\ scores[k] # "silence"
  /\ \E j \in i .. k : Lasts(ends, scores, i, j, "speech", MinSpeech)
  /\ ~\E a, b \in i .. k : a <= b /\ Lasts(ends, scores, a, b, "silence", MinSilence)

\* The ranges are the speech: all that lasts is in one, and nothing else is.
SpeechIsFound(g, ends, scores) ==
  /\ \A i, j \in DOMAIN scores : i <= j /\ Lasts(ends, scores, i, j, "speech", MinSpeech) =>
       \E r \in DOMAIN g.segments :
          g.segments[r].start <= StartOfFrame(ends, i) /\ ends[j] <= g.segments[r].end
  /\ \A r \in DOMAIN g.segments : \E i, k \in DOMAIN scores :
       i <= k /\ ComesFrom(g.segments[r], ends, scores, i, k)
=============================================================================
