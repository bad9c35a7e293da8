--------------------------- MODULE MCSpeechModel ----------------------------
(* Instances of SpeechModel: which generations callers ask for. *)
EXTENDS SpeechModel

Short(retained) == [retained |-> retained, pauses |-> <<0>>]
\* One segment with a pause after it, spoken; two segments, retained.
Long == {[retained |-> FALSE, pauses |-> <<1>>], [retained |-> TRUE, pauses |-> <<0, 0>>]}
SpeechOptions == Long \cup {Short(r) : r \in BOOLEAN}

\* BOUND: one superseded start at a time.  Generations and speeches are four
\* together, and short then; of three generations only a direct one is spoken;
\* one that is read, or makes more than two chunks, is alone with its speech.
WideAlone ==
  LET size == Len(jobs) + Len(speeches)  AllJobs(P(_)) == \A j \in DOMAIN jobs : P(jobs[j])
  IN /\ Cardinality(UNION {{s} \X speeches[s].stale : s \in DOMAIN speeches}) <= 1
     /\ size <= 3 \/ \A s \in DOMAIN speeches : "settled" \notin speeches[s].stale
     /\ size <= 4 /\ (Len(jobs) <= 2 \/ AllJobs(LAMBDA x : x.opt.retained => ~x.spoken))
     /\ size <= 3 \/ AllJobs(LAMBDA x : x.opt \notin Long)
     /\ size <= 2 \/ AllJobs(LAMBDA x : x.units <= 1 /\ x.made <= 2 /\ ~x.awaited)

\* BOUND: liveness is followed where there are two generations and one speech,
\* one segment and a pause spoken, or one segment kept and read.
SpokenAndRead == {[retained |-> FALSE, pauses |-> <<1>>], Short(TRUE)}
OneSpeech ==
  /\ Len(jobs) <= 2 /\ Len(speeches) <= 1
  /\ \A j \in DOMAIN jobs : jobs[j].opt \in SpokenAndRead /\ jobs[j].units <= 1
\* CodeFairness and PlatformFairness of that speech.
OneSpeechSpec ==
  /\ SpeechSpec
  /\ WF_svars(OneSpeech /\ PumpTurns) /\ WF_svars(OneSpeech /\ BackendAnswers)
  /\ WF_svars(OneSpeech /\ speeches # <<>> /\ \E c \in Conditions : StartSettles(1, c))
  /\ WF_svars(OneSpeech /\ speeches # <<>> /\ \E c \in Conditions : TimerTicks(1, c))
  /\ WF_svars(OneSpeech /\ speeches # <<>> /\ NoDriver(1))
  /\ WF_svars(OneSpeech /\ speeches # <<>> /\ DriverResumes(1))
  /\ WF_svars(OneSpeech /\ speeches # <<>> /\ Clock(1))

\* Playback and its readers never wait for ever.
SpeechesSettle == []OneSpeech => SpeechesEnd /\ ReadersSettle
=============================================================================
