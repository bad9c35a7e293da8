----------------------------- MODULE Microphone -----------------------------
(***************************************************************************)
(* startMicrophone (wfloat-web stt-next/microphone.ts): the life of one    *)
(* capture, as a record that its owner keeps.  The user is asked, the      *)
(* audio context resumes, the worklet is loaded (or the ScriptProcessor    *)
(* takes its place), and any of these may fail, or be answered after the   *)
(* capture was stopped.                                                    *)
(***************************************************************************)
EXTENDS Naturals

\* What startMicrophone awaits, or has become.
CaptureStages == {"none", "asking", "resuming", "loading", "connected", "over"}

CaptureRecord ==
  [at : CaptureStages,
   resumed : BOOLEAN,   \* the AudioContext runs
   tracks : BOOLEAN,    \* the tracks of the MediaStream are live
   stopped : BOOLEAN,   \* stop() was called
   promise : {"pending", "resolved", "rejected"},
   failed : BOOLEAN]    \* onError was called

NoCapture == [at |-> "none", resumed |-> FALSE, tracks |-> FALSE, stopped |-> FALSE,
              promise |-> "pending", failed |-> FALSE]
NewCapture == [NoCapture EXCEPT !.at = "asking"]

Started(m) == m.promise = "resolved"
Delivers(m) == Started(m) /\ ~m.stopped

\* stop(): releases the tracks, the nodes and the context, once.  Whatever
\* startMicrophone awaits, but for the user, then returns at once.
Stop(m) == [m EXCEPT !.stopped = TRUE, !.tracks = FALSE, !.resumed = FALSE,
                     !.at = IF @ = "asking" THEN @ ELSE "over"]

Rejected(m) == [m EXCEPT !.promise = IF @ = "pending" THEN "rejected" ELSE @]

\* fail(): stops, then tells whoever waits for the start, or onError after it.
Broken(m) == IF m.stopped THEN m
             ELSE [Rejected(Stop(m)) EXCEPT !.failed = Started(m)]

\* cancel(): the abort signal, heard before and after the start.
Cancel(m) == IF m.at = "none" \/ m.stopped THEN m ELSE Rejected(Stop(m))

\* getUserMedia answers with a stream; one granted too late is released.
Granted(m) == IF m.stopped THEN [m EXCEPT !.at = "over"]
              ELSE [m EXCEPT !.at = "resuming", !.tracks = TRUE]

Connected(m) == [m EXCEPT !.at = "connected", !.promise = "resolved"]

\* What may happen to a capture next: an answer that startMicrophone awaits,
\* the context, or a failure of the device, the context or the worklet.
CaptureTurns(m) ==
  (IF m.at = "asking" THEN {Granted(m), [Broken(m) EXCEPT !.at = "over"]} ELSE {})
  \cup (IF m.at # "none" /\ ~m.stopped THEN {Broken(m)} ELSE {})
  \cup (IF m.at \in {"asking", "resuming"} /\ ~m.stopped /\ ~m.resumed
        THEN {[m EXCEPT !.resumed = TRUE]} ELSE {})
  \cup (IF m.at = "resuming" /\ ~m.stopped /\ m.resumed
        THEN {[m EXCEPT !.at = "loading"], Connected(m)} ELSE {})
  \cup (IF m.at = "loading" /\ ~m.stopped THEN {Connected(m)} ELSE {})

\* A capture that was stopped holds no device.
NoLeak(m) == m.stopped => ~m.tracks
=============================================================================
