--------------------------- MODULE SharedMicrophone --------------------------
(***************************************************************************)
(* createMicrophoneCapture (wfloat-web audio-next/microphone.ts): one      *)
(* capture that several sessions listen to, as a record its owner keeps.   *)
(* Consumers attach before it starts; a consumer that throws is dropped    *)
(* and told, a capture that fails tells them all, a capture that is        *)
(* stopped leaves them to the caller.                                      *)
(***************************************************************************)
EXTENDS Microphone

HelperStates == {"prepared", "starting", "running", "stopped", "failed"}

Prepared == [state |-> "prepared", consumers |-> {}, mic |-> NoCapture,
             held |-> FALSE,    \* it has been given the capture
             answered |-> FALSE, \* the acquisition was
             heard |-> 0]       \* units delivered so far

Terminal(h) == h.state \in {"stopped", "failed"}
Listening(h) == h.state \in {"starting", "running"}

\* Mutant of MayAttach: a consumer may join a capture that runs.
MayAttachLate(h) == ~Terminal(h)
MayAttach(h) == h.state = "prepared"
Attach(h, c) == [h EXCEPT !.consumers = @ \cup {c}]
Detach(h, c) == [h EXCEPT !.consumers = @ \ {c}]

\* start(): once, and not when it is over.
StartHelper(h) == [h EXCEPT !.state = "starting", !.mic = NewCapture]

\* close(): aborts the acquisition, or stops what it has been given.
Release(h) == [h EXCEPT !.held = FALSE, !.mic = IF h.held THEN Stop(@) ELSE Cancel(@)]

\* fail(): who is told of it is who was attached.
FailHelper(h) ==
  IF Terminal(h) THEN h ELSE Release([h EXCEPT !.state = "failed", !.consumers = {}])

StopHelper(h) ==
  IF Terminal(h) THEN h ELSE Release([h EXCEPT !.state = "stopped", !.consumers = {}])

\* The acquisition answers; a capture that comes too late is stopped.
Acquired(h) ==
  LET g == [h EXCEPT !.answered = TRUE] IN
  IF h.mic.promise = "rejected" THEN FailHelper(g)
  ELSE IF h.state # "starting" THEN [g EXCEPT !.mic = Stop(@)]
  ELSE [g EXCEPT !.state = "running", !.held = TRUE]
=============================================================================
