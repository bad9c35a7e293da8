-------------------------- MODULE MCLanguageStream --------------------------
(* An instance of LanguageStream: two threads and two streams, of which one *)
(* calls tools while it is alone, one after the other and in two rounds or  *)
(* side by side in one.                                                     *)
EXTENDS LanguageStream, TLC

CONSTANTS t1, t2, s1, s2

Plain == [rounds |-> 1, calls |-> 0, limit |-> 1, immediate |-> FALSE, stop |-> FALSE]
InTurn == [rounds |-> 2, calls |-> 2, limit |-> 1, immediate |-> FALSE, stop |-> TRUE]
AtOnce == [rounds |-> 1, calls |-> 2, limit |-> 2, immediate |-> TRUE, stop |-> FALSE]
StreamOptions == (s1 :> {Plain, InTurn, AtOnce}) @@ (s2 :> {Plain})

\* BOUND: one thread drives the stream with tools; the second stream is created
\* after the first, if that is a plain one, its turn comes after the first, and
\* it is driven by result().
OneWithTools ==
  /\ stream[s1].opt # Plain => stream[s1].driver # t2 /\ ~stream[s2].made
  /\ stream[s2].made => stream[s1].made /\ ~stream[s1].counts
  /\ stream[s2].gen # "none" => Settled(stream[s1])
  /\ \A t \in Threads : thread[t].s = s2 => thread[t].op # "next"
=============================================================================
