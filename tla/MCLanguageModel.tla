-------------------------- MODULE MCLanguageModel --------------------------
(* Instances of LanguageModel: which options the application may choose. *)
EXTENDS LanguageModel, TLC

CONSTANTS g1, g2

NoTools == [tools |-> "none", limit |-> 1, afterGeneration |-> FALSE,
            stopOnError |-> FALSE, maxRounds |-> 2, schema |-> FALSE,
            corrections |-> 0, stopWhen |-> FALSE]

\* Managed tools, one or two at a time, at once or after the generation,
\* with errors that continue or stop.
ToolOptions ==
  {[NoTools EXCEPT !.tools = "managed", !.limit = n, !.afterGeneration = a,
                   !.stopOnError = e] : n \in {1, 2}, a \in BOOLEAN, e \in BOOLEAN}

\* One option record for each path of a generation.
PathOptions ==
  {[NoTools EXCEPT !.tools = "managed", !.stopOnError = TRUE],
   [NoTools EXCEPT !.tools = "manual", !.stopWhen = TRUE],
   [NoTools EXCEPT !.schema = TRUE, !.corrections = 1, !.stopWhen = TRUE]}

SafetyOptions == ToolOptions \cup PathOptions

\* BOUND: a generation with several calls, or with options of ToolOptions
\* only, has the model for itself; the others queue with one call each.
WideAlone ==
  \A g \in Gens :
    gens[g].phase # "idle" /\ (Len(gens[g].calls) > 1 \/ gens[g].opt \notin PathOptions)
      => \A h \in Gens \ {g} : gens[h].phase = "idle"

\* The generations are interchangeable: g1 is asked for first.
FirstFirst == gens[g1].phase = "idle" => gens[g2].phase = "idle"
Instance == WideAlone /\ FirstFirst

\* BOUND: liveness is followed along one round of each generation, with a call
\* of a managed tool or with a schema.
Narrow ==
  \A g \in Gens : gens[g].phase # "idle" =>
    /\ gens[g].opt \in PathOptions /\ gens[g].opt.tools # "manual"
    /\ gens[g].round <= 1 /\ Len(gens[g].calls) <= 1
\* CodeFairness, WorkFairness and BackendFairness there.
NarrowSpec ==
  /\ LanguageSpec
  /\ \A g \in Gens : WF_lvars(Narrow /\ Resume(g)) /\ WF_lvars(Narrow /\ Work(g) /\ ~gens[g].aborted)
  /\ WF_lvars(Narrow /\ NativeEnds /\ Acknowledges) /\ WF_lvars(Narrow /\ BackendUnload)

\* Whatever is waited for, the model comes to rest.
GenerationsEnd == []Narrow => CancelledSettles /\ GenerationsSettle /\ UnloadEnds
=============================================================================
