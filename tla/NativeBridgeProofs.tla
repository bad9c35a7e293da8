-------------------------- MODULE NativeBridgeProofs --------------------------
(***************************************************************************)
(* Theorems about the native bridge, for any number of requests, events    *)
(* and worker errors, whatever callers do.                                 *)
(***************************************************************************)
EXTENDS NativeBridge, FiniteSetTheorems, TLAPS

DownTypes == {"load", "query", "generate", "unload", "abort"}
UpTypes == {"event", "done", "result", "error"}

Live(c) == c.pc \in {"wait", "yield", "return"}

\* The numbers that are not given out yet name nothing.
CallsOK ==
  /\ calls \in [Ids -> CallRecord]
  /\ \A i \in Ids : Live(calls[i]) <=> active = i
  /\ \A i \in Ids : i > sequence => ~Live(calls[i])

HostOK ==
  /\ closed \in BOOLEAN /\ cancelled \in BOOLEAN
  /\ sequence \in 0 .. MaxIds /\ active \in Ids \cup {None}
  /\ load \in {"no", "loading", "open", "failed"}
  /\ unload \in {"no", "waiting", "posted", "done"}

\* Every message is about a request that was made.
WireOK(queue, types) ==
  /\ queue \in Seq([type : types, id : Ids])
  /\ \A k \in 1 .. Len(queue) : queue[k].id <= sequence

WorkerOK ==
  /\ worker \in [model : BOOLEAN, round : Ids \cup {None}, abort : BOOLEAN]
  /\ worker.round # None => worker.round <= sequence
  /\ emitted \in [Ids -> Nat] /\ errors \in Nat

Typed == HostOK /\ CallsOK /\ WireOK(down, DownTypes) /\ WireOK(up, UpTypes) /\ WorkerOK

----------------------------------------------------------------------------
(* Lemmas about queues and requests. *)

LEMMA ElementParts ==
  ASSUME NEW S, NEW s \in Seq(S)
  PROVE  \A k \in 1 .. Len(s) : s[k] \in S
  OBVIOUS

LEMMA AppendParts ==
  ASSUME NEW S, NEW s \in Seq(S), NEW m \in S
  PROVE  /\ Append(s, m) \in Seq(S) /\ Len(Append(s, m)) = Len(s) + 1 /\ Len(s) \in Nat
         /\ \A k \in 1 .. Len(s) : Append(s, m)[k] = s[k]
         /\ Append(s, m)[Len(s) + 1] = m
  OBVIOUS

LEMMA TailParts ==
  ASSUME NEW S, NEW s \in Seq(S), s # <<>>
  PROVE  /\ Tail(s) \in Seq(S) /\ Len(Tail(s)) = Len(s) - 1 /\ Len(s) \in Nat \ {0}
         /\ \A k \in 1 .. Len(Tail(s)) : k + 1 \in 1 .. Len(s) /\ Tail(s)[k] = s[k + 1]
         /\ Head(s) = s[1] /\ s[1] \in S
  OBVIOUS

LEMMA AppendWire ==
  ASSUME NEW types, NEW q, WireOK(q, types), NEW type \in types, NEW i \in Ids, i <= sequence',
         sequence \in Nat, sequence' \in Nat, sequence <= sequence'
  PROVE  LET new == Append(q, Message(type, i)) IN
         /\ new \in Seq([type : types, id : Ids])
         /\ \A k \in 1 .. Len(new) : new[k].id <= sequence'
  <1> DEFINE S == [type : types, id : Ids]
             m == Message(type, i)
  <1>1. m \in S /\ m.id = i  BY DEF Message
  <1>2. q \in Seq(S) /\ \A k \in 1 .. Len(q) : q[k].id <= sequence
    BY DEF WireOK
  <1> HIDE DEF m
  <1>3. \A k \in 1 .. Len(q) : q[k].id \in Nat
    <2>1. \A k \in 1 .. Len(q) : q[k] \in S
      <3> HIDE DEF S
      <3> QED BY <1>2, ElementParts
    <2> QED BY <2>1, BridgeAssumption DEF Ids
  <1>4. /\ Append(q, m) \in Seq(S) /\ Len(Append(q, m)) = Len(q) + 1 /\ Len(q) \in Nat
        /\ \A k \in 1 .. Len(q) : Append(q, m)[k] = q[k]
        /\ Append(q, m)[Len(q) + 1] = m
    BY <1>1, <1>2, AppendParts
  <1>5. \A k \in 1 .. Len(Append(q, m)) : Append(q, m)[k].id <= sequence'
    BY <1>1, <1>2, <1>3, <1>4
  <1> QED BY <1>4, <1>5 DEF m

LEMMA TailWire ==
  ASSUME NEW types, NEW q, WireOK(q, types), q # <<>>
  PROVE  /\ WireOK(Tail(q), types)
         /\ Head(q).type \in types /\ Head(q).id \in Ids /\ Head(q).id <= sequence
  <1>1. q \in Seq([type : types, id : Ids]) /\ \A k \in 1 .. Len(q) : q[k].id <= sequence
    BY DEF WireOK
  <1>2. /\ Tail(q) \in Seq([type : types, id : Ids])
        /\ Len(Tail(q)) = Len(q) - 1 /\ Len(q) \in Nat \ {0}
        /\ \A k \in 1 .. Len(Tail(q)) : k + 1 \in 1 .. Len(q) /\ Tail(q)[k] = q[k + 1]
        /\ Head(q) = q[1] /\ q[1] \in [type : types, id : Ids]
    BY <1>1, TailParts
  <1>3. \A k \in 1 .. Len(Tail(q)) : Tail(q)[k].id <= sequence
    BY <1>1, <1>2
  <1> QED BY <1>1, <1>2, <1>3 DEF WireOK

\* A queue that is left alone, or emptied.
LEMMA SameWire ==
  ASSUME NEW types, NEW q, WireOK(q, types), sequence' = sequence
  PROVE  /\ q \in Seq([type : types, id : Ids]) /\ \A k \in 1 .. Len(q) : q[k].id <= sequence'
  BY DEF WireOK

LEMMA LaterWire ==
  ASSUME NEW types, NEW q, WireOK(q, types), sequence \in Nat, sequence' = sequence + 1
  PROVE  /\ q \in Seq([type : types, id : Ids]) /\ \A k \in 1 .. Len(q) : q[k].id <= sequence'
  <1>1. q \in Seq([type : types, id : Ids]) /\ \A k \in 1 .. Len(q) : q[k].id <= sequence
    BY DEF WireOK
  <1>2. \A k \in 1 .. Len(q) : q[k] \in [type : types, id : Ids]
    BY <1>1, ElementParts
  <1>3. \A k \in 1 .. Len(q) : q[k].id \in Nat
    BY <1>2, BridgeAssumption DEF Ids
  <1> QED BY <1>1, <1>3

LEMMA EmptyWire ==
  ASSUME NEW types
  PROVE  /\ <<>> \in Seq([type : types, id : Ids]) /\ \A k \in 1 .. Len(<<>>) : <<>>[k].id <= sequence'
  OBVIOUS

\* One request changes: it still knows whether it is the active round.
LEMMA OneCall ==
  ASSUME Typed, NEW i \in Ids, NEW c \in CallRecord, calls' = [calls EXCEPT ![i] = c],
         Live(c) <=> active' = i,
         \/ active' = active
         \/ active' = i /\ active = None
         \/ active' = None /\ active = i,
         active' = i => i <= sequence', sequence' \in Nat, sequence <= sequence'
  PROVE  CallsOK'
  <1>1. calls' \in [Ids -> CallRecord]  BY DEF Typed, CallsOK
  <1>2. calls'[i] = c /\ \A j \in Ids \ {i} : calls'[j] = calls[j]
    BY DEF Typed, CallsOK
  <1>3. \A j \in Ids : Live(calls'[j]) <=> active' = j
    BY <1>2, BridgeAssumption DEF Typed, CallsOK
  <1>4. \A j \in Ids : j \in Nat  BY BridgeAssumption DEF Ids
  <1>5. \A j \in Ids : j > sequence' => ~Live(calls'[j])
    BY <1>2, <1>3, <1>4 DEF Typed, CallsOK, HostOK
  <1> QED BY <1>1, <1>3, <1>5 DEF CallsOK, Live

\* Every request changes, and none its place in the generator.
LEMMA AllFail ==
  ASSUME Typed, calls' = [i \in Ids |-> Failed(calls[i])], UNCHANGED <<sequence, active>>
  PROVE  CallsOK'
  <1>1. \A c \in CallRecord : Failed(c) \in CallRecord /\ Failed(c).pc = c.pc
    BY DEF Failed, CallRecord
  <1> QED BY <1>1 DEF Typed, CallsOK, Live

LEMMA SameCalls ==
  ASSUME Typed, UNCHANGED <<calls, sequence, active>>
  PROVE  CallsOK'
  BY DEF Typed, CallsOK, Live

LEMMA DeliveredType ==
  ASSUME NEW c \in CallRecord, NEW type \in UpTypes
  PROVE  /\ Delivered(c, type) \in CallRecord
         /\ Delivered(c, type).pc = c.pc /\ Delivered(c, type).kind = c.kind
         /\ type = "event" => Delivered(c, type).done = c.done
  <1>1. CASE type = "event"
    <2>1. Delivered(c, type) = [c EXCEPT !.events = @ + 1]  BY <1>1 DEF Delivered
    <2> QED BY <2>1 DEF CallRecord
  <1>2. CASE type = "done"
    <2> DEFINE e == c.events + 1
    <2>1. Delivered(c, type) = [c EXCEPT !.events = e, !.done = TRUE]  BY <1>2 DEF Delivered
    <2>2. e \in Nat  BY DEF CallRecord
    <2> HIDE DEF e
    <2> QED BY <1>2, <2>1, <2>2 DEF CallRecord
  <1>3. CASE type = "result"
    <2>1. Delivered(c, type) = [c EXCEPT !.pending = FALSE, !.done = TRUE]  BY <1>3 DEF Delivered
    <2> QED BY <1>3, <2>1 DEF CallRecord
  <1>4. CASE type = "error"
    <2> DEFINE p == c.kind = "generate"
    <2>1. Delivered(c, type) = [c EXCEPT !.pending = p, !.failed = TRUE, !.done = TRUE]
      BY <1>4 DEF Delivered
    <2>2. p \in BOOLEAN  OBVIOUS
    <2> HIDE DEF p
    <2> QED BY <1>4, <2>1, <2>2 DEF CallRecord
  <1> QED BY <1>1, <1>2, <1>3, <1>4 DEF UpTypes

LEMMA YieldedType ==
  ASSUME NEW c \in CallRecord, c.events > 0
  PROVE  [c EXCEPT !.pc = "yield", !.events = @ - 1, !.seen = @ + 1] \in CallRecord
  <1> DEFINE e == c.events - 1
             n == c.seen + 1
  <1>1. e \in Nat /\ n \in Nat  BY DEF CallRecord
  <1> HIDE DEF e, n
  <1>2. [c EXCEPT !.pc = "yield", !.events = e, !.seen = n] \in CallRecord
    BY <1>1 DEF CallRecord
  <1> QED BY <1>2 DEF e, n

LEMMA UnusedCall == Unused \in CallRecord /\ ~Live(Unused)
  BY DEF Unused, CallRecord, Live

\* A request is numbered, entered and posted.
LEMMA RequestTyped ==
  ASSUME Typed, NEW kind \in {"load", "query", "generate", "unload"}, NEW pc \in {"none", "wait"},
         Request(kind, pc), IF pc = "wait" THEN active = None /\ active' = sequence' ELSE active' = active
  PROVE  /\ CallsOK' /\ WireOK(down, DownTypes)'
         /\ sequence' \in Ids /\ sequence' = sequence + 1
         /\ calls' = [calls EXCEPT ![sequence'] =
                         [Unused EXCEPT !.kind = kind, !.pending = TRUE, !.pc = pc]]
  <1> DEFINE c == [Unused EXCEPT !.kind = kind, !.pending = TRUE, !.pc = pc]
  <1>1. sequence \in Nat /\ MaxIds \in Nat  BY BridgeAssumption DEF Typed, HostOK
  <1>2. sequence' = sequence + 1 /\ sequence' <= MaxIds
    BY <1>1 DEF Request
  <1>3. sequence' \in Ids /\ sequence' \in 0 .. MaxIds  BY <1>1, <1>2 DEF Ids
  <1>4. calls' = [calls EXCEPT ![sequence'] = c] /\ down' = Append(down, Message(kind, sequence'))
    BY DEF Request
  <1>5. c \in CallRecord /\ (Live(c) <=> pc = "wait")
    BY DEF Unused, CallRecord, Live
  <1>6. active # sequence'
    BY <1>1, <1>2, <1>3 DEF Typed, CallsOK, HostOK
  <1> HIDE DEF c
  <1>7. CallsOK'
    <2>1. Live(c) <=> active' = sequence'  BY <1>5, <1>6
    <2>2. sequence' \in Nat /\ sequence <= sequence' /\ sequence' <= sequence'  BY <1>1, <1>2
    <2>3. active' = active \/ (active' = sequence' /\ active = None)
      <3>1. CASE pc = "wait"  BY <3>1
      <3>2. CASE pc # "wait"  BY <3>2
      <3> QED BY <3>1, <3>2
    <2> QED BY <1>3, <1>4, <1>5, <2>1, <2>2, <2>3, OneCall
  <1>8. WireOK(down, DownTypes)'
    <2>1. WireOK(down, DownTypes) /\ kind \in DownTypes  BY DEF Typed, DownTypes
    <2>2. /\ down' \in Seq([type : DownTypes, id : Ids])
          /\ \A k \in 1 .. Len(down') : down'[k].id <= sequence'
      <3>1. sequence' \in Nat /\ sequence <= sequence' /\ sequence' <= sequence'  BY <1>1, <1>2
      <3> QED BY <1>1, <1>3, <1>4, <2>1, <3>1, AppendWire
    <2> QED BY <2>2 DEF WireOK
  <1> QED BY <1>2, <1>3, <1>4, <1>7, <1>8 DEF c

\* A message to the worker, and one from it.
LEMMA PostTyped ==
  ASSUME Typed, NEW type \in DownTypes, NEW i \in Ids, i <= sequence, sequence' = sequence,
         down' = Posted(Message(type, i)) \/ down' = Append(down, Message(type, i)) \/ down' = down
  PROVE  WireOK(down, DownTypes)'
  <1>1. sequence \in Nat  BY BridgeAssumption DEF Typed, HostOK
  <1>2. CASE down' = down  BY <1>2, SameWire DEF Typed, WireOK
  <1>3. CASE down' = Append(down, Message(type, i))
    <2>1. WireOK(down, DownTypes)  BY DEF Typed
    <2>2. /\ down' \in Seq([type : DownTypes, id : Ids])
          /\ \A k \in 1 .. Len(down') : down'[k].id <= sequence'
      <3>1. sequence' \in Nat /\ sequence <= sequence' /\ i <= sequence'  BY <1>1
      <3> QED BY <1>1, <1>3, <2>1, <3>1, AppendWire
    <2> QED BY <2>2 DEF WireOK
  <1> QED BY <1>2, <1>3 DEF Posted

LEMMA ReplyTyped ==
  ASSUME Typed, NEW type \in UpTypes, NEW i \in Ids, i <= sequence, sequence' = sequence, Reply(type, i)
  PROVE  WireOK(up, UpTypes)'
  <1>1. sequence \in Nat  BY BridgeAssumption DEF Typed, HostOK
  <1>2. WireOK(up, UpTypes) /\ up' = Append(up, Message(type, i))  BY DEF Typed, Reply
  <1>3. /\ up' \in Seq([type : UpTypes, id : Ids])
        /\ \A k \in 1 .. Len(up') : up'[k].id <= sequence'
    <2>1. sequence' \in Nat /\ sequence <= sequence' /\ i <= sequence'  BY <1>1
    <2> QED BY <1>1, <1>2, <2>1, AppendWire
  <1> QED BY <1>3 DEF WireOK

LEMMA DispatchTyped ==
  ASSUME Typed, NEW type, Dispatch(type), sequence' = sequence
  PROVE  /\ WireOK(down, DownTypes)' /\ Head(down).type = type
         /\ Head(down).id \in Ids /\ Head(down).id <= sequence
  <1>1. WireOK(down, DownTypes) /\ down # <<>> /\ down' = Tail(down)  BY DEF Dispatch, Typed
  <1>2. WireOK(Tail(down), DownTypes) /\ Head(down).id \in Ids /\ Head(down).id <= sequence
    BY <1>1, TailWire
  <1> QED BY <1>1, <1>2 DEF WireOK, Dispatch

LEMMA TerminateTyped ==
  ASSUME Typed, Terminate
  PROVE  /\ closed' \in BOOLEAN /\ UNCHANGED <<sequence, active>>
         /\ CallsOK' /\ WireOK(down, DownTypes)' /\ WireOK(up, UpTypes)' /\ WorkerOK'
  <1>1. CallsOK'  BY AllFail DEF Terminate
  <1>2. WireOK(down, DownTypes)' /\ WireOK(up, UpTypes)'
    BY EmptyWire DEF Terminate, WireOK
  <1> QED BY <1>1, <1>2 DEF Terminate, NoWorkerRound, WorkerOK, Typed

----------------------------------------------------------------------------
(* Type correctness. *)

LEMMA InitTyped == BridgeInit => Typed
  <1> SUFFICES ASSUME BridgeInit PROVE Typed  OBVIOUS
  <1>1. HostOK  
    <2>1. 0 \in 0 .. MaxIds  BY BridgeAssumption
    <2> QED BY <2>1 DEF BridgeInit, HostOK
  <1>2. CallsOK
    <2>1. active = None /\ None \notin Ids  BY BridgeAssumption DEF BridgeInit
    <2> QED BY <2>1, UnusedCall DEF BridgeInit, CallsOK
  <1>3. WireOK(down, DownTypes) /\ WireOK(up, UpTypes)  BY DEF BridgeInit, WireOK
  <1>4. WorkerOK  BY DEF BridgeInit, WorkerOK, NoWorkerRound
  <1> QED BY <1>1, <1>2, <1>3, <1>4 DEF Typed

\* What changes nothing of a part keeps it typed.
LEMMA SameTyped ==
  ASSUME Typed, sequence' = sequence
  PROVE  /\ UNCHANGED <<calls, active>> => CallsOK'
         /\ down' = down => WireOK(down, DownTypes)'
         /\ up' = up => WireOK(up, UpTypes)'
         /\ UNCHANGED <<worker, emitted, errors>> => WorkerOK'
  BY SameCalls DEF Typed, WireOK, WorkerOK

LEMMA ActiveParts ==
  ASSUME Typed, NEW i \in Ids, Live(calls[i]) \/ active = i
  PROVE  active = i /\ Live(calls[i]) /\ i <= sequence /\ calls[i] \in CallRecord
  <1>1. active = i /\ Live(calls[i]) /\ calls[i] \in CallRecord  BY DEF Typed, CallsOK
  <1>2. i \in Nat /\ sequence \in Nat  BY BridgeAssumption DEF Ids, Typed, HostOK
  <1> QED BY <1>1, <1>2 DEF Typed, CallsOK

\* A generator takes a step and is not over.
LEMMA GeneratorTyped ==
  ASSUME Typed, NEW i \in Ids, Live(calls[i]), NEW c \in CallRecord, Live(c),
         calls' = [calls EXCEPT ![i] = c], UNCHANGED <<sequence, active>>
  PROVE  CallsOK'
  <1>1. active = i /\ i <= sequence  BY ActiveParts
  <1>2. active' = active /\ active' = i  BY <1>1
  <1>3. sequence' \in Nat /\ sequence <= sequence' /\ i <= sequence'
    BY <1>1, BridgeAssumption DEF Typed, HostOK
  <1> QED BY <1>2, <1>3, OneCall

LEMMA OverTyped ==
  ASSUME Typed, NEW i \in Ids, Live(calls[i]), Over(i)
  PROVE  CallsOK' /\ active' = None
  <1> DEFINE c == [calls[i] EXCEPT !.pending = FALSE, !.pc = "over", !.leaving = (calls[i].pc # "wait")]
  <1>1. active = i /\ i <= sequence /\ calls[i] \in CallRecord  BY ActiveParts
  <1>2. c \in CallRecord /\ ~Live(c)  BY <1>1 DEF CallRecord, Live
  <1>3. calls' = [calls EXCEPT ![i] = c] /\ active' = None /\ sequence' = sequence
    BY DEF Over, Released, Typed, CallsOK
  <1>4. sequence' \in Nat /\ sequence <= sequence' /\ None # i
    BY <1>3, BridgeAssumption DEF Typed, HostOK
  <1> HIDE DEF c
  <1>5. CallsOK'  BY <1>1, <1>2, <1>3, <1>4, OneCall
  <1> QED BY <1>3, <1>5

\* The actions of the load, the queries and the unload.
LEMMA HostCallTyped ==
  ASSUME Typed, \/ Load \/ AbortLoad \/ LoadContinues \/ Query \/ Unload \/ UnloadContinues
                \/ UnloadEnds \/ BeginRound \/ BeginFails
  PROVE  Typed'
  <1>0. ASSUME sequence' = sequence + 1, sequence' \in Ids, CallsOK', WireOK(down, DownTypes)',
               active' \in Ids \cup {None}, UNCHANGED <<closed, up, wvars, errors>>,
               cancelled' \in BOOLEAN, load' \in {"no", "loading", "open", "failed"},
               unload' \in {"no", "waiting", "posted", "done"}
        PROVE  Typed'
    <2>1. sequence' \in 0 .. MaxIds /\ sequence \in Nat
      BY <1>0, BridgeAssumption DEF Ids, Typed, HostOK
    <2>2. HostOK'  BY <1>0, <2>1 DEF Typed, HostOK
    <2>3. WireOK(up, UpTypes)'
      <3>1. WireOK(up, UpTypes)  BY DEF Typed
      <3>2. up \in Seq([type : UpTypes, id : Ids]) /\ \A k \in 1 .. Len(up) : up[k].id <= sequence'
        BY <1>0, <2>1, <3>1, LaterWire
      <3> QED BY <1>0, <3>2 DEF WireOK
    <2>4. WorkerOK'
      <3>1. worker.round # None => worker.round \in Nat
        BY BridgeAssumption DEF Typed, WorkerOK, Ids
      <3> QED BY <1>0, <2>1, <3>1 DEF Typed, WorkerOK, wvars
    <2> QED BY <1>0, <2>2, <2>3, <2>4 DEF Typed
  <1>1. ASSUME NEW kind \in {"load", "query", "unload"}, Request(kind, "none"),
               UNCHANGED <<closed, active, up, wvars, errors>>,
               cancelled' \in BOOLEAN, load' \in {"no", "loading", "open", "failed"},
               unload' \in {"no", "waiting", "posted", "done"}
        PROVE  Typed'
    <2>1. CallsOK' /\ WireOK(down, DownTypes)' /\ sequence' \in Ids /\ sequence' = sequence + 1
      BY <1>1, RequestTyped
    <2> QED BY <1>0, <1>1, <2>1 DEF Typed, HostOK
  <1>2. ASSUME Terminate, cancelled' \in BOOLEAN, load' \in {"no", "loading", "open", "failed"},
               unload' \in {"no", "waiting", "posted", "done"}
        PROVE  Typed'
    BY <1>2, TerminateTyped DEF Typed, HostOK
  <1>3. CASE Load  BY <1>1, <1>3 DEF Load, Typed, HostOK
  <1>4. CASE AbortLoad  BY <1>2, <1>4 DEF AbortLoad, Typed, HostOK
  <1>5. CASE LoadContinues
    <2>1. CASE Usable \/ closed
      <3>1. /\ UNCHANGED <<closed, sequence, active, cancelled, unload, calls, down, up, wvars, errors>>
            /\ load' \in {"open", "failed"}
        BY <1>5, <2>1 DEF LoadContinues
      <3> QED BY <3>1, SameTyped DEF Typed, HostOK, wvars
    <2>2. CASE ~(Usable \/ closed)
      BY <1>2, <1>5, <2>2 DEF LoadContinues, Typed, HostOK
    <2> QED BY <2>1, <2>2
  <1>6. CASE Query  BY <1>1, <1>6 DEF Query, Typed, HostOK
  <1>7. CASE Unload
    <2>1. CASE active = None
      BY <1>1, <1>7, <2>1 DEF Unload, PostUnload, Typed, HostOK
    <2>2. CASE active # None
      <3>1. /\ unload' = "waiting" /\ down' = Posted(Message("abort", active))
            /\ UNCHANGED <<sequence, calls, closed, active, load, cancelled, up, wvars, errors>>
        BY <1>7, <2>2 DEF Unload
      <3>2. active \in Ids  BY <2>2 DEF Typed, HostOK
      <3>3. active <= sequence  BY <3>2, ActiveParts
      <3>4. WireOK(down, DownTypes)'
        BY <3>1, <3>2, <3>3, PostTyped DEF DownTypes
      <3> QED BY <3>1, <3>4, SameTyped DEF Typed, HostOK, wvars
    <2> QED BY <2>1, <2>2
  <1>8. CASE UnloadContinues
    BY <1>1, <1>8 DEF UnloadContinues, PostUnload, Typed, HostOK
  <1>9. CASE UnloadEnds  BY <1>2, <1>9 DEF UnloadEnds, Typed, HostOK
  <1>11. CASE BeginRound
    <2>1. /\ Request("generate", "wait") /\ active = None /\ active' = sequence'
      BY <1>11 DEF BeginRound, Beginnable
    <2>2. CallsOK' /\ WireOK(down, DownTypes)' /\ sequence' \in Ids /\ sequence' = sequence + 1
      BY <2>1, RequestTyped
    <2> QED BY <1>0, <1>11, <2>1, <2>2 DEF BeginRound, Typed, HostOK
  <1>12. CASE BeginFails
    <2> DEFINE c == [Unused EXCEPT !.kind = "generate", !.done = TRUE, !.failed = TRUE, !.pc = "over"]
    <2>1. /\ active = None /\ sequence < MaxIds - 1 /\ sequence' = sequence + 1
          /\ calls' = [calls EXCEPT ![sequence'] = c] /\ active' = active /\ down' = down
      BY <1>12 DEF BeginFails, Beginnable
    <2>2. c \in CallRecord /\ ~Live(c)  BY DEF Unused, CallRecord, Live
    <2>3. /\ sequence' \in Ids /\ sequence' \in 0 .. MaxIds /\ sequence <= sequence'
          /\ sequence \in Nat /\ sequence' \in Nat /\ None # sequence'
      BY <2>1, BridgeAssumption DEF Ids, Typed, HostOK
    <2> HIDE DEF c
    <2>4. CallsOK'  BY <2>1, <2>2, <2>3, OneCall
    <2>5. WireOK(down, DownTypes)'
      <3>1. WireOK(down, DownTypes)  BY DEF Typed
      <3>2. down \in Seq([type : DownTypes, id : Ids]) /\ \A k \in 1 .. Len(down) : down[k].id <= sequence'
        BY <2>1, <2>3, <3>1, LaterWire
      <3> QED BY <2>1, <3>2 DEF WireOK
    <2> QED BY <1>0, <1>12, <2>1, <2>3, <2>4, <2>5 DEF BeginFails, Typed, HostOK
  <1> QED BY <1>3, <1>4, <1>5, <1>6, <1>7, <1>8, <1>9, <1>11, <1>12

\* The actions of a round's generator and its caller.
LEMMA GeneratorStepTyped ==
  ASSUME Typed, NEW i \in Ids, Caller(i) \/ Continue(i)
  PROVE  Typed'
  <1>r. calls[i] \in CallRecord  BY DEF Typed, CallsOK
  <1>1. ASSUME Live(calls[i]), NEW c \in CallRecord, Live(c), calls' = [calls EXCEPT ![i] = c],
               down' = Posted(Message("abort", i)) \/ down' = down,
               UNCHANGED <<hvars, up, wvars, errors>>
        PROVE  Typed'
    <2>1. i <= sequence /\ sequence' = sequence  BY <1>1, ActiveParts DEF hvars
    <2>2. CallsOK'  BY <1>1, GeneratorTyped DEF hvars
    <2>3. "abort" \in DownTypes  BY DEF DownTypes
    <2>4. WireOK(down, DownTypes)'  BY <1>1, <2>1, <2>3, PostTyped
    <2>5. WireOK(up, UpTypes)' /\ WorkerOK'
      BY <1>1, <2>1, SameTyped DEF wvars
    <2>6. HostOK'  BY <1>1 DEF hvars, Typed, HostOK
    <2> QED BY <2>2, <2>4, <2>5, <2>6 DEF Typed
  <1>2. ASSUME Live(calls[i]), Over(i) PROVE Typed'
    <2>1. CallsOK' /\ active' = None  BY <1>2, OverTyped
    <2>2. UNCHANGED <<closed, sequence, load, cancelled, unload, down, up, wvars, errors>>
      BY <1>2 DEF Over
    <2>3. WireOK(down, DownTypes)' /\ WireOK(up, UpTypes)' /\ WorkerOK'
      BY <2>2, SameTyped DEF wvars
    <2>4. HostOK'  BY <2>1, <2>2 DEF Typed, HostOK
    <2> QED BY <2>1, <2>3, <2>4 DEF Typed
  <1>3. CASE Signal(i)
    <2> DEFINE c == [calls[i] EXCEPT !.signalled = TRUE]
    <2>1. Live(calls[i]) /\ c \in CallRecord /\ Live(c)
      BY <1>r, <1>3 DEF Signal, CallRecord, Live
    <2>2. calls' = [calls EXCEPT ![i] = c]  BY <1>3 DEF Signal
    <2> HIDE DEF c
    <2> QED BY <1>1, <1>3, <2>1, <2>2 DEF Signal
  <1>4. CASE Yield(i)
    <2> DEFINE c == [calls[i] EXCEPT !.pc = "yield", !.events = @ - 1, !.seen = @ + 1]
    <2>0. calls[i].pc = "wait" /\ calls[i].events > 0 /\ UNCHANGED <<hvars, down, up, wvars, errors>>
      BY <1>4 DEF Yield, Unread
    <2>1. c \in CallRecord  BY <1>r, <2>0, YieldedType
    <2>2. c.pc = "yield"  BY <1>r DEF CallRecord
    <2>3. calls' = [calls EXCEPT ![i] = c]  BY <1>4, <1>r DEF Yield, Typed, CallsOK
    <2> HIDE DEF c
    <2> QED BY <1>1, <2>0, <2>1, <2>2, <2>3 DEF Live
  <1>5. CASE NextEvent(i)
    <2> DEFINE c == [calls[i] EXCEPT !.pc = "wait"]
    <2>1. Live(calls[i]) /\ c \in CallRecord /\ Live(c)
      BY <1>r, <1>5 DEF NextEvent, CallRecord, Live
    <2>2. calls' = [calls EXCEPT ![i] = c]  BY <1>5 DEF NextEvent
    <2> HIDE DEF c
    <2> QED BY <1>1, <1>5, <2>1, <2>2 DEF NextEvent
  <1>6. CASE ReturnLater(i)
    <2> DEFINE c == [calls[i] EXCEPT !.leaving = TRUE]
    <2>1. Live(calls[i]) /\ c \in CallRecord /\ Live(c)
      BY <1>r, <1>6 DEF ReturnLater, CallRecord, Live
    <2>2. calls' = [calls EXCEPT ![i] = c]  BY <1>6 DEF ReturnLater
    <2> HIDE DEF c
    <2> QED BY <1>1, <1>6, <2>1, <2>2 DEF ReturnLater
  <1>7. CASE Return(i)
    <2>0. Live(calls[i])  BY <1>7 DEF Return, Live
    <2>1. CASE ~Awaited(i)  BY <1>2, <1>7, <2>0, <2>1 DEF Return
    <2>2. CASE Awaited(i)
      <3> DEFINE c == [calls[i] EXCEPT !.pc = "return"]
      <3>1. c \in CallRecord /\ Live(c)  BY <1>r DEF CallRecord, Live
      <3>2. /\ calls' = [calls EXCEPT ![i] = c] /\ down' = Posted(Message("abort", i))
            /\ UNCHANGED <<hvars, up, wvars, errors>>
        BY <1>7, <2>2 DEF Return
      <3> HIDE DEF c
      <3> QED BY <1>1, <2>0, <3>1, <3>2
    <2> QED BY <2>1, <2>2
  <1>8. CASE Exhausted(i) \/ Returned(i)
    BY <1>2, <1>8 DEF Exhausted, Returned, Live
  <1> QED
    BY <1>3, <1>4, <1>5, <1>6, <1>7, <1>8 DEF Caller, Continue

LEMMA HostReceivesTyped ==
  ASSUME Typed, HostReceives
  PROVE  Typed'
  <1> DEFINE m == Head(up)
  <1>1. up # <<>> /\ up' = Tail(up) /\ UNCHANGED <<hvars, down, wvars, errors>>
    BY DEF HostReceives
  <1>2. /\ WireOK(Tail(up), UpTypes) /\ m.type \in UpTypes /\ m.id \in Ids /\ m.id <= sequence
    BY <1>1, TailWire DEF Typed
  <1>3. WireOK(up, UpTypes)'
    BY <1>1, <1>2 DEF WireOK, hvars
  <1>4. CallsOK'
    <2>1. CASE ~calls[m.id].pending
      BY <1>1, <2>1, SameCalls DEF HostReceives, hvars
    <2>2. CASE calls[m.id].pending
      <3> DEFINE c == Delivered(calls[m.id], m.type)
      <3>1. calls[m.id] \in CallRecord  BY <1>2 DEF Typed, CallsOK
      <3>2. c \in CallRecord /\ c.pc = calls[m.id].pc
        <4> HIDE DEF m
        <4> QED BY <1>2, <3>1, DeliveredType
      <3>3. calls' = [calls EXCEPT ![m.id] = c]
        BY <2>2 DEF HostReceives
      <3> HIDE DEF c, m
      <3>4. calls' \in [Ids -> CallRecord] /\ UNCHANGED <<sequence, active>>
        BY <1>1, <3>2, <3>3 DEF Typed, CallsOK, hvars
      <3>5. \A j \in Ids : calls'[j].pc = calls[j].pc
        BY <1>2, <3>2, <3>3 DEF Typed, CallsOK
      <3> QED BY <3>4, <3>5 DEF Typed, CallsOK, Live
    <2> QED BY <2>1, <2>2
  <1>5. WireOK(down, DownTypes)' /\ WorkerOK'
    BY <1>1, SameTyped DEF hvars, wvars
  <1> QED BY <1>1, <1>3, <1>4, <1>5 DEF Typed, HostOK, hvars

LEMMA RejectTyped ==
  ASSUME Typed, RejectOutstanding
  PROVE  Typed'
  <1>1. /\ errors' = errors + 1 /\ calls' = [i \in Ids |-> Failed(calls[i])]
        /\ up' = up \/ (up # <<>> /\ up' = Tail(up))
        /\ UNCHANGED <<hvars, wvars>>
        /\ IF active = None THEN down' = down ELSE down' = Append(down, Message("abort", active))
    BY DEF RejectOutstanding
  <1>2. CallsOK'  BY <1>1, AllFail DEF hvars
  <1>3. WireOK(up, UpTypes)'
    <2>1. CASE up' = up  BY <1>1, <2>1, SameTyped DEF hvars
    <2>2. CASE up # <<>> /\ up' = Tail(up)
      <3>1. WireOK(Tail(up), UpTypes)  BY <2>2, TailWire DEF Typed
      <3> QED BY <1>1, <2>2, <3>1 DEF WireOK, hvars
    <2> QED BY <1>1, <2>1, <2>2
  <1>4. WireOK(down, DownTypes)'
    <2>1. CASE active = None  BY <1>1, <2>1, SameTyped DEF hvars
    <2>2. CASE active # None
      <3>1. active \in Ids  BY <2>2 DEF Typed, HostOK
      <3>2. active <= sequence /\ "abort" \in DownTypes  BY <3>1, ActiveParts DEF DownTypes
      <3> QED BY <1>1, <2>2, <3>1, <3>2, PostTyped DEF hvars
    <2> QED BY <2>1, <2>2
  <1>5. HostOK' /\ WorkerOK'
    BY <1>1 DEF Typed, HostOK, WorkerOK, hvars, wvars
  <1> QED BY <1>2, <1>3, <1>4, <1>5 DEF Typed

\* The actions of the worker: it answers the head of its queue, or steps.
LEMMA WorkerTyped ==
  ASSUME Typed, WorkerReceives \/ WorkerSteps
  PROVE  Typed'
  <1> DEFINE m == Head(down)
  <1>w. /\ worker \in [model : BOOLEAN, round : Ids \cup {None}, abort : BOOLEAN]
        /\ emitted \in [Ids -> Nat] /\ errors \in Nat
    BY DEF Typed, WorkerOK
  <1>1. ASSUME UNCHANGED <<hvars, calls, errors>>, WireOK(down, DownTypes)', WireOK(up, UpTypes)',
               emitted' \in [Ids -> Nat],
               worker' \in [model : BOOLEAN, round : Ids \cup {None}, abort : BOOLEAN],
               worker'.round \in {None, worker.round} \/ worker'.round <= sequence
        PROVE  Typed'
    <2>1. CallsOK'  BY <1>1, SameTyped DEF hvars
    <2>2. WorkerOK'  BY <1>1, <1>w DEF hvars, Typed, WorkerOK
    <2> QED BY <1>1, <2>1, <2>2 DEF Typed, HostOK, hvars
  <1>2. ASSUME NEW type, Dispatch(type), UNCHANGED hvars
        PROVE  /\ WireOK(down, DownTypes)' /\ m.id \in Ids /\ m.id <= sequence
               /\ \A t \in UpTypes : Reply(t, m.id) => WireOK(up, UpTypes)'
               /\ up' = up => WireOK(up, UpTypes)'
    <2>1. /\ WireOK(down, DownTypes)' /\ m.id \in Ids /\ m.id <= sequence /\ sequence' = sequence
      BY <1>2, DispatchTyped DEF hvars
    <2> HIDE DEF m
    <2>2. \A t \in UpTypes : Reply(t, m.id) => WireOK(up, UpTypes)'
      BY <2>1, ReplyTyped
    <2> QED BY <2>1, <2>2, SameTyped
  <1>u. {"event", "done", "result", "error"} = UpTypes  BY DEF UpTypes
  <1>3. CASE WorkerAborts
    <2>1. worker' \in [model : BOOLEAN, round : Ids \cup {None}, abort : BOOLEAN]
          /\ worker'.round = worker.round
      BY <1>w, <1>3 DEF WorkerAborts
    <2> QED BY <1>1, <1>2, <1>3, <1>w, <2>1 DEF WorkerAborts
  <1>4. CASE WorkerLoads
    <2>1. worker' \in [model : BOOLEAN, round : Ids \cup {None}, abort : BOOLEAN]
          /\ worker'.round = worker.round
      BY <1>w, <1>4 DEF WorkerLoads
    <2> QED BY <1>1, <1>2, <1>4, <1>w, <1>u, <2>1 DEF WorkerLoads
  <1>5. CASE WorkerAnswers
    BY <1>1, <1>2, <1>5, <1>w, <1>u DEF WorkerAnswers, wvars
  <1>6. CASE WorkerRefuses
    BY <1>1, <1>2, <1>6, <1>w, <1>u DEF WorkerRefuses
  <1>7. CASE WorkerCannot
    BY <1>1, <1>2, <1>7, <1>w, <1>u DEF WorkerCannot, wvars
  <1>8. CASE WorkerBegins
    <2>1. Dispatch("generate") /\ UNCHANGED <<hvars, calls, up, emitted, refused, errors>>
      BY <1>8 DEF WorkerBegins
    <2>2. WireOK(down, DownTypes)' /\ m.id \in Ids /\ m.id <= sequence /\ WireOK(up, UpTypes)'
      BY <1>2, <2>1
    <2>3. worker' \in [model : BOOLEAN, round : Ids \cup {None}, abort : BOOLEAN]
          /\ worker'.round = m.id
      BY <1>w, <1>8, <2>2 DEF WorkerBegins
    <2> QED BY <1>1, <1>w, <2>1, <2>2, <2>3
  <1>9. CASE WorkerUnloads
    <2>1. worker' \in [model : BOOLEAN, round : Ids \cup {None}, abort : BOOLEAN]
          /\ worker'.round = worker.round
      BY <1>w, <1>9 DEF WorkerUnloads
    <2> QED BY <1>1, <1>2, <1>9, <1>w, <1>u, <2>1 DEF WorkerUnloads
  <1>10. CASE WorkerSteps
    <2> DEFINE i == worker.round
    <2>1. /\ i \in Ids /\ i <= sequence /\ down' = down /\ UNCHANGED <<hvars, calls, errors>>
          /\ \E t \in UpTypes : Reply(t, i)
      BY <1>10, <1>w, <1>u DEF WorkerSteps, Typed, WorkerOK
    <2>2. emitted' \in [Ids -> Nat]
      BY <1>10, <1>w, <2>1 DEF WorkerSteps
    <2>3. worker' \in [model : BOOLEAN, round : Ids \cup {None}, abort : BOOLEAN]
          /\ worker'.round \in {None, worker.round}
      BY <1>10, <1>w DEF WorkerSteps
    <2>4. WireOK(down, DownTypes)'  BY <2>1, SameTyped DEF hvars
    <2>5. WireOK(up, UpTypes)'  BY <2>1, ReplyTyped DEF hvars
    <2> QED BY <1>1, <2>1, <2>2, <2>3, <2>4, <2>5
  <1> QED BY <1>3, <1>4, <1>5, <1>6, <1>7, <1>8, <1>9, <1>10 DEF WorkerReceives

LEMMA NextTyped == Typed /\ [BridgeNext]_bvars => Typed'
  <1> SUFFICES ASSUME Typed, [BridgeNext]_bvars PROVE Typed'  OBVIOUS
  <1>1. CASE UNCHANGED bvars
    BY <1>1, SameTyped DEF bvars, hvars, wvars, Typed, HostOK
  <1> QED
    BY <1>1, HostCallTyped, GeneratorStepTyped, HostReceivesTyped, RejectTyped, WorkerTyped
    DEF BridgeNext, HostContinues

LEMMA BridgeTyped == BridgeSpec => []Typed
  BY InitTyped, NextTyped, PTL DEF BridgeSpec

\* The state of both sides is well typed, and the active request is exactly the
\* one whose generator has not run to its end.
THEOREM BridgeTypeCorrect == BridgeSpec => []BridgeTypeOK
  <1>1. Typed => BridgeTypeOK
    BY DEF Typed, HostOK, CallsOK, WorkerOK, BridgeTypeOK, Live
  <1> QED BY <1>1, BridgeTyped, PTL

----------------------------------------------------------------------------
(* A load that was cancelled never resolves. *)

Opened ==
  /\ load = "no" => ~closed
  /\ load = "loading" /\ closed => cancelled
  /\ unload # "no" => load = "open"
  /\ LoadedIsOpen

LEMMA NextOpened == Opened /\ [BridgeNext]_bvars => Opened'
  <1> SUFFICES ASSUME Opened, [BridgeNext]_bvars PROVE Opened'  OBVIOUS
  <1> USE DEF Opened, LoadedIsOpen
  <1>1. ASSUME UNCHANGED <<closed, load, cancelled, unload>> PROVE Opened'
    BY <1>1
  <1>2. CASE Load  BY <1>2 DEF Load
  <1>3. CASE AbortLoad  BY <1>3 DEF AbortLoad, Terminate
  <1>4. CASE LoadContinues  BY <1>4 DEF LoadContinues, Usable, Terminate
  <1>5. CASE Unload  BY <1>5 DEF Unload, PostUnload
  <1>6. CASE UnloadContinues  BY <1>6 DEF UnloadContinues, PostUnload, UnloadReady
  <1>7. CASE UnloadEnds  BY <1>7 DEF UnloadEnds, Terminate
  <1>8. CASE Query \/ BeginRound \/ BeginFails \/ HostReceives \/ RejectOutstanding
    BY <1>1, <1>8 DEF Query, BeginRound, BeginFails, HostReceives, RejectOutstanding, hvars
  <1>9. ASSUME NEW i \in Ids, Caller(i) \/ Continue(i) PROVE Opened'
    BY <1>1, <1>9 DEF Caller, Continue, Signal, NextEvent, ReturnLater, Return, Yield, Exhausted,
                      Returned, Over, hvars
  <1>10. CASE WorkerReceives \/ WorkerSteps
    BY <1>1, <1>10 DEF WorkerReceives, WorkerAborts, WorkerLoads, WorkerAnswers, WorkerRefuses,
                       WorkerCannot, WorkerBegins, WorkerUnloads, WorkerSteps, hvars
  <1>11. CASE UNCHANGED bvars  BY <1>1, <1>11 DEF bvars, hvars
  <1> QED
    BY <1>2, <1>3, <1>4, <1>5, <1>6, <1>7, <1>8, <1>9, <1>10, <1>11 DEF BridgeNext, HostContinues

\* A load that was cancelled, also after the worker's reply, never resolves with
\* a terminated backend: an open backend is only ever closed by its unload.
THEOREM LoadedBackendIsOpen == BridgeSpec => []LoadedIsOpen
  <1>1. BridgeInit => Opened  BY DEF BridgeInit, Opened, LoadedIsOpen
  <1>2. Opened => LoadedIsOpen  BY DEF Opened
  <1> QED BY <1>1, <1>2, NextOpened, PTL DEF BridgeSpec

----------------------------------------------------------------------------
(* Native rounds are serial. *)

Final(m) == m.type # "event"
Work(m) == m.type \in {"generate", "unload"}

\* The active round is not over, for the host or on its way to it.
Busy ==
  /\ active \in Ids /\ ~calls[active].done
  /\ \A k \in 1 .. Len(up) : Final(up[k]) => up[k].id # active

\* A round that runs is the active one, and nothing that needs its end waits.
RoundRuns ==
  worker.round # None =>
    /\ worker.round = active /\ Busy
    /\ \A k \in 1 .. Len(down) : ~Work(down[k])

\* A round that waits is the active one, and comes after every unload.
RoundWaits ==
  \A k \in 1 .. Len(down) : down[k].type = "generate" =>
    /\ down[k].id = active /\ Busy
    /\ \A j \in 1 .. Len(down) : Work(down[j]) => j <= k

ClosedIsIdle ==
  closed => worker.round = None /\ \A k \in 1 .. Len(down) : down[k].type # "generate"

RequestsApart ==
  \A k \in 1 .. Len(down) : down[k].type \in {"load", "query", "unload"} => down[k].id # active

Serial ==
  /\ ClosedIsIdle /\ RequestsApart
  /\ errors = 0 => refused = {} /\ RoundRuns /\ RoundWaits

\* The active round is not busy: the worker has nothing of it.
LEMMA RestIsIdle ==
  ASSUME Serial, errors = 0, ~Busy
  PROVE  worker.round = None /\ \A k \in 1 .. Len(down) : down[k].type # "generate"
  BY DEF Serial, RoundRuns, RoundWaits

\* Nothing happens to the worker or the messages to it, and what is busy stays so.
LEMMA SameSerial ==
  ASSUME Serial, UNCHANGED <<down, errors, refused>>, worker'.round = worker.round,
         active' = active, closed' = closed, errors = 0 /\ Busy => Busy'
  PROVE  Serial'
  BY DEF Serial, ClosedIsIdle, RequestsApart, RoundRuns, RoundWaits, Work

\* A message that is no work is posted.
LEMMA PostSerial ==
  ASSUME Typed, Serial, NEW m \in [type : DownTypes, id : Ids], down' = Append(down, m),
         m.type \in {"load", "query", "abort"}, m.type = "abort" \/ m.id # active,
         UNCHANGED <<refused, closed, active>>, worker'.round = worker.round,
         errors' # 0 \/ (errors' = errors /\ (Busy => Busy'))
  PROVE  Serial'
  <1>1. /\ Len(down') = Len(down) + 1 /\ Len(down) \in Nat
        /\ \A k \in 1 .. Len(down) : down'[k] = down[k]
        /\ down'[Len(down) + 1] = m
    BY AppendParts DEF Typed, WireOK
  <1>2. ~Work(m) /\ m.type # "generate"  BY DEF Work
  <1>3. \A k \in 1 .. Len(down') : k = Len(down) + 1 \/ k \in 1 .. Len(down)
    BY <1>1
  <1>4. ClosedIsIdle'
    BY <1>1, <1>2, <1>3 DEF Serial, ClosedIsIdle
  <1>5. RequestsApart'
    BY <1>1, <1>3 DEF Serial, RequestsApart
  <1>6. errors' = 0 => RoundRuns'
    BY <1>1, <1>2, <1>3 DEF Serial, RoundRuns, Work
  <1>7. errors' = 0 => RoundWaits'
    BY <1>1, <1>2, <1>3 DEF Serial, RoundWaits, Work
  <1> QED BY <1>4, <1>5, <1>6, <1>7 DEF Serial

\* An unload or a round is posted when nothing of a round is with the worker.
LEMMA PostWorkSerial ==
  ASSUME Typed, Serial, NEW m \in [type : DownTypes, id : Ids], down' = Append(down, m),
         Work(m), errors = 0 => ~Busy,
         IF m.type = "unload" THEN m.id # active /\ active' = active
         ELSE /\ ~closed /\ m.id = active' /\ \A k \in 1 .. Len(down) : down[k].id # active'
              /\ errors = 0 => Busy',
         UNCHANGED <<refused, closed, errors>>, worker'.round = worker.round
  PROVE  Serial'
  <1>1. /\ Len(down') = Len(down) + 1 /\ Len(down) \in Nat
        /\ \A k \in 1 .. Len(down) : down'[k] = down[k]
        /\ down'[Len(down) + 1] = m
    BY AppendParts DEF Typed, WireOK
  <1>2. \A k \in 1 .. Len(down') : k = Len(down) + 1 \/ k \in 1 .. Len(down)
    BY <1>1
  <1>3. errors = 0 => worker.round = None /\ \A k \in 1 .. Len(down) : down[k].type # "generate"
    BY RestIsIdle
  <1>4. m.type = "unload" \/ m.type = "generate"  BY DEF Work
  <1>5. ClosedIsIdle'
    BY <1>1, <1>2, <1>4 DEF Serial, ClosedIsIdle
  <1>6. RequestsApart'
    <2>1. CASE m.type = "unload"  BY <1>1, <1>2, <2>1 DEF Serial, RequestsApart
    <2>2. CASE m.type = "generate"  BY <1>1, <1>2, <2>2 DEF RequestsApart
    <2> QED BY <1>4, <2>1, <2>2
  <1>7. errors' = 0 => RoundRuns'
    BY <1>3 DEF RoundRuns
  <1>8. errors' = 0 => RoundWaits'
    <2> SUFFICES ASSUME errors = 0, NEW k \in 1 .. Len(down'), down'[k].type = "generate"
                 PROVE  /\ down'[k].id = active' /\ Busy'
                        /\ \A j \in 1 .. Len(down') : j <= k
      BY DEF RoundWaits
    <2>1. k = Len(down) + 1 /\ m.type = "generate"
      BY <1>1, <1>2, <1>3
    <2> QED BY <1>1, <2>1
  <1> QED BY <1>5, <1>6, <1>7, <1>8 DEF Serial

\* The worker takes the first message, and keeps the round it has.
LEMMA TakeSerial ==
  ASSUME Typed, Serial, down # <<>>, down' = Tail(down), UNCHANGED <<active, closed, errors>>,
         worker'.round = worker.round, errors = 0 => refused' = refused /\ (Busy => Busy')
  PROVE  Serial'
  <1>1. /\ Len(down') = Len(down) - 1 /\ Len(down) \in Nat \ {0}
        /\ \A k \in 1 .. Len(down') : k + 1 \in 1 .. Len(down) /\ down'[k] = down[k + 1]
    BY TailParts DEF Typed, WireOK
  <1>2. ClosedIsIdle' /\ RequestsApart'
    BY <1>1 DEF Serial, ClosedIsIdle, RequestsApart
  <1>3. errors' = 0 => RoundRuns'
    BY <1>1 DEF Serial, RoundRuns, Work
  <1>4. errors' = 0 => RoundWaits'
    <2> SUFFICES ASSUME errors = 0, NEW k \in 1 .. Len(down'), down'[k].type = "generate"
                 PROVE  /\ down'[k].id = active /\ Busy'
                        /\ \A j \in 1 .. Len(down') : Work(down'[j]) => j <= k
      BY DEF RoundWaits
    <2>1. /\ down[k + 1].id = active /\ Busy
          /\ \A j \in 1 .. Len(down) : Work(down[j]) => j <= k + 1
      BY <1>1 DEF Serial, RoundWaits
    <2>2. ASSUME NEW j \in 1 .. Len(down'), Work(down'[j]) PROVE j <= k
      <3>1. j + 1 <= k + 1  BY <1>1, <2>1, <2>2
      <3> QED BY <3>1
    <2> QED BY <1>1, <2>1, <2>2
  <1> QED BY <1>2, <1>3, <1>4 DEF Serial

\* The worker takes the message that begins a round: no work is behind it.
LEMMA TakeRoundSerial ==
  ASSUME Typed, Serial, Dispatch("generate"), UNCHANGED <<active, closed, errors>>,
         worker'.round \in {worker.round, Head(down).id},
         errors = 0 => refused' = refused /\ (worker'.round = None \/ (Busy => Busy'))
  PROVE  Serial'
  <1>0. down # <<>> /\ Head(down).type = "generate" /\ down' = Tail(down)  BY DEF Dispatch
  <1>1. /\ Len(down') = Len(down) - 1 /\ Len(down) \in Nat \ {0}
        /\ \A k \in 1 .. Len(down') : k + 1 \in 1 .. Len(down) /\ down'[k] = down[k + 1]
        /\ Head(down) = down[1]
    BY <1>0, TailParts DEF Typed, WireOK
  <1>2. ~closed /\ RequestsApart'
    BY <1>0, <1>1 DEF Serial, ClosedIsIdle, RequestsApart
  <1>3. ASSUME errors = 0
        PROVE  /\ worker.round = None /\ Head(down).id = active /\ Busy
               /\ \A k \in 1 .. Len(down') : ~Work(down'[k])
    <2>1. /\ Head(down).id = active /\ Busy
          /\ \A j \in 1 .. Len(down) : Work(down[j]) => j <= 1
      BY <1>0, <1>1, <1>3 DEF Serial, RoundWaits
    <2>2. Work(down[1]) /\ 1 \in 1 .. Len(down)  BY <1>0, <1>1 DEF Work
    <2>3. worker.round = None  BY <1>3, <2>2 DEF Serial, RoundRuns
    <2>4. \A k \in 1 .. Len(down') : ~Work(down'[k])
      <3> SUFFICES ASSUME NEW k \in 1 .. Len(down'), Work(down'[k]) PROVE FALSE
        OBVIOUS
      <3>1. k + 1 <= 1  BY <1>1, <2>1
      <3> QED BY <3>1
    <2> QED BY <2>1, <2>3, <2>4
  <1>4. errors' = 0 => RoundRuns' /\ RoundWaits'
    BY <1>3 DEF RoundRuns, RoundWaits, Work
  <1> QED BY <1>2, <1>3, <1>4 DEF Serial, ClosedIsIdle

\* A reply that is an event, or is not about the active round, ends nothing.
LEMMA ReplyBusy ==
  ASSUME Typed, NEW type \in UpTypes, NEW i \in Ids, Reply(type, i), type = "event" \/ i # active,
         UNCHANGED <<active, calls>>, Busy
  PROVE  Busy'
  <1> DEFINE m == Message(type, i)
  <1>1. m \in [type : UpTypes, id : Ids] /\ m.type = type /\ m.id = i  BY DEF Message
  <1>2. up' = Append(up, m)  BY DEF Reply
  <1> HIDE DEF m
  <1>3. /\ Len(up') = Len(up) + 1 /\ Len(up) \in Nat
        /\ \A k \in 1 .. Len(up) : up'[k] = up[k]
        /\ up'[Len(up) + 1] = m
    BY <1>1, <1>2, AppendParts DEF Typed, WireOK
  <1>4. \A k \in 1 .. Len(up') : k = Len(up) + 1 \/ k \in 1 .. Len(up)
    BY <1>3
  <1> QED BY <1>1, <1>3, <1>4 DEF Busy, Final

LEMMA TerminateSerial ==
  ASSUME Serial, Terminate
  PROVE  Serial'
  <1>1. worker'.round = None /\ down' = <<>> /\ UNCHANGED <<errors, refused>>
    BY DEF Terminate, NoWorkerRound
  <1>2. \A k \in 1 .. Len(down') : FALSE  BY <1>1
  <1> QED BY <1>1, <1>2 DEF Serial, ClosedIsIdle, RequestsApart, RoundRuns, RoundWaits

\* A new request does not end the active round.
LEMMA NumberBusy ==
  ASSUME Typed, sequence' = sequence + 1, sequence' \in Ids, NEW c,
         calls' = [calls EXCEPT ![sequence'] = c], UNCHANGED <<active, up>>, Busy
  PROVE  Busy'
  <1>1. active \in Ids /\ active <= sequence  BY ActiveParts DEF Busy
  <1>2. active # sequence'  BY <1>1, BridgeAssumption DEF Typed, HostOK
  <1>3. calls'[active] = calls[active]  BY <1>1, <1>2 DEF Typed, CallsOK
  <1> QED BY <1>3 DEF Busy

LEMMA HostCallSerial ==
  ASSUME Typed, Serial,
         \/ Load \/ AbortLoad \/ LoadContinues \/ Query \/ Unload \/ UnloadContinues
         \/ UnloadEnds \/ BeginRound \/ BeginFails
  PROVE  Serial'
  <1>s. sequence \in Nat /\ MaxIds \in Nat  BY BridgeAssumption DEF Typed, HostOK
  <1>a. active # None => active \in Ids /\ active <= sequence
    BY ActiveParts DEF Typed, HostOK
  <1>1. ASSUME NEW kind \in {"load", "query", "unload"}, Request(kind, "none"),
               UNCHANGED <<closed, active, up, wvars, errors>>,
               kind = "unload" => active = None \/ calls[active].done
        PROVE  Serial'
    <2> DEFINE m == Message(kind, sequence')
               c == [Unused EXCEPT !.kind = kind, !.pending = TRUE, !.pc = "none"]
    <2>1. /\ sequence' \in Ids /\ sequence' = sequence + 1 /\ calls' = [calls EXCEPT ![sequence'] = c]
      BY <1>1, RequestTyped
    <2>2. down' = Append(down, m)  BY <1>1 DEF Request
    <2>3. m \in [type : DownTypes, id : Ids] /\ m.type = kind /\ m.id = sequence'
      BY <2>1 DEF Message, DownTypes
    <2>4. m.id # active
      <3>1. CASE active = None  BY <2>1, <2>3, <3>1, BridgeAssumption
      <3>2. CASE active # None  BY <1>a, <1>s, <2>1, <2>3, <3>2
      <3> QED BY <3>1, <3>2
    <2>5. Busy => Busy'  BY <1>1, <2>1, NumberBusy
    <2>6. refused' = refused /\ worker' = worker  BY <1>1 DEF wvars
    <2> HIDE DEF m, c
    <2>7. CASE kind = "unload"
      <3>1. ~Busy  BY <1>1, <2>7, BridgeAssumption DEF Busy
      <3>2. Work(m)  BY <2>3, <2>7 DEF Work
      <3> QED BY <1>1, <2>2, <2>3, <2>4, <2>6, <2>7, <3>1, <3>2, PostWorkSerial
    <2>8. CASE kind # "unload"
      BY <1>1, <2>2, <2>3, <2>4, <2>5, <2>6, <2>8, PostSerial
    <2> QED BY <2>7, <2>8
  <1>2. ASSUME UNCHANGED <<active, closed, down, up, calls, wvars, errors>> PROVE Serial'
    BY <1>2, SameSerial DEF Busy, wvars
  <1>3. CASE Load  BY <1>1, <1>3 DEF Load
  <1>4. CASE AbortLoad  BY <1>4, TerminateSerial DEF AbortLoad
  <1>5. CASE LoadContinues  BY <1>2, <1>5, TerminateSerial DEF LoadContinues
  <1>6. CASE Query  BY <1>1, <1>6 DEF Query
  <1>7. CASE Unload
    <2>1. CASE active = None  BY <1>1, <1>7, <2>1 DEF Unload, PostUnload
    <2>2. CASE active # None
      <3> DEFINE m == Message("abort", active)
      <3>1. /\ ~closed /\ down' = Posted(m)
            /\ UNCHANGED <<calls, closed, active, up, wvars, errors>>
        BY <1>7, <2>2 DEF Unload
      <3>2. m \in [type : DownTypes, id : Ids] /\ m.type = "abort"
        BY <1>a, <2>2 DEF Message, DownTypes
      <3> HIDE DEF m
      <3>3. down' = Append(down, m) /\ (Busy => Busy')  BY <3>1 DEF Posted, Busy
      <3> QED BY <3>1, <3>2, <3>3, PostSerial DEF wvars
    <2> QED BY <2>1, <2>2
  <1>8. CASE UnloadContinues
    BY <1>1, <1>8 DEF UnloadContinues, UnloadReady, PostUnload
  <1>9. CASE UnloadEnds  BY <1>9, TerminateSerial DEF UnloadEnds
  <1>10. CASE BeginRound
    <2> DEFINE m == Message("generate", sequence')
               c == [Unused EXCEPT !.kind = "generate", !.pending = TRUE, !.pc = "wait"]
    <2>1. /\ Request("generate", "wait") /\ active = None /\ active' = sequence' /\ ~closed
          /\ UNCHANGED <<closed, up, wvars, errors>>
      BY <1>10 DEF BeginRound, Beginnable
    <2>2. /\ sequence' \in Ids /\ sequence' = sequence + 1 /\ calls' = [calls EXCEPT ![sequence'] = c]
      BY <2>1, RequestTyped
    <2>3. down' = Append(down, m)  BY <2>1 DEF Request
    <2>4. m \in [type : DownTypes, id : Ids] /\ m.type = "generate" /\ m.id = sequence' /\ Work(m)
      BY <2>2 DEF Message, DownTypes, Work
    <2>5. ~Busy  BY <2>1, BridgeAssumption DEF Busy
    <2>6. /\ \A k \in 1 .. Len(down) : down[k].id # sequence'
          /\ \A k \in 1 .. Len(up) : up[k].id # sequence'
      BY <1>s, <2>2 DEF Typed, WireOK
    <2>7. Busy'
      <3>1. calls'[sequence'] = c /\ ~c.done  BY <2>2 DEF Typed, CallsOK, Unused
      <3> HIDE DEF c
      <3> QED BY <2>1, <2>2, <2>6, <3>1 DEF Busy
    <2> HIDE DEF m, c
    <2> QED BY <2>1, <2>3, <2>4, <2>5, <2>6, <2>7, PostWorkSerial DEF wvars
  <1>11. CASE BeginFails
    <2>1. /\ active = None /\ UNCHANGED <<closed, active, down, up, wvars, errors>>
      BY <1>11 DEF BeginFails, Beginnable
    <2>2. ~Busy  BY <2>1, BridgeAssumption DEF Busy
    <2> QED BY <2>1, <2>2, SameSerial DEF wvars
  <1> QED BY <1>3, <1>4, <1>5, <1>6, <1>7, <1>8, <1>9, <1>10, <1>11

LEMMA GeneratorSerial ==
  ASSUME Typed, Serial, NEW i \in Ids, Caller(i) \/ Continue(i)
  PROVE  Serial'
  <1>1. ASSUME NEW c, calls' = [calls EXCEPT ![i] = c], c.done = calls[i].done,
               down' = down \/ down' = Posted(Message("abort", i)),
               UNCHANGED <<hvars, up, wvars, errors>>
        PROVE  Serial'
    <2> DEFINE m == Message("abort", i)
    <2>1. \A j \in Ids : calls'[j].done = calls[j].done
      BY <1>1 DEF Typed, CallsOK
    <2>2. Busy => Busy'  BY <1>1, <2>1 DEF Busy, hvars
    <2>3. m \in [type : DownTypes, id : Ids] /\ m.type = "abort"  BY DEF Message, DownTypes
    <2>4. down' = down \/ down' = Append(down, m)  BY <1>1 DEF Posted
    <2> HIDE DEF m
    <2>5. CASE down' = down
      BY <1>1, <2>2, <2>5, SameSerial DEF hvars, wvars
    <2>6. CASE down' = Append(down, m)
      BY <1>1, <2>2, <2>3, <2>6, PostSerial DEF hvars, wvars
    <2> QED BY <2>4, <2>5, <2>6
  <1>2. ASSUME active = i, Over(i), calls[i].done \/ closed PROVE Serial'
    <2>1. active' = None /\ UNCHANGED <<closed, down, up, wvars, errors>>
      BY <1>2 DEF Over, Released
    <2>2. errors = 0 => worker.round = None /\ \A k \in 1 .. Len(down) : down[k].type # "generate"
      <3>1. CASE calls[i].done
        <4>1. ~Busy  BY <1>2, <3>1 DEF Busy
        <4> QED BY <4>1, RestIsIdle
      <3>2. CASE closed  BY <3>2 DEF Serial, ClosedIsIdle
      <3> QED BY <1>2, <3>1, <3>2
    <2>3. \A k \in 1 .. Len(down) : down[k].id # None
      <3>1. \A k \in 1 .. Len(down) : down[k] \in [type : DownTypes, id : Ids]
        BY ElementParts DEF Typed, WireOK
      <3> QED BY <3>1, BridgeAssumption
    <2> QED BY <2>1, <2>2, <2>3 DEF Serial, ClosedIsIdle, RequestsApart, RoundRuns, RoundWaits, wvars
  <1>r. calls[i] \in CallRecord  BY DEF Typed, CallsOK
  <1>3. CASE Signal(i)
    <2> DEFINE c == [calls[i] EXCEPT !.signalled = TRUE]
    <2>1. c.done = calls[i].done  BY <1>r DEF CallRecord
    <2>2. calls' = [calls EXCEPT ![i] = c]  BY <1>3 DEF Signal
    <2> HIDE DEF c
    <2> QED BY <1>1, <1>3, <2>1, <2>2 DEF Signal
  <1>4. CASE Yield(i)
    <2> DEFINE c == [calls[i] EXCEPT !.pc = "yield", !.events = @ - 1, !.seen = @ + 1]
    <2>1. c.done = calls[i].done  BY <1>r DEF CallRecord
    <2>2. calls' = [calls EXCEPT ![i] = c]  BY <1>4, <1>r DEF Yield, Typed, CallsOK
    <2>3. UNCHANGED <<hvars, down, up, wvars, errors>>  BY <1>4 DEF Yield
    <2> HIDE DEF c
    <2> QED BY <1>1, <2>1, <2>2, <2>3
  <1>5. CASE NextEvent(i)
    <2> DEFINE c == [calls[i] EXCEPT !.pc = "wait"]
    <2>1. c.done = calls[i].done  BY <1>r DEF CallRecord
    <2>2. calls' = [calls EXCEPT ![i] = c]  BY <1>5 DEF NextEvent
    <2> HIDE DEF c
    <2> QED BY <1>1, <1>5, <2>1, <2>2 DEF NextEvent
  <1>6. CASE ReturnLater(i)
    <2> DEFINE c == [calls[i] EXCEPT !.leaving = TRUE]
    <2>1. c.done = calls[i].done  BY <1>r DEF CallRecord
    <2>2. calls' = [calls EXCEPT ![i] = c]  BY <1>6 DEF ReturnLater
    <2> HIDE DEF c
    <2> QED BY <1>1, <1>6, <2>1, <2>2 DEF ReturnLater
  <1>7. CASE Return(i)
    <2>0. active = i  BY <1>7, ActiveParts DEF Return, Live
    <2>1. CASE ~Awaited(i)  BY <1>2, <1>7, <2>0, <2>1 DEF Return, Awaited
    <2>2. CASE Awaited(i)
      <3> DEFINE c == [calls[i] EXCEPT !.pc = "return"]
      <3>1. c.done = calls[i].done  BY <1>r DEF CallRecord
      <3>2. /\ calls' = [calls EXCEPT ![i] = c] /\ down' = Posted(Message("abort", i))
            /\ UNCHANGED <<hvars, up, wvars, errors>>
        BY <1>7, <2>2 DEF Return
      <3> HIDE DEF c
      <3> QED BY <1>1, <3>1, <3>2
    <2> QED BY <2>1, <2>2
  <1>8. CASE Exhausted(i) \/ Returned(i)
    <2>1. active = i  BY <1>8, ActiveParts DEF Exhausted, Returned, Live
    <2> QED BY <1>2, <1>8, <2>1 DEF Exhausted, Returned
  <1> QED
    BY <1>3, <1>4, <1>5, <1>6, <1>7, <1>8 DEF Caller, Continue

\* The end of the active round reaches the host when the worker has left it.
LEMMA HostReceivesSerial ==
  ASSUME Typed, Serial, HostReceives
  PROVE  Serial'
  <1> DEFINE m == Head(up)
  <1>1. up # <<>> /\ up' = Tail(up) /\ UNCHANGED <<hvars, down, wvars, errors>>
    BY DEF HostReceives
  <1>2. m.type \in UpTypes /\ m.id \in Ids
    BY <1>1, TailWire DEF Typed
  <1>3. /\ \A k \in 1 .. Len(up') : k + 1 \in 1 .. Len(up) /\ up'[k] = up[k + 1]
        /\ m = up[1] /\ 1 \in 1 .. Len(up)
    BY <1>1, TailParts DEF Typed, WireOK
  <1>4. Busy => Busy'
    <2> SUFFICES ASSUME Busy PROVE Busy'  OBVIOUS
    <2>1. active \in Ids /\ ~calls[active].done /\ (Final(m) => m.id # active)
      BY <1>3 DEF Busy
    <2>2. ~calls'[active].done
      <3>1. CASE m.id # active \/ ~calls[m.id].pending
        BY <1>2, <2>1, <3>1 DEF HostReceives, Typed, CallsOK
      <3>2. CASE m.id = active /\ calls[m.id].pending
        <4>1. m.type = "event"  BY <2>1, <3>2 DEF Final
        <4>2. calls[active] \in CallRecord  BY <2>1 DEF Typed, CallsOK
        <4>3. calls' = [calls EXCEPT ![m.id] = Delivered(calls[m.id], m.type)]
          BY <3>2 DEF HostReceives
        <4>4. calls'[active] = Delivered(calls[active], m.type)
          BY <2>1, <3>2, <4>3 DEF Typed, CallsOK
        <4> HIDE DEF m
        <4> QED BY <1>2, <2>1, <4>1, <4>2, <4>4, DeliveredType
      <3> QED BY <3>1, <3>2
    <2>3. \A k \in 1 .. Len(up') : Final(up'[k]) => up'[k].id # active
      BY <1>3 DEF Busy
    <2> QED BY <1>1, <2>1, <2>2, <2>3 DEF Busy, hvars
  <1> QED BY <1>1, <1>4, SameSerial DEF hvars, wvars

LEMMA RejectSerial ==
  ASSUME Typed, Serial, RejectOutstanding
  PROVE  Serial'
  <1>1. /\ ~closed /\ errors' = errors + 1 /\ UNCHANGED <<hvars, wvars>>
        /\ IF active = None THEN down' = down ELSE down' = Append(down, Message("abort", active))
    BY DEF RejectOutstanding
  <1>2. errors' # 0  BY <1>1 DEF Typed, WorkerOK
  <1>3. CASE active = None
    BY <1>1, <1>2, <1>3 DEF Serial, ClosedIsIdle, RequestsApart, hvars, wvars
  <1>4. CASE active # None
    <2> DEFINE m == Message("abort", active)
    <2>1. m \in [type : DownTypes, id : Ids] /\ m.type = "abort"
      BY <1>4 DEF Message, DownTypes, Typed, HostOK
    <2>2. down' = Append(down, m)  BY <1>1, <1>4
    <2> HIDE DEF m
    <2> QED BY <1>1, <1>2, <2>1, <2>2, PostSerial DEF hvars, wvars
  <1> QED BY <1>3, <1>4

LEMMA WorkerSerial ==
  ASSUME Typed, Serial, WorkerReceives \/ WorkerSteps
  PROVE  Serial'
  <1> DEFINE m == Head(down)
  <1>u. UpTypes = {"event", "done", "result", "error"}  BY DEF UpTypes
  <1>1. ASSUME NEW type, Dispatch(type)
        PROVE  /\ down # <<>> /\ down' = Tail(down) /\ m.type = type /\ m.id \in Ids
               /\ type \in {"load", "query", "unload"} => m.id # active
    <2>1. down # <<>> /\ down' = Tail(down) /\ m.type = type  BY <1>1 DEF Dispatch
    <2>2. m.id \in Ids  BY <2>1, TailWire DEF Typed
    <2>3. m = down[1] /\ 1 \in 1 .. Len(down)
      BY <2>1, TailParts DEF Typed, WireOK
    <2> QED BY <2>1, <2>2, <2>3 DEF Serial, RequestsApart
  <1>2. ASSUME NEW type \in {"load", "query", "unload"}, Dispatch(type),
               NEW answer \in UpTypes, Reply(answer, m.id),
               UNCHANGED <<active, closed, calls, errors>>, worker'.round = worker.round,
               errors = 0 => refused' = refused
        PROVE  Serial'
    <2>1. Busy => Busy'  BY <1>1, <1>2, ReplyBusy
    <2> QED BY <1>1, <1>2, <2>1, TakeSerial
  <1>3. CASE WorkerAborts
    <2>1. /\ Dispatch("abort") /\ UNCHANGED <<active, closed, calls, up, errors, refused>>
          /\ worker'.round = worker.round
      BY <1>3 DEF WorkerAborts, hvars, Typed, WorkerOK
    <2>2. Busy => Busy'  BY <2>1 DEF Busy
    <2> QED BY <1>1, <2>1, <2>2, TakeSerial
  <1>4. CASE WorkerLoads
    <2>1. /\ Dispatch("load")
          /\ Reply("result", m.id) \/ Reply("error", m.id)
          /\ UNCHANGED <<active, closed, calls, errors, refused>> /\ worker'.round = worker.round
      BY <1>4 DEF WorkerLoads, hvars, Typed, WorkerOK
    <2> QED BY <1>2, <1>u, <2>1
  <1>5. CASE WorkerAnswers
    BY <1>2, <1>5, <1>u DEF WorkerAnswers, hvars, wvars
  <1>6. CASE WorkerRefuses
    <2>1. /\ Dispatch("generate") \/ Dispatch("unload")
          /\ worker.round # None /\ Reply("error", m.id)
          /\ UNCHANGED <<active, closed, calls, worker, errors>>
      BY <1>6 DEF WorkerRefuses, hvars
    <2>2. errors # 0
      <3>1. m = down[1] /\ 1 \in 1 .. Len(down) /\ Work(m)
        BY <1>1, <2>1, TailParts DEF Typed, WireOK, Work
      <3> QED BY <2>1, <3>1 DEF Serial, RoundRuns
    <2> QED BY <1>1, <2>1, <2>2, TakeSerial
  <1>7. CASE WorkerCannot
    <2>1. /\ Reply("error", m.id) /\ UNCHANGED <<active, closed, calls, worker, errors, refused>>
      BY <1>7 DEF WorkerCannot, hvars, wvars
    <2>2. CASE Dispatch("unload")
      BY <1>2, <1>u, <2>1, <2>2
    <2>3. CASE Dispatch("generate")
      <3>1. errors = 0 => worker.round = None
        <4>1. m = down[1] /\ 1 \in 1 .. Len(down) /\ Work(m)
          BY <1>1, <2>3, TailParts DEF Typed, WireOK, Work
        <4> QED BY <4>1 DEF Serial, RoundRuns
      <3> QED BY <2>1, <2>3, <3>1, TakeRoundSerial
    <2> QED BY <1>7, <2>2, <2>3 DEF WorkerCannot
  <1>8. CASE WorkerBegins
    <2>1. /\ Dispatch("generate") /\ UNCHANGED <<active, closed, calls, up, errors, refused>>
          /\ worker'.round = m.id
      BY <1>8 DEF WorkerBegins, hvars, Typed, WorkerOK
    <2>2. Busy => Busy'  BY <2>1 DEF Busy
    <2> QED BY <2>1, <2>2, TakeRoundSerial
  <1>9. CASE WorkerUnloads
    <2>1. /\ Dispatch("unload") /\ Reply("result", m.id)
          /\ UNCHANGED <<active, closed, calls, errors, refused>> /\ worker'.round = worker.round
      BY <1>9 DEF WorkerUnloads, hvars, Typed, WorkerOK
    <2> QED BY <1>2, <1>u, <2>1
  <1>10. CASE WorkerSteps
    <2> DEFINE i == worker.round
    <2>1. i # None /\ i \in Ids /\ UNCHANGED <<active, closed, calls, down, refused, errors>>
      BY <1>10 DEF WorkerSteps, hvars, Typed, WorkerOK
    <2>2. CASE Reply("event", i) /\ worker' = worker
      <3>1. Busy => Busy'  BY <1>u, <2>1, <2>2, ReplyBusy
      <3> QED BY <2>1, <2>2, <3>1, SameSerial
    <2>3. CASE worker'.round = None
      <3>1. errors = 0 => \A k \in 1 .. Len(down) : ~Work(down[k])
        BY <2>1 DEF Serial, RoundRuns
      <3> QED
        BY <2>1, <2>3, <3>1 DEF Serial, ClosedIsIdle, RequestsApart, RoundRuns, RoundWaits, Work
    <2> QED BY <1>10, <2>2, <2>3 DEF WorkerSteps, Typed, WorkerOK
  <1> QED BY <1>3, <1>4, <1>5, <1>6, <1>7, <1>8, <1>9, <1>10 DEF WorkerReceives

LEMMA NextSerial == Typed /\ Serial /\ [BridgeNext]_bvars => Serial'
  <1> SUFFICES ASSUME Typed, Serial, [BridgeNext]_bvars PROVE Serial'  OBVIOUS
  <1>1. CASE UNCHANGED bvars
    BY <1>1, SameSerial DEF bvars, hvars, wvars, Busy
  <1> QED
    BY <1>1, HostCallSerial, GeneratorSerial, HostReceivesSerial, RejectSerial, WorkerSerial
    DEF BridgeNext, HostContinues

\* The worker never finds a native round still running when it is asked for the
\* next one, or to unload, however early callers leave their rounds, as long as
\* no worker error has come that belongs to no request.
THEOREM NativeRoundsAreSerial == BridgeSpec => []RoundsAreSerial
  <1>1. BridgeInit => Typed /\ Serial
    <2> SUFFICES ASSUME BridgeInit PROVE Serial  BY InitTyped
    <2>1. /\ down = <<>> /\ worker.round = None /\ refused = {}
      BY DEF BridgeInit, NoWorkerRound
    <2>2. \A k \in 1 .. Len(down) : FALSE  BY <2>1
    <2> QED BY <2>1, <2>2 DEF Serial, ClosedIsIdle, RequestsApart, RoundRuns, RoundWaits
  <1>2. Serial => RoundsAreSerial  BY DEF Serial, RoundsAreSerial
  <1> QED BY <1>1, <1>2, NextTyped, NextSerial, PTL DEF BridgeSpec

----------------------------------------------------------------------------
(* Rounds that their callers do not leave are handed over whole.           *)

DownMessage == [type : DownTypes, id : Ids]
UpMessage == [type : UpTypes, id : Ids]

\* The events of round i on their way to the host; a done message carries one.
Carried(u, i) == {k \in 1 .. Len(u) : u[k].id = i /\ u[k].type \in {"event", "done"}}
Told(u, i) == Cardinality(Carried(u, i))

AsksFor(m, i) == m.type = "generate" /\ m.id = i
NotAsked(d, i) == \A k \in 1 .. Len(d) : ~AsksFor(d[k], i)
NoWord(u, i) == \A k \in 1 .. Len(u) : u[k].id # i

\* Of one round: it is asked for once, then it runs, then its last message is
\* on the way, and never two of these at once.
Once(d, u, r, i) ==
  /\ \A j, k \in 1 .. Len(d) : AsksFor(d[j], i) /\ AsksFor(d[k], i) => j = k
  /\ ~NotAsked(d, i) => r # i /\ NoWord(u, i)
  /\ \A k \in 1 .. Len(u) : Final(u[k]) /\ u[k].id = i =>
       r # i /\ NotAsked(d, i) /\ \A j \in 1 .. Len(u) : j > k => u[j].id # i

\* Its end is its own: it did not fail, or with an error of the round.
Sound(c, own) == ~c.failed \/ own

\* Of one round: the events emitted are read, queued or on their way, unless
\* its caller has left it; nothing is on its way once it is done.
Handed(c, own, d, u, r, e, i) ==
  /\ c.pc = "over" => ~c.pending
  /\ Sound(c, own) =>
     /\ c.pc # "over" => c.pending
     /\ c.pc = "over" /\ ~c.leaving => c.done /\ c.events = 0
     /\ c.done => NotAsked(d, i) /\ r # i /\ NoWord(u, i)
     /\ ~(c.pc = "over" /\ c.leaving) => e = c.seen + c.events + Told(u, i)

\* Messages and the worker's round are about requests of the kind they name.
Generates(c, i) == c[i].kind = "generate"
DownKind(c, m) == m.type # "abort" => (Generates(c, m.id) <=> m.type = "generate")
UpKind(c, m) == m.type = "result" => ~Generates(c, m.id)
KindsOK(c, d, u, r) ==
  /\ \A k \in 1 .. Len(d) : DownKind(c, d[k])
  /\ \A k \in 1 .. Len(u) : UpKind(c, u[k])
  /\ r # None => Generates(c, r)

Own == errors = 0 /\ ~closed

Round(i) ==
  Generates(calls, i) =>
    /\ Once(down, up, worker.round, i)
    /\ Handed(calls[i], Own, down, up, worker.round, emitted[i], i)

HandedOver ==
  /\ KindsOK(calls, down, up, worker.round)
  /\ \A i \in Ids : i > sequence => calls[i] = Unused /\ emitted[i] = 0
  /\ \A i \in Ids : Round(i)
  /\ \A i \in Ids : calls[i].pc # "none" => Generates(calls, i)

\* Adding to a queue, and taking from it.
LEMMA GrownQueue ==
  ASSUME NEW S, NEW q \in Seq(S), NEW m \in S, NEW n, n = Append(q, m)
  PROVE  /\ Len(q) \in Nat /\ Len(n) = Len(q) + 1
         /\ \A k \in 1 .. Len(n) : (k \in 1 .. Len(q) /\ n[k] = q[k]) \/ (k = Len(q) + 1 /\ n[k] = m)
         /\ \A k \in 1 .. Len(q) : k \in 1 .. Len(n) /\ n[k] = q[k]
         /\ Len(q) + 1 \in 1 .. Len(n) /\ n[Len(q) + 1] = m
  <1>1. /\ Len(n) = Len(q) + 1 /\ Len(q) \in Nat
        /\ \A k \in 1 .. Len(q) : n[k] = q[k]
        /\ n[Len(q) + 1] = m
    BY AppendParts
  <1> QED BY <1>1

LEMMA ShrunkQueue ==
  ASSUME NEW S, NEW q \in Seq(S), q # <<>>, NEW n, n = Tail(q)
  PROVE  /\ Len(q) \in Nat /\ 1 \in 1 .. Len(q) /\ Len(n) = Len(q) - 1 /\ Head(q) = q[1] /\ Head(q) \in S
         /\ \A k \in 1 .. Len(n) : k + 1 \in 1 .. Len(q) /\ n[k] = q[k + 1]
         /\ \A k \in 1 .. Len(q) : k = 1 \/ (k - 1 \in 1 .. Len(n) /\ n[k - 1] = q[k])
  <1>1. /\ Len(n) = Len(q) - 1 /\ Len(q) \in Nat \ {0}
        /\ \A k \in 1 .. Len(n) : k + 1 \in 1 .. Len(q) /\ n[k] = q[k + 1]
        /\ Head(q) = q[1] /\ q[1] \in S
    BY TailParts
  <1>2. \A k \in 1 .. Len(q) : k = 1 \/ (k - 1 \in 1 .. Len(n) /\ (k - 1) + 1 = k)
    BY <1>1
  <1>3. \A k \in 1 .. Len(q) : k = 1 \/ (k - 1 \in 1 .. Len(n) /\ n[k - 1] = q[k])
    BY <1>1, <1>2
  <1> QED BY <1>1, <1>3

LEMMA AskedGrows ==
  ASSUME NEW d \in Seq(DownMessage), NEW m \in DownMessage, NEW n, n = Append(d, m), NEW i
  PROVE  NotAsked(n, i) <=> NotAsked(d, i) /\ ~AsksFor(m, i)
  BY GrownQueue DEF NotAsked

LEMMA AskedShrinks ==
  ASSUME NEW d \in Seq(DownMessage), d # <<>>, NEW n, n = Tail(d), NEW i
  PROVE  NotAsked(d, i) <=> NotAsked(n, i) /\ ~AsksFor(Head(d), i)
  <1>1. /\ 1 \in 1 .. Len(d) /\ Head(d) = d[1]
        /\ \A k \in 1 .. Len(n) : k + 1 \in 1 .. Len(d) /\ n[k] = d[k + 1]
        /\ \A k \in 1 .. Len(d) : k = 1 \/ (k - 1 \in 1 .. Len(n) /\ n[k - 1] = d[k])
    BY ShrunkQueue
  <1>2. NotAsked(d, i) => NotAsked(n, i) /\ ~AsksFor(Head(d), i)
    BY <1>1 DEF NotAsked
  <1>3. NotAsked(n, i) /\ ~AsksFor(Head(d), i) => NotAsked(d, i)
    BY <1>1 DEF NotAsked
  <1> QED BY <1>2, <1>3

LEMMA WordGrows ==
  ASSUME NEW u \in Seq(UpMessage), NEW m \in UpMessage, NEW n, n = Append(u, m), NEW i
  PROVE  NoWord(n, i) <=> NoWord(u, i) /\ m.id # i
  BY GrownQueue DEF NoWord

LEMMA WordShrinks ==
  ASSUME NEW u \in Seq(UpMessage), u # <<>>, NEW n, n = Tail(u), NEW i
  PROVE  NoWord(u, i) <=> NoWord(n, i) /\ Head(u).id # i
  <1>1. /\ 1 \in 1 .. Len(u) /\ Head(u) = u[1]
        /\ \A k \in 1 .. Len(n) : k + 1 \in 1 .. Len(u) /\ n[k] = u[k + 1]
        /\ \A k \in 1 .. Len(u) : k = 1 \/ (k - 1 \in 1 .. Len(n) /\ n[k - 1] = u[k])
    BY ShrunkQueue
  <1>2. NoWord(u, i) => NoWord(n, i) /\ Head(u).id # i  BY <1>1 DEF NoWord
  <1>3. NoWord(n, i) /\ Head(u).id # i => NoWord(u, i)  BY <1>1 DEF NoWord
  <1> QED BY <1>2, <1>3

LEMMA CarriedFinite ==
  ASSUME NEW u \in Seq(UpMessage), NEW i
  PROVE  IsFiniteSet(Carried(u, i)) /\ Told(u, i) \in Nat /\ (NoWord(u, i) => Told(u, i) = 0)
  <1>1. Len(u) \in Nat  OBVIOUS
  <1>2. IsFiniteSet(1 .. Len(u))  BY <1>1, FS_Interval
  <1>3. Carried(u, i) \in SUBSET (1 .. Len(u))  BY DEF Carried
  <1>4. IsFiniteSet(Carried(u, i))  BY <1>2, <1>3, FS_Subset
  <1>5. NoWord(u, i) => Carried(u, i) = {}  BY DEF NoWord, Carried
  <1> QED BY <1>4, <1>5, FS_CardinalityType, FS_EmptySet DEF Told

Counts(m, i) == m.id = i /\ m.type \in {"event", "done"}

LEMMA ToldGrows ==
  ASSUME NEW u \in Seq(UpMessage), NEW m \in UpMessage, NEW n, n = Append(u, m), NEW i
  PROVE  Told(n, i) = IF Counts(m, i) THEN Told(u, i) + 1 ELSE Told(u, i)
  <1> DEFINE l == Len(u) + 1
  <1>1. IsFiniteSet(Carried(u, i))  BY CarriedFinite
  <1>2. /\ Len(u) \in Nat
        /\ \A k \in 1 .. Len(n) : (k \in 1 .. Len(u) /\ n[k] = u[k]) \/ (k = l /\ n[k] = m)
        /\ \A k \in 1 .. Len(u) : k \in 1 .. Len(n) /\ n[k] = u[k]
        /\ l \in 1 .. Len(n) /\ n[l] = m
    BY GrownQueue
  <1>3. l \notin Carried(u, i)  BY <1>2 DEF Carried
  <1> HIDE DEF l
  <1>4. CASE Counts(m, i)
    <2>1. Carried(n, i) = Carried(u, i) \cup {l}  BY <1>2, <1>4 DEF Carried, Counts
    <2> QED BY <1>1, <1>3, <1>4, <2>1, FS_AddElement DEF Told
  <1>5. CASE ~Counts(m, i)
    <2>1. Carried(n, i) = Carried(u, i)  BY <1>2, <1>5 DEF Carried, Counts
    <2> QED BY <1>5, <2>1 DEF Told
  <1> QED BY <1>4, <1>5

LEMMA ToldShrinks ==
  ASSUME NEW u \in Seq(UpMessage), u # <<>>, NEW n, n = Tail(u), NEW i
  PROVE  Told(n, i) = IF Counts(Head(u), i) THEN Told(u, i) - 1 ELSE Told(u, i)
  <1> DEFINE R == Carried(u, i) \ {1}
             T == Carried(n, i)
  <1>1. IsFiniteSet(Carried(u, i)) /\ Told(u, i) \in Nat  BY CarriedFinite
  <1>2. /\ Len(u) \in Nat /\ 1 \in 1 .. Len(u) /\ Head(u) = u[1] /\ Len(n) = Len(u) - 1
        /\ \A k \in 1 .. Len(n) : k + 1 \in 1 .. Len(u) /\ n[k] = u[k + 1]
        /\ \A k \in 1 .. Len(u) : k = 1 \/ (k - 1 \in 1 .. Len(n) /\ n[k - 1] = u[k])
    BY ShrunkQueue
  <1>3. 1 \in Carried(u, i) <=> Counts(Head(u), i)  BY <1>2 DEF Carried, Counts
  <1>4. IsFiniteSet(R) /\ Cardinality(R) = IF Counts(Head(u), i) THEN Told(u, i) - 1 ELSE Told(u, i)
    BY <1>1, <1>3, FS_RemoveElement DEF Told
  <1>5. Cardinality(T) = Cardinality(R)
    <2> DEFINE f == [k \in R |-> k - 1]
    <2>1. \A k \in R : k \in 1 .. Len(u) /\ k # 1 /\ k \in Int /\ u[k].id = i /\ u[k].type \in {"event", "done"}
      BY <1>2 DEF Carried
    <2>2. \A k \in R : k - 1 \in T  BY <1>2, <2>1 DEF Carried
    <2>3. \A k \in T : k + 1 \in R /\ (k + 1) - 1 = k  BY <1>2 DEF Carried
    <2>4. f \in [R -> T]  BY <2>2
    <2>5. \A a, b \in R : f[a] = f[b] => a = b  BY <2>1
    <2>6. \A t \in T : \E k \in R : f[k] = t
      <3> SUFFICES ASSUME NEW t \in T PROVE \E k \in R : f[k] = t  OBVIOUS
      <3>1. t + 1 \in R /\ f[t + 1] = t  BY <2>3
      <3> QED BY <3>1
    <2> HIDE DEF f, R, T
    <2>7. f \in Injection(R, T)  BY <2>4, <2>5 DEF Injection, IsInjective
    <2>8. f \in Surjection(R, T)  BY <2>4, <2>6 DEF Surjection
    <2>9. ExistsBijection(R, T)  BY <2>7, <2>8 DEF ExistsBijection, Bijection
    <2> QED BY <1>4, <2>9, FS_Bijection
  <1> QED BY <1>4, <1>5 DEF Told

\* The three parts of Once, by name.
AskedOnce(d, i) ==
  \A j, k \in 1 .. Len(d) : AsksFor(d[j], i) /\ AsksFor(d[k], i) => j = k
EndsLast(d, u, r, i) ==
  \A k \in 1 .. Len(u) : Final(u[k]) /\ u[k].id = i =>
    r # i /\ NotAsked(d, i) /\ \A j \in 1 .. Len(u) : j > k => u[j].id # i

LEMMA OnceParts ==
  ASSUME NEW d, NEW u, NEW r, NEW i
  PROVE  Once(d, u, r, i) <=>
           /\ AskedOnce(d, i) /\ (~NotAsked(d, i) => r # i /\ NoWord(u, i)) /\ EndsLast(d, u, r, i)
  BY DEF Once, AskedOnce, EndsLast

LEMMA OncePosts ==
  ASSUME NEW d \in Seq(DownMessage), NEW m \in DownMessage, NEW n, n = Append(d, m),
         NEW u, NEW r, NEW i, Once(d, u, r, i), ~AsksFor(m, i)
  PROVE  Once(n, u, r, i)
  <1>1. NotAsked(n, i) <=> NotAsked(d, i)  BY AskedGrows
  <1>2. AskedOnce(n, i)
    <2>1. \A k \in 1 .. Len(n) : (k \in 1 .. Len(d) /\ n[k] = d[k]) \/ n[k] = m
      BY GrownQueue
    <2>2. AskedOnce(d, i)  BY OnceParts
    <2> QED BY <2>1, <2>2 DEF AskedOnce
  <1> QED BY <1>1, <1>2, OnceParts DEF EndsLast

LEMMA OnceTakes ==
  ASSUME NEW d \in Seq(DownMessage), d # <<>>, NEW n, n = Tail(d),
         NEW u, NEW r, NEW i, Once(d, u, r, i)
  PROVE  /\ Once(n, u, r, i)
         /\ AsksFor(Head(d), i) => NotAsked(n, i) /\ r # i /\ NoWord(u, i)
  <1>1. NotAsked(d, i) <=> NotAsked(n, i) /\ ~AsksFor(Head(d), i)
    BY AskedShrinks
  <1>2. /\ 1 \in 1 .. Len(d) /\ Head(d) = d[1]
        /\ \A k \in 1 .. Len(n) : k + 1 \in 1 .. Len(d) /\ n[k] = d[k + 1] /\ k \in Nat \ {0}
    BY ShrunkQueue
  <1>3. AskedOnce(d, i)  BY OnceParts
  <1>4. AskedOnce(n, i)
    <2> SUFFICES ASSUME NEW j \in 1 .. Len(n), NEW k \in 1 .. Len(n),
                        AsksFor(n[j], i), AsksFor(n[k], i)
                 PROVE  j = k
      BY DEF AskedOnce
    <2>1. j + 1 = k + 1  BY <1>2, <1>3 DEF AskedOnce
    <2> QED BY <1>2, <2>1
  <1>5. AsksFor(Head(d), i) => NotAsked(n, i)
    <2> SUFFICES ASSUME AsksFor(d[1], i), NEW k \in 1 .. Len(n), AsksFor(n[k], i)
                 PROVE  FALSE
      BY <1>2 DEF NotAsked
    <2>1. 1 = k + 1  BY <1>2, <1>3 DEF AskedOnce
    <2> QED BY <1>2, <2>1
  <1> QED BY <1>1, <1>4, <1>5, OnceParts DEF EndsLast

LEMMA OnceIdle ==
  ASSUME NEW d, NEW u, NEW r, NEW i, Once(d, u, r, i), NEW s, s # i
  PROVE  Once(d, u, s, i)
  BY DEF Once

LEMMA OnceHears ==
  ASSUME NEW u \in Seq(UpMessage), u # <<>>, NEW n, n = Tail(u),
         NEW d, NEW r, NEW i, Once(d, u, r, i)
  PROVE  /\ Once(d, n, r, i)
         /\ Final(Head(u)) /\ Head(u).id = i => r # i /\ NotAsked(d, i) /\ NoWord(n, i)
  <1>1. NoWord(u, i) => NoWord(n, i)  BY WordShrinks
  <1>2. /\ 1 \in 1 .. Len(u) /\ Head(u) = u[1]
        /\ \A k \in 1 .. Len(n) : k + 1 \in 1 .. Len(u) /\ n[k] = u[k + 1] /\ k \in Nat \ {0}
    BY ShrunkQueue
  <1>3. EndsLast(d, u, r, i)  BY OnceParts
  <1>4. EndsLast(d, n, r, i)
    <2> SUFFICES ASSUME NEW k \in 1 .. Len(n), Final(n[k]), n[k].id = i
                 PROVE  /\ r # i /\ NotAsked(d, i)
                        /\ \A j \in 1 .. Len(n) : j > k => n[j].id # i
      BY DEF EndsLast
    <2>1. /\ k + 1 \in 1 .. Len(u) /\ Final(u[k + 1]) /\ u[k + 1].id = i
      BY <1>2
    <2>2. r # i /\ NotAsked(d, i) /\ \A j \in 1 .. Len(u) : j > k + 1 => u[j].id # i
      BY <1>3, <2>1 DEF EndsLast
    <2>3. \A j \in 1 .. Len(n) : j > k => j + 1 > k + 1  BY <1>2
    <2> QED BY <1>2, <2>2, <2>3
  <1>5. Final(Head(u)) /\ Head(u).id = i => r # i /\ NotAsked(d, i) /\ NoWord(n, i)
    <2> SUFFICES ASSUME Final(u[1]), u[1].id = i
                 PROVE  r # i /\ NotAsked(d, i) /\ NoWord(n, i)
      BY <1>2
    <2>1. r # i /\ NotAsked(d, i) /\ \A j \in 1 .. Len(u) : j > 1 => u[j].id # i
      BY <1>2, <1>3 DEF EndsLast
    <2>2. \A k \in 1 .. Len(n) : k + 1 > 1  BY <1>2
    <2> QED BY <1>2, <2>1, <2>2 DEF NoWord
  <1> QED BY <1>1, <1>4, <1>5, OnceParts

\* A message of another round, and those of this one.
LEMMA OnceReplies ==
  ASSUME NEW u \in Seq(UpMessage), NEW m \in UpMessage, NEW n, n = Append(u, m),
         NEW d, NEW r, NEW i, Once(d, u, r, i), m.id # i
  PROVE  Once(d, n, r, i)
  <1>1. NoWord(n, i) <=> NoWord(u, i)  BY WordGrows
  <1>2. \A k \in 1 .. Len(n) : (k \in 1 .. Len(u) /\ n[k] = u[k]) \/ n[k] = m
    BY GrownQueue
  <1>3. EndsLast(d, u, r, i)  BY OnceParts
  <1>4. EndsLast(d, n, r, i)  BY <1>2, <1>3 DEF EndsLast
  <1> QED BY <1>1, <1>4, OnceParts

LEMMA OnceEmits ==
  ASSUME NEW u \in Seq(UpMessage), NEW m \in UpMessage, NEW n, n = Append(u, m),
         NEW d, NEW r, NEW i, Once(d, u, r, i), r = i, ~Final(m)
  PROVE  Once(d, n, r, i)
  <1>1. AskedOnce(d, i) /\ NotAsked(d, i) /\ EndsLast(d, u, r, i)  BY OnceParts
  <1>2. \A k \in 1 .. Len(n) : (k \in 1 .. Len(u) /\ n[k] = u[k]) \/ n[k] = m
    BY GrownQueue
  <1>3. EndsLast(d, n, r, i)  BY <1>1, <1>2 DEF EndsLast
  <1> QED BY <1>1, <1>3, OnceParts

LEMMA OnceEnds ==
  ASSUME NEW u \in Seq(UpMessage), NEW m \in UpMessage, NEW n, n = Append(u, m),
         NEW d, NEW r, NEW i, Once(d, u, r, i), NotAsked(d, i), r = i \/ NoWord(u, i),
         NEW s, s # i
  PROVE  Once(d, n, s, i)
  <1>1. AskedOnce(d, i) /\ EndsLast(d, u, r, i)  BY OnceParts
  <1>2. \A k \in 1 .. Len(u) : ~(Final(u[k]) /\ u[k].id = i)
    BY <1>1 DEF EndsLast, NoWord
  <1>3. /\ \A k \in 1 .. Len(n) : (k \in 1 .. Len(u) /\ n[k] = u[k]) \/ k = Len(u) + 1
        /\ Len(n) = Len(u) + 1 /\ Len(u) \in Nat
    BY GrownQueue
  <1>4. ASSUME NEW k \in 1 .. Len(n), Final(n[k]), n[k].id = i
        PROVE  s # i /\ NotAsked(d, i) /\ \A j \in 1 .. Len(n) : j > k => n[j].id # i
    <2>1. k = Len(u) + 1  BY <1>2, <1>3, <1>4
    <2>2. \A j \in 1 .. Len(n) : ~(j > k)  BY <1>3, <2>1
    <2> QED BY <2>2
  <1>5. EndsLast(d, n, s, i)  BY <1>4 DEF EndsLast
  <1> QED BY <1>1, <1>5, OnceParts

LEMMA OnceNew ==
  ASSUME NEW d \in Seq(DownMessage), NEW m \in DownMessage, NEW n, n = Append(d, m) \/ n = d,
         NEW u, NEW r, NEW i, NotAsked(d, i), NoWord(u, i), r # i
  PROVE  Once(n, u, r, i)
  <1>1. AskedOnce(n, i)
    <2>1. CASE n = d  BY <2>1 DEF AskedOnce, NotAsked
    <2>2. CASE n = Append(d, m)
      <3>1. \A k \in 1 .. Len(n) : (k \in 1 .. Len(d) /\ n[k] = d[k]) \/ k = Len(d) + 1
        BY <2>2, GrownQueue
      <3> QED BY <3>1 DEF AskedOnce, NotAsked
    <2> QED BY <2>1, <2>2
  <1>2. EndsLast(n, u, r, i)  BY DEF EndsLast, NoWord
  <1> QED BY <1>1, <1>2, OnceParts

\* Nothing of the round changes but what can no longer disturb it.
LEMMA HandedRests ==
  ASSUME NEW c, NEW own, NEW d, NEW u, NEW r, NEW e, NEW i, Handed(c, own, d, u, r, e, i),
         NEW more, more => own, NEW f, NotAsked(d, i) => NotAsked(f, i),
         NEW s, r # i => s # i
  PROVE  Handed(c, more, f, u, s, e, i)
  BY DEF Handed, Sound

\* A round that runs, or is asked for, is not over.
LEMMA HandedRuns ==
  ASSUME NEW c, NEW own, NEW d, NEW u, NEW r, NEW e, NEW i, Handed(c, own, d, u, r, e, i),
         r = i \/ ~NotAsked(d, i), NEW f, NEW s
  PROVE  Handed(c, own, f, u, s, e, i)
  BY DEF Handed, Sound

LEMMA HandedReplies ==
  ASSUME NEW u \in Seq(UpMessage), NEW m \in UpMessage, NEW n, n = Append(u, m),
         NEW c, NEW own, NEW d, NEW r, NEW e, NEW i, Handed(c, own, d, u, r, e, i), m.id # i
  PROVE  Handed(c, own, d, n, r, e, i)
  <1>1. NoWord(n, i) <=> NoWord(u, i)  BY WordGrows
  <1>2. ~Counts(m, i)  BY DEF Counts
  <1>3. Told(n, i) = Told(u, i)  BY <1>2, ToldGrows
  <1> QED BY <1>1, <1>3 DEF Handed

\* The worker tells of an event, or of the end, of a round that is not over.
LEMMA HandedEmits ==
  ASSUME NEW u \in Seq(UpMessage), NEW m \in UpMessage, NEW n, n = Append(u, m),
         NEW c \in CallRecord, NEW own, NEW d, NEW e \in Nat, NEW i,
         Handed(c, own, d, u, i, e, i),
         NEW f, NEW s, NEW g, g = IF Counts(m, i) THEN e + 1 ELSE e
  PROVE  Handed(c, own, f, n, s, g, i)
  <1>1. Told(n, i) = IF Counts(m, i) THEN Told(u, i) + 1 ELSE Told(u, i)  BY ToldGrows
  <1>2. Told(u, i) \in Nat /\ c.seen \in Nat /\ c.events \in Nat  BY CarriedFinite DEF CallRecord
  <1>3. e = c.seen + c.events + Told(u, i) => g = c.seen + c.events + Told(n, i)
    <2> DEFINE a == c.seen + c.events
    <2>1. a \in Nat  BY <1>2
    <2> HIDE DEF a
    <2>2. e = a + Told(u, i) => g = a + Told(n, i)  BY <1>1, <1>2, <2>1
    <2> QED BY <2>2 DEF a
  <1> QED BY <1>3 DEF Handed, Sound

\* The request of a round is refused.
LEMMA HandedRefused ==
  ASSUME NEW u \in Seq(UpMessage), NEW m \in UpMessage, NEW n, n = Append(u, m),
         NEW c, NEW own, NEW d, NEW r, NEW e, NEW i,
         Handed(c, own, d, u, r, e, i), ~NotAsked(d, i), ~Counts(m, i), NEW f, NEW s
  PROVE  Handed(c, own, f, n, s, e, i)
  <1>1. Told(n, i) = Told(u, i)  BY ToldGrows
  <1> QED BY <1>1 DEF Handed, Sound

\* Every pending request is rejected: what is left are rounds that are over.
LEMMA HandedFails ==
  ASSUME NEW u \in Seq(UpMessage), NEW n, n = u \/ (u # <<>> /\ n = Tail(u)) \/ n = <<>>,
         NEW c \in CallRecord, NEW own, NEW d, NEW r, NEW e, NEW i, Handed(c, own, d, u, r, e, i),
         NEW f, NotAsked(d, i) => NotAsked(f, i), NEW s, r # i => s # i
  PROVE  Handed(Failed(c), FALSE, f, n, s, e, i)
  <1>1. NoWord(u, i) => NoWord(n, i)
    <2>1. CASE n = <<>>  BY <2>1 DEF NoWord
    <2>2. CASE u # <<>> /\ n = Tail(u)  BY <2>2, WordShrinks
    <2> QED BY <2>1, <2>2
  <1>2. n \in Seq(UpMessage)
    <2>1. CASE n = <<>>  BY <2>1
    <2>2. CASE u # <<>> /\ n = Tail(u)  BY <2>2, TailParts
    <2> QED BY <2>1, <2>2
  <1>3. CASE c.pending
    <2> DEFINE t == [c EXCEPT !.pending = FALSE, !.failed = TRUE, !.done = TRUE]
    <2>1. Failed(c) = t  BY <1>3 DEF Failed
    <2>2. ~t.pending /\ t.failed  BY DEF CallRecord
    <2> HIDE DEF t
    <2> QED BY <2>1, <2>2 DEF Handed, Sound
  <1>4. CASE ~c.pending
    <2>1. Failed(c) = c  BY <1>4 DEF Failed
    <2>2. c.done /\ Sound(c, FALSE) => NoWord(u, i)  BY DEF Handed, Sound
    <2>3. NoWord(u, i) => Told(n, i) = Told(u, i)  BY <1>1, <1>2, CarriedFinite
    <2> QED BY <1>1, <1>4, <2>1, <2>2, <2>3 DEF Handed, Sound
  <1> QED BY <1>3, <1>4

\* A message to the host reaches its round, or comes after the round is over.
LEMMA HandedHears ==
  ASSUME NEW u \in Seq(UpMessage), u # <<>>, NEW n, n = Tail(u),
         NEW c \in CallRecord, NEW own, NEW d, NEW r, NEW e, NEW i,
         Once(d, u, r, i), Handed(c, own, d, u, r, e, i), c.kind = "generate",
         Head(u).id = i => Head(u).type # "result",
         NEW t, t = IF Head(u).id = i /\ c.pending THEN Delivered(c, Head(u).type) ELSE c
  PROVE  Handed(t, own, d, n, r, e, i)
  <1> DEFINE m == Head(u)
             a == c.seen + c.events
  <1>1. m \in UpMessage  BY ShrunkQueue
  <1>2. NoWord(u, i) <=> NoWord(n, i) /\ m.id # i  BY WordShrinks
  <1>3. Told(n, i) = IF Counts(m, i) THEN Told(u, i) - 1 ELSE Told(u, i)  BY ToldShrinks
  <1>4. Final(m) /\ m.id = i => r # i /\ NotAsked(d, i) /\ NoWord(n, i)  BY OnceHears
  <1>5. Told(u, i) \in Nat /\ c.seen \in Nat /\ c.events \in Nat /\ a \in Nat
    BY CarriedFinite DEF CallRecord
  <1> HIDE DEF m
  <1>6. CASE m.id # i
    BY <1>2, <1>3, <1>6 DEF Handed, Counts, m
  <1>7. CASE m.id = i /\ ~c.pending
    BY <1>2, <1>7 DEF Handed, m
  <1>8. CASE m.id = i /\ c.pending /\ m.type = "event"
    <2> DEFINE v == c.events + 1
               w == [c EXCEPT !.events = v]
    <2>1. t = w  BY <1>8 DEF Delivered, m
    <2>2. /\ w.pending = c.pending /\ w.pc = c.pc /\ w.failed = c.failed /\ w.leaving = c.leaving
          /\ w.done = c.done /\ w.seen = c.seen /\ w.events = v
      BY DEF CallRecord
    <2>3. Counts(m, i)  BY <1>8 DEF Counts
    <2>4. e = a + Told(u, i) => e = c.seen + v + Told(n, i)  BY <1>3, <1>5, <2>3
    <2>5. c.pc # "over"  BY <1>8 DEF Handed
    <2>6. ~(Sound(c, own) /\ c.done)  BY <1>2, <1>8 DEF Handed
    <2> HIDE DEF v, w
    <2> QED BY <1>8, <2>1, <2>2, <2>4, <2>5, <2>6 DEF Handed, Sound
  <1>9. CASE m.id = i /\ c.pending /\ m.type = "done"
    <2> DEFINE v == c.events + 1
               w == [c EXCEPT !.events = v, !.done = TRUE]
    <2>1. t = w  BY <1>9 DEF Delivered, m
    <2>2. /\ w.pending = c.pending /\ w.pc = c.pc /\ w.failed = c.failed /\ w.leaving = c.leaving
          /\ w.seen = c.seen /\ w.events = v
      BY DEF CallRecord
    <2>3. Counts(m, i) /\ Final(m)  BY <1>9 DEF Counts, Final
    <2>4. e = a + Told(u, i) => e = c.seen + v + Told(n, i)  BY <1>3, <1>5, <2>3
    <2>5. c.pc # "over"  BY <1>9 DEF Handed
    <2> HIDE DEF v, w
    <2> QED BY <1>4, <1>9, <2>1, <2>2, <2>3, <2>4, <2>5 DEF Handed, Sound
  <1>10. CASE m.id = i /\ c.pending /\ m.type = "error"
    <2> DEFINE w == [c EXCEPT !.pending = TRUE, !.failed = TRUE, !.done = TRUE]
    <2>1. t = w  BY <1>10 DEF Delivered, m
    <2>2. /\ w.pending /\ w.pc = c.pc /\ w.failed /\ w.leaving = c.leaving
          /\ w.seen = c.seen /\ w.events = c.events
      BY DEF CallRecord
    <2>3. ~Counts(m, i) /\ Final(m)  BY <1>10 DEF Counts, Final
    <2>5. c.pc # "over"  BY <1>10 DEF Handed
    <2> HIDE DEF w
    <2> QED BY <1>3, <1>4, <1>10, <2>1, <2>2, <2>3, <2>5 DEF Handed, Sound
  <1> QED BY <1>1, <1>6, <1>7, <1>8, <1>9, <1>10 DEF UpMessage, UpTypes, m

\* The generator takes a step and is not over, or it ends.
LEMMA HandedMoves ==
  ASSUME NEW c, NEW own, NEW d, NEW u, NEW r, NEW e, NEW i, Handed(c, own, d, u, r, e, i),
         NEW t, c.pc # "over", t.pc # "over", t.pending = c.pending, t.failed = c.failed,
         t.done = c.done, t.seen + t.events = c.seen + c.events
  PROVE  Handed(t, own, d, u, r, e, i)
  BY DEF Handed, Sound

LEMMA HandedLeaves ==
  ASSUME NEW c \in CallRecord, NEW own, NEW d, NEW u, NEW r, NEW e, NEW i,
         Handed(c, own, d, u, r, e, i), c.pc # "over", c.pc = "wait" => c.done /\ c.events = 0,
         NEW t, t = [c EXCEPT !.pending = FALSE, !.pc = "over", !.leaving = (c.pc # "wait")]
  PROVE  Handed(t, own, d, u, r, e, i)
  <1>1. /\ ~t.pending /\ t.pc = "over" /\ t.leaving = (c.pc # "wait") /\ t.failed = c.failed
        /\ t.done = c.done /\ t.seen = c.seen /\ t.events = c.events
    BY DEF CallRecord
  <1> QED BY <1>1 DEF Handed, Sound

\* A new round, whose request is on its way or could not be posted.
LEMMA HandedNew ==
  ASSUME NEW u \in Seq(UpMessage), NEW d, NEW r, NEW i, NoWord(u, i), r # i,
         NEW c, c.seen = 0, c.events = 0, ~c.leaving,
         \/ c.pc = "wait" /\ c.pending /\ ~c.done
         \/ c.pc = "over" /\ ~c.pending /\ c.done /\ NotAsked(d, i),
         NEW own
  PROVE  Handed(c, own, d, u, r, 0, i)
  <1>1. Told(u, i) = 0  BY CarriedFinite
  <1>2. 0 = c.seen + c.events + Told(u, i)  BY <1>1
  <1> QED BY <1>2 DEF Handed

LEMMA KindsKept ==
  ASSUME NEW d \in Seq(DownMessage), NEW u \in Seq(UpMessage), NEW r \in Ids \cup {None},
         NEW c, KindsOK(c, d, u, r), NEW t, \A i \in Ids : t[i].kind = c[i].kind
  PROVE  KindsOK(t, d, u, r)
  <1>1. \A k \in 1 .. Len(d) : d[k] \in DownMessage  BY ElementParts
  <1>2. \A k \in 1 .. Len(u) : u[k] \in UpMessage  BY ElementParts
  <1>3. \A k \in 1 .. Len(d) : d[k].id \in Ids  BY <1>1 DEF DownMessage
  <1>4. \A k \in 1 .. Len(u) : u[k].id \in Ids  BY <1>2 DEF UpMessage
  <1> QED BY <1>3, <1>4 DEF KindsOK, DownKind, UpKind, Generates

LEMMA KindsPost ==
  ASSUME NEW d \in Seq(DownMessage), NEW m \in DownMessage, NEW n, n = Append(d, m),
         NEW u, NEW r, NEW c, KindsOK(c, d, u, r), DownKind(c, m)
  PROVE  KindsOK(c, n, u, r)
  <1>1. \A k \in 1 .. Len(n) : (k \in 1 .. Len(d) /\ n[k] = d[k]) \/ n[k] = m  BY GrownQueue
  <1> QED BY <1>1 DEF KindsOK

LEMMA KindsTake ==
  ASSUME NEW d \in Seq(DownMessage), d # <<>>, NEW n, n = Tail(d),
         NEW u, NEW r, NEW c, KindsOK(c, d, u, r)
  PROVE  KindsOK(c, n, u, r) /\ DownKind(c, Head(d))
  <1>1. /\ 1 \in 1 .. Len(d) /\ Head(d) = d[1]
        /\ \A k \in 1 .. Len(n) : k + 1 \in 1 .. Len(d) /\ n[k] = d[k + 1]
    BY ShrunkQueue
  <1> QED BY <1>1 DEF KindsOK

LEMMA KindsHear ==
  ASSUME NEW u \in Seq(UpMessage), u # <<>>, NEW n, n = Tail(u),
         NEW d, NEW r, NEW c, KindsOK(c, d, u, r)
  PROVE  KindsOK(c, d, n, r) /\ UpKind(c, Head(u))
  <1>1. /\ 1 \in 1 .. Len(u) /\ Head(u) = u[1]
        /\ \A k \in 1 .. Len(n) : k + 1 \in 1 .. Len(u) /\ n[k] = u[k + 1]
    BY ShrunkQueue
  <1> QED BY <1>1 DEF KindsOK

LEMMA KindsReply ==
  ASSUME NEW u \in Seq(UpMessage), NEW m \in UpMessage, NEW n, n = Append(u, m),
         NEW d, NEW r, NEW c, KindsOK(c, d, u, r), UpKind(c, m)
  PROVE  KindsOK(c, d, n, r)
  <1>1. \A k \in 1 .. Len(n) : (k \in 1 .. Len(u) /\ n[k] = u[k]) \/ n[k] = m  BY GrownQueue
  <1> QED BY <1>1 DEF KindsOK

\* The parts of the state these lemmas speak of.
LEMMA BridgeParts ==
  ASSUME Typed
  PROVE  /\ down \in Seq(DownMessage) /\ up \in Seq(UpMessage)
         /\ calls \in [Ids -> CallRecord] /\ emitted \in [Ids -> Nat]
         /\ worker.round \in Ids \cup {None} /\ sequence \in Nat
         /\ \A i \in Ids : i \in Nat /\ i # None
  BY BridgeAssumption DEF Typed, HostOK, CallsOK, WireOK, WorkerOK, DownMessage, UpMessage, Ids

\* An abort is posted, or nothing.
AbortPosted(d, n) == n = d \/ \E m \in DownMessage : m.type = "abort" /\ n = Append(d, m)

LEMMA AbortPostedKeeps ==
  ASSUME NEW d \in Seq(DownMessage), NEW n, AbortPosted(d, n), NEW u, NEW r
  PROVE  /\ \A c : KindsOK(c, d, u, r) => KindsOK(c, n, u, r)
         /\ \A i : (NotAsked(n, i) <=> NotAsked(d, i)) /\ (Once(d, u, r, i) => Once(n, u, r, i))
  <1>1. CASE n = d  BY <1>1
  <1>2. ASSUME NEW m \in DownMessage, m.type = "abort", n = Append(d, m)
        PROVE  /\ \A c : KindsOK(c, d, u, r) => KindsOK(c, n, u, r)
               /\ \A i : (NotAsked(n, i) <=> NotAsked(d, i)) /\ (Once(d, u, r, i) => Once(n, u, r, i))
    <2>1. \A c : DownKind(c, m)  BY <1>2 DEF DownKind
    <2>2. \A i : ~AsksFor(m, i)  BY <1>2 DEF AsksFor
    <2> QED BY <1>2, <2>1, <2>2, KindsPost, AskedGrows, OncePosts
  <1> QED BY <1>1, <1>2 DEF AbortPosted

LEMMA AbortIsPosted ==
  ASSUME Typed, NEW i \in Ids,
         down' = down \/ down' = Posted(Message("abort", i)) \/ down' = Append(down, Message("abort", i))
  PROVE  AbortPosted(down, down')
  <1>1. Message("abort", i) \in DownMessage /\ Message("abort", i).type = "abort"
    BY DEF Message, DownMessage, DownTypes
  <1> QED BY <1>1 DEF AbortPosted, Posted

\* One round, or none, takes a step of its own.
LEMMA MoveHanded ==
  ASSUME Typed, HandedOver, NEW i \in Ids, i <= sequence, NEW c,
         calls' = [calls EXCEPT ![i] = c], c.kind = calls[i].kind, calls[i].pc # "none",
         AbortPosted(down, down'), UNCHANGED <<closed, sequence, up, worker, emitted, errors>>,
         Handed(calls[i], Own, down, up, worker.round, emitted[i], i) =>
           Handed(c, Own, down, up, worker.round, emitted[i], i)
  PROVE  HandedOver'
  <1>p. /\ down \in Seq(DownMessage) /\ up \in Seq(UpMessage) /\ worker.round \in Ids \cup {None}
        /\ calls \in [Ids -> CallRecord] /\ sequence \in Nat /\ \A j \in Ids : j \in Nat
    BY BridgeParts
  <1>o. Own' = Own  BY DEF Own
  <1>1. calls'[i] = c /\ \A j \in Ids \ {i} : calls'[j] = calls[j]  BY <1>p
  <1>2. \A j \in Ids : calls'[j].kind = calls[j].kind  BY <1>1
  <1>3. KindsOK(calls', down', up', worker'.round)
    <2>1. KindsOK(calls', down, up, worker.round)  BY <1>p, <1>2, KindsKept DEF HandedOver
    <2> QED BY <1>p, <2>1, AbortPostedKeeps
  <1>4. \A j \in Ids : j > sequence => calls'[j] = Unused /\ emitted'[j] = 0
    BY <1>p, <1>1 DEF HandedOver
  <1>5. ASSUME NEW j \in Ids, Generates(calls', j)
        PROVE  Once(down', up', worker'.round, j)
               /\ Handed(calls'[j], Own', down', up', worker'.round, emitted'[j], j)
    <2>1. /\ Once(down, up, worker.round, j)
          /\ Handed(calls[j], Own, down, up, worker.round, emitted[j], j)
      BY <1>2, <1>5 DEF HandedOver, Round, Generates
    <2>2. Handed(calls'[j], Own, down, up, worker.round, emitted[j], j)
      BY <1>1, <2>1
    <2>3. NotAsked(down', j) <=> NotAsked(down, j)  BY <1>p, AbortPostedKeeps
    <2>4. Handed(calls'[j], Own, down', up, worker.round, emitted[j], j)
      BY <2>2, <2>3, HandedRests
    <2>5. Once(down', up, worker.round, j)  BY <1>p, <2>1, AbortPostedKeeps
    <2> QED BY <1>o, <2>4, <2>5
  <1>6. \A j \in Ids : calls'[j].pc # "none" => Generates(calls', j)
    BY <1>1, <1>2 DEF HandedOver, Generates
  <1> QED BY <1>3, <1>4, <1>5, <1>6 DEF HandedOver, Round

LEMMA SameHanded ==
  ASSUME Typed, HandedOver, AbortPosted(down, down'),
         UNCHANGED <<calls, closed, sequence, up, worker, emitted, errors>>
  PROVE  HandedOver'
  <1>p. down \in Seq(DownMessage)  BY BridgeParts
  <1>o. Own' = Own  BY DEF Own
  <1>1. KindsOK(calls', down', up', worker'.round)
    BY <1>p, AbortPostedKeeps DEF HandedOver
  <1>2. ASSUME NEW j \in Ids, Generates(calls, j)
        PROVE  Once(down', up, worker.round, j)
               /\ Handed(calls[j], Own, down', up, worker.round, emitted[j], j)
    <2>1. /\ Once(down, up, worker.round, j)
          /\ Handed(calls[j], Own, down, up, worker.round, emitted[j], j)
      BY <1>2 DEF HandedOver, Round
    <2>2. NotAsked(down', j) <=> NotAsked(down, j)  BY <1>p, AbortPostedKeeps
    <2>3. Handed(calls[j], Own, down', up, worker.round, emitted[j], j)
      BY <2>1, <2>2, HandedRests
    <2> QED BY <1>p, <2>1, <2>3, AbortPostedKeeps
  <1> QED BY <1>o, <1>1, <1>2 DEF HandedOver, Round

\* A request gets the next number, which no message names yet.
LEMMA NumberHanded ==
  ASSUME Typed, HandedOver, sequence' \in Ids, sequence' = sequence + 1,
         NEW c, calls' = [calls EXCEPT ![sequence'] = c],
         NEW m \in DownMessage, down' = down \/ down' = Append(down, m),
         m.id = sequence', m.type # "abort", m.type = "generate" <=> c.kind = "generate",
         UNCHANGED <<closed, up, worker, emitted, errors>>,
         c.kind # "generate" => c.pc = "none",
         c.kind = "generate" =>
           /\ c.seen = 0 /\ c.events = 0 /\ ~c.leaving
           /\ \/ c.pc = "wait" /\ c.pending /\ ~c.done
              \/ c.pc = "over" /\ ~c.pending /\ c.done /\ down' = down
  PROVE  HandedOver'
  <1> DEFINE s == sequence'
  <1>p. /\ down \in Seq(DownMessage) /\ up \in Seq(UpMessage) /\ worker.round \in Ids \cup {None}
        /\ calls \in [Ids -> CallRecord] /\ sequence \in Nat /\ \A j \in Ids : j \in Nat /\ j # None
    BY BridgeParts
  <1>o. Own' = Own  BY DEF Own
  <1>1. /\ \A k \in 1 .. Len(down) : down[k] \in DownMessage /\ down[k].id # s
        /\ \A k \in 1 .. Len(up) : up[k] \in UpMessage /\ up[k].id # s
        /\ worker.round # s
    <2>1. /\ \A k \in 1 .. Len(down) : down[k] \in DownMessage
          /\ \A k \in 1 .. Len(up) : up[k] \in UpMessage
      BY <1>p, ElementParts
    <2>2. /\ \A k \in 1 .. Len(down) : down[k].id \in Ids /\ down[k].id <= sequence
          /\ \A k \in 1 .. Len(up) : up[k].id \in Ids /\ up[k].id <= sequence
          /\ worker.round # None => worker.round <= sequence
      BY <2>1 DEF Typed, WireOK, WorkerOK, DownMessage, UpMessage
    <2> QED BY <1>p, <2>1, <2>2
  <1>2. NotAsked(down, s) /\ NoWord(up, s)  BY <1>1 DEF NotAsked, NoWord, AsksFor
  <1>3. calls'[s] = c /\ \A j \in Ids \ {s} : calls'[j] = calls[j]  BY <1>p
  <1>4. KindsOK(calls', down', up', worker'.round)
    <2>1. /\ \A k \in 1 .. Len(down) : DownKind(calls', down[k])
          /\ \A k \in 1 .. Len(up) : UpKind(calls', up[k])
          /\ worker.round # None => Generates(calls', worker.round)
      <3>1. /\ \A k \in 1 .. Len(down) : calls'[down[k].id] = calls[down[k].id]
            /\ \A k \in 1 .. Len(up) : calls'[up[k].id] = calls[up[k].id]
            /\ worker.round # None => calls'[worker.round] = calls[worker.round]
        BY <1>p, <1>1, <1>3 DEF DownMessage, UpMessage
      <3> QED BY <3>1 DEF HandedOver, KindsOK, DownKind, UpKind, Generates
    <2>2. KindsOK(calls', down, up, worker.round)  BY <2>1 DEF KindsOK
    <2>3. DownKind(calls', m)  BY <1>3 DEF DownKind, Generates
    <2> QED BY <1>p, <2>2, <2>3, KindsPost
  <1>5. \A j \in Ids : j > s => calls'[j] = Unused /\ emitted'[j] = 0
    BY <1>p, <1>3 DEF HandedOver
  <1>6. ASSUME NEW j \in Ids, Generates(calls', j)
        PROVE  Once(down', up, worker.round, j)
               /\ Handed(calls'[j], Own, down', up, worker.round, emitted[j], j)
    <2>1. CASE j = s
      <3>1. Once(down', up, worker.round, j)  BY <1>p, <1>1, <1>2, <2>1, OnceNew
      <3>2. c.kind = "generate"  BY <1>3, <1>6, <2>1 DEF Generates
      <3>3. emitted[j] = 0
        <4>1. j > sequence  BY <1>p, <2>1
        <4> QED BY <4>1 DEF HandedOver
      <3>4. Handed(c, Own, down', up, worker.round, 0, j)
        <4>1. c.pc = "over" => NotAsked(down', j)  BY <1>2, <2>1, <3>2
        <4> HIDE DEF s
        <4>2. c.seen = 0 /\ c.events = 0 /\ ~c.leaving
          BY <3>2
        <4>3. \/ c.pc = "wait" /\ c.pending /\ ~c.done
              \/ c.pc = "over" /\ ~c.pending /\ c.done /\ NotAsked(down', j)
          BY <3>2, <4>1
        <4> QED BY <1>p, <1>1, <1>2, <2>1, <4>2, <4>3, HandedNew
      <3> QED BY <1>3, <2>1, <3>1, <3>3, <3>4
    <2>2. CASE j # s
      <3>1. calls'[j] = calls[j]  BY <1>3, <2>2
      <3>2. /\ Once(down, up, worker.round, j)
            /\ Handed(calls[j], Own, down, up, worker.round, emitted[j], j)
        BY <1>6, <3>1 DEF HandedOver, Round, Generates
      <3>3. ~AsksFor(m, j)  BY <2>2 DEF AsksFor
      <3>4. NotAsked(down', j) <=> NotAsked(down, j)  BY <1>p, <3>3, AskedGrows
      <3>5. Once(down', up, worker.round, j)  BY <1>p, <3>2, <3>3, OncePosts
      <3>6. Handed(calls[j], Own, down', up, worker.round, emitted[j], j)
        BY <3>2, <3>4, HandedRests
      <3> QED BY <3>1, <3>5, <3>6
    <2> QED BY <2>1, <2>2
  <1>7. \A j \in Ids : calls'[j].pc # "none" => Generates(calls', j)
    BY <1>3 DEF HandedOver, Generates
  <1> QED BY <1>o, <1>4, <1>5, <1>6, <1>7 DEF HandedOver, Round

LEMMA RequestHanded ==
  ASSUME Typed, HandedOver, NEW kind \in {"load", "query", "generate", "unload"},
         NEW pc \in {"none", "wait"}, Request(kind, pc), kind = "generate" <=> pc = "wait",
         IF pc = "wait" THEN active = None /\ active' = sequence' ELSE active' = active,
         UNCHANGED <<closed, up, worker, emitted, errors>>
  PROVE  HandedOver'
  <1> DEFINE c == [Unused EXCEPT !.kind = kind, !.pending = TRUE, !.pc = pc]
             m == Message(kind, sequence')
  <1>1. sequence' \in Ids /\ sequence' = sequence + 1 /\ calls' = [calls EXCEPT ![sequence'] = c]
    BY RequestTyped
  <1>2. down' = Append(down, m)  BY DEF Request
  <1>3. m \in DownMessage /\ m.id = sequence' /\ m.type = kind /\ kind # "abort"
    BY <1>1 DEF Message, DownMessage, DownTypes
  <1>4. /\ c.kind = kind /\ c.seen = 0 /\ c.events = 0 /\ ~c.leaving /\ c.pc = pc /\ c.pending /\ ~c.done
    BY DEF Unused
  <1> HIDE DEF c, m
  <1> QED BY <1>1, <1>2, <1>3, <1>4, NumberHanded

LEMMA FailedKeeps ==
  ASSUME NEW c \in CallRecord
  PROVE  Failed(c).kind = c.kind /\ Failed(c).pc = c.pc /\ Failed(Unused) = Unused
  BY DEF Failed, CallRecord, Unused

\* Every pending request is rejected, with the worker terminated or not.
LEMMA FailHanded ==
  ASSUME Typed, HandedOver, calls' = [i \in Ids |-> Failed(calls[i])], ~Own',
         UNCHANGED <<sequence, emitted>>,
         \/ /\ AbortPosted(down, down') /\ worker' = worker
            /\ up' = up \/ (up # <<>> /\ up' = Tail(up))
         \/ down' = <<>> /\ up' = <<>> /\ worker'.round = None
  PROVE  HandedOver'
  <1>p. /\ down \in Seq(DownMessage) /\ up \in Seq(UpMessage) /\ worker.round \in Ids \cup {None}
        /\ calls \in [Ids -> CallRecord] /\ sequence \in Nat /\ \A j \in Ids : j \in Nat /\ j # None
    BY BridgeParts
  <1>1. \A j \in Ids : /\ calls'[j] = Failed(calls[j])
                       /\ calls'[j].kind = calls[j].kind /\ calls'[j].pc = calls[j].pc
    BY <1>p, FailedKeeps
  <1>2. \A j \in Ids : j > sequence => calls'[j] = Unused /\ emitted'[j] = 0
    <2>1. Unused \in CallRecord /\ Failed(Unused) = Unused  BY UnusedCall, FailedKeeps
    <2> QED BY <1>1, <2>1 DEF HandedOver
  <1>3. /\ KindsOK(calls', down', up', worker'.round)
        /\ \A j \in Ids : /\ NotAsked(down, j) => NotAsked(down', j)
                          /\ worker.round # j => worker'.round # j
                          /\ Once(down, up, worker.round, j) => Once(down', up', worker'.round, j)
    <2>1. CASE /\ AbortPosted(down, down') /\ worker' = worker
               /\ up' = up \/ (up # <<>> /\ up' = Tail(up))
      <3>1. KindsOK(calls', down, up, worker.round)  BY <1>p, <1>1, KindsKept DEF HandedOver
      <3>2. KindsOK(calls', down, up', worker.round)  BY <1>p, <2>1, <3>1, KindsHear
      <3>3. KindsOK(calls', down', up', worker.round)  BY <1>p, <2>1, <3>2, AbortPostedKeeps
      <3>4. \A j : NotAsked(down, j) => NotAsked(down', j)  BY <1>p, <2>1, AbortPostedKeeps
      <3>5. \A j : Once(down, up, worker.round, j) => Once(down, up', worker.round, j)
        BY <1>p, <2>1, OnceHears
      <3>6. \A j : Once(down, up', worker.round, j) => Once(down', up', worker.round, j)
        BY <1>p, <2>1, AbortPostedKeeps
      <3> QED BY <2>1, <3>3, <3>4, <3>5, <3>6
    <2>2. CASE down' = <<>> /\ up' = <<>> /\ worker'.round = None
      <3>1. \A j \in Ids : NotAsked(down', j) /\ worker'.round # j  BY <1>p, <2>2 DEF NotAsked
      <3>2. \A j \in Ids : Once(down', up', worker'.round, j)
        BY <2>2 DEF Once, NotAsked
      <3> QED BY <2>2, <3>1, <3>2 DEF KindsOK
    <2> QED BY <2>1, <2>2
  <1>4. ASSUME NEW j \in Ids, Generates(calls', j)
        PROVE  Once(down', up', worker'.round, j)
               /\ Handed(calls'[j], FALSE, down', up', worker'.round, emitted[j], j)
    <2>1. /\ Once(down, up, worker.round, j)
          /\ Handed(calls[j], Own, down, up, worker.round, emitted[j], j)
      BY <1>1, <1>4 DEF HandedOver, Round, Generates
    <2>2. up' = up \/ (up # <<>> /\ up' = Tail(up)) \/ up' = <<>>
      OBVIOUS
    <2>3. Handed(Failed(calls[j]), FALSE, down', up', worker'.round, emitted[j], j)
      BY <1>p, <1>3, <2>1, <2>2, HandedFails
    <2> QED BY <1>1, <1>3, <2>1, <2>3
  <1>5. \A j \in Ids : Round(j)'
    <2> SUFFICES ASSUME NEW j \in Ids, Generates(calls', j)
                 PROVE  /\ Once(down', up', worker'.round, j)
                        /\ Handed(calls'[j], Own', down', up', worker'.round, emitted'[j], j)
      BY DEF Round
    <2> QED BY <1>4 DEF Handed, Sound
  <1>6. \A j \in Ids : calls'[j].pc # "none" => Generates(calls', j)
    BY <1>1 DEF HandedOver, Generates
  <1> QED BY <1>2, <1>3, <1>5, <1>6 DEF HandedOver

LEMMA HostCallHanded ==
  ASSUME Typed, HandedOver, \/ Load \/ AbortLoad \/ LoadContinues \/ Query \/ Unload \/ UnloadContinues
                            \/ UnloadEnds \/ BeginRound \/ BeginFails
  PROVE  HandedOver'
  <1>1. ASSUME NEW kind \in {"load", "query", "unload"}, Request(kind, "none"),
               UNCHANGED <<closed, active, up, wvars, errors>>
        PROVE  HandedOver'
    BY <1>1, RequestHanded DEF wvars
  <1>2. ASSUME Terminate PROVE HandedOver'
    <2>1. /\ calls' = [i \in Ids |-> Failed(calls[i])] /\ closed' = TRUE /\ down' = <<>> /\ up' = <<>>
          /\ worker'.round = None /\ UNCHANGED <<sequence, emitted>>
      BY <1>2 DEF Terminate, NoWorkerRound
    <2>2. ~Own'  BY <2>1 DEF Own
    <2> QED BY <2>1, <2>2, FailHanded
  <1>3. CASE Load  BY <1>1, <1>3 DEF Load
  <1>4. CASE AbortLoad  BY <1>2, <1>4 DEF AbortLoad
  <1>5. CASE LoadContinues
    <2>1. ASSUME UNCHANGED <<closed, sequence, active, cancelled, unload, calls, down, up, wvars, errors>>
          PROVE  HandedOver'
      BY <2>1, SameHanded DEF AbortPosted, wvars
    <2> QED BY <1>2, <1>5, <2>1 DEF LoadContinues
  <1>6. CASE Query  BY <1>1, <1>6 DEF Query
  <1>7. CASE Unload
    <2>1. CASE active = None  BY <1>1, <1>7, <2>1 DEF Unload, PostUnload
    <2>2. CASE active # None
      <3>1. /\ down' = Posted(Message("abort", active)) /\ active \in Ids
            /\ UNCHANGED <<calls, sequence, closed, up, wvars, errors>>
        BY <1>7, <2>2 DEF Unload, Typed, HostOK
      <3> QED BY <3>1, AbortIsPosted, SameHanded DEF wvars
    <2> QED BY <2>1, <2>2
  <1>8. CASE UnloadContinues
    BY <1>1, <1>8 DEF UnloadContinues, PostUnload
  <1>9. CASE UnloadEnds  BY <1>2, <1>9 DEF UnloadEnds
  <1>10. CASE BeginRound
    BY <1>10, RequestHanded DEF BeginRound, Beginnable, wvars
  <1>11. CASE BeginFails
    <2> DEFINE c == [Unused EXCEPT !.kind = "generate", !.done = TRUE, !.failed = TRUE, !.pc = "over"]
               m == Message("generate", sequence')
    <2>1. /\ sequence < MaxIds - 1 /\ sequence' = sequence + 1 /\ down' = down
          /\ calls' = [calls EXCEPT ![sequence'] = c] /\ UNCHANGED <<closed, up, wvars, errors>>
      BY <1>11 DEF BeginFails
    <2>2. sequence' \in Ids  BY <2>1, BridgeAssumption DEF Ids, Typed, HostOK
    <2>3. m \in DownMessage /\ m.id = sequence' /\ m.type = "generate"
      BY <2>2 DEF Message, DownMessage, DownTypes
    <2>4. /\ c.kind = "generate" /\ c.seen = 0 /\ c.events = 0 /\ ~c.leaving /\ c.pc = "over"
          /\ ~c.pending /\ c.done
      BY DEF Unused
    <2> HIDE DEF c, m
    <2> QED BY <2>1, <2>2, <2>3, <2>4, NumberHanded DEF wvars
  <1> QED BY <1>3, <1>4, <1>5, <1>6, <1>7, <1>8, <1>9, <1>10, <1>11

LEMMA GeneratorHanded ==
  ASSUME Typed, HandedOver, NEW i \in Ids, Caller(i) \/ Continue(i)
  PROVE  HandedOver'
  <1>r. calls \in [Ids -> CallRecord] /\ calls[i] \in CallRecord  BY DEF Typed, CallsOK
  <1>1. ASSUME NEW t, calls' = [calls EXCEPT ![i] = t], calls[i].pc # "over", t.pc # "over",
               Live(calls[i]), t.kind = calls[i].kind,
               t.pending = calls[i].pending, t.failed = calls[i].failed, t.done = calls[i].done,
               t.seen + t.events = calls[i].seen + calls[i].events,
               down' = down \/ down' = Posted(Message("abort", i)),
               UNCHANGED <<hvars, up, wvars, errors>>
        PROVE  HandedOver'
    <2>1. i <= sequence  BY <1>1, ActiveParts
    <2>2. AbortPosted(down, down')  BY <1>1, AbortIsPosted
    <2>3. Handed(calls[i], Own, down, up, worker.round, emitted[i], i) =>
            Handed(t, Own, down, up, worker.round, emitted[i], i)
      BY <1>1, HandedMoves
    <2>4. calls[i].pc # "none"  BY <1>1 DEF Live
    <2> QED BY <1>1, <2>1, <2>2, <2>3, <2>4, MoveHanded DEF hvars, wvars
  <1>2. ASSUME Live(calls[i]), Over(i), calls[i].pc = "wait" => calls[i].done /\ calls[i].events = 0
        PROVE  HandedOver'
    <2> DEFINE t == [calls[i] EXCEPT !.pending = FALSE, !.pc = "over", !.leaving = (calls[i].pc # "wait")]
    <2>1. i <= sequence  BY <1>2, ActiveParts
    <2>2. calls' = [calls EXCEPT ![i] = t] /\ down' = down /\ UNCHANGED <<closed, sequence, up, wvars, errors>>
      BY <1>2, <1>r DEF Over
    <2>3. t.kind = calls[i].kind /\ calls[i].pc # "over"  BY <1>2, <1>r DEF CallRecord, Live
    <2>4. Handed(calls[i], Own, down, up, worker.round, emitted[i], i) =>
            Handed(t, Own, down, up, worker.round, emitted[i], i)
      BY <1>2, <1>r, <2>3, HandedLeaves
    <2>5. AbortPosted(down, down') /\ calls[i].pc # "none"  BY <1>2, <2>2 DEF AbortPosted, Live
    <2> HIDE DEF t
    <2> QED BY <2>1, <2>2, <2>3, <2>4, <2>5, MoveHanded DEF wvars
  <1>3. CASE Signal(i)
    <2> DEFINE t == [calls[i] EXCEPT !.signalled = TRUE]
    <2>1. calls' = [calls EXCEPT ![i] = t] /\ Live(calls[i]) /\ calls[i].pc # "over"
      BY <1>3 DEF Signal, Live
    <2>2. /\ t.pc = calls[i].pc /\ t.kind = calls[i].kind
          /\ t.pending = calls[i].pending /\ t.failed = calls[i].failed /\ t.done = calls[i].done
          /\ t.seen = calls[i].seen /\ t.events = calls[i].events
      BY <1>r DEF CallRecord
    <2> HIDE DEF t
    <2> QED BY <1>1, <1>3, <2>1, <2>2 DEF Signal
  <1>4. CASE Yield(i)
    <2> DEFINE v == calls[i].events - 1
               n == calls[i].seen + 1
               t == [calls[i] EXCEPT !.pc = "yield", !.events = v, !.seen = n]
    <2>1. /\ calls' = [calls EXCEPT ![i] = t] /\ calls[i].pc = "wait" /\ down' = down
          /\ UNCHANGED <<hvars, up, wvars, errors>>
      BY <1>4, <1>r DEF Yield
    <2>2. /\ t.pc = "yield" /\ t.kind = calls[i].kind
          /\ t.pending = calls[i].pending /\ t.failed = calls[i].failed /\ t.done = calls[i].done
          /\ t.seen = n /\ t.events = v
      BY <1>r DEF CallRecord
    <2>3. n + v = calls[i].seen + calls[i].events  BY <1>r DEF CallRecord
    <2>4. Live(calls[i]) /\ calls[i].pc # "over"  BY <2>1 DEF Live
    <2> HIDE DEF t, n, v
    <2> QED BY <1>1, <2>1, <2>2, <2>3, <2>4
  <1>5. CASE NextEvent(i)
    <2> DEFINE t == [calls[i] EXCEPT !.pc = "wait"]
    <2>1. calls' = [calls EXCEPT ![i] = t] /\ Live(calls[i]) /\ calls[i].pc # "over"
      BY <1>5 DEF NextEvent, Live
    <2>2. /\ t.pc = "wait" /\ t.kind = calls[i].kind
          /\ t.pending = calls[i].pending /\ t.failed = calls[i].failed /\ t.done = calls[i].done
          /\ t.seen = calls[i].seen /\ t.events = calls[i].events
      BY <1>r DEF CallRecord
    <2> HIDE DEF t
    <2> QED BY <1>1, <1>5, <2>1, <2>2 DEF NextEvent
  <1>6. CASE ReturnLater(i)
    <2> DEFINE t == [calls[i] EXCEPT !.leaving = TRUE]
    <2>1. calls' = [calls EXCEPT ![i] = t] /\ Live(calls[i]) /\ calls[i].pc # "over"
      BY <1>6 DEF ReturnLater, Live
    <2>2. /\ t.pc = calls[i].pc /\ t.kind = calls[i].kind
          /\ t.pending = calls[i].pending /\ t.failed = calls[i].failed /\ t.done = calls[i].done
          /\ t.seen = calls[i].seen /\ t.events = calls[i].events
      BY <1>r DEF CallRecord
    <2> HIDE DEF t
    <2> QED BY <1>1, <1>6, <2>1, <2>2 DEF ReturnLater
  <1>7. CASE Return(i)
    <2>0. calls[i].pc = "yield"  BY <1>7 DEF Return
    <2>1. CASE ~Awaited(i)  BY <1>2, <1>7, <2>0, <2>1 DEF Return, Live
    <2>2. CASE Awaited(i)
      <3> DEFINE t == [calls[i] EXCEPT !.pc = "return"]
      <3>1. /\ calls' = [calls EXCEPT ![i] = t] /\ down' = Posted(Message("abort", i))
            /\ UNCHANGED <<hvars, up, wvars, errors>>
        BY <1>7, <2>2 DEF Return
      <3>2. /\ t.pc = "return" /\ t.kind = calls[i].kind
            /\ t.pending = calls[i].pending /\ t.failed = calls[i].failed /\ t.done = calls[i].done
            /\ t.seen = calls[i].seen /\ t.events = calls[i].events
        BY <1>r DEF CallRecord
      <3>3. Live(calls[i]) /\ calls[i].pc # "over"  BY <2>0 DEF Live
      <3> HIDE DEF t
      <3> QED BY <1>1, <3>1, <3>2, <3>3
    <2> QED BY <2>1, <2>2
  <1>8. CASE Exhausted(i)
    <2>1. /\ calls[i].pc = "wait" /\ calls[i].done /\ Over(i) /\ ~(calls[i].events > 0)
      BY <1>8 DEF Exhausted, Unread
    <2>2. calls[i].events = 0  BY <1>r, <2>1 DEF CallRecord
    <2> QED BY <1>2, <2>1, <2>2 DEF Live
  <1>9. CASE Returned(i)  BY <1>2, <1>9 DEF Returned, Live
  <1> QED
    BY <1>3, <1>4, <1>5, <1>6, <1>7, <1>8, <1>9 DEF Caller, Continue

LEMMA DeliveredKind ==
  ASSUME NEW c \in CallRecord, NEW type \in UpTypes
  PROVE  Delivered(c, type).kind = c.kind /\ Delivered(c, type).pc = c.pc
  BY DeliveredType

LEMMA HostReceivesHanded ==
  ASSUME Typed, HandedOver, HostReceives
  PROVE  HandedOver'
  <1> DEFINE m == Head(up)
  <1>p. /\ down \in Seq(DownMessage) /\ up \in Seq(UpMessage) /\ worker.round \in Ids \cup {None}
        /\ calls \in [Ids -> CallRecord] /\ sequence \in Nat /\ \A j \in Ids : j \in Nat /\ j # None
    BY BridgeParts
  <1>o. Own' = Own  BY DEF Own, HostReceives, hvars
  <1>1. up # <<>> /\ up' = Tail(up) /\ UNCHANGED <<hvars, down, wvars, errors>>
    BY DEF HostReceives
  <1>2. m.type \in UpTypes /\ m.id \in Ids /\ m.id <= sequence
    BY <1>1, TailWire DEF Typed
  <1>3. /\ \A j \in Ids : calls'[j] = IF m.id = j /\ calls[j].pending THEN Delivered(calls[j], m.type)
                                      ELSE calls[j]
        /\ \A j \in Ids : calls'[j].kind = calls[j].kind /\ calls'[j].pc = calls[j].pc
    <2>1. \A j \in Ids : calls'[j] = IF m.id = j /\ calls[j].pending THEN Delivered(calls[j], m.type)
                                     ELSE calls[j]
      <3>1. calls' = IF calls[m.id].pending
                     THEN [calls EXCEPT ![m.id] = Delivered(calls[m.id], m.type)] ELSE calls
        BY DEF HostReceives
      <3> HIDE DEF m
      <3> QED BY <1>p, <1>2, <3>1
    <2> HIDE DEF m
    <2> QED BY <1>p, <1>2, <2>1, DeliveredKind
  <1>4. UpKind(calls, m) /\ KindsOK(calls', down', up', worker'.round)
    <2>1. UpKind(calls, m) /\ KindsOK(calls, down, up', worker.round)
      BY <1>p, <1>1, KindsHear DEF HandedOver
    <2>2. up' \in Seq(UpMessage)  BY <1>p, <1>1, TailParts
    <2>3. KindsOK(calls', down, up', worker.round)  BY <1>p, <1>3, <2>1, <2>2, KindsKept
    <2> QED BY <1>1, <2>1, <2>3 DEF wvars
  <1>5. \A j \in Ids : j > sequence => calls'[j] = Unused /\ emitted'[j] = 0
    <2>1. \A j \in Ids : j > sequence => m.id # j  BY <1>p, <1>2
    <2> HIDE DEF m
    <2> QED BY <1>1, <1>3, <2>1 DEF HandedOver, wvars
  <1>6. ASSUME NEW j \in Ids, Generates(calls', j)
        PROVE  Once(down, up', worker.round, j)
               /\ Handed(calls'[j], Own, down, up', worker.round, emitted[j], j)
    <2>1. /\ Once(down, up, worker.round, j)
          /\ Handed(calls[j], Own, down, up, worker.round, emitted[j], j)
          /\ calls[j].kind = "generate"
      BY <1>3, <1>6 DEF HandedOver, Round, Generates
    <2>2. m.id = j => m.type # "result"  BY <1>4, <2>1 DEF UpKind, Generates
    <2>3. calls[j] \in CallRecord  BY <1>p
    <2>4. Handed(calls'[j], Own, down, up', worker.round, emitted[j], j)
      <3>1. calls'[j] = IF Head(up).id = j /\ calls[j].pending THEN Delivered(calls[j], Head(up).type)
                        ELSE calls[j]
        BY <1>3
      <3> QED BY <1>p, <1>1, <2>1, <2>2, <2>3, <3>1, HandedHears
    <2> QED BY <1>p, <1>1, <2>1, <2>4, OnceHears
  <1>7. \A j \in Ids : Round(j)'
    BY <1>o, <1>1, <1>6 DEF Round, wvars
  <1>8. KindsOK(calls', down', up', worker'.round)  BY <1>4
  <1>9. sequence' = sequence  BY <1>1 DEF hvars
  <1> HIDE DEF m
  <1>10. \A j \in Ids : calls'[j].pc # "none" => Generates(calls', j)
    BY <1>3 DEF HandedOver, Generates
  <1> QED BY <1>5, <1>7, <1>8, <1>9, <1>10 DEF HandedOver

LEMMA RejectHanded ==
  ASSUME Typed, HandedOver, RejectOutstanding
  PROVE  HandedOver'
  <1>1. /\ errors' = errors + 1 /\ calls' = [i \in Ids |-> Failed(calls[i])]
        /\ up' = up \/ (up # <<>> /\ up' = Tail(up))
        /\ UNCHANGED <<hvars, wvars>>
        /\ IF active = None THEN down' = down ELSE down' = Append(down, Message("abort", active))
    BY DEF RejectOutstanding
  <1>2. ~Own'  BY <1>1 DEF Own, Typed, WorkerOK
  <1>3. AbortPosted(down, down')
    <2>1. CASE active = None  BY <1>1, <2>1 DEF AbortPosted
    <2>2. CASE active # None  BY <1>1, <2>2, AbortIsPosted DEF Typed, HostOK
    <2> QED BY <2>1, <2>2
  <1> QED BY <1>1, <1>2, <1>3, FailHanded DEF hvars, wvars

\* What the worker does to one round, and to the queues, is enough.
LEMMA WorkerMoveHanded ==
  ASSUME Typed, HandedOver, UNCHANGED <<calls, closed, sequence, errors>>,
         KindsOK(calls, down', up', worker'.round),
         \A j \in Ids : j > sequence => emitted'[j] = emitted[j],
         \A j \in Ids : /\ Generates(calls, j)
                        /\ Once(down, up, worker.round, j)
                        /\ Handed(calls[j], Own, down, up, worker.round, emitted[j], j)
           => /\ Once(down', up', worker'.round, j)
              /\ Handed(calls[j], Own, down', up', worker'.round, emitted'[j], j)
  PROVE  HandedOver'
  <1>1. Own' = Own  BY DEF Own
  <1>2. \A j \in Ids : Round(j)'  BY <1>1 DEF HandedOver, Round
  <1> QED BY <1>2 DEF HandedOver

\* The worker answers a message that asks for no round.
LEMMA AnswerHanded ==
  ASSUME Typed, HandedOver, NEW type \in {"load", "query", "unload", "abort"}, Dispatch(type),
         \/ type = "abort" /\ up' = up
         \/ type # "abort" /\ \E answer \in {"result", "error"} : Reply(answer, Head(down).id),
         worker'.round = worker.round, UNCHANGED <<calls, closed, sequence, errors, emitted>>
  PROVE  HandedOver'
  <1> DEFINE m == Head(down)
  <1>p. /\ down \in Seq(DownMessage) /\ up \in Seq(UpMessage) /\ worker.round \in Ids \cup {None}
        /\ calls \in [Ids -> CallRecord]
    BY BridgeParts
  <1>1. down # <<>> /\ down' = Tail(down) /\ m.type = type  BY DEF Dispatch
  <1>2. m \in DownMessage /\ m.id \in Ids
    <2>1. m \in DownMessage  BY <1>p, <1>1, ShrunkQueue
    <2> QED BY <2>1 DEF DownMessage
  <1>3. DownKind(calls, m) /\ KindsOK(calls, down', up, worker.round)
    BY <1>p, <1>1, KindsTake DEF HandedOver
  <1>4. \A j \in Ids : (NotAsked(down, j) => NotAsked(down', j))
                       /\ (Once(down, up, worker.round, j) => Once(down', up, worker.round, j))
    BY <1>p, <1>1, AskedShrinks, OnceTakes
  <1>5. \A j \in Ids : Handed(calls[j], Own, down, up, worker.round, emitted[j], j)
                         => Handed(calls[j], Own, down', up, worker.round, emitted[j], j)
    BY <1>4, HandedRests
  <1> HIDE DEF m
  <1>6. CASE type = "abort" /\ up' = up
    BY <1>3, <1>4, <1>5, <1>6, WorkerMoveHanded
  <1>7. ASSUME type # "abort", NEW answer \in {"result", "error"}, Reply(answer, m.id)
        PROVE  HandedOver'
    <2> DEFINE a == Message(answer, m.id)
    <2>1. /\ up' = Append(up, a) /\ a \in UpMessage /\ a.id = m.id
      BY <1>2, <1>7 DEF Reply, Message, UpMessage, UpTypes
    <2>2. ~Generates(calls, m.id)  BY <1>1, <1>3, <1>7 DEF DownKind
    <2>3. UpKind(calls, a)  BY <2>1, <2>2 DEF UpKind
    <2> HIDE DEF a
    <2>4. KindsOK(calls, down', up', worker'.round)  BY <1>p, <1>3, <2>1, <2>3, KindsReply
    <2>5. ASSUME NEW j \in Ids, Generates(calls, j), Once(down, up, worker.round, j),
                 Handed(calls[j], Own, down, up, worker.round, emitted[j], j)
          PROVE  /\ Once(down', up', worker'.round, j)
                 /\ Handed(calls[j], Own, down', up', worker'.round, emitted'[j], j)
      <3>1. a.id # j  BY <2>1, <2>2, <2>5
      <3>2. Once(down', up, worker.round, j)  BY <1>4, <2>5
      <3>3. Handed(calls[j], Own, down', up, worker.round, emitted[j], j)  BY <1>5, <2>5
      <3>4. Once(down', up', worker.round, j)  BY <1>p, <2>1, <3>1, <3>2, OnceReplies
      <3>5. Handed(calls[j], Own, down', up', worker.round, emitted[j], j)
        BY <1>p, <2>1, <3>1, <3>3, HandedReplies
      <3> QED BY <3>4, <3>5
    <2> QED BY <2>4, <2>5, WorkerMoveHanded
  <1> QED BY <1>6, <1>7 DEF m

\* The worker takes the request of a round: it begins, or is answered at once.
LEMMA TakeRoundHanded ==
  ASSUME Typed, HandedOver, Dispatch("generate"), UNCHANGED <<calls, closed, sequence, errors, emitted>>,
         \/ Reply("error", Head(down).id) /\ worker'.round = worker.round
         \/ up' = up /\ worker'.round = Head(down).id
  PROVE  HandedOver'
  <1> DEFINE m == Head(down)
             i == m.id
  <1>p. /\ down \in Seq(DownMessage) /\ up \in Seq(UpMessage) /\ worker.round \in Ids \cup {None}
        /\ calls \in [Ids -> CallRecord] /\ emitted \in [Ids -> Nat]
    BY BridgeParts
  <1>1. down # <<>> /\ down' = Tail(down) /\ m.type = "generate"  BY DEF Dispatch
  <1>2. m \in DownMessage /\ i \in Ids
    <2>1. m \in DownMessage  BY <1>p, <1>1, ShrunkQueue
    <2> QED BY <2>1 DEF DownMessage
  <1>3. KindsOK(calls, down', up, worker.round) /\ Generates(calls, i)
    <2>1. DownKind(calls, m) /\ KindsOK(calls, down', up, worker.round)
      BY <1>p, <1>1, KindsTake DEF HandedOver
    <2> QED BY <1>1, <2>1 DEF DownKind
  <1>4. \A j \in Ids : (NotAsked(down, j) => NotAsked(down', j))
                       /\ (Once(down, up, worker.round, j) => Once(down', up, worker.round, j))
    BY <1>p, <1>1, AskedShrinks, OnceTakes
  <1>5. /\ ~NotAsked(down, i)
        /\ Once(down, up, worker.round, i) => NotAsked(down', i) /\ worker.round # i /\ NoWord(up, i)
    <2>1. AsksFor(Head(down), i)  BY <1>1 DEF AsksFor
    <2> HIDE DEF i
    <2> QED BY <1>p, <1>1, <2>1, AskedShrinks, OnceTakes
  <1> HIDE DEF i, m
  <1>6. CASE Reply("error", i) /\ worker'.round = worker.round
    <2> DEFINE a == Message("error", i)
    <2>1. up' = Append(up, a) /\ a \in UpMessage /\ a.id = i /\ a.type = "error"
      BY <1>2, <1>6 DEF Reply, Message, UpMessage, UpTypes
    <2> HIDE DEF a
    <2>2. ~Counts(a, i) /\ UpKind(calls, a)  BY <2>1 DEF Counts, UpKind
    <2>3. KindsOK(calls, down', up', worker'.round)  BY <1>p, <1>3, <1>6, <2>1, <2>2, KindsReply
    <2>4. ASSUME NEW j \in Ids, Generates(calls, j), Once(down, up, worker.round, j),
                 Handed(calls[j], Own, down, up, worker.round, emitted[j], j)
          PROVE  /\ Once(down', up', worker'.round, j)
                 /\ Handed(calls[j], Own, down', up', worker'.round, emitted'[j], j)
      <3>1. CASE j = i
        <4>1. Once(down', up, worker.round, i) /\ NotAsked(down', i) /\ worker.round # i /\ NoWord(up, i)
          BY <1>4, <1>5, <2>4, <3>1
        <4>2. Once(down', up', worker.round, i)  BY <1>p, <2>1, <4>1, OnceEnds
        <4>3. calls[i] \in CallRecord /\ emitted[i] \in Nat  BY <1>p, <1>2
        <4>4. Handed(calls[i], Own, down, up, worker.round, emitted[i], i)  BY <2>4, <3>1
        <4>8. Handed(calls[i], Own, down', up', worker.round, emitted[i], i)
          BY <1>p, <1>5, <2>1, <2>2, <4>4, HandedRefused
        <4> QED BY <1>6, <3>1, <4>2, <4>8
      <3>2. CASE j # i
        <4>1. Once(down', up, worker.round, j)  BY <1>4, <2>4
        <4>2. Handed(calls[j], Own, down', up, worker.round, emitted[j], j)
          BY <1>4, <2>4, HandedRests
        <4>3. Once(down', up', worker.round, j)  BY <1>p, <2>1, <3>2, <4>1, OnceReplies
        <4>4. Handed(calls[j], Own, down', up', worker.round, emitted[j], j)
          BY <1>p, <2>1, <3>2, <4>2, HandedReplies
        <4> QED BY <1>6, <4>3, <4>4
      <3> QED BY <3>1, <3>2
    <2> QED BY <2>3, <2>4, WorkerMoveHanded
  <1>7. CASE up' = up /\ worker'.round = i
    <2>1. KindsOK(calls, down', up', i)  BY <1>3, <1>7 DEF KindsOK
    <2>2. ASSUME NEW j \in Ids, Generates(calls, j), Once(down, up, worker.round, j),
                 Handed(calls[j], Own, down, up, worker.round, emitted[j], j)
          PROVE  /\ Once(down', up', worker'.round, j)
                 /\ Handed(calls[j], Own, down', up', worker'.round, emitted'[j], j)
      <3>1. CASE j = i
        <4>1. Once(down', up, worker.round, i) /\ NotAsked(down', i) /\ NoWord(up, i)
          BY <1>4, <1>5, <2>2, <3>1
        <4>2. Once(down', up, i, i)  BY <4>1 DEF Once, NoWord
        <4>3. Handed(calls[i], Own, down', up, i, emitted[i], i)
          BY <1>5, <2>2, <3>1, HandedRuns
        <4> QED BY <1>7, <3>1, <4>2, <4>3
      <3>2. CASE j # i
        <4>1. Once(down', up, i, j)  BY <1>4, <2>2, <3>2, OnceIdle
        <4>2. Handed(calls[j], Own, down', up, i, emitted[j], j)
          BY <1>4, <2>2, <3>2, HandedRests
        <4> QED BY <1>7, <4>1, <4>2
      <3> QED BY <3>1, <3>2
    <2> QED BY <1>7, <2>1, <2>2, WorkerMoveHanded
  <1> QED BY <1>6, <1>7 DEF i, m

\* One native step: an event, or the end of the round.
LEMMA StepHanded ==
  ASSUME Typed, HandedOver, WorkerSteps
  PROVE  HandedOver'
  <1> DEFINE i == worker.round
  <1>p. /\ down \in Seq(DownMessage) /\ up \in Seq(UpMessage) /\ worker.round \in Ids \cup {None}
        /\ calls \in [Ids -> CallRecord] /\ emitted \in [Ids -> Nat] /\ sequence \in Nat
        /\ \A j \in Ids : j \in Nat /\ j # None
    BY BridgeParts
  <1>1. i # None /\ i \in Ids /\ i <= sequence /\ UNCHANGED <<hvars, calls, down, errors>>
    BY DEF WorkerSteps, Typed, WorkerOK
  <1>2. Generates(calls, i)  BY <1>1 DEF HandedOver, KindsOK
  <1>3. \E type \in {"event", "done", "error"} :
          /\ Reply(type, i)
          /\ IF type = "event" THEN worker'.round = i ELSE worker'.round = None
          /\ emitted' = IF type = "error" THEN emitted ELSE [emitted EXCEPT ![i] = @ + 1]
    BY DEF WorkerSteps, Typed, WorkerOK
  <1>4. PICK type \in {"event", "done", "error"} :
          /\ Reply(type, i)
          /\ IF type = "event" THEN worker'.round = i ELSE worker'.round = None
          /\ emitted' = IF type = "error" THEN emitted ELSE [emitted EXCEPT ![i] = @ + 1]
    BY <1>3
  <1> DEFINE a == Message(type, i)
  <1>5. up' = Append(up, a) /\ a \in UpMessage /\ a.id = i /\ a.type = type
    BY <1>1, <1>4 DEF Reply, Message, UpMessage, UpTypes
  <1> HIDE DEF a
  <1>6. /\ emitted'[i] = IF Counts(a, i) THEN emitted[i] + 1 ELSE emitted[i]
        /\ \A j \in Ids \ {i} : emitted'[j] = emitted[j]
        /\ Final(a) <=> type # "event"
    BY <1>p, <1>1, <1>4, <1>5 DEF Counts, Final
  <1>7. worker'.round \in {i, None} /\ (worker'.round = i <=> type = "event")
    BY <1>1, <1>4
  <1>8. UpKind(calls, a)  BY <1>5 DEF UpKind
  <1>9. KindsOK(calls, down', up', worker'.round)
    <2>1. KindsOK(calls, down, up', worker.round)
      BY <1>p, <1>5, <1>8, KindsReply DEF HandedOver
    <2> HIDE DEF i
    <2> QED BY <1>1, <1>2, <1>7, <2>1 DEF KindsOK
  <1>10. ASSUME NEW j \in Ids, Generates(calls, j), Once(down, up, worker.round, j),
                Handed(calls[j], Own, down, up, worker.round, emitted[j], j)
         PROVE  /\ Once(down, up', worker'.round, j)
                /\ Handed(calls[j], Own, down, up', worker'.round, emitted'[j], j)
    <2>1. CASE j = i
      <3>1. calls[i] \in CallRecord /\ emitted[i] \in Nat  BY <1>p, <1>1
      <3>2. Handed(calls[i], Own, down, up', worker'.round, emitted'[i], i)
        <4>1. Handed(calls[i], Own, down, up, i, emitted[i], i)  BY <1>10, <2>1
        <4> DEFINE v == emitted[i]
                   g == emitted'[i]
                   s == worker'.round
        <4>2. v \in Nat /\ g = IF Counts(a, i) THEN v + 1 ELSE v  BY <1>6, <3>1
        <4>3. Handed(calls[i], Own, down, up, i, v, i) /\ calls[i] \in CallRecord  BY <3>1, <4>1
        <4>4. up \in Seq(UpMessage) /\ a \in UpMessage /\ up' = Append(up, a)  BY <1>p, <1>5
        <4> HIDE DEF i, v, g, s
        <4>5. Handed(calls[i], Own, down, up', s, g, i)
          BY ONLY <4>2, <4>3, <4>4, HandedEmits
        <4> QED BY <4>5 DEF g, s
      <3>3. CASE type = "event"
        <4>1. Once(down, up', worker.round, i)
          BY <1>p, <1>5, <1>6, <1>10, <2>1, <3>3, OnceEmits
        <4> QED BY <1>7, <2>1, <3>2, <3>3, <4>1
      <3>4. CASE type # "event"
        <4>1. NotAsked(down, i)  BY <1>10, <2>1 DEF Once
        <4>2. Once(down, up', worker'.round, i)
          BY <1>p, <1>5, <1>7, <1>10, <2>1, <3>4, <4>1, OnceEnds
        <4> QED BY <2>1, <3>2, <4>2
      <3> QED BY <3>3, <3>4
    <2>2. CASE j # i
      <3>1. Once(down, up', worker.round, j)  BY <1>p, <1>5, <1>10, <2>2, OnceReplies
      <3>2. Handed(calls[j], Own, down, up', worker.round, emitted[j], j)
        BY <1>p, <1>5, <1>10, <2>2, HandedReplies
      <3>3. worker'.round # j  BY <1>p, <1>7, <2>2
      <3>4. Once(down, up', worker'.round, j)  BY <3>1, <3>3, OnceIdle
      <3>5. Handed(calls[j], Own, down, up', worker'.round, emitted[j], j)
        BY <3>2, <3>3, HandedRests
      <3> QED BY <1>6, <2>2, <3>4, <3>5
    <2> QED BY <2>1, <2>2
  <1>11. \A j \in Ids : j > sequence => emitted'[j] = emitted[j]
    BY <1>p, <1>1, <1>6
  <1>12. UNCHANGED <<calls, closed, sequence, errors, down>>  BY <1>1 DEF hvars
  <1> HIDE DEF i
  <1> QED BY <1>9, <1>10, <1>11, <1>12, WorkerMoveHanded

LEMMA WorkerHanded ==
  ASSUME Typed, HandedOver, WorkerReceives \/ WorkerSteps
  PROVE  HandedOver'
  <1>1. CASE WorkerAborts
    <2>1. /\ Dispatch("abort") /\ up' = up /\ UNCHANGED <<calls, closed, sequence, errors, emitted>>
          /\ worker'.round = worker.round
      BY <1>1 DEF WorkerAborts, hvars, Typed, WorkerOK
    <2> QED BY <2>1, AnswerHanded
  <1>2. CASE WorkerLoads
    <2>1. /\ Dispatch("load") /\ \E answer \in {"result", "error"} : Reply(answer, Head(down).id)
          /\ UNCHANGED <<calls, closed, sequence, errors, emitted>> /\ worker'.round = worker.round
      BY <1>2 DEF WorkerLoads, hvars, Typed, WorkerOK
    <2> QED BY <2>1, AnswerHanded
  <1>3. CASE WorkerAnswers
    <2>1. /\ Dispatch("query") /\ \E answer \in {"result", "error"} : Reply(answer, Head(down).id)
          /\ UNCHANGED <<calls, closed, sequence, errors, emitted>> /\ worker'.round = worker.round
      BY <1>3 DEF WorkerAnswers, hvars, wvars
    <2> QED BY <2>1, AnswerHanded
  <1>4. CASE WorkerRefuses \/ WorkerCannot
    <2>1. /\ Dispatch("generate") \/ Dispatch("unload")
          /\ Reply("error", Head(down).id) /\ worker'.round = worker.round
          /\ UNCHANGED <<calls, closed, sequence, errors, emitted>>
      BY <1>4 DEF WorkerRefuses, WorkerCannot, hvars, wvars
    <2> QED BY <2>1, AnswerHanded, TakeRoundHanded
  <1>5. CASE WorkerBegins
    <2>1. /\ Dispatch("generate") /\ up' = up /\ UNCHANGED <<calls, closed, sequence, errors, emitted>>
          /\ worker'.round = Head(down).id
      BY <1>5 DEF WorkerBegins, hvars, Typed, WorkerOK
    <2> QED BY <2>1, TakeRoundHanded
  <1>6. CASE WorkerUnloads
    <2>1. /\ Dispatch("unload") /\ \E answer \in {"result", "error"} : Reply(answer, Head(down).id)
          /\ UNCHANGED <<calls, closed, sequence, errors, emitted>> /\ worker'.round = worker.round
      BY <1>6 DEF WorkerUnloads, hvars, Typed, WorkerOK
    <2> QED BY <2>1, AnswerHanded
  <1> QED BY <1>1, <1>2, <1>3, <1>4, <1>5, <1>6, StepHanded DEF WorkerReceives

LEMMA InitHanded == BridgeInit => HandedOver
  <1> SUFFICES ASSUME BridgeInit PROVE HandedOver  OBVIOUS
  <1>1. /\ down = <<>> /\ up = <<>> /\ worker.round = None
        /\ \A i \in Ids : calls[i] = Unused /\ emitted[i] = 0
    BY DEF BridgeInit, NoWorkerRound
  <1>2. KindsOK(calls, down, up, worker.round)  BY <1>1 DEF KindsOK
  <1>3. \A i \in Ids : ~Generates(calls, i) /\ calls[i].pc = "none"  BY <1>1 DEF Generates, Unused
  <1> QED BY <1>1, <1>2, <1>3 DEF HandedOver, Round

LEMMA NextHanded == Typed /\ HandedOver /\ [BridgeNext]_bvars => HandedOver'
  <1> SUFFICES ASSUME Typed, HandedOver, [BridgeNext]_bvars PROVE HandedOver'  OBVIOUS
  <1>1. CASE UNCHANGED bvars
    BY <1>1, SameHanded DEF bvars, hvars, wvars, AbortPosted
  <1> QED
    BY <1>1, HostCallHanded, GeneratorHanded, HostReceivesHanded, RejectHanded, WorkerHanded
    DEF BridgeNext, HostContinues

LEMMA OverIsWhole ==
  ASSUME Typed, HandedOver
  PROVE  EndedRoundsAreWhole
  <1> SUFFICES ASSUME NEW i \in Ids, calls[i].pc = "over", ~calls[i].leaving,
                      calls[i].failed => errors = 0 /\ ~closed
               PROVE  calls[i].seen = emitted[i]
    BY DEF EndedRoundsAreWhole
  <1>1. calls[i] \in CallRecord /\ up \in Seq(UpMessage)  BY BridgeParts
  <1>2. Generates(calls, i)  BY DEF HandedOver
  <1>3. CASE Generates(calls, i)
    <2>1. Handed(calls[i], Own, down, up, worker.round, emitted[i], i) /\ Sound(calls[i], Own)
      BY <1>2 DEF HandedOver, Round, Sound, Own
    <2>2. calls[i].events = 0 /\ NoWord(up, i) /\ emitted[i] = calls[i].seen + calls[i].events + Told(up, i)
      BY <2>1 DEF Handed
    <2>3. Told(up, i) = 0  BY <1>1, <2>2, CarriedFinite
    <2> QED BY <1>1, <2>2, <2>3 DEF CallRecord
  <1> QED BY <1>2, <1>3

\* What callers are told is so: a round that its caller does not leave has handed
\* over every event the worker emitted for it, also those queued when it was done
\* or failed with an error of its own, and a cancelled load never resolves.
THEOREM BridgeAnswersTrue == BridgeSpec => []AnswersAreTrue
  <1>1. BridgeInit => Typed /\ HandedOver  BY InitTyped, InitHanded
  <1>2. Typed /\ HandedOver => EndedRoundsAreWhole  BY OverIsWhole
  <1>3. BridgeSpec => []EndedRoundsAreWhole
    BY <1>1, <1>2, NextTyped, NextHanded, PTL DEF BridgeSpec
  <1> QED BY <1>3, LoadedBackendIsOpen, PTL DEF AnswersAreTrue
==============================================================================
