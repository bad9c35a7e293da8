# Verification of wfloat

wfloat runs speech and language models on the device: SDKs for the web
(`packages/wfloat-web`), React Native (`packages/react-native-wfloat`) and Python
(`packages/wfloat-python`) over vendored inference engines. This directory holds
TLA+ models of the SDKs' own logic, TLC configurations that check them on small
instances, and TLAPS proofs about them for every value of their constants.

The logic worth modelling is not in the inference, which is sequential, but
around it: durable downloads shared by tabs, or by threads and processes, queues
of generations with tools that run while the model speaks, a worker that can only
be reached by messages, a pump that synthesizes speech just ahead of an audio
clock, and sessions that listen to a microphone while a recognizer works. All of
it may be cancelled, unloaded or fail at every await.

    tlc -config AssetTransfer.cfg MCAssetTransfer     check a run
    tlapm AssetProofs.tla                             check the proofs of a module

Paths below are relative to `packages/wfloat-web/src` unless they say otherwise.

Contents: 1 inventory, 2 modules, 3 runs, 4 proofs, 5 where code and
documentation disagree, 6 what is not modelled, 7 plan.


## 1. Inventory

### Modelled

| component | state | operations | hard behaviour |
|---|---|---|---|
| asset store and manager (`assets/store.ts`, `assets/manager.ts`) | IndexedDB: a record and a chunk list per URL; per tab: the transfers by URL, their listeners, calls under way, the deletion under way | `downloadModel`, `join`, `transfer` (stat, reset, rehash, fetch, append, finalize), `deleteModelAssets` | several tabs write one file; tabs die between transactions; servers change contents; the last listener leaves while another joins; a deletion commits under a running call |
| language model (`llm-next/model.ts`) | the queue (`tail`, `operations`), `closed`; per generation: conversation, calls, pending calls, jobs, abort signal, result | `generate`, `cancel`, `unload`, the round loop, `receiveCall`, `pump`, `drain`, `correct`, `bounded`, `settle` | tools start from three places and abort from their own callbacks; results settle before the worker acknowledges; failures and cancellations use one signal |
| native bridge and worker dispatch (`llm-native/bridge.ts`, `worker.ts`) | pending requests by number, the active round, `closed`; in the worker: the model, the round, its abort flag | `load`, `generateRound`, `countInputTokens`, `checkSchema`, `validateSchema`, `unload`, `rejectOutstanding`; the worker's command dispatch and native step | messages cross; a load is cancelled after its reply; a round is left early; worker errors belong to no request |
| text-to-speech model and playback (`tts-next/model.ts`, `playback.ts`) | generations, speeches, the active speech, the pump, `closed`; per driver: origin, position, end, sources, pending, epoch | `generate`, `speak`, `pause`, `resume`, `cancel`, `dispose`, the iterator, `unload`, `runStep`, `update`, `tick`, `start`, `append`, `stop` | a start waits for the AudioContext while it is superseded; the clock underruns; the pump works on state read before its await; a buffer waits for the pump that waits for playback |
| recognition (`stt-next/model.ts`, `session.ts`, `microphone.ts`, what `sherpa.ts` and `worker.ts` keep) | the queue, the reservations; per session: audio queue, window, prefix, hypothesis, pump, microphone; the recognizer's options and stream | `transcribe`, `createSession`, `push`, `startMicrophone`, `finish`, `cancel`, `unload`, both pumps, the backlog monitor | a finish during the last turn of the pump; a microphone granted after the end; the last step is chosen before an await; a recognizer that is still busy with a session that is over |
| voice activity (`vad-next/model.ts`, `session.ts`, `segmenter.ts`, `backend.ts`) | as above, with a recurrent scorer; per operation: the segmenter (candidate, active, silence, retained audio) | `detect`, `createSession`, `push`, `startMicrophone`, `attachMicrophone`, `finish`, `cancel`, `unload`; `feed`, `close`, `trim`, `finish` | the scorer remembers; audio is dropped while ranges are undecided; padding reaches back |
| shared microphone (`audio-next/microphone.ts`) | the capture, its consumers, its state | `attach`, `detach`, `start`, `stop`, failure, delivery | an acquisition answered after the stop; a consumer that throws inside a delivery |
| Python lifecycle (`packages/wfloat-python/python/wfloat/_lifecycle.py`) | per process: counted locks, epochs, leases, transfers with worker threads; on disk: files, checkpoints, extracted data | `download_with_lifecycle`, `load_with_lifecycle`, `delete_model_assets`, `AssetLease`, the worker, the installation of shared archives | threads share what processes exclude; a deletion overtakes downloads of its own process; locks die with a process |
| Python language model (`packages/wfloat-python/python/wfloat/_language.py`) | the active stream, the queue, the open streams; per stream: its lock and driver, the generator, its calls and finished tools, the cancellation and close requests | `generate`, `generate_stream`, `next`, `result`, `cancel`, `close`, `count_input_tokens`, `unload`, the tool threads | streams are lazy and change threads; a close finds the stream driven; tools outlive the generation; an unload overtakes everything |

They interact as follows. A loader asks the asset manager for the files of a
model and hands them to a worker; `LanguageModel` calls `WorkerBackend`, one
method call per round, which exchanges messages with the worker;
`TextToSpeechModel` calls its backend, also a worker, and gives chunks to one
`WebAudioPlayback` per speech; a speech-to-text or voice activity session calls
its backend, one command at a time, and owns a microphone or shares one with
sessions of the other kind. Tabs share nothing but IndexedDB and Web Locks, Python
processes nothing but the cache directory and its advisory locks. Everything
within a tab runs on one event loop: actions are turns of it, and interleaving
happens at awaits, messages, timers and callbacks only. In Python an action is
what is done under a lock, or between two points that look at what other threads
or the operating system change.

### Not modelled

| component | what makes it correct | status |
|---|---|---|
| loader lease, `readStoredAsset`, persistence claim (`assets/manager.ts:52-97, 134-150`) | a model under construction keeps its files | left open; the Python models have the lease |
| `stt-next/transcript.ts`, `llm-next/util.ts` (StopFilter), the prefix cache of `native/llama-wasm/round_runtime.cpp` | pure functions of texts and tokens | left open |
| backends of tts, stt and VAD, loading | request tables of the pattern `NativeBridge` models | as environments |
| React Native assets and runtimes (`NextAssets.kt`, `WfloatNextAssets.mm`, `cpp/*.cpp`) | as the web components, with threads for turns | left open |
| React Native TypeScript (`packages/react-native-wfloat/src/next`) | near copies of the web modules over another bridge | left open: the models say nothing of the bridge below |
| Python speech, recognition and voice activity (`_speech.py`, `_recognition.py`, `_activity.py`) | one lock per model, blocking calls | left open |
| schema translation, model formats, SHA-256, native bindings, the previous web API, build tools, benchmarks, vendored engines | conversions of data, or not the SDKs' logic | not planned |

Most lines of the repository's source files are of the last rows: the previous
APIs of the three SDKs and their generated bindings, native code written once for
every platform, benchmarks, example applications, and a package manager. The
models cover the control of the web SDK and of two parts of the Python SDK, not a
large share of those lines.

`PROJECT.json` lists every component with its files, and under `hazards` every
point of the code found to be hard to test, with the property that watches it.


## 2. Modules

    AssetStore ── AssetTransfer ── AssetManager       AssetRegistry (abstract)
                       │                 │                 ▲
                       │                 └── TransferSpec  │ RefinesRegistry
                       └─────────────────┴── AssetProofs
    LanguageModel ── LanguageModelProofs
    NativeBridge ── NativeBridgeProofs
    SpeechModel ── SpeechProofs
    Microphone ─┬─ Recognition ── RecognitionProofs
                └─ SharedMicrophone ─┬─ VoiceActivity ── VoiceActivityProofs
                          Segmenter ─┘
    AssetLifecycle ── AssetLifecycleProofs
    LanguageStream ── LanguageStreamProofs
    MC* : instances for TLC

A definition whose comment begins with "Mutant of" is not part of a model. It is
a plausible bug of the code in the place of the definition that follows, kept
beside it to show which property notices it; `PROJECT.json` says which.

### AssetStore, AssetTransfer

`files` and `chunks` are the two object stores of `store.ts`. A file is a
sequence of chunks of one unit; all chunks of version `v` of a file are the value
`v`, so a mixture of two versions is visible, and a digest is the content itself.
`Current` is `compare()`, `Mismatch` the error it throws, `Put` the write of a
chunk at an index.

A transfer is a slot `<<tab, url, n>>`; `pc` says at which await it is suspended:

    lock → stat → (reset →) rehash* → fetch → (restart →) header → (body → store)* → finalize → publish | discard → closing

Each `Save` is one IndexedDB transaction that compares and writes. `Respond`
lets the server answer 200 or 206 with any version, with or without a strong
ETag and a Content-Length; `ValidResponse` is what `transfer()` checks of it.
`Fail` is a failing await, `Crash` the death of a tab, `Delete` the transaction
of `deleteModelAssets`. `Begin` and `Abort` leave open who starts and aborts
transfers.

Abstracted: chunk size (a unit), progress counters, the order of hashing within a
chunk. The save at `manager.ts:264` is left out: a record without the registered
digest is not compatible and has just been reset, with that digest. `SlotsPerUrl` bounds the transfers of one URL that one tab has alive
(an aborted one may still settle while its successor waits for the lock).

### AssetManager

`downloadModel` from await to await: `call` is `deletion → stat → persist →
verify → join → reverify → ready | failed`. `transfers` is the map of each tab;
`join[c][u]` says whether a call's join of a file is to start, waits for an
aborted transfer (`old`), listens (`attached`), or is over. `Reject` models the
whole failure path: the call aborts its own controller and leaves its
transfers, the last listener aborting them, while joins that wait for an old
writer have no release callback yet and settle later. Both passes of
`verifyGeneration` read the files in the order of the manifest (`Place`), which in
`MCAssetManager` lists the private file first, as `assets/manifest.ts:52` does; the
joins, which are parallel, may go on in any order. `Poll` is the interval timer. Each element of
`Callers` is one call. Every step is a step of `AssetTransfer` (the property
`TransferSpec`, checked and proved), so what is proved of the transfers holds of
the manager.

### AssetRegistry

What a reader of the store may rely on, free of checkpoints, tabs and writers: a
file is installed whole or not at all, with a content its registry entry accepts
and that is one version of the server; it is withdrawn only when the registry no
longer accepts it; a deletion removes the private files together.
`RefinesRegistry` maps a complete record to an installed file.

### LanguageModel

One record per `GenerationOperation`; `phase` says at which await `run()` is:

    queued → prepare → begin → next ⇄ parse → closing → drain → (stopWhen) → (validate) → begin … → leaving → done

and `bounded` is the 100 ms a cancelled structured generation gives its text. The
settling of an awaited promise and the code that resumes are two steps
(`settled`), since an abort may come between them; `Interrupted` is the abort
that wins `wait()`. `native` is the round the backend runs: whose it is, whether
it was told to abort, whether it sent `done`. It is `NativeBridge`'s active
round, and the fairness of `NativeEnds` is what `BridgeSettles` shows there.
`Pumped` is `pump()` with what callbacks may do inside it: `onToolStart` or the
tool may abort synchronously, the tool may fail at once.

Abstracted: text and reasoning events (they change nothing that is decided); a
repeated tool-call ID is the same error as one of the backend, and a `stopWhen`
that answers no boolean the same as one that throws; text that is no JSON is the
same as text the schema rejects; the end of a job and its `.finally` are one
step; the abort of the round is posted when the loop is left. `MaxCalls` bounds
the tool calls.

### NativeBridge

Both ends of the worker. `calls[i]` is the promise or generator of request `i`
with its entry in `pending`; for a round, `pc` is `wait` (asked for an event),
`yield` (holding one), `return` (in its `finally`, waiting for the worker) or
`over`. `down` and `up` are the two directions of `postMessage`, in order. In the
worker a message and the timer between two native steps may come in either
order; nothing else is reordered. `RejectOutstanding` is `onerror` and
`onmessageerror`; the latter also loses a message.

Abstracted: the three queries are one kind; the steps of a load in the worker are
one; a native step that emits nothing is a stutter. The last request number is
kept for the unload, so that the bound does not block it. `unload()` resumes as a
microtask: a caller cannot begin a round between the end of the one it waits for
and its own continuation (`UnloadReady`).

### SpeechModel

Generations (`jobs`), speeches with their drivers, the active speech and the
pump. Audio is counted: a chunk lasts `ChunkLength` ticks, chunk `i` begins at `i
* ChunkLength`, and `Ahead` is `AHEAD_MS`. An action is one turn of the event
loop with every synchronous call made in it: `Signal` resolves `changed` and
updates the children; `Activate` pauses the speech that plays and updates the new
one; `Tick` advances the index, releases what was played, stops or updates, and
wakes the pump. Callbacks of the application are queued as microtasks by
`notify`, so what they do appears as callers' actions.

`start` says how far the promise of the driver's `start` is; a start that was
overtaken by a stop is kept in `stale` until it settles, in the place of the
comparison of epoch numbers. `Late` is the underrun that moves the origin.

Abstracted: `terminal` stands for finished, cancelled and failed; the fields of a
driver are reset when it stops, since the next start sets them; `awaited` is a
reader that has read everything there is; the start buffer, which the code
computes from the measured speed (200 ms to 3000 ms, against 10 s of lookahead),
is any of `StartBuffers`, which the assumption keeps within `Ahead`; the audio
nodes (`starts`), the context, the backend and the creation of a driver may fail
whenever they are used; the clock is followed to one tick past the end of what is
scheduled, where it stays until something is appended; a rejected start is
handled before the clock moves on. Events, highlights and the result promise are
left out.

### Microphone, SharedMicrophone

`startMicrophone` and `createMicrophoneCapture` as records that their owners
keep, so that two of them can be composed with sessions. `at` is what
`startMicrophone` awaits: the user (`asking`), the context, the worklet.
`CaptureTurns` is the set of records the environment may turn one into; `Stop`,
`Broken` and `Cancel` are `stop()`, `fail()` and the abort signal, each of which
does nothing the second time. In `SharedMicrophone`, `held` and `answered`
distinguish a capture that is still being acquired from one that was given.

Abstracted: the worklet and its fallback are one; sample rates and conversion.

### Recognition

`ops` are the operations in the order of the promise chain `tail`; `at` is where
what the owner queued stands, `pump` where the pump of a session does. Audio is a
sequence of numbered units and a text is the number of the last unit it tells of,
so a transcript is compared with the audio that was accepted. The recognizer is
what it has been told: whose options, whose stream, whether it knows the end.
`Command` is the call the backend has been made and not answered; `Answers` and
`Refuses` continue. `heard` counts the units the recognizer was given without a
gap.

The sherpa recognizers that keep a stream and those that decode windows are one
model each (`kind`), with their own pump (`OnlineLoop`, `WindowLoop`). `pump()`
awaits that loop before it looks whether the session is complete
(`stt-next/session.ts:190`, `:192`), and a callback told of the last event may run
in between: a pump that is `returned` is one whose loop is over and that has not
looked yet. Times of
words and the merge of overlapping texts are left out, and so is
`attachMicrophone`, which `VoiceActivity` has.

### Segmenter, VoiceActivity

`Segmenter` is the class of the same name as operators on a record, with the same
fields: `Feed` is `feed()`, with its `trim()`; `FinishSegments` is `finish()`. A
unit of audio is its number, so a clip is compared with its range.
`SpeechIsFound` is the reference, in terms of the scores alone: the speech that
lasts is reported, whole, and nothing else.

In `VoiceActivity` each frame has any of the three scores. `frame` is what the
worker is scoring, `scorer` what the recurrent network has heard since its reset.
The shared capture has one consumer more, which may throw, leave or stop it.
Operations that are over keep only their microphone (`Kept`), and the shared
capture is followed while a session uses it (`Used`).

### AssetLifecycle

`owners` are the counted locks of a process (`_FileAccess`), a mode and a count
per lock; `MayAccess` is the test of the process and then of the operating system.
`xfer` are the transfers with their worker threads, `call` what each caller is
doing:

    download: begin → peek → (reading) → mutation → model → look ⇄ join → wait → (install → replace) → last → ready
    load: download, then lease → verify → initialize → loaded
    delete: exclusive → mark → drain → ready

`Given` is the `finally` that gives locks back; `Over` the unwinding of a call that
raises. A worker goes `start → (adopt) → request → read → verify → publish →
release → done`. It looks whether it was stopped before each read and stores what
the read gave it without looking again (`Receives`); what it publishes is whatever
the checkpoint is (`Publish`). `Crash` kills a process: its
locks, threads and workers vanish, and what is on disk stays.

Abstracted: sizes and hashes (a file is whole or not; a checkpoint is none, some,
good or bad); names and formats of files, archives and of the registry; composite
files, files of unknown length, progress, `fork`, and the locks of Windows.

### LanguageStream

`thread` says where each thread of the application is, `stream` holds a record per
`LanguageStream`, `model` the fields that `_condition` guards, `native` the rounds
that are open. A thread goes

    next, result: (claim → queued →) run ⇄ native, event → leave → unlock
    count: enter → claim → queued → inspect → leave → unlock → close
    close: close → try → cleanup         unload: unloading ⇄ close

and while it runs, `gen` is the place of the generator `_run()`, which keeps it
when the thread is gone:

    begin → round (→ pump) → step ⇄ (received →) round … → drain ⇄ drain_pump → evaluate → begin … → over

`Ends` is a generator that is left, by whatever way, with its `finally` blocks.
`told` is what the result, or the error, says of each call. `missed` is no field of
the code: see observation 2 of section 5.

Abstracted: texts, messages, schemas, stop strings and manual calls; what
`stop_when`, a schema or the stop reason decide is a choice (`Evaluate`); an event
and its callback are one step, and so are the events of one pump; `wait(0.02)` and
`wait(0.005)` are the conditions they poll. Calls that raise without an effect (a
stream consumed by two threads, a tool that calls its own model, an unload from a
callback) are left out.


## 3. Runs

| run | instance | states | what it asks |
|---|---|---|---|
| `asset_transfer` | 2 tabs, a registry file or a runtime file of 2 chunks, 2 versions, one deletion, files of an older release, Web Locks | 174,000 | `StaleWriterFenced`, `RefinesRegistry` |
| `asset_transfer_no_locks` | the same without Web Locks | – | finding 1 |
| `asset_manager` | 2 calls in one tab, another tab that deletes, 2 files of a chunk, one shared, read last | 307,000 | `TransfersAreShared`, `ReadyIsWhole` |
| `asset_manager_fair` | 2 calls, 1 file | 60,600 | `TransferSpec`, `CallsSettle` |
| `language` | 2 generations, 10 option records, up to 3 calls in 2 rounds | 1,609,000 | `ReportsAreTrue`, `ToolsAreScheduled`, `EndingsAreTrue`, `BackendIsSerial`, `GenerationsEnd` |
| `bridge` | a load, 2 requests, an unload, rounds of up to 2 events, one stray error | 282,000 | `RoundsAreSerial`, `AnswersAreTrue`, `BridgeSettles` |
| `bridge_overlap` | the same | – | finding 2 |
| `speech` | 3 generations, 2 speeches, chunks of 2 ticks, a lookahead of one chunk | 601,000 | `OneVoice`, `WorkIsOrdered`, `PositionHonest`, `SpeechesSettle` |
| `recognition` | 2 operations, either kind of recognizer, windows of 3 units, a recording of 4, sessions of up to 4 units together | 537,000 | `RecognizerIsObeyed`, `SessionsAreTrue`, `WorkEnds` |
| `listening` | 2 operations, frames of 2 units, a recording of 9, sessions of up to 3 together, one shared capture | 578,000 | `ScorerIsReset`, `RangesAreTrue`, `MicrophoneIsShared`, `ListeningEnds` |
| `lifecycle` | 3 threads, 2 processes, two calls at a time, a model with a file of its own and a shared archive | 1,458,000 | `FilesAreProtected`, `SuccessIsTrue`, `EveryCallReturns` |
| `language_stream` | 2 threads, 2 streams, up to 2 calls in 2 rounds or side by side | 378,000 | `NativeIsExclusive`, `ToolsAreAccounted`, `CallsReturn` |

Every module that has a specification has one type invariant. It also relates
fields where types alone say little (`BridgeTypeOK`: the active request is the
generator that is not over; `SpeechTypeOK`: released ≤ played ≤ scheduled ≤ made;
`LifecycleTypeOK`: the count of a lock is the number of threads and workers inside
the blocks that give it back, and two processes have one only if both read;
`TransferTypeOK`: under Web Locks a transfer runs only while it holds the lock of its
file, and the owner of a lock has not settled; `StreamTypeOK`: the lock of a stream is held by the one
thread that drives it). `CompleteIsIntact` is refuted without Web Locks and proved
with them.

What some of the properties say, where the name says too little:

* `ReadyIsWhole`: a call that reads the last private file of its second pass has
  found all of them installed, in the generation it read first; when it resolves,
  no deletion of its own tab is under way and every file is there, but for private
  ones that another tab deleted after that read. That exception is behaviour of the
  code (observation 3 of section 5); the property says there is no other.
* `SessionsAreTrue`: a session that is complete was heard in full. Nothing
  provisional is lost by a pump that returns after the end was asked for
  (`LateEndOnly`); the one gap is between that return and the look of `pump()`
  (observation 4 of section 5).
* `SuccessIsTrue`: besides downloads and loads, a deletion succeeds only with the
  files and checkpoints of the model gone and with no worker of any process, its own
  included, that could bring one back. A model in which a deletion does not wait for
  the workers of its process, or a worker adopts or publishes a checkpoint that was
  not verified, violates it.

### Bounds

* **Two tabs** suffice for a race on one file: a writer and what happens to the
  file while it is suspended. Two chunks give a checkpoint that is neither empty
  nor complete, and one generation of deletion a stale writer.
* `OneFileWritten`: transfers of different URLs touch disjoint variables; a
  behaviour that writes both files projects to two that write one each.
* `OverlapOnOneFile`: two calls overlap where only one of the two files is to be
  downloaded; where both are, the calls follow each other. A call of two files
  that is joined, cancelled and deleted while one is installed is covered.
* `WideAlone` (language): a generation with several calls or unusual options has
  the model for itself; two that queue have one call each. Generations meet in
  the queue, in `native` and in `unload` only, and none of these looks at the
  number of calls. `FirstFirst` names the first generation `g1`.
* `WideAlone` (speech): with more generations and speeches, each is shorter.
  One pause, two segments, two units and a reader are explored with one speech;
  four objects together with one chunk or two each.
* `MaxErrors`, `MaxEvents`, `MaxIds`: two requests after the load are a round and
  what races with it; a round that ends whole needs one event besides `done`.
* **Recognition and voice activity**: two operations are one that ends and one
  that follows on the same recognizer. A recording of 4 units is two windows with
  an overlap, or two steps of the incremental recognizer; one of 9 units, in
  frames of 2, is speech that lasts (`MinSpeech` 3), a silence that lasts
  (`MinSilence` 2), another range whose padding reaches back to the first, and a
  last frame that is not full. `MaxAudio` and `MaxOps` bound what callers ask for,
  never what the code does with it.
* `TwoAtOnce` (lifecycle): two calls at a time, whichever of the three threads
  make them, so of one process or of two; one of the two files is at rest. Races
  of three calls are left out, but a third may follow while the worker of a call
  that has been given up still runs.
* `OneWithTools` (language streams): a stream that calls tools is the only one and
  one thread drives it, while the other cancels, closes and unloads. Two streams
  without calls meet in the queue; of these the first begins first, and the second
  is read by `result()`.
* Symmetry is used on the callers of `asset_manager` only, which has no liveness.
* `CHECK_DEADLOCK FALSE`: all but the asset runs stop when everything the bounds
  allow has been asked and has ended.

A constraint cuts behaviours off at the first state outside it, which may hide a
liveness counterexample but invents none for a property that is guarded: the
liveness properties of most runs with a constraint have the form `[]P => ...`, where
`P` (`Narrow`, `OneSpeech`, `TwoCalls`) is a smaller instance inside the
constraint, and only the behaviours that stay in `P` are judged. Those are
explored whole. Fairness is conjoined with `P` for the same reason: outside of it
nothing is said, so nothing is assumed. `asset_manager_fair`, `bridge`,
`recognition` and `listening` bound by constants and need no guard. In
`language_stream` no guard is needed either: a thread that has begun something is
fair whether or not its step leaves the instance, so what is cut off invents no
counterexample.

### Fairness

Weak fairness of what the code schedules: reactions of settled promises, timers,
transactions that have been started, threads. Strong fairness of the grant of a
Web Lock, since locks are granted first come, first served. Of the environment
only what each property states: the network answers what nobody has cancelled
(`NetworkFairness`), tools, schemas and rounds answer unless the generation was
cancelled (`WorkFairness`), messages arrive and native steps end
(`FairBridgeSpec`), the backend answers, the context resumes and the audio clock
runs (`PlatformFairness`), a worker answers each command and a context closes
(`Turns` of `Recognition` and `VoiceActivity`), a network read ends, by its
timeout at the latest (`LifecycleSpec`'s `Fairness`), native steps and callbacks of
the Python language model return (`ThreadFairness`), its tools need not. Nothing is assumed of callers:
they may never ask for the next event of a round, never resume a speech, never
answer a permission prompt. `CallsSettle` and `GenerationsEnd` therefore say that
cancelling ends a call although nothing outside ever answers it.

In recognition and voice activity, one weak fairness of all turns together is
enough, which is less than the event loop gives: `AtRest` must be reached again
and again while callers, users and devices go on doing as they like.

The worker is assumed to end a round it was told to abort (`Acknowledges`), with
the result settled first, which makes the end of a cancelled generation
independent of it.


## 4. Proofs

TLC checks small instances; these theorems hold for every set of tabs, files,
versions, callers, options, requests and every bound.

### AssetProofs: the writers

Assumed: `StoreAssumption` and `TransferAssumption`, in the modules.

* `TransferTypeCorrect`. `Typed` is the types with two facts they need: the bytes
  of a record count its chunks, and a transfer past `fetch` holds a response. That
  running transfers hold the lock of their file, and owners of locks run, is
  inductive by itself.
* `StaleWritersAreFenced`. `Fenced` says that a transfer that may still write
  holds a record of its own generation, and that no transfer is ahead of the
  store. A write compares the generation of that record (`StepSaves`), so
  within a generation only its own transfers write. No lock is needed.
* `LocksKeepWritersApart`, `LocksKeepFilesIntact`, with Web Locks. `Serial`: a
  transfer past the lock holds the lock of its file; as long as its generation
  lasts, its record is the stored one and what it has hashed is what is stored
  (`Abreast`); none has met a conflict; complete files are intact. The invariant
  is needed because `CompleteIsIntact` alone says nothing about what a
  suspended writer is about to publish. Finding 1 shows the locks are necessary.

### AssetProofs: the registry

`LocksRefineRegistry`: with Web Locks, and a sound registry (`RegistryIsSound`:
a digest is that of a content the server may send, a length that of the content;
a runtime file has neither), the store implements `AssetRegistry`. To the
invariants above it adds what a writer knows of the content (`Genuine`): what it
has accepted is compatible, what a validator vouches for is the beginning of one
version, and a complete file with the registered digest has the registered
length. A step of another writer does not touch the file a writer holds
(`OthersUndisturbed`), so each action needs only its own file and itself
(`OwnGenuine`). Each step then leaves the file unfinished, installs it or
withdraws it (`FileUnfinished`, `FileInstalled`, `FileWithdrawn`), and a deletion
removes the private files together.

### AssetProofs: the calls

Assumed besides: `ManagerAssumption`.

* `ManagerTypeCorrect`, `ManagerImplementsTransfer`. `Managed` says that what a call
  has captured is not ahead of the file (`Generations`; so a transfer is begun as
  `Begin` requires) and that the map of a tab holds live transfers of that tab, each
  under its file (`MapHeld`; so what `Create` replaces is what it may replace).
  `ManagerRefinesRegistry` follows: the store under the calls is the registry.
* `TransfersStayShared`. `NoOrphanTransfer` is not inductive: that a departing call
  aborts all it leaves alone must be known together with who can still attach.
  `Sharing` says that an attached join is one of an active call, to a live transfer
  of its tab (`Listening`); that what is not aborted is in the map and is listened
  to (`InMap`), which makes it the only one of its file; and where a call stands in
  its joins (`JoinFollows`), so that no call that has failed attaches any more.
  `QuietSteps` lists the few steps that touch any of this.
* `ReadyMeansWhole`, with Web Locks and a sound registry. `Wholeness`: a transfer
  that ended well, and a join that succeeded, stand for an installed file as long as
  its generation lasts (nobody but a writer that holds the lock touches the file,
  and it finds it installed: `InstalledStays`); a join listens to a transfer of the
  generation its call captured; and no private file read in the second pass was
  captured at an older generation than another private file (`ReadAgain`). The last
  argument is what the second pass is for: files are captured one by one, so the
  captured generations may differ, but a deletion moves all private files at once,
  so that the read of the last private file, finding it where it was captured,
  bounds all the others. The shared files, read after it, only stay. The theorem
  holds for a manifest in any order.

### NativeBridgeProofs

* `BridgeTypeCorrect`. `Typed` says besides types that every message names a
  request that was made, which is why the next number is new.
* `LoadedBackendIsOpen`: a caller that has been given a backend can use it until it
  asks for its unload.
* `NativeRoundsAreSerial`. Nothing is claimed after a stray worker error (finding
  2); before one, `Serial` ties the two ends together. The abort and the request of
  a round are in the queue at most once and in order (`RequestsApart`), a round the
  worker runs is the active one of the bridge (`RoundRuns`), and a bridge that waits
  for the end of one has something coming (`RoundWaits`, `Busy`).
* `BridgeAnswersTrue`, for any number of events of a round. `Handed` balances the
  books of a round that its caller has not left: the events the worker emitted are
  those the caller has read, those in its queue and those on their way (`Told`, a
  cardinality), and none is on its way once the round is over. `Once`: a round is
  asked for, or runs, or its end is on its way, never two of these; that holds of
  the worker whatever the host has forgotten. A round that is not over stays in
  `pending`, so no message of it is dropped. `Sound` leaves out the rounds that
  failed with an error of the worker that was not theirs.

### LanguageModelProofs: reports, queue and native rounds

Assumed: `LanguageAssumption`.

* `LanguageTyped`, `ReportsTrue`, `ToolsLimited`, `UnloadedLast`,
  `RoundsOneAtATime`, and from these two `BackendStaysSerial`. The inductive invariant `LanguageInv` has a part per
  generation and one about the queue. `Sound(r)`: types, the tool limit, pending
  calls are calls, and the report of a generation that has ended is true;
  `PhaseFits(r)`: one that has ended only waits to start or to leave the queue, so
  none of its calls moves any more but by the end of a tool. Each helper that
  makes a new record of an old one (`Finish`, `Reject`, `Raise`, `Execute`,
  `Pumped`, `Conclude` ...) preserves them, by a lemma of its own. `Owned`: the
  queue holds each generation that is not over once; only its head runs; the
  native round belongs to a running generation, in a phase that holds one. From it
  follow that rounds are one at a time and that an empty queue has no round.

### LanguageModelProofs: how a generation ends

`EndingsTrue` and `ToolsScheduled`, by a second invariant of each generation,
`Honest(r)`, on top of `LanguageInv`. `Fits(r)` is what every helper preserves: a
failure has aborted the generation, and ends it as a rejection if anything does;
a call of an earlier round is final; only an abort, or the end, explains a call
that is dropped or unanswered, and only the option one that is left to the
application; the pending calls are those of the list, once each. `Placed(r)` says
where the generation may be: between rounds all calls are final or it is aborted,
and no failure is left to tell, which is why what concludes a round may finish it
without asking; only the last call is being parsed. What tools do meanwhile is the
relation `Advances`, which `Pumped` and the end of a tool, that may come in any
phase, satisfy (`PumpedFits`), and which leaves `Placed` alone (`AdvancesPlaced`).
When the drain finds no tool that runs or waits, and the generation is not aborted,
the calls can only be final or the application's, and those only of this round
(`ManualIsLast`).

### SpeechProofs: one voice

`SpeechHasOneVoice`. `VoiceInv` says of every speech what it is: the active one is
neither paused nor over; any other is paused or over and `Silent`, with no source,
no timer and no start under way. `OneVoice` alone is not inductive, because a start
that settles gives a speech a timer: the invariant must know that only the active
one has a start to settle. No assumption is used but that `None` is no speech.

### SpeechProofs: the audio of a speech

Assumed: `SpeechAssumption`. `SpeechTypeCorrect` and `PositionIsHonest`, from an
invariant of one speech and its generation. `Fit` lists the four states a driver
can be in: `Stood` (nothing is scheduled), `Starting` (the context has not resumed;
everything from the index on is pending), `Refused` (it resumed, and the nodes did
not start) and `Playing`, where the end of the driver is the beginning of the first
chunk that is not scheduled and every chunk that is not over is a source. That the
ends agree is what makes the position honest: the clock cannot pass over a chunk
without a source, and an underrun leaves `end` at the beginning of the chunk that
is appended next, so that moving the origin (`Late`) repeats and skips nothing.
Each operator on a speech keeps it fit and where it is (`Follows`), or ends it
(`Silenced`); only the clock moves it (`ClockMoves`). `World` is the invariant of
the whole, stated of any generations, speeches and pump, so that a turn of several
synchronous calls is followed call by call. `Near` says that direct speech is not
far ahead; it must also say that a synthesis under way was asked for at a position
from which it was needed, since positions only grow and a generation that is not
retained has a single speech.

### SpeechProofs: the order of the work

`WorkStaysOrdered`: the bound of the lookahead is `Near`, and the release only
reaches the index. For the order, `OrderInv` says that a generation with a speech is
not raw (so that the pump never prefers a raw one for being played), and that
whatever has been worked on, or is, was the first raw generation that could go on
(`First`). Turns only make, end and speak generations, and work for those they name
(`Advances`).

### LanguageStreamProofs

Assumed: `StreamAssumption`.

* `StreamTypeCorrect`, `NativeExclusive`, `ToolsAccounted`, from `StreamInv`. `Sound`
  is what a stream is by itself: its calls fit the place of its generator
  (`CallsFit`), and a stream that has told its end runs no generator. `Fits` is what
  the place of a thread says of the stream it is in: one that is in the native model
  drives a stream that holds the model (`Locked`, `ModelFits`), and one that waits in
  the queue does not own the active stream, although that changes hands while it
  waits. The tools are the only actors outside: `ToolReturns` may come at any place,
  so each fact about calls is one that the return of a tool keeps.
* A step of a thread changes its own place and one stream. `Apart` says which changes
  of a stream leave alone what all other threads know (`ApartFits`); a thread that
  holds the lock of a stream is the only one that is in its generator, which is why
  the place of the generator may move (`StepInv`, `MoveInv`). `told` never moves: it
  is written when the generator is left, when no call is going to begin.

### AssetLifecycleProofs

Assumed: `LifecycleAssumption`; finitely many threads and files, since holders are
counted, and a private file belongs to one model.

* `LifecycleInvariant`, of three parts: `LifecycleInv`, that a checkpoint about to be
  published is verified (`Verified`), and that a call that deletes does nothing else
  (`Dedicated`). `Verified` is what makes a publication leave a whole file; it stays
  because no thread changes the checkpoint of a worker (`ThreadSpares`; a deletion
  waits) and no other worker does (`WorkersExclude`). `LockInv` is about the locks: each process counts its
  holders right (`Counted`), a lock is in the mode of every one that has it
  (`InMode`), and two processes have it only to read (`Exclusion`). A step of one
  thread or worker moves the counts by what it gives or takes (`ThreadCounts`,
  `WorkerCounts`). `Fitting` is what a thread knows where it is, stated of a call
  record and the state around it so that steps of others only have to keep what is
  around (`FittingStays`): while no deletion has begun since, a writer has found
  each file before its index whole or waits for it or has been told of a failure
  (`Found`). `TransferFits` says the same of a transfer: one that is not stopped
  has a caller, none of whom a deletion has overtaken, and one that ended well
  while somebody waits left a whole file.
* `FilesProtected`. A worker has the cache lock and the lock of its model until it
  touches nothing any more (`WorkersExclude`, `WorkerExcludes`); a deletion, which
  reenters the lock of the writers of its own process, removes files only when the
  transfers of the private ones are over (`RemoveInv`), and finds no lease, because
  the leases are counted (`Leased`).
* `SuccessTrue`. A call is ended well by its own steps only (`OwnEnd`); the last look of a download is worth
  something because what was found before it stays as long as `_check` holds
  (`LastReady`), and a lease because no deletion begins under it (`LesseeOf`). A
  deletion ends well by `Remove` only, which finds no worker of its own process
  (`Drained`), and those of others are excluded by their locks (`DeletionTrue`).
* `LifecycleTypeCorrect`.

### RecognitionProofs

Assumed: `RecognitionAssumption`.

* `RecognitionTypeCorrect`, `RecognizerObeyed`, `SessionsTrue`, from
  `RecognitionInv`. `OpFit` is what one recording or session is by itself. For a
  recording (`FileFits`): what was heard, what is under way and what is left are the
  whole of it, in this order. For a session that goes on (`Ordered`): its queue is
  the last units it accepted but for the one the resampler keeps; with an
  incremental recognizer what was heard, the chunk and the queue follow one another
  (`Incremental`), with windows what was heard ends where the decoded part of the
  queue does (`Windowed`). `Numbered` and `ShowFits` tie the hypothesis to the last
  event, `MicFits` the microphone to the end of the session, `Limited` what was
  heard to the limit. That a pump returns with everything told (`LateEndOnly`) is a
  fact of its last turn, proved of each way in which a loop may end.
* None of the properties is inductive alone. That a complete session was heard in
  full needs the order of the queue at every await of the pump, and that the chunk
  of a window is a prefix of a queue that grew meanwhile (`Chunk`); that the last
  push tells the recognizer its end needs that no unit can come after it
  (`finished`).
* A step of the pump is followed call by call: `Resting` is a session at the head of
  a loop, where `OnlineLoopFits` and `WindowLoopFits` begin and where `Pushed`,
  `Decoded` and `Kick` arrive. `FileNext` says the same of a recording.
* `RecognizerFits` says whose stream is open, and that the one who has it is at a
  place where it has one (`UsesRight`). With `InTurn` (only the first operation that
  is not over is past the queue) a command can only be that of one operation
  (`OnlyOne`), so each action needs only its own operation (`Becomes`). Once the
  worker has failed nothing is claimed of the recognizer.

### VoiceActivityProofs

Assumed: `ListeningAssumption`, `SegmenterAssumption`. Proved for any lengths of
recordings, chunks and frames, any durations and padding, any scores and any number
of operations.

* `ListeningTypeCorrect`, `ScorerReset`, `RangesTrue`, `MicrophoneShared`, from
  `ListeningInv` (`ListeningInvariant`).
* The segmenter. `Sound` says what it keeps whatever it is fed: the range under way
  comes after the last one, ranges are in order and carry their audio, and the audio
  kept begins where it may still be needed (`AudioKept`; so trimming drops nothing a
  later range could want). `Heard` ties it to the scores: speech that has gone on
  since frame `i` and is too short (`Tentative`), or long enough, with the last frame
  that was not silence and no pause that would have ended it (`Confirmed`); speech
  that lasted is in a range or under way (`Found`), and each range comes from speech
  that lasted (`Based`). `SpeechIsFound` is not inductive without these: it speaks
  of ranges that are closed, while the segmenter decides at the frame that makes
  speech last or a pause long enough. One more frame is followed by the four cases of
  `Voiced` (`VoicedGoes`, `FedHeard`), and the end by one more close (`FinishFinds`,
  which looks at what is still under way).
* Operations. `Queued`: what was scored, the frame being scored and the queue follow
  one another up to the last unit accepted but for the one the resampler keeps;
  hence a complete operation has scored all of its audio. `Unheard`: nothing is fed
  before the operation goes live. A step of the pump is followed as in
  RecognitionProofs (`PumpLoopFits`, `KickFits`, `ScoredFits`, `PumpSettlesFits`).
* The scorer. `ScorerFits` counts the frames of the operation at work; it needs
  `InTurn`, and that one whose frame is under way is not over although it was
  cancelled (`AtWork`), since the next one resets the scorer as soon as it may.
* The shared capture. Who is attached depends on both ends: `Serves` says that a
  consumer has accepted what the capture heard, and that a session that believes it
  listens is a consumer unless the capture was stopped: `stop()` forgets its consumers
  without telling them (`audio-next/microphone.ts:97`). `ServedHears` follows one delivery through consumers
  that throw, leave or stop it.

### Only model-checked

What must eventually happen (`CallsSettle`, `EveryCallReturns`, `ListeningEnds` and
the others of their kind), because liveness under fairness is out of the prover's
reach. Every safety property of the passing runs is a theorem.


## 5. Where code and documentation disagree

1. **Without Web Locks contents can be mixed** (`asset_transfer_no_locks`,
   `assets/store.ts:27`). `assets/README.md:68` says that the transactional
   compare-and-set alone "protects against conflicting cross-context writes,
   which reject with `AssetConflictError` instead of mixing data". `compare()`
   looks at the generation, the length, the number of chunks and completeness.
   A writer that is suspended before a save accepts a checkpoint that another
   tab has reset and filled again to the same length from a server whose content
   has changed; it appends to it and publishes the mixture as complete, with the
   digest of its own download. Later reads fail their integrity check and later
   downloads find the file complete.
2. **A stray worker error lets rounds overlap** (`bridge_overlap`,
   `llm-native/bridge.ts:21`). `llm-native/README.md:37` says "Early iterator
   return waits for native teardown before another round can start."
   `rejectOutstanding()` posts the abort and marks the round done at once, so the
   `finally` of the generator does not wait; the next round reaches the worker
   before the native step that ends the old one, and is refused with "A round is
   already running on this model.". Without such an error rounds are serial
   (`RoundsAreSerial`).

Four observations made while modelling, for which no run is kept:

1. **A thread is refused by a reader of its own process**
   (`packages/wfloat-python/python/wfloat/_lifecycle.py:158`). The modes of a lock do
   not mix within a process: a download that has found files missing is refused as
   in use while another thread still reads the cache (`:550-553`), and a load is
   refused at its lease (`:716`) while another download writes, with no instance
   loaded and no other process. `:3` says "Transfers are shared within a process.",
   and the error (`:40`) "An instance or another process owns assets needed by this
   operation." In `AssetLifecycle` such a call ends at `inuse`.
2. **A close that comes too late for its driver**
   (`packages/wfloat-python/python/wfloat/_language.py:516`). `_leave_drive` looks at
   `_close_requested` and then gives the lock back; a `close()` between the two does
   not get the lock (`:603`) and leaves the cleanup to a driver that will not look
   again. The stream stays active until somebody asks it for another event or
   closes it again, and until then the queue and an `unload()` wait (`:431`).
   `CallsReturn` says that this is the only way in which they wait for ever: it
   excepts the streams marked `missed`.
3. **A deletion that comes late is not noticed** (`assets/manager.ts:114`). The second
   pass reads the shared files last. A deletion by another tab between the read of the
   last private file and that of the last shared one changes nothing the pass still
   looks at, and the interval timer need not fire in between: `downloadModel` reports
   ready without the files. `API.md:45` (of the package) says "Deleting during a
   pending download/load makes affected operations reject with
   `ModelAssetsDeletedError`". The exception in `ReadyIsWhole` is this behaviour:
   without it TLC finds it in twelve steps.
4. **A finish between two looks of the pump** (`stt-next/session.ts:190`). A callback
   told of the last event is a microtask that runs before `pump()` goes on. If it calls
   `finish()` when the queue is empty, `kick()` does nothing, since the pump has not
   ended; `pump()` then finds the end asked for and nothing queued and completes the
   session, without a last step that tells the recognizer its end and makes the
   displayed text final. The result lacks that text. `API.md:392` (of the package) says
   "`finish()` stops SDK-owned capture, drains accepted audio, emits final updates, and
   resolves the result." `LateEndOnly` says that no other order loses it.

## 6. What the models leave out

Contents of texts, arguments, audio and schemas; durations, but for their order
and the audio clock; browser limits (quota, eviction) beyond a failing
transaction; the garbage collection of abandoned iterators; memory. The React
Native SDK is not covered by any statement here, although it shares most of its
TypeScript with the web, and of the Python SDK only the lifecycle of files and the
language model are.


## 7. Plan

1. **React Native** — `NextAssets.kt`, `SpeechRuntime.cpp`, `LlmRuntime.cpp`; the
   Python sessions of `_recognition.py`, `_speech.py` and `_activity.py`.
2. **Pure algorithms** — the transcript merge, StopFilter and the prefix cache.
