# Octomil Node SDK: TLA+ models, checks and proofs

The repository is the Octomil Node SDK: one npm package whose clients run in the
caller's process. It prepares model artifacts on disk, decides for each request
whether a local runtime or the cloud serves it, runs inference through a native
library or over HTTP, and reports what it did. Everything below is read from
`src/` at one commit; line numbers in the comments and in `PROJECT.json` refer to
that commit.

JavaScript runs one thing at a time. What interleaves is what lies between two
awaits (or two yields) of different calls on the same client, different processes
on the same cache directory, and the callers that hold a generator or a handle.
One action of a model is one stretch of code between two such points, or one
synchronous method.

## 1. Inventory

| Component | State it keeps | Operations | Hard because | What makes it correct |
|---|---|---|---|---|
| **Artifact preparation** (`prepare/prepare-manager.ts`, `durable-downloader.ts`, `materializer.ts`) | four files per artifact key: `.part`, the published file, the copy's `.tmp`, the runtime copy | `prepare`: probe, hash, download from one endpoint after another, check, publish, copy | calls of several processes share the names; crash between any two file operations; no fsync; endpoints fail halfway | the published name holds whole verified bytes; a returning call leaves the bytes of its digest; a solitary call repairs any debris; every call settles |
| Path containment, backend handles (`safe-join.ts`, `backend-handle.ts`, `prepare.ts`) | none / a warm session | validate, wrap `prepare` | - | - |
| **Attempt runner** (`runtime/routing/attempt-runner.ts`) | one call's loop: candidate, attempt log, whether output was seen | `run`, `runWithInference`, `getLastResult` | failures at four stages, three separate last-candidate tests, streaming | no splice of two models' outputs; restricted calls stop; log and result agree; it gives up last |
| Gate evaluators (`evaluators.ts`) | none | pure verdicts | - | - |
| **Responses client, routing** (`responses.ts`) | `lastRouteInfo` shared by all requests; per request a plan, a position, what its caller saw | `create`, `stream`, with and without a planner | requests interleave on one field; streams break before or after the first output; policy checked on several paths | private requests do not move to the cloud; one stream, one route; each request reports itself |
| **Responses client, memory** (`responses.ts`) | `responseCache`, `messageCache` | build the effective request, cache an answer | two evicting maps written at different times, ids chosen elsewhere, fallback reads again | maps in step; a continued conversation is whole and is the caller's own |
| **Native loader** (`runtime/native/loader.ts`) | wrappers of library handles; registries of open sessions and models; borrowers of a model | open, borrow, use, warm, close in any order | the library refuses (BUSY) or fails; a runtime closes with objects still held | never a call with a freed handle; registries exact; a close leaves nothing behind |
| **TTS stream backend** (`runtime/native/tts_stream_backend.ts`) | one runtime and model; one session per stream | `loadModel`, `close`, generators over `pollEvent` | the caller acts while a generator is suspended; every step of `loadModel` can fail; deadline against completion | nothing leaks; the text of an error is its own runtime's; every call returns |
| **VAD, speaker, diarization backends** (`vad_backend.ts`, `speaker_backend.ts`, `diarization_backend.ts`, facades in `audio/`) | a runtime; the speaker's model and its name; a VAD stream's session and generators | `open`, `loadModel`, `detect`, `diarize`, `embed`, `close`, `pollTransitions` | a generator is suspended at each transition while others close or poll; a second spelling of a name reloads | nothing stays open that nobody holds; nobody new polls a stream past its end; no call with a freed handle |
| Facade (`facade.ts`) | initialized flag, warm handles | `initialize`, `prepare`, `warmup`, routing wrappers | warm cache against a newly prepared version | a warm handle serves the bytes last prepared |
| Chat, tool runner (`chat.ts`, `responses-tools.ts`) | thread messages | `create`, `stream`, tool loop | the previous response id is sent again in each iteration | a conversation is sent once |
| **Legacy client** (`client.ts`, `file-cache.ts`, `model-downloader.ts`) | files, the cache manifest, `_loadedModels` | `pull`, `getModel`, `removeCache`, `close` | a download lands on the cached path; concurrent loads; close during load; crash | a model runs on the bytes the registry resolved; what is loaded is found by unload and close |
| **Models** (`models.ts`, `model.ts`, engines) | downloads, errors, loaded sessions | `load`, `unload`, `clearCache`, `status` | overlapping loads of one reference, sets keyed by reference | status is what the last load is doing, or how it ended |
| **Telemetry** (`telemetry.ts`) | queue, timer | `track`, `flush`, `batch`, `dispose` | overlapping flushes; dispose with a long queue | each event is sent at most once; nothing is stranded |
| **Registration** (`configure.ts`, `device-context.ts`) | id file, registration and token state, timers | find or write the id, attempts with backoff, heartbeats | processes share the id file; every request can fail at any point; a process dies while it writes | one id per machine; a registration ends whole |
| **Manifest readiness** (`manifest/readiness-manager.ts`, `catalog-service.ts`) | ready paths, active entries, waiting promises, listeners | `enqueue`, `awaitReady`, `_markReady`, `_markFailed`, `bootstrap` | listeners act, and unsubscribe, while an update is handed round | nobody waits for a ready model; it is served from its latest path |
| **Routing client** (`routing.ts`) | decisions in memory with expiry, and in a file | `route`, `invalidate`, `clearCache`, offline fallback | the file is read, changed and rewritten across awaits, by several processes | an invalidated route does not return |
| Control (`control.ts`, `devices.ts`) | assignments, a timer | heartbeat, refresh | stale answers | the last answer wins |
| **Policy client** (`query-routing.ts`) | the policy in memory, and in one file per machine | `getPolicy`: memory, file, server with an etag, save | a 304 names no policy; the file is shared and rewritten by others | what is renewed is what the server confirmed |
| Request router, query router, planner | none of their own | route, score, fetch a plan | - | a local-only request gets no cloud endpoint |
| Audio, embeddings, streaming, local runner, server APIs | none of their own | one request each | - | - |

How they interact: the facade builds the responses client, the audio clients and
the prepare manager. `ResponsesClient` asks a planner client for a plan, walks the
plan's candidates with `CandidateAttemptRunner`, calls a local runtime, an
endpoint or the cloud, and passes a route event to telemetry. Native backends hold
loader objects. `warmup` prepares an artifact and loads a backend from the runtime
copy.

`PROJECT.json` lists every component with its status, and the hazards with their
lines.

## 2. What is modelled

Actions are named after the code's operations, or after the awaited step they
stand for. Each definition that models code has its lines under `map`.

### PrepareArtifact (with ArtifactCache, MCPrepareArtifact, PrepareArtifactProofs)

`PrepareManager.prepare` on one artifact key, for a set of `Callers` that share the
cache directory. `dir` and `disk` are a file system with inodes: `rename` moves a
name, `unlink` drops it, an open stream writes at its own offset to its inode
whatever its name is by now. `pc[c]` is the next awaited operation of a call
(`probe`, `hash`, `drop`, `sweep`, `fetch`, `write`, `reject`, `publish`,
`cleanup`, `reverify`, `stat`, `copy`, `fill`, `install`). A body is a sequence of
blocks; hashing is equality with a whole version. `Crash` ends a process anywhere;
`PowerFailure` cuts any file to a prefix, since nothing is fsynced.

`ArtifactCache` is the promise without files: one slot, changed only in the step
in which a call returns, to the version that call asked for. `Cache == INSTANCE
ArtifactCache WITH slot <- Slot, ...` is the refinement mapping; `Slot` is the
version the runtime copy holds (or the mark `Hole` for anything else).

### AttemptRunner (with MCAttemptRunner, AttemptRunnerProofs)

One behaviour is one call of `run` or `runWithInference`. Readiness of a runtime,
the verdicts of gates, and the outcome of inference are chosen as the loop reaches
a candidate. `attempts` is the log, `result` what was returned, `LastResult` the
metadata `getLastResult` rebuilds from the log. A fallback trigger is the attempt it is
about, its stage, and whether it carries the facts of a gate (`gate_code`, `gate_class`,
`evaluation_phase`, ...); `Rejected` is what a call returns when it ends with a rejected
output.

### ResponseRouting (with MCResponseRouting, ServicesProofs)

`ResponsesClient.create` and `.stream` on one client, with or without a planner, a
local runtime and an external endpoint (`conf`). Requests interleave at the awaits
for plan and answer and at each yield. `used`, `deltas`, `dones` record which
localities were contacted and what the caller saw; `lastRoute` is the shared
`lastRouteInfo`. A local runtime's stream may end without a `done` event, and may throw
after one, also when it was the only event.

### ResponseStore (with MCResponseStore, ResponseStoreProofs)

The two insertion-ordered maps with their separate evictions, `buildEffectiveRequest`
when an attempt is sent, `cacheResponse` and `cacheMessages` when its answer
arrives. Transports choose ids and may hand one out again; ids are never empty
(an empty one would not be evicted, see the hazards).

### NativeHandles (with MCNativeHandles, NativeHandlesProofs)

The three wrapper classes of the loader. `state` is what a wrapper believes,
`live` what the library has allocated; `CallWith(handles)` stands for a library
call and collects in `stray` every handle that is freed, or whose runtime is. The
library's rules (`Valid`, `NativeBusy`) are those the repository's own stub keeps
(`tests/helpers/native-runtime-stub.ts`). `CloseRuntime` is the whole of
`NativeRuntime.close`: sessions, then models (with the library failing on any of
them), then the runtime.

### TtsStream (with MCTtsStream, TtsStreamProofs)

`NativeTtsStreamBackend` composed with `H == INSTANCE NativeHandles`: every library
call of the backend is an action of `NativeHandles`. `thread` is what the one
JavaScript thread is in the middle of; callers get their turn only when it is
`"idle"`, which a suspended generator leaves it. `loadModel` is split at the points
where a call of the library may fail.

### AudioBackends (with MCNativeHandles, AudioBackendsProofs)

Extends `NativeHandles` by the callers of its actions: the three audio backends, the
streams of the VAD backend and the generators over them, and `callers`, direct users of
the loader. Methods are synchronous: `at` says which one is in the middle of what, and
nothing else runs until it is `Idle`. Each library call may fail, and every failure path
closes what the code closes. `Iterators` are the generators of `pollTransitions`; a
suspended one may be overtaken by a close, an abort or another generator. `displaced`,
`late` and `pastEnd` are history.

### OctomilClient (with MCOctomilClient, OctomilClientProofs)

`pull`, `getModel` (behind `predict`) and `models.load` as calls `c` with a stage `pc[c]`
per await: resolve, look into the manifest, write the file (opened, filled, verified),
register, create the session, enter `_loadedModels`. `unload`, `clearCache`,
`removeCache`, `close` and `Model.close` act between. `file` holds bytes (`Junk` for a
torn or wrong body), `entry` the manifest's checksum. A crash empties what is in memory.
A version stands for its bytes and their checksum: hashing is equality.

### TelemetryReporter, RoutingCache, Readiness, Registration, PolicyCache (with MCServices, ServicesProofs)

Five small parts that share nothing, each a module with its own variables and its own
specification (`TelemetrySpec`, `CacheSpec`, `ReadinessSpec`, `RegistrationSpec`,
`PolicySpec`).
`MCServices` checks them in one run: its initial states choose the part that moves
(`focus`), so that the state spaces add up and do not multiply.

- *TelemetryReporter*: `queue` and the batches posted; a flush takes its batch out of the
  queue before it posts, so that several may be `flying`.
- *RoutingCache*: one client's `memory`, and the file as what is stored, whether it is torn,
  and who has it open; a call is between its read and its write (`stage`). Reading, writing
  and removing the file may each fail, and the code goes on as if they had not. `dropped`
  (history) are the models whose invalidation went through: its write or removal succeeded,
  and no call was between reading or fetching a decision for the model and writing it
  (`PutsBack`).
- *Readiness*: an update is handed to `listeners` one `turn` at a time; a listener of the
  app does as it likes in its turn, also unsubscribe, which shortens the array the loop
  walks. The catalog's own listeners set the runtime a model is served from.
- *Registration*: contexts look for the id file, make an id (also when they cannot read the
  one that is there: `unread`), open the file (which empties it), write it, fail to, or die;
  then the attempts of `silentRegister`, the token and the timer. `kept` and `shared` are
  history.
- *PolicyCache*: `getPolicy` of several clients over `policies` in memory and one
  `policyFile`, which a writer empties before it fills it; what two write side by side need
  not parse, nor what a process dies over. A call reads the file, shows the
  server the etag `tag` of what it has at hand, and gives what a 304 confirms its own
  stamp. `told` is what the server had when it answered, `met` the calls that overlapped
  another of their client (history). One server, which sends an etag with every policy.

## 3. The runs

| Run | Instance | What it shows |
|---|---|---|
| `prepare_serial` | 2 callers, 2 versions of different length, junk, 2 endpoints, no overlap, crashes | `PublishedIsWhole`, `PreparedBytesMatch`, `ImplementsArtifactCache` |
| `prepare_concurrent` | 2 overlapping callers, 1 version and junk of one block, 1 endpoint, 6 inodes, crashes, power failure | `TypeOK`, `SoloPublishIsWhole`, `EveryCallSettles` |
| `prepare_stale_size` | 1 caller, 2 versions of one length | violation of `PreparedBytesMatch` |
| `prepare_shared_part` | 2 overlapping callers | violation of `PublishMatchesDigest` |
| `attempt_runner` | plans of 0 to 4 candidates, none or one gate of every kind | `TypeOK`, `NoSplice`, `RestrictedTriesOne`, `MetadataAgrees`, `GivesUpOnlyWhenExhausted` |
| `response_routing` | 2 requests, all plans of up to 3 candidates alone, 2 plans side by side | `TypeOK`, `PrivateNeverFallsOver`, `DeltasFromOneRoute`, `AloneReportsItself`, `EveryRequestSettles` |
| `routing_private` | 1 request | violation of `PrivateNeverContactsCloud` |
| `response_store` | 2 turns at a time, 3 ids, caches of 2, inputs of at most 5 messages | `TypeOK`, `InStep`, `MessagesKept`, `WholeConversation` |
| `native_handles` | 2 runtimes, 2 models, 3 sessions, the three audio backends, 1 VAD stream, 2 generators, direct callers | `NoStrayCall`, `RegistriesAgree`, `NothingOutlivesItsRuntime`, `NothingIsLost`, `NoPollAfterTheEnd` |
| `tts_stream` | 2 runtimes, models, sessions, model names and streams | `TypeOK`, `AllOrNothing`, `NoSessionLeaks`, `ErrorTextIsItsOwn`, `EveryCallReturns` |
| `octomil_client` | 1 reference, 2 versions, 2 calls that overlap and a third after them, crashes | `TypeOK`, `RunsWhatWasResolved`, `OnlyOverlapsLeak`, `StatusTellsOfTheLoad` |
| `services` | batches of 2 of 7 events; 2 routed models and 3 calls; 2 managed models, 2 paths, 2 listeners, 1 waiter; 3 contexts and 2 attempts; 2 policy clients, 2 calls that overlap and a third, 2 policies | `NothingIsStranded`, `InvalidatedStaysGone`, `ReadyIsServed`, `OneInstallation`, `RenewedAsTold`, `RegistrationSettles` |

The properties in words stand above their definitions. `SoloPublishIsWhole`, `PublishedIsWhole`
and `RunsWhatWasResolved` are about bytes on disk; `OnlyOverlapsLeak`, `AllOrNothing`,
`NoSessionLeaks` and `NothingIsLost` about what stays open; `AloneReportsItself`,
`StatusTellsOfTheLoad`, `InvalidatedStaysGone`, `OneInstallation` and `RenewedAsTold` about state that several
calls share: what they exempt (calls that overlapped, ids handed out twice) is
exactly where the code lets them interfere, and section "What the violations say" lists
what happens there. Each exemption is a history variable, and the property says nothing
about the case it stands for:

| Variable | Left out | Still covered |
|---|---|---|
| `overlapped` (ResponseRouting) | the report of a request that another ran beside | reports of earlier requests, and of the route a stream fell back from |
| `steady` (OctomilClient) | a path that another call wrote, or whose last write failed its checksum or was cut by a crash | removals, clearings and crashes at every other step, by any call |
| `overlapped` (OctomilClient) | two loads of one reference that overlap | unload, clear and close at every step of a load |
| `displaced` (AudioBackends) | the runtime that a second spelling takes the place of | every failing step of every method |
| `late` (AudioBackends) | a generator that was suspended when another took the last event | generators that start afterwards |
| `flooded` (TelemetryReporter) | what `batch` queued beyond a batch, at `dispose` | every event's order, loss and repetition, in all cases |
| `skipped` (Readiness) | the served path of a model whose listener the loop may have passed over | its waiters, and every other model |
| `dropped` (RoutingCache) | invalidations whose write or removal failed, or that a call was about to undo | all that fails, overlaps or tears before and after |
| `unread`, `shared` (Registration) | ids from before one was written over unread; processes that look side by side | deaths and failures at every step |
| `met` (PolicyCache) | calls of one client that overlap | other clients that rewrite and tear the file at every step |

The bounds, and why they do:

- *PrepareArtifact*: two callers are what it takes to overlap, and any number of calls
  follows one another. Where they overlap bodies have one block, which keeps the liveness
  check small: a file is then empty, whole or wrong, and a body that is cut in its middle is
  left to `prepare_serial` and to the proofs. Two versions of different length let a shorter
  body land in a longer file and the other way round; two endpoints give a first that fails
  and a second that takes over. `Inodes` bounds the files that exist at once (four names and
  one open stream per caller); unreferenced inodes are reused.
- *AttemptRunner*: four candidates are a first, a last and two between, so that a
  failure before, at and after the recorded first failure occurs.
- *ResponseRouting*: three candidates for one request; two requests at a time only
  with plans that start on either side, since what they share is one field.
- *ResponseStore*: a cache of two entries and three ids evict, and reuse an id that
  is oldest, newest or gone. `MaxInput` bounds the length of a conversation.
- *NativeHandles, AudioBackends*: two runtimes make a foreign model, and a reload over a
  first runtime, possible; three sessions let two borrow a model and one not. Two
  generators on one stream are one that takes the last event and one suspended meanwhile.
  Objects are not reused after a close, as wrappers are not; the instance ends when it
  runs out of them (`CHECK_DEADLOCK FALSE`).
- *TtsStream*: one suspended stream and another that is started meanwhile; one
  runtime and the one that replaces it.
- *OctomilClient*: two calls overlap in every way; the third (`LastIsAlone`) finds what
  they left, which is when an old manifest entry, a leaked model or a stale status shows.
  One reference is enough, since nothing is shared between references but `close`.
- *TelemetryReporter*: batches of 2 and `MaxEvents` of 7 fill the queue, flood it, and leave
  several flushes under way at a dispose.
- *RoutingCache, Registration*: three calls are two that meet and one that comes later,
  fails, or dies between; they begin in the order of their numbers, being alike (`InOrder`).
  `MaxAttempts` of 2 has a first and a last attempt.
- *PolicyCache*: two calls overlap, of one client or of two processes that tear the file;
  the third (`LastIsAlone`) goes by what they left. Two policies make one outdated.
- *Readiness*: two listeners of the app and two of the catalog let a removal skip either kind.

Deadlock checking is off where the modelled calls simply end, or the objects run out
(`attempt_runner`, `response_routing`, `response_store`, `native_handles`,
`octomil_client`, `services`).

### Fairness

- *Prepare, requests*: the event loop runs a continuation that is ready (also of each of
  two calls that delete and rename each other's files: `FairSpec` of `prepare_concurrent`
  lets them overlap), and a request ends in bytes or in an error. Node's `fetch` has header and body timeouts
  of its own (300 s), so a silent server ends in an error as well.
- *TtsStream*: the thread runs, and the clock advances while a stream drains.
  Neither an event from the library nor a caller who asks for the next chunk is
  promised. `pollEvent(200)` returns: the library bounds its wait.
- *Registration*: a registration request ends, in an answer or in an error, and the timer of a
  backoff fires. Neither finding an id nor a heartbeat is promised.
- Overlap, crashes, failures and callers have no fairness anywhere.

### What the violations say

- *Equal size stands for equal bytes* (`prepare/materializer.ts:60`): when an
  artifact id moves to a version of the same size, `prepare` reports the new digest
  and the engine loads the old bytes.
- *The `.part` name is shared* (`prepare/durable-downloader.ts:162`): an overlapping
  call on the key can replace the file between digest check and rename.
- *Private requests can reach the cloud* (`responses.ts:761`): policy restricts
  fallback, not the first candidate; the README says "Never contact the cloud".
Seen while modelling, without a run of their own (the properties exempt these cases by
name, or they lie beside what is modelled):

- `responses.ts:499`: `lastRouteInfo` belongs to the client, so overlapping streams may
  report one route event twice and the other never.
- `tts_stream_backend.ts:434`: the clock is read again after `SESSION_COMPLETED`, so a
  finished stream can end in a timeout; the speaker backend reads its deadline the same way.
- `client.ts:263`: `pull` writes over the cached path before it verifies. After a failed
  checksum the older manifest entry stays, and a later cache hit for that version returns
  the rejected bytes, although `README.md:167` says that downloads are verified.
- `client.ts:367` says that `close()` is "releasing all loaded models"; of two overlapping
  loads of one reference it finds the later one only, and none that is still under way.
- `FacadeVad.close` closes a runtime that was injected, and so belongs to somebody else.
- The speaker's `loadModel` of another spelling of its model's name puts a new runtime over
  the first without closing it (`speaker_backend.ts:181`; `displaced` in the model).
- `VadStreamingSession.feedChunk` is accepted after the terminal event, and a second
  generator suspended when it came polls past the end (`late` in the model).
- `tts_stream_backend.ts:144`: the path of a loaded model stays in the process environment,
  where a later `loadModel` of another name without a path finds it.
- `readiness-manager.ts:38`: unsubscribing inside a listener makes `emit` skip the next one,
  which may be the catalog's (`skipped` in the model); `bootstrapManifest` replaces the
  manager, so that calls waiting on the old one hang; `awaitReady` after a failure, or of
  a model nobody queued, waits for ever.
- `_updateToken` and `_markTokenExpired` of `DeviceContext` have no caller: once the token has
  lapsed, `authHeaders` gives none and heartbeats go out of use. Each `configure()`
  starts a timer of its own and nothing stops the previous one.
- `attempt-runner.ts:1064`: the route metadata is rebuilt from the log, which keeps no facts
  of a gate: the rebuilt trigger has a code, a stage and a message, where the one that `run`
  or a rejected output left has `gate_code`, `gate_class` and `evaluation_phase` too. A call
  that ends with a rejected output returns a trigger (940, 966) although nothing was
  selected, and that of the last failure; the rebuilt one is then null. `MetadataAgrees`
  states this difference exactly.
- `routing.ts:216`, `320`: `clearCache` and `invalidate` ignore an error of the removal or
  the write, and resolve with the decisions still in the file, where the offline fallback
  finds them.
- `device-context.ts:127`: a process that cannot read the id file makes a new id and
  writes it over the one that is there: the machine changes its identity.
- Overlapping `persistToDisk` calls of the routing client lose each other's entries or tear
  the file, and bring back what `invalidate` removed between their read and their write. Of two overlapping `getPolicy` calls of one client, one can give a 304 to a policy
  that the other put in place of the one it asked about (`met` in the model); `PolicyClient` keeps its file in the temporary directory under one name for all
  servers.
- `control.ts`: `assignmentsEqual` does not compare an assignment's configuration.
- `RequestRouter.resolve` gives a cloud endpoint when nothing was selected, for private
  requests too; `embeddings.ts:146` uses it.

- `durable-downloader.ts:5` promises durability, but the `.part` file is renamed at
  219 without fsync. A power failure can leave a short published file; the next
  solitary call repairs it (`SoloPublishIsWhole` covers this), but the runtime copy
  is compared by size only.
- `README.md:283` says of `cloud_only` "Never use local engines"; `responses.ts:703`
  prefers a local runtime whatever the policy.
- The comment at `attempt-runner.ts:535-537` forbids a second stream after output; a
  local stream that has emitted only its `done` event and then throws still counts
  as having emitted nothing (`responses.ts:491`, `504`).
- A local answer caches no messages (`responses.ts:899`), so a follow-up to it sends
  the bare answer without the caller's half, although `README.md:11` offers
  multi-turn by `previousResponseId`.
- `facade.ts:1345` says `outcome.prepared` is always `false` today; it is `true` after
  a successful preparation.
- `throwStatus` (`loader.ts:2048` and its other callers in `NativeSession` and
  `NativeModel`) passes a session or model handle to a function that takes a runtime.

## 4. What is proved

TLAPS proves the following for every value of the constants, from the named
assumptions of the modules. Constants are not bounded by the proofs: any number of
callers, inodes, candidates, ids, turns and objects.

**PrepareArtifactProofs** (assumes `PrepareAssumption`; the theorems about serial
calls assume no power loss, the last two sizes that tell versions apart).
Four theorems, and `EveryStepLeadsToTheEnd` (see below), are about `Spec` as it is, with calls
that overlap, crash and lose power.
`TypeCorrect`: `Spec => []TypeOK`. `NamesNeverShareAFile`: the renames of overlapping calls
never make two of the four names one file. `SoloCallPublishesItsDigest` is
`SoloPublishIsWhole`, and `SoloCallInstallsItsDigest` its continuation to the runtime file (an
action property that no run checks). `SoloPublishIsWhole` says nothing of a call before
`stat`, and nothing of the others. `SoloInv` adds `NamesApart`, and for a running call that is
not `overlapped` that no other runs (`AloneInv`) and what its files hold at each `pc`
(`CallInv`). Nothing is claimed of the files of an overlapped call, and no power failure is
excluded: a call that begins alone promises nothing yet, and what it relies on later it
establishes by itself. The lemmas `DownloadStep`, `MaterializeStep`
and `CrashStep` speak of one call, and serve this and the serial invariant.

`SerialPublishedIsWhole`, `SerialPreparedBytesMatch`
and `SerialRefinesArtifactCache` are about `SerialSpec`. Their inductive invariant
`SerialInv` says, for the one running call, what each file holds at each `pc`: what
the stream has written is a prefix of the body, no two names refer to one inode,
at `publish` the `.part` file is the claimed version, from `reverify` on the
published file is. `PublishedIsWhole` alone is not inductive: a publish step needs
to know what the `.part` file holds. Refinement follows from the invariant and a
case per action (`RefineStep`). The size assumption is where the defect of
`prepare_stale_size` shows: without it the theorem is false.

**AttemptRunnerProofs** (assumes `RunnerAssumption`). `RunnerInv`: while the loop
runs, the log holds one failure for each candidate left behind, in order, `from` is
the first of them, and only the current candidate may have emitted; when it has
returned, it selected the last entry of its log or failed all it was allowed to
try; `trigger` names the first failure as the log has it, and a call without a selection
returned the trigger of a rejected output exactly if its log ends with one. It gives `RunnerTypeCorrect`, `NeverSplices`,
`RestrictionHolds`, `GivesUpLast` and `MetadataIsResult`.

**ResponseStoreProofs** (assumes `StoreAssumption`). `StoreInv` strengthens `InStep`
and `MessagesKept` by whose answer is under an id and by the fact that every key of
the message cache is one of the response cache, from which it follows that after
`cacheResponse` the message cache has room: its own eviction never takes a list
whose response stays (`RoomForMessages`). `TalkInv` is a second layer on it, for
`ConversationsAreWhole`: an id that was handed out is known for good and remains its
turn's until it is handed out again (`HandedOut`), and nobody continues from an id that was
not (`PrevKnown`). Both are needed in one step only, the answer that arrives under an id
somebody continues from: it makes that id a reused one. `WholeConversation` by itself
cannot tell that answer from a first one.

**OctomilClientProofs** (assumes `ContentsAreDistinct`). `ClientInv` is the type invariant
with six facts: what a `Model` object has read at each stage of its call (`Objects`); a path
whose last write was verified holds the bytes of its entry (`CleanPaths`); a call on whose
path no other wrote finds there, from the verification until its session has read it, what
the registry resolved (`SteadyCalls`: `RunsWhatWasResolved` speaks of the end only); two loads
under way for one reference are marked (`RivalsOverlap`); a model in memory that met no
rival is the registered one, and calls under way for it have found it (`FoundAgain`); the
latest load, if it met no rival, is the only one that can change what is told of it
(`Status`). `ClientTypeCorrect`, `RunsOnWhatItResolved`, `LoneLoadsAreFound` and
`StatusIsTold` follow.

**ServicesProofs**, six invariants that do not touch; the first five:
`QueueInv` (from `MaxBatchSizeAssumption`): the queue is the latest events in order, the
batches posted are those before them, and without a flood the queue holds at most a batch;
it gives `NoEventIsStranded`. `CacheInv` (from `NothingAssumption`): nobody is about to put
a dropped model back, and an invalidation writes nothing for its own (`WritesAreClean`); the
property speaks of memory and file only, and so does not bound what a suspended call will
put there; it gives `InvalidationHolds`, for reads, writes and removals that fail, overlap
and mix. `ReadinessInv` (from `ReadinessAssumption`): once bootstrapped, every
managed model has its listener in the array, and of the model handed round, either it is
served already, or its listener is still to come, or a listener went; it gives
`ReadyModelsAreServed`. `IdsInv` (from `RegistrationAssumption`): a process that looks for an
id beside no other is the only one that does, and once such a one has an id, the file
holds it until it is opened by one that could not read it; it gives `OneIdPerMachine`. `PolicyInv` (from `PolicyAssumption`): every
copy of a policy, in memory, in the file, read or about to be written, is vouched for by
the call that stamped it (`EveryCopyVouched`); what a call that met no other has at hand is
still what it sent the etag of (`ShownIsAtHand`); calls of one client under way at once have
met (`RivalsMet`). The property sees memory and file only, and not the copies that calls
carry between them; it gives `RenewalsAreTold`.

The sixth is `RoutingInv` (from `RoutingAssumption`), with three parts for
each request. `Own`: its caller has seen output of the candidate it is at and of no other,
and nothing while there may still be another attempt; a private request that is still
to contact a transport has contacted none. `Beside`: requests that run at once are
marked. `Alone`: while a stream that met none runs, `lastRouteInfo` is its own. Of the four
properties none is inductive: `PrivateNeverFallsOver` does not say that the loop is never
entered again after a contact, nor `AloneReportsItself` whose the shared field is before
the report. `RoutingTypeCorrect`, `PrivateStaysPut`, `OneVoice` and `OwnRouteReported` follow.

**NativeHandlesProofs** (assumes `KindsAreDisjoint`). `IInv` is the three properties with what
they rest on, `BeliefsHold`: a wrapper is usable exactly while its handle is allocated (but
a model that the library failed to close is allocated and unusable), then its runtime is
allocated too, and a session's model is usable as long as the session. `NoStrayCall` alone does not say why the next call is
safe. `HandlesTypeCorrect`, `NoCallAfterFree`, `RegistriesExact` and `RuntimesCloseWhole` follow.

**TtsStreamProofs** (assumes `ObjectsAreDistinct`, `StreamsAreNoSteps`). `BackendUsesHandles` is
the refinement of `NativeHandles`, and brings `IInv` with it. `BackendInv` says what each step
of `loadModel` finds open, `StreamsInv` which stream works with an open session and whose
error text it read. Together they give `BackendTypeCorrect`, `LoadsAllOrNothing`,
`SessionsDoNotLeak`, `ErrorTextsAreOwn` and `BackendNeverStrays`.

**AudioBackendsProofs** (assumes `KindsAreDisjoint`, extends `NativeHandlesProofs`).
`FieldsInv` is the type invariant with what the fields hold at each step of a method: a
backend in the middle of one has its runtime, the speaker at its last step has its model,
`sess` is held where a method will still close it, an open stream has its session. From it
every step is one of `NativeHandles` or leaves the handles alone (`BackendsUseHandles`,
the refinement), and so the invariant of the wrappers holds under the backends as well
(`BackendsKeepHandlesSound`). `BackendsLoseNothing` is `NothingIsLost`: its step needs the
fields (which object a failing method closes) and the wrappers' registries (closing a
runtime closes the sessions on it, `CloseRuntimeCloses`), so that `LostInv` is the
conjunction of the three. `EndIsTheEnd` is `NoPollAfterTheEnd`: the property alone does not
say of a suspended generator whether it will count as late, which `SuspendedAreLate` does.

**Termination without fairness.** What the liveness properties need beside fairness is a
finite descent: a measure in the natural numbers that each step of a call lowers and that
nothing else raises. It is proved for each of the four, for every value of the constants, as
an action property: `EveryStepLeadsToTheEnd` (the endpoints left, the place in the code, the
blocks of the body; other calls may delete every file meanwhile), `EveryRequestRunsOut`
(the candidates of the plan; output events apart, of which a stream may have any number),
`RegistrationsRunOut` (posts and waits; it also says that a registration ends whole) and
`EveryCallRunsOut` (`loadModel` and `close`, and a stream between two chunks; `AtWork` says
where a stream that has the thread can be). That a call which is under way always has such
a step, and takes it, is about ENABLED and fairness and stays with TLC.

Only model-checked: the four liveness properties `EveryCallSettles`,
`EveryRequestSettles`, `EveryCallReturns` and `RegistrationSettles` (temporal properties under
fairness are outside the prover's reach). Every safety property of a passing run is stated
by a theorem.

## 5. What is not modelled

- *Generated and declarative code*: `generated/types.ts` is more than half of the lines of
  the implementation and holds types; `index.ts`, `types.ts`.
- *Parsing and formatting*: server-sent events, struct packing and library discovery in
  `loader.ts` (most of its length), request bodies, plan and model-reference parsing. They
  decide whether a step throws, which the models take as possible at each such step.
- *Pure verdicts*: gate evaluators, scores of the query router. The models take every
  verdict as possible.
- *One request each, no state*: server API clients, federation, training, monitoring,
  audio, text and embeddings calls, most of the control client.
- *Wiring*: the facade, the chat shim (which converts and delegates), scripts and tests.

The components of section 1 that are not in bold have no module; `PROJECT.json` gives the
reason for each.

## 6. Plan

Done: artifact preparation and its abstract slot, the attempt runner, response routing and
memory, loader objects with the TTS and audio backends over them, the legacy client with
its cache and models, telemetry, registration, readiness, the routing and the policy caches, each with
the proofs of section 4.

Left, in this order:

1. Composition: a request of `ResponseRouting` whose candidate loop is `AttemptRunner` and
   whose memory is `ResponseStore`, with `ToolRunner` calling it again and again under one
   `previousResponseId` (each of its calls sends the previous conversation anew).
2. Facade `warmup` over `PrepareArtifact`: a warm handle against a newly prepared version.
3. `RequestRouter` as operators over `AttemptRunner`'s plans; the control client's refresh.
4. Proofs: an abstract specification of the response store (one map of conversations)
   and the refinement; that calls which overlap keep what `PublishMatchesDigest` asks for when
   they use a `.part` name of their own; the promises of the composition of item 1.
