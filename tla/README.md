# TLA+ models of transcode-orchestrator

The orchestrator is an HTTP service in front of several transcoding providers
(bitmovin, hybrik, AWS MediaConvert, flock). A client stores presets under a
name, then asks for jobs that refer to them; the service keeps its records in
redis and does the work through the providers' APIs. This directory models the
parts of it where order, concurrency and failure matter, checks them with TLC
on small instances, and proves the most important results with TLAPS for
instances of any size.

## 1. Inventory

| component | code | state | operations |
|---|---|---|---|
| preset endpoints | `service/preset.go`, `service/presetmap.go`, `service/service.go` | none of their own: one goroutine per request with its local copy of a map | POST/DELETE `/presets`, POST/PUT/DELETE/GET `/presetmaps` |
| repository: presets | `db/redis/presetmap.go`, `localpreset.go`, `preset_summary.go` | hashes `presetmap:`, `localpreset:`, `presetsummary:`; the sets `presetmaps`, `localpresets`, `presetsummaries` | create, update, get, delete, list |
| repository: jobs | `db/redis/job.go` | hash `job:`, sorted set `jobs` | create, get, list, delete |
| storage codec | `db/redis/storage/redis.go` | none | a struct to the fields of a hash and back |
| job endpoints | `service/transcode.go` | none of their own | create, status, cancel |
| bitmovin | `provider/bitmovin` | objects in bitmovin, the entries of a playlist among them; `presetMutex` of one provider value | presets, Transcode (goroutines and channels), status (paged), cancel |
| hybrik | `provider/hybrik` | a graph of elements in hybrik | presets (local), Transcode, status (two calls), cancel |
| mediaconvert | `provider/mediaconvert` | a job there with its groups of outputs | presets (local), Transcode, status, cancel |
| flock | `provider/flock` | a job there | presets (local), Transcode, status, cancel |
| provider registry | `provider/provider.go` | a map filled by `init` functions | register, get, list, describe |
| client, configuration, answers | `client`, `config`, `swagger`, `main.go` | none | one request and answer each; start-up |

How they interact: the endpoints call the repository (one redis command at a
time) and the providers (HTTP calls); bitmovin reads and writes preset
summaries through the same repository, hybrik, flock and mediaconvert keep
local presets there. A provider value is made anew for each request, so the
only state two requests share is redis and the providers themselves. Several
instances of the service may share one redis.

What is hard here:

* **No transaction.** The repository wraps its writes in `WATCH`, but never in
  `MULTI`/`EXEC`; a `WATCH` alone guards nothing. Each check and the write it
  protects are separate commands, as are the writes of a record and of the set
  that lists it.
* **Slow work between a read and the write that depends on it.** `newPreset`
  reads a map, creates presets on every provider, and writes the map back.
* **Partial failure.** A provider may fail after half its objects exist; a
  redis reply may be lost; an instance may stop anywhere. Nothing is undone.
* **Goroutines.** bitmovin's `Transcode` runs one goroutine per range and one
  per output, with a buffered channel, an unbuffered channel, a wait group and
  a goroutine that closes the unbuffered one; the same goroutines fill one
  playlist.
* **Maps of Go.** Requests to hybrik and mediaconvert are built by ranging over
  maps, keyed by names that need not be unique: the order is any, and an entry
  may replace another.
* **Modifiers and settings that build on each other.** A target of hybrik is
  changed by one modifier after the other; a preset of mediaconvert passes
  through a redis hash in which what is empty has no field.

What makes each component correct:

* preset endpoints and repository: what a client was told stays true until a
  delete; a map holds nothing that no request put there; the list shows what
  exists; creating needs a free name;
* bitmovin presets: a summary names configurations that exist;
* bitmovin Transcode: an encoding is started once complete, by nobody else
  changed, in the order of the splice; the call returns and leaves nothing
  behind;
* bitmovin status: every file once, however the pages fall; a playlist with no
  entry that leads nowhere;
* hybrik: the request is a graph that can be run to its end, in which every
  output is made as its preset says;
* mediaconvert: a job asks for what the create of its presets asked for, and its
  groups keep each output once;
* job endpoints and repository: a job that runs can be found, and no two clients
  are told different ends of it;
* status mappings: no state without a status, files reported exist.

The hazards of the code, each at its line, are in `PROJECT.json`.

## 2. Modules

| module | what it is |
|---|---|
| `PresetCatalog` | abstract: what the preset endpoints promise about names and providers |
| `PresetProvisioning` | the preset endpoints, the repository's preset records, the providers' `CreatePreset` and `DeletePreset`; implements `PresetCatalog` |
| `PresetProvisioning_proofs` | types, the inductive invariants, four safety theorems |
| `PresetRefinement_proofs` | `PresetProvisioning` implements `PresetCatalog` |
| `EncodingCall` | abstract: what one call of `Transcode` promises about its encoding |
| `BitmovinTranscode` | one call of bitmovin's `Transcode` with all its goroutines; implements `EncodingCall` |
| `BitmovinTranscode_proofs` | types, the inductive invariants of the outputs and of the ranges, three safety theorems, two about progress, the refinement |
| `BitmovinStatus` | `BitmovinTranscode` composed with the containers, the encoding at bitmovin, `CancelJob` and `JobStatus` |
| `BitmovinStatus_proofs` | the composition keeps `BitmovinTranscode`'s specification and implements `ProviderJob`; types, report, playlist and pages |
| `ProviderStates` | operators: the states of a job at any provider and their statuses |
| `ProviderJob` | abstract: what a provider promises the service about one job |
| `ProviderJob_proofs` | what follows from the promise |
| `JobLifecycle` | the job endpoints, the job records, and any provider with its jobs |
| `JobLifecycle_proofs` | types, the inductive invariant, four safety theorems, and that the service uses providers as `ProviderJob` allows |
| `HybrikElements` | operators: a preset to a target of hybrik, with its modifiers |
| `HybrikTranscode` | a job at hybrik: the request, its run, `JobStatus`, `CancelJob` |
| `HybrikTranscode_proofs` | the inductive invariant, six safety theorems, one about progress, the refinement of `ProviderJob` |
| `PresetHash` | operators: a preset to the redis hash it is stored in, and back |
| `MediaConvertOutput` | operators: a preset to an output of MediaConvert |
| `MediaConvertTranscode` | presets kept for mediaconvert and a job of them: `CreatePreset`, `Transcode`, `JobStatus`, `CancelJob` |
| `MediaConvert_proofs` | the inductive invariants, six safety theorems, the refinement of `ProviderJob` |
| `MCPresetProvisioning`, `MCBitmovinStatus`, `MCJobLifecycle`, `MCHybrikTranscode`, `MCMediaConvertTranscode` | instances for TLC |

What composes what: `BitmovinStatus` extends `BitmovinTranscode`, and its
actions are those of the goroutines with what an assembler does to the playlist
added, so whatever is proved of a call of `Transcode` holds of the composition
(`Composed`). `MediaConvertTranscode` joins the redis records of presets
(`PresetHash`), their conversion (`MediaConvertOutput`) and the job.
`JobLifecycle` has the job endpoints over any provider.

`ProviderJob` is where the two sides meet. It is the interface
`TranscodingProvider` as a specification of one job: `Transcode` answers ok only
if it has started the job, and its error does not say that it has not; only a
job that was acknowledged is cancelled or asked about; a status that is told is
the one of the job at that moment. `JobLifecycle` asks no more of a provider
(`PromiseUsed`, for each job and each request about it), and `BitmovinStatus`,
`HybrikTranscode` and `MediaConvertTranscode` each implement it (`PromiseKept`).
What follows from the promise alone, that an end which was told is the end
(`EndTold`) and that a job ends once (`EndsOnce`), is therefore true of all three.

### PresetProvisioning

An action is one redis command or one provider call of one request; `pc[r]` is
the request's next step, named after it. Correspondence:

| code | actions |
|---|---|
| `newPreset` up to its loop; the loop; after it | `NewPresetGet`; `VisitProvider`; `EndLoop` |
| `deletePreset` | `DeletePresetGet`, `VisitProvider`, `EndLoop`, `Drop`, `DropFromIndex` |
| `CreateLocalPreset`, `DeleteLocalPreset` | `LookupLocal`, `SaveLocal`; `RemoveLocal` |
| bitmovin `CreatePreset` | `LookupSummary`, `CreateConfigs`, `RecheckSummary`, `SaveSummary` |
| bitmovin `DeletePreset` | `ReadSummary`, `RemoveAudio`, `RemoveVideo`, `RemoveSummary` |
| `CreatePresetMap`, `UpdatePresetMap` | `CheckFree` or `CheckExists`, then `Save`, `AddToIndex` |
| `updatePresetMapResolvingConflicts` | `Resolve`, then `CheckExists`, `Save`, `AddToIndex` |
| `DeletePresetMap` | `Drop`, `DropFromIndex` |
| the process dies, a handler panics | `Crash` |

Abstractions, and why they lose nothing the properties tell apart:

* bodies are already parsed and valid; names are not empty (the route and the
  validators see to that), a list of providers has no duplicates, and a body on
  `/presetmaps` maps at least one provider. A saved map therefore has an entry,
  and "the key exists" is "the mapping is not empty". Output options play no
  part;
* bitmovin's codec pairs differ in the configurations they fill in, not in the
  order of their calls: one pair stands for all. Creating the configurations
  and filters is one action, which may stop after any of them: no other request
  can see them before the summary is saved. Filters are never deleted;
* two reads in a row that no write of the same request separates, of a summary
  in bitmovin's `DeletePreset` and of a local preset before its `DEL`, are one
  action: the second read decides, and a record that is gone by then fails the
  same way. The read-back at the end of a PUT changes nothing and is left out;
* the sets `localpresets` and `presetsummaries` are written and never read;
* `presetMutex` belongs to a provider value made for one request, and excludes
  nobody;
* a redis command that fails may have been applied (the reply was lost) or not:
  both are outcomes of the same action. A failed read follows the code: in
  `CreatePresetMap` and `CreateLocalPreset` it counts as "not there", in
  `UpdatePresetMap` as "there";
* `overtaken` is a history variable: the requests whose saved map another
  request deleted.

The requests are finitely many, each sent at most once, so the model stops:
its runs say `CHECK_DEADLOCK FALSE`. It has no fairness and no liveness
property: handlers are straight-line code, and a request may die.

### BitmovinTranscode

An action is one call of bitmovin's API, or one operation on a channel or the
wait group, of one goroutine. `main` is the goroutine of the request, `out[o]`
the goroutine of output `o`, `trimming` the goroutines of ranges that have not
sent, `closer` the goroutine that waits and closes `errorc`.

* `sort.Slice` by position is any permutation that leaves the entries in the
  order of their positions (`Sorts`, `ByPosition`).
* The steps before the encoding exists (summaries, input, output, manifest,
  region) change nothing an output can see and are one action that may fail.
* The goroutines of the ranges are started in one action: their channel has
  room for every result, so none of them ever waits.
* A stream and its filters are one action, which may fail after the stream was
  added. Assembling may fail after the muxing was added.
* `errorc` has no buffer: a send is taken together with the receive. `main`
  receives one error at most and returns, so a second sender stays at `send`.
* Calls that fail may have been carried out: both outcomes are modelled for
  `Encodings.Create`, the streams, the muxings and `Encodings.Start`.

Fairness: weak fairness of `main`, of the goroutines of the ranges, of each
output and of the closer. The Go scheduler runs a goroutine that can run, and
calls of the API return (the HTTP client gives up at some point). The closer
waits for the wait group and a sender for its receiver: those waits are guards,
and no fairness helps a guard that stays false.

The model stops when the call is over: `CHECK_DEADLOCK FALSE`. (A request whose
goroutines hang would look the same to a deadlock check; `TranscodeReturns` and
`NoGoroutineLeft` are there for that.)

### BitmovinStatus

| code | actions |
|---|---|
| the assemblers of `internal/container`, called by `createOutput` | `Assemble` |
| `JobStatus`: `Encodings.Status` and the mapping of the status | `AskStatus` |
| `EnrichSourceInfo` | `EnrichSourceInfo` |
| `Enrich` of hls and cmaf; of mp4, mov and webm | `EnrichPlaylist`; `EnrichFiles`, then `List` per page and `Describe` per muxing |
| `CancelJob` | `CancelJob` |
| bitmovin runs the encoding | `Advance` |

* The containers of a job are chosen at the start, from `Jobs`. `m3u8` with h265
  is served by the code of `cmafhls` (`cmaf.go`), which makes the same calls in
  the same order as that of `m3u8` does: both are `Segmented`.
* An assembler with a playlist adds its entries, sound before picture, and may
  fail between any two calls. Only presets that say `m3u8` make `Transcode`
  create a manifest; an entry added to a manifest without an id is refused by
  bitmovin, so a job of `cmafhls` alone fails in its assemblers.
* The services come in any order (they are in a map of Go), and so do the
  muxings that bitmovin lists; during one listing neither they nor their number
  change, since only a finished encoding is listed.
* A page has `Limit` muxings, 100 in the code.
* The names and sizes copied into the report are left out: a file is the output
  that it is of, and `files` counts how often it is reported.

Fairness: that of `BitmovinTranscode`, and weak fairness of the steps of a
`JobStatus` that has been asked for, as far as bitmovin does not refuse: the
handler runs on, and nothing relies on a refusal to end a loop. `AskStatus` has
none.

### JobLifecycle

An action is one redis command or one provider call of one request, or a step
of the provider. Correspondence:

| code | actions |
|---|---|
| `newTranscodeJob` | `Presets` (the maps of the outputs, `genID`), `Transcode`, `SaveJob` (`HMSET`), `AddToSet` (`ZADD`) |
| `getTranscodeJob` | `Load` (`GetJob`), `AskStatus` |
| `cancelTranscodeJob` | `Load`, `AskStatus`, `CancelJob`, `AskAgain` |
| a provider's jobs | `Advance`, `Forget` |
| the process dies, a handler panics | `Crash` |

Abstractions:

* a create makes a random id of 64 bits, taken to be fresh: the request stands
  for the id, and for the id of the job the provider starts for it, so that
  `record[c] = c` says that the record leads to the right job;
* a job is its state at the provider. The states are those that the mappings of
  the four providers tell apart, with `stopping` for a provider that takes a
  while to carry out a cancel; a job that is being stopped may still complete
  or fail. A provider deletes jobs that have ended at some time, or never;
* `Presets` fails if a map is missing, if redis does, or with `genID`;
  loading a provider from a record, which fails only if it is not registered or
  not configured, is part of the failures of `Load`;
* the job's other fields are values copied from the request;
* a call that fails may have been carried out (the reply was lost) or not.
  `Transcode` that fails may have started the job. The client that hangs up
  cancels the context of the calls, and is one such failure;
* the states of a job and their statuses are those of `ProviderStates`;
* two traits of single providers are constants: `Unread` are the creates at
  flock, whose `Transcode` never looks at the status of the answer; `Canceled` is
  `"empty"` (the empty string) for hybrik, whose `JobStatus` has no case for a
  stopped job. `AcknowledgedJobs` and `RecordNamesJob` except the jobs of `Unread`
  from what `refused_job` shows not to hold of them.

Each request is sent once, so the model stops (`CHECK_DEADLOCK FALSE`). There
is no fairness: nothing obliges a job to end or a request to survive.

### HybrikElements and HybrikTranscode

An action is one pass through a loop of the code that builds the request, a call
of hybrik's API, or a step of hybrik.

| code | actions |
|---|---|
| `createJobReqFrom`: the locations | `Locate` |
| `outputCfgsFrom` | `GetPreset`, once for each output |
| the choice of an assembler | `PickAssembler` |
| `legacy_dovi.go`, its two loops | `KeyByFile`, `EndByFile`; `AddLegacyTask` |
| `element_assemblers.go` | `AddDefaultTask` |
| the end of either; the connections | `EndTasks`; `Connect` |
| `enrichCreateJobWithPackagingCfg` | `Package` |
| `Transcode`'s call; `CancelJob`; the two calls of `JobStatus` | `QueueJob`; `CancelJob`; `AskInfo`, `AskResult` |
| hybrik | `Activate`, `RunElement`, `Stumble` |
| a DELETE of a preset meanwhile | `DeletePreset` |

* `HybrikElements!Target` is the conversion of one preset, with the modifiers
  `RateControl`, `HDRMetadata` and `MXFSource` in the code's order. A preset is a
  record of what these tell apart. Numbers and units that do not parse are
  `"bad"`; sizes, paths and credentials are left out.
* The ranges over maps take their keys in any order.
* The UIDs are pairs of a stem and a number. hybrik runs an element when all
  that lead to it have run; one that nothing leads to is never run. Within an
  element, segments and their combination are one step, whose documents
  `TaskResults` lists.
* Two calls of `JobStatus` answer about the job as it is at each: hybrik may go on
  between them, and a job may be stopped. `Crashing` lets calls and elements fail.
* `dolbyVisionElementAssembler` has no caller and is not modelled.

Fairness (`FairSpec`): hybrik activates a job it has taken and runs an element
that is ready. That is hybrik's promise and not the code's; what the code has
to do for `JobEnds` is to send a graph in which every element becomes ready.

### PresetHash, MediaConvertOutput and MediaConvertTranscode

| code | definitions |
|---|---|
| `FieldMap` and `Load` of the storage package, over the tags of a local preset | `PresetHash!FieldMap`, `Load` |
| `HMSET` | `HMSet` |
| `CreateLocalPreset`; `DeleteLocalPreset` | `LookupPreset`, `SavePreset`; `DeletePreset` |
| `outputFrom` and what it calls | `MediaConvertOutput!OutputFrom` |
| `outputGroupsFrom` | `GetPreset` for each output, `EndOutputs`, `GroupOutputs` for each container |
| `CreateJob`; `CancelJob`; `JobStatus` | `CreateJob`; `CancelJob`; `JobStatus` |
| MediaConvert | `Begin`, `Complete`, `Stumble` |

* A preset has 21 fields, those which the conversion tells apart, each with its
  kind, its struct and whether it is omitted when empty; `IsPreset` says what a
  preset of those kinds is. The empty text is `"none"`. A number is written as digits and parsed back; a text that does not
  parse is one outside `Number`.
* A call that panics returns `Panic`; the handler ends and nothing is written
  after it.
* A crop of a source whose size is not known is left out, as in the code; the
  margins are taken to be natural numbers (the service checks nothing here).
* A file that MediaConvert writes is named by the prefix of its group, the stem
  and the extension. The directory of a name is dropped, as in the code.
* The downmix of a source, and what depends on tags and queues, are left out.

The runs of both providers have finitely many requests and stop at the end of
the job: `CHECK_DEADLOCK FALSE`.

## 3. Runs

| run | instance | what it shows |
|---|---|---|
| `provisioning_races` | 3 requests of any of the 5 endpoints, 1 name, a local provider and bitmovin, no failures | `AcknowledgedStays`, `CatalogImplemented` under every interleaving |
| `provisioning_faults` | 2 such requests, redis and provider failures, crashes | `TypeOK`, `MappedByARequest` (only a failure can break it), `CatalogImplemented` |
| `provisioning_alias` | 4 requests, 2 names whose maps may name each other's presets | `SummaryIntact` although a delete works on another name's summary, `RemovedOnce` |
| `bitmovin_transcode` | 3 outputs (sound, picture, both) in 5 combinations of containers, 0 to 3 ranges, pages of 2, every call may fail | of the goroutines: `StartedComplete`, `NoSendOnClosed`, `SplicedInOrder`, `EncodingCallImplemented`, `TranscodeReturns`, `NoGoroutineLeft`; of the status: `ReportComplete`, `PlaylistWhole`, `JobStatusReturns`; of both, `PromiseKept`; `TypeOK`, `ReportTypeOK` |
| `job_lifecycle` | 2 jobs, one at a provider that does not read refusals, 2 requests for the status or the cancellation of a job, redis and provider failures, crashes | `TypeOK`, `AcknowledgedJobs`, `ListedLoads`, `RecordNamesJob`, `OneEnd`, `PromiseUsed` |
| `hybrik_transcode` | 1 to 3 outputs of 8 presets and 2 file names, packaged or not, segmented or not, a preset deleted, calls and elements that fail | `RequestSound`, `OutputsKept`, `TargetsFaithful`, `PackagedLast`, `ReportWhole`, `PromiseKept`, `JobEnds`, `TypeOK` |
| `mediaconvert_transcode` | 2 presets, of 32 and of 4, a job of 3 or 4 outputs, 3 sources, a preset deleted, calls and jobs that fail | `OutputsGrouped`, `AsCreated`, `CropInside`, `ChannelsSplit`, `ReportTrue`, `PromiseKept`, `TypeOK` |

Why the bounds are enough:

* The races of the preset endpoints are between a reader-then-writer and writers
  that come between; three requests give a create, a create it conflicts with,
  and a delete between the conflict and its resolution. A fault in one of two
  requests meets each step of the other. Bitmovin's summary needs four for a
  delete, a create after it, and a delete of each.
* Three outputs give a failing one, a second failing one that nobody receives,
  and one that is still at work. Three ranges arrive in every order; zero, one
  and several are the three cases of the code. Three muxings of one container in
  pages of two give a full page and one that is not; one muxing and none at all
  are the other cases.
* Two uses of one job give two cancels, or a cancel and a reader that see the
  job before and after its end; two jobs, of which a use names one, show that no
  request touches the other.
* Three outputs of two presets at hybrik give an output that replaces another
  and one that stays, and two presets with one file name; every pair of the
  eight presets is there, those that cannot be mixed or converted included.
* There is a preset for each codec and each kind of group of mediaconvert, and
  for each way a conversion is refused; the 16 pairs of margins and sources with an even and an odd width are the cases of the
  rounding. Four outputs of two presets give two groups, one of several outputs.

What matters beyond the bounds is proved (section 4).

Five runs show where the code does not do what its documentation says; each
checks one property that states the documentation, and TLC finds the trace:

| run | documentation | what happens |
|---|---|---|
| `unlisted_map` | GET `/presetmaps`: "List available presets" | `HMSET`, `DEL`+`SREM` and `SADD` interleave so that a map exists and is not listed |
| `refused_job` | `providerJobID`, the "id of the job on the provider" | flock's refusal decodes to job 0, is saved, and answered 200 |
| `hybrik_outputs` | `outputs`, the "list of outputs in this job" | `outputCfgsFrom` keeps its outputs by preset name: of two with one preset, the earlier is never made |
| `xdcam_panic` | an unsupported profile is an error (`mpeg2_test.go:26`) | the deferred function of an xdcam preset writes through a nil pointer when its settings are refused |
| `mixed_preset` | creating a preset with a name in use is refused | two creates find the key free, `HMSET` merges them, and a job is made of a preset nobody asked for |

`NoGoroutineLeft` allows one exception, which is a property of the code: when
two outputs fail, the second sender, and with it the closer, waits for ever
(`bitmovin.go:409-414`). No document says otherwise, so this is a hazard and not
a run of its own.

Disagreements that were met on the way and have no run of their own, since each
is one call and no order of steps decides it:

* two creates of one map both pass the check and answer 200 (`presetmap.go:12`),
  where the second should get a 409 (`presetmap_params.go:68`): the race that
  `mixed_preset` shows on local presets;
* an existing bitmovin preset is answered with an empty id, because the name of a
  summary is not stored in it (`bitmovin.go:728`, `types.go:351`);
* local providers share `localpreset:<name>`: of two in one create, the second
  fails and the answer is still 200 (`localpreset.go:67`, `preset.go:69`);
* no provider returns a `JobNotFoundError` or an `ErrPresetMapNotFound`: a lost
  job is a 500 and not a 410 (`transcode.go:147`), a preset the provider does
  not have a 500 and not a 400 (`transcode.go:84`);
* `deletePreset` answers 200 and drops the map although a provider failed to
  delete its preset (`preset.go:52`);
* saving a preset with overlays panics (`redis.go:147`, `types.go:298`);
* jobs look presets up by the name of the map, not by the id it maps for the
  provider (`job_mapping.go:80`, `mediaconvert.go:156`, `flock.go:143`, where
  `types.go:351` speaks of an id of the provider);
* the directory of a file name is dropped by mediaconvert (`mediaconvert.go:191`)
  and by the report of bitmovin, which writes the file there (`mp4.go:84`);
* two HLS outputs of one preset write their segments to the same directory,
  which is named after the configuration (`hls.go:41`).

Operators commented "Seeded fault" are wrong variants of the definition below
them; `PROJECT.json` pairs each property with one that breaks it.

## 4. Proofs

All theorems hold for any value of the constants that satisfies the module's
named assumption: any requests, names, providers, calls and failures
(`ProvisioningAssumption`), any outputs, ranges and failing calls
(`TranscodeAssumption`), any finite set of outputs, any containers and pages of
one muxing or more (`StatusAssumption`), any creates, uses and failures
(`LifecycleAssumption`), any presets and any jobs of one output or more
(`HybrikAssumption`; `MediaConvertAssumption`, which asks for presets of the right
kinds, `IsPreset`, and for sizes that are natural numbers). One theorem has a
hypothesis of its own, `AsCreatedHolds` (below).

**PresetProvisioning.** `TypeCorrect` is the type invariant. The safety
properties are not inductive: a map's entries come from the `copy` a request
carries through its loop, and its answer from results gathered step by step.
`IInv` adds

* `Control`: what each step says of a request's locals (which results can be
  set, when the copy can be saved, that only saved requests answer ok);
* `CopySourced`: the entries of a copy are mapped by some request, as those of
  the map are, so saving a copy keeps `MappedByARequest`;
* `CopyReported`: a provider a request reports is in its copy;
* `SavedStays`: from `HMSET` on, and not only from the answer on, what the
  request reports is in the map unless it was overtaken by a delete. The merge
  of `HMSET` (`Merge`) is what keeps it there when others save.

Each of them is preserved by each action (`ControlStep`, `SourcedStep`,
`CopyReportedStep`, `SavedStaysStep`), hence `Inductive`, and from it
`MappedByARequestHolds` and `AcknowledgedStaysHolds`. `Refinement` maps each step
to a step of `PresetCatalog` or a stutter: only `Save` (`SaveRecords`) and
`Drop` (`DropErases`) change the catalogue.

The objects at bitmovin need an invariant of their own, `BitmovinInv`, over `IInv`:
`VisitOf` (what a request has made or taken at each step of its visit to
bitmovin), `Named` (a summary names the configurations of a request for its own
name that is through with bitmovin) and `TakenOnce` (a configuration that a
delete has taken is gone, and no other delete has taken it). `SummaryIntact` is a
conjunct of it; `TakenOnce` gives `RemovedOnceHolds`.

**BitmovinTranscode.** `TInv` says for each step of an output's goroutine which
streams its output has and whether it is counted by the wait group (`OutputOf`),
how `main`, the answer and the closer go together (`MainInv`), and that a running
encoding is complete and left alone (`RunningInv`). The argument turns on
`ClosedMeansDone`: when the channel is closed the wait group is empty, so every
goroutine has left, and one that left without completing its output has
delivered an error, after which `main` has returned. From it follow
`StartedCompleteHolds`, `NoSendOnClosedHolds` and the `Refinement` of `EncodingCall`.

The ranges have `SpliceInv`: a range that is being trimmed, one whose result is in
the channel (`Arrived`) and one that was collected (`Collected`) are different, and
each is there once. When as many were collected as there are ranges, their
positions are all of `0 .. ranges - 1` (`EveryPosition`, by counting), so that
sorting them counts up (`CountsUp`): `SplicedInOrderHolds`, and with `TInv` the types
(`TypeCorrect`).

Two theorems state what the return of `Transcode` rests on. `NeverStuckHolds`:
while `main` waits for a channel there is something in it, or a goroutine, or the
closer, that has yet to bring it; the ranges need `NoRangeLost` (a range is being
trimmed, in the channel or collected) and, again, counting (`OneToCome`).
`BlockedByTwoHolds`: a goroutine is left at its send only when two outputs have
failed, which is the exception that `NoGoroutineLeft` allows.

**JobLifecycle.** `TypeCorrect`, then `JInv`. `CreateInv` says what each step of a
create has left behind: no job before the call, an id before `HMSET`, a record
before `ZADD`, a list entry before the answer. Hence `ListedLoadsHolds`, and with
an id that is a job's (outside `Unread`) `AcknowledgedJobsHolds` and
`RecordNamesJobHolds`. `UseInv` says that a use holds the id of the job it was
asked about and that the end it was told is *still* the state of the job: this
is what makes `OneEnd` inductive, since a job that has ended is not touched by
`Advance` or by a cancel (`CancelEffect`). Both parts are kept by creates
(`CreateKeepsCreates`, `CreateKeepsUses`), by uses (`UseKeepsCreates`,
`UseKeepsUses`) and by the provider and crashes (`OtherKeeps`).
`PromiseUsedHolds` takes one job and one request about it: a step of its create is
`Start`, `Fail` or a stutter of `ProviderJob` (`CreateUses`), a step of the request
an `Ask`, a `Tell`, a `Stop` or a stutter (`UseUses`), and all else is the
provider's `Advance` or a stutter (`OtherUses`, `JobStutters`). It needs `HeldInv`: an
id that a use holds is one that a create was given, that is, was acknowledged.

**ProviderJob.** `EndToldHolds` and `EndsOnceHolds` follow from the promise alone:
nothing leads out of `Ended`, and what was told of a job that has ended stays its
status.

**BitmovinStatus.** `Composed` says that a behaviour of the composition is one
of `BitmovinTranscode`, fairness included, so that `TInv` and its theorems hold
of it too. `SInv` adds three things to it. `ReportTypeOK` is the type invariant.
`PlaylistInv`: an output whose assembler is through has its entries in the
playlist, unless the call has failed; when the encoding is started all
assemblers are through (`ClosedMeansDone` again), hence `PlaylistWholeHolds`.
`ReportInv`: at each step of `JobStatus` the files reported so far are one of
each output whose service is no longer to do, plus, for the service at work,
those described of the muxings that `listing` orders (`AtWork`, `FilesUpTo`):
what was fetched is a prefix of `listing`, whatever the size of a page. The end of
the loop then means that all of it was fetched, hence `ReportCompleteHolds`. As
a page that is not the last is not empty (`PageContinues`), every turn of the loop
fetches more (`ListAdvancesHolds`). `PromiseKeptHolds` needs `TaskInv`: an encoding
that was not started stays created, and one whose status was read as finished is
so when, many calls later, the status is told.

**HybrikTranscode.** `HInv` follows the request through its construction.
`Collected`: `cfgs` has the last output so far of each preset. `Keyed`: the map by
file name has a preset for each file that is kept, in whichever order it was
filled. `Tasked`: the tasks are numbered from 0 without gaps, and each was made by
`Target` of an output that is no longer to do. `Grouped`: what the groups and
connections are at each step; from it and the numbers come
`RequestSoundHolds` and `OutputsKeptHolds`, and with `Running` (what has run had
everything before it run) `PackagedLastHolds`. `TargetsFaithfulHolds` is a fact
about `Target` for every preset (lemmas on each modifier), carried by `Tasked`.
`Reported` says that a status of finished was asked of a completed job, so the
result that is fetched later has every element: `ReportWholeHolds`, and, as a job
that has ended stays so, `PromiseKeptHolds`. `SomeReadyHolds` is what `JobEnds`
rests on: a running job has an element left (`Unfinished`), and the first that is
left in the order source, group, packager waits for none that is left.

**MediaConvertTranscode.** `IInv` has `Hashes` (margins in a hash are natural
numbers, whoever wrote them), `Groups` (an output is in the group of its own
container, after those before it in the job, and in one only), `Grouped` (the
request has the groups that are not left, each once) and `Progress`. From `Groups`
and `Grouped`, `OutputsGroupedHolds`; `CropInsideHolds` and `ChannelsSplitHolds`
follow from what `OutputFrom` makes of any preset whose margins are natural
numbers, which `MadeOfPreset` and `Hashes` carry through the hash. `ReportInv` says
that a report is of the request that was sent, and that a completed job has
written all its files: `ReportTrueHolds`. `AsCreatedHolds` assumes `CreatedOnce`, that
no two requests create one name, because of two it does not hold
(`mixed_preset`); `CreatedInv` then says that each hash is the `FieldMap` of what
its one request asked for, and that what is in the groups was made of it. The step
between is `LoadFieldMap`: for every preset, `Load` of its `FieldMap` is the preset,
whatever was omitted. `PromiseKeptHolds` maps the states of the job to those of
`ProviderStates`.

Only model-checked are `TranscodeReturns`, `NoGoroutineLeft`, `JobStatusReturns` and
`JobEnds`, because liveness under fairness is beyond the prover. The safety part
of each, that whoever waits waits for something that can still happen and that
what was done is not done again, is what `NeverStuckHolds`, `BlockedByTwoHolds`,
`ListAdvancesHolds` and `SomeReadyHolds` state. The five properties that fail are
shown by the runs of section 3.

## 5. What is left

The plan was carried out: the codec is `PresetHash`, the graph of a hybrik job
`HybrikTranscode`, the status mappings are in the module of each provider, the
presets of mediaconvert in `MediaConvertOutput`, and bitmovin's `Transcode` is
composed with its containers and its status. An abstract specification of the
job endpoints, for `JobLifecycle` to implement, was dropped: what it would promise
is what `AcknowledgedJobs`, `ListedLoads` and `OneEnd` say.

`JobLifecycle` is not composed with the module of one provider; what joins them is
`ProviderJob`, which one uses and the others implement.

Could be added: flock as a fourth module that implements `ProviderJob`, but for its
unread refusals; a mapping of `PresetProvisioning` for the ids that maps hold, and
not only for the providers they name.

Not modelled, and why:

* flock's request and report: fields copied one by one, with no branch that a
  property could tell apart; what its calls answer is in `JobLifecycle`;
* the client library: one request, one answer, no state; configuration,
  `main.go` and the JSON answers: input and output; the fake repository: a
  test's stand-in;
* which input and output bitmovin makes of a URL: one call that may fail, whose
  kind depends on the scheme only;
* the values copied into requests to the providers (sizes, paths, credentials,
  tags, queues), except those that a property is about;
* code that nothing calls: `dolbyVisionElementAssembler`, `createExplicitKeyframes`,
  `UpdateLocalPreset`, `DeleteJob`, `ListJobs`;
* margins of a crop: nothing in the service checks that they are not negative or
  not larger than the source. The model takes them to be natural numbers, as
  the amounts that are cut off.
