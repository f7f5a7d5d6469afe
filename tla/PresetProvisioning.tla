------------------------- MODULE PresetProvisioning -------------------------
(***************************************************************************)
(* The preset endpoints of the service, the redis repository they keep     *)
(* preset maps in, and the providers' CreatePreset and DeletePreset.       *)
(* Every request runs in its own goroutine (several instances of the       *)
(* service may share one redis), so an action is one redis command or one  *)
(* provider call of one request, and requests interleave between them.     *)
(*                                                                         *)
(* hybrik, flock and mediaconvert keep their presets in redis under        *)
(* localpreset:<name>, the same key for all of them; bitmovin creates      *)
(* audio and video configurations and filters through its API and keeps    *)
(* their ids under presetsummary:<name>.                                   *)
(***************************************************************************)
EXTENDS FiniteSets

CONSTANTS
  Requests,        \* the requests clients send, each at most once
  Names,           \* preset names, none of them empty
  LocalProviders,  \* providers that keep presets in localpreset:<name>
  Bitmovin,        \* the provider that keeps presets in presetsummary:<name>
  Calls,           \* what the requests may ask for, a subset of Call
  Faults,          \* the failures that may happen, a subset of FaultKinds
  None,            \* no mapping, no preset
  NoId             \* the empty preset id ""

Providers == LocalProviders \cup {Bitmovin}
Ids       == Names \cup {NoId}
Mapping   == [Providers -> Ids \cup {None}]
Ops       == {"newPreset", "deletePreset",
              "newPresetMap", "updatePresetMap", "deletePresetMap"}
FaultKinds == {"redis", "provider", "crash"}

\* providers is read by newPreset, mapping by newPresetMap and updatePresetMap.
Call == [op : Ops, name : Names, providers : SUBSET Providers, mapping : Mapping]

Unmapped == [p \in Providers |-> None]
Mapped(m) == {p \in Providers : m[p] # None}

ASSUME ProvisioningAssumption ==
  /\ Calls \subseteq Call
  /\ Faults \subseteq FaultKinds
  /\ None \notin Ids \cup Requests
  /\ NoId \notin Names
  /\ \A c \in Calls : c.op \in {"newPresetMap", "updatePresetMap"}
                        => Mapped(c.mapping) # {}

VARIABLES
  \* redis and bitmovin, shared by all requests
  presetMap,    \* presetmap:<name>: its provider mapping, Unmapped if no key
  index,        \* the set "presetmaps"
  localPreset,  \* localpreset:<name>: the request that wrote it, or None
  summary,      \* presetsummary:<name>: the request whose objects it names
  objects,      \* <<r, kind>>: the bitmovin objects made by request r
  \* the goroutine of each request
  pc,           \* the next step of the request
  call,         \* what it asks for
  copy,         \* its presetMap variable
  todo,         \* the providers its loop has still to visit
  at,           \* the provider the loop is at
  config,       \* deletePreset: the objects named by the summary it read
  creating,     \* newPreset: shouldCreatePresetMap
  result,       \* output.Results by provider
  reply,        \* the answer sent to the client
  \* history, read by properties only
  overtaken     \* requests whose saved map another request deleted

store == <<presetMap, index, localPreset, summary, objects>>
locals == <<pc, call, copy, todo, at, config, creating, result, reply>>
vars == <<presetMap, index, localPreset, summary, objects, pc, call, copy,
          todo, at, config, creating, result, reply, overtaken>>

Steps == {"get", "loop", "lookupLocal", "saveLocal", "lookupSummary",
          "createConfigs", "recheckSummary", "saveSummary", "removeLocal",
          "readSummary", "removeAudio", "removeVideo", "removeSummary",
          "checkFree", "checkExists", "resolve", "save", "addToIndex",
          "drop", "dropFromIndex", "done", "crashed"}

\* A result is kept when the provider was already mapped, ok when the provider
\* did what was asked.
Results == {"none", "kept", "ok", "error"}

\* notRemoved: a 200 whose payload says the map was not removed.
Replies == {"none", "ok", "notRemoved", "invalid", "notFound", "conflict", "error"}

ObjectKinds == {"audio", "video", "filter"}

TypeOK ==
  /\ presetMap \in [Names -> Mapping]
  /\ index \in SUBSET Names
  /\ localPreset \in [Names -> Requests \cup {None}]
  /\ summary \in [Names -> Requests \cup {None}]
  /\ objects \in SUBSET (Requests \X ObjectKinds)
  /\ pc \in [Requests -> Steps]
  /\ call \in [Requests -> Calls]
  /\ copy \in [Requests -> Mapping]
  /\ todo \in [Requests -> SUBSET Providers]
  /\ at \in [Requests -> Providers]
  /\ config \in [Requests -> Requests \cup {None}]
  /\ creating \in [Requests -> BOOLEAN]
  /\ result \in [Requests -> [Providers -> Results]]
  /\ reply \in [Requests -> Replies]
  /\ overtaken \in SUBSET Requests

\* A request that has not arrived yet is at its first step.
FirstStep == [newPreset |-> "get", deletePreset |-> "get",
              newPresetMap |-> "checkFree", updatePresetMap |-> "checkExists",
              deletePresetMap |-> "drop"]

Init ==
  /\ presetMap = [n \in Names |-> Unmapped]
  /\ index = {}
  /\ localPreset = [n \in Names |-> None]
  /\ summary = [n \in Names |-> None]
  /\ objects = {}
  /\ call \in [Requests -> Calls]
  /\ pc = [r \in Requests |-> FirstStep[call[r].op]]
  /\ copy = [r \in Requests |-> IF call[r].op \in {"newPresetMap", "updatePresetMap"}
                                THEN call[r].mapping ELSE Unmapped]
  /\ todo = [r \in Requests |-> {}]
  /\ at = [r \in Requests |-> Bitmovin]
  /\ config = [r \in Requests |-> None]
  /\ creating = [r \in Requests |-> FALSE]
  /\ result = [r \in Requests |-> [p \in Providers |-> "none"]]
  /\ reply = [r \in Requests |-> "none"]
  /\ overtaken = {}

-----------------------------------------------------------------------------
(* Vocabulary of the actions *)

Name(r)   == call[r].name
Exists(n) == Mapped(presetMap[n]) # {}  \* a saved map has at least one provider

RedisMayFail    == "redis" \in Faults
ProviderMayFail == "provider" \in Faults

Step(r, from, to) == pc[r] = from /\ pc' = [pc EXCEPT ![r] = to]

Answer(r, from, a) ==
  /\ Step(r, from, "done")
  /\ reply' = [reply EXCEPT ![r] = a]

\* One turn of the loop over providers ends; continue takes the next.
Report(r, from, res) ==
  /\ Step(r, from, "loop")
  /\ result' = [result EXCEPT ![r][at[r]] = res]

\* presetMap.ProviderMapping[p] = presetID
MapProvider(r, id) == copy' = [copy EXCEPT ![r][at[r]] = id]

\* Seeded fault: the hash is deleted and written anew.
MergeReplacing(old, new) == new

\* HMSET sets the fields it is given and leaves the others.
Merge(old, new) == [p \in Providers |-> IF new[p] # None THEN new[p] ELSE old[p]]

-----------------------------------------------------------------------------
(* newPreset and deletePreset: the first read, the loop over providers *)

NewPresetGet(r) ==
  /\ call[r].op = "newPreset"
  /\ \/ /\ Exists(Name(r))
        /\ Step(r, "get", "loop")
        /\ copy' = [copy EXCEPT ![r] = presetMap[Name(r)]]
        /\ todo' = [todo EXCEPT ![r] = call[r].providers \ Mapped(presetMap[Name(r)])]
        /\ result' = [result EXCEPT ![r] = [p \in Providers |->
                        IF presetMap[Name(r)][p] # None THEN "kept" ELSE "none"]]
        /\ UNCHANGED <<creating, reply>>
     \/ /\ ~Exists(Name(r))
        /\ Step(r, "get", "loop")
        /\ todo' = [todo EXCEPT ![r] = call[r].providers]
        /\ creating' = [creating EXCEPT ![r] = TRUE]
        /\ UNCHANGED <<copy, result, reply>>
     \/ /\ RedisMayFail
        /\ Answer(r, "get", "error")
        /\ UNCHANGED <<copy, todo, creating, result>>
  /\ UNCHANGED <<store, call, at, config, overtaken>>

DeletePresetGet(r) ==
  /\ call[r].op = "deletePreset"
  /\ \/ /\ Exists(Name(r))
        /\ Step(r, "get", "loop")
        /\ copy' = [copy EXCEPT ![r] = presetMap[Name(r)]]
        /\ todo' = [todo EXCEPT ![r] = Mapped(presetMap[Name(r)])]
        /\ UNCHANGED reply
     \/ /\ ~Exists(Name(r)) \/ RedisMayFail
        /\ Answer(r, "get", "notRemoved")
        /\ UNCHANGED <<copy, todo>>
  /\ UNCHANGED <<store, call, at, config, creating, result, overtaken>>

ProviderStep(op, p) ==
  IF op = "newPreset" THEN IF p = Bitmovin THEN "lookupSummary" ELSE "lookupLocal"
                      ELSE IF p = Bitmovin THEN "readSummary" ELSE "removeLocal"

\* The order is the client's list (newPreset) or Go's map order (deletePreset).
VisitProvider(r) ==
  /\ pc[r] = "loop"
  /\ \E p \in todo[r] :
       /\ todo' = [todo EXCEPT ![r] = @ \ {p}]
       /\ \/ /\ Step(r, "loop", ProviderStep(call[r].op, p))
             /\ at' = [at EXCEPT ![r] = p]
             /\ UNCHANGED result
          \/ /\ ProviderMayFail  \* GetProviderFactory or the factory fails
             /\ result' = [result EXCEPT ![r][p] = "error"]
             /\ UNCHANGED <<pc, at>>
  /\ UNCHANGED <<store, call, copy, config, creating, reply, overtaken>>

EndLoop(r) ==
  /\ todo[r] = {}
  /\ \/ /\ call[r].op = "newPreset"
        /\ Mapped(copy[r]) # {}
        /\ Step(r, "loop", IF creating[r] THEN "checkFree" ELSE "checkExists")
        /\ UNCHANGED reply
     \/ /\ call[r].op = "newPreset"
        /\ Mapped(copy[r]) = {}
        /\ Answer(r, "loop", "error")
     \/ /\ call[r].op = "deletePreset"
        /\ Step(r, "loop", "drop")
        /\ UNCHANGED reply
  /\ UNCHANGED <<store, call, copy, todo, at, config, creating, result, overtaken>>

-----------------------------------------------------------------------------
(* CreatePreset of hybrik, flock and mediaconvert: CreateLocalPreset.      *)
(* A lookup that fails is taken for a preset that does not exist.          *)

\* Seeded fault: the loop maps the provider before it looks at the error.
LookupLocalMapping(r) ==
  /\ \/ /\ pc[r] = "lookupLocal" /\ localPreset[Name(r)] # None
        /\ MapProvider(r, Name(r))
        /\ Report(r, "lookupLocal", "error")
     \/ /\ pc[r] = "lookupLocal" /\ (localPreset[Name(r)] = None \/ RedisMayFail)
        /\ Step(r, "lookupLocal", "saveLocal")
        /\ UNCHANGED <<copy, result>>
  /\ UNCHANGED <<store, call, todo, at, config, creating, reply, overtaken>>

LookupLocal(r) ==
  /\ \/ /\ pc[r] = "lookupLocal" /\ localPreset[Name(r)] # None
        /\ Report(r, "lookupLocal", "error")
     \/ /\ pc[r] = "lookupLocal" /\ (localPreset[Name(r)] = None \/ RedisMayFail)
        /\ Step(r, "lookupLocal", "saveLocal")
        /\ UNCHANGED result
  /\ UNCHANGED <<store, call, copy, todo, at, config, creating, reply, overtaken>>

SaveLocal(r) ==
  /\ pc[r] = "saveLocal"
  /\ \/ /\ localPreset' = [localPreset EXCEPT ![Name(r)] = r]
        /\ MapProvider(r, Name(r))
        /\ Report(r, "saveLocal", "ok")
     \/ /\ RedisMayFail  \* HMSET fails, or it is done and SADD fails
        /\ localPreset' \in {localPreset, [localPreset EXCEPT ![Name(r)] = r]}
        /\ Report(r, "saveLocal", "error")
        /\ UNCHANGED copy
  /\ UNCHANGED <<presetMap, index, summary, objects, call, todo, at, config,
                 creating, reply, overtaken>>

-----------------------------------------------------------------------------
(* CreatePreset of bitmovin *)

\* An existing summary comes back from redis without its name.
LookupSummary(r) ==
  /\ \/ /\ pc[r] = "lookupSummary" /\ summary[Name(r)] # None
        /\ MapProvider(r, NoId)
        /\ Report(r, "lookupSummary", "ok")
     \/ /\ pc[r] = "lookupSummary" /\ (summary[Name(r)] = None \/ RedisMayFail)
        /\ Step(r, "lookupSummary", "createConfigs")
        /\ UNCHANGED <<copy, result>>
  /\ UNCHANGED <<store, call, todo, at, config, creating, reply, overtaken>>

\* The audio configuration, the video configuration, then the filters: no other
\* request sees them before the summary is saved.
CreateConfigs(r) ==
  /\ pc[r] = "createConfigs"
  /\ \/ /\ objects' = objects \cup ({r} \X ObjectKinds)
        /\ Step(r, "createConfigs", "recheckSummary")
        /\ UNCHANGED result
     \/ /\ ProviderMayFail
        /\ \E made \in {{}, {"audio"}, {"audio", "video"}} :
             objects' = objects \cup ({r} \X made)
        /\ Report(r, "createConfigs", "error")
  /\ UNCHANGED <<presetMap, index, localPreset, summary, call, copy, todo, at,
                 config, creating, reply, overtaken>>

\* CreatePresetSummary does nothing, and succeeds, if there is one by now.
RecheckSummary(r) ==
  /\ \/ /\ pc[r] = "recheckSummary" /\ summary[Name(r)] # None
        /\ MapProvider(r, Name(r))
        /\ Report(r, "recheckSummary", "ok")
     \/ /\ pc[r] = "recheckSummary" /\ (summary[Name(r)] = None \/ RedisMayFail)
        /\ Step(r, "recheckSummary", "saveSummary")
        /\ UNCHANGED <<copy, result>>
  /\ UNCHANGED <<store, call, todo, at, config, creating, reply, overtaken>>

SaveSummary(r) ==
  /\ pc[r] = "saveSummary"
  /\ \/ /\ summary' = [summary EXCEPT ![Name(r)] = r]
        /\ MapProvider(r, Name(r))
        /\ Report(r, "saveSummary", "ok")
     \/ /\ RedisMayFail
        /\ summary' \in {summary, [summary EXCEPT ![Name(r)] = r]}
        /\ Report(r, "saveSummary", "error")
        /\ UNCHANGED copy
  /\ UNCHANGED <<presetMap, index, localPreset, objects, call, todo, at, config,
                 creating, reply, overtaken>>

-----------------------------------------------------------------------------
(* DeletePreset of hybrik, flock and mediaconvert.  GetLocalPreset only    *)
(* tells sooner what DEL tells too: that there is no such preset.          *)

RemoveLocal(r) ==
  LET id == copy[r][at[r]] IN
  /\ pc[r] = "removeLocal"
  /\ \/ /\ id \in Names /\ localPreset[id] # None
        /\ localPreset' = [localPreset EXCEPT ![id] = None]
        /\ Report(r, "removeLocal", "ok")
     \/ /\ id \in Names => localPreset[id] = None
        /\ Report(r, "removeLocal", "error")
        /\ UNCHANGED localPreset
     \/ /\ RedisMayFail
        /\ localPreset' \in {localPreset, [localPreset EXCEPT ![id] = None]}
        /\ Report(r, "removeLocal", "error")
  /\ UNCHANGED <<presetMap, index, summary, objects, call, copy, todo, at,
                 config, creating, reply, overtaken>>

(* DeletePreset of bitmovin: the audio configuration, the video            *)
(* configuration, the summary; the first error ends it.                    *)

ReadSummary(r) ==
  LET id == copy[r][at[r]] IN
  /\ \/ /\ pc[r] = "readSummary" /\ id \in Names /\ summary[id] # None
        /\ config' = [config EXCEPT ![r] = summary[id]]
        /\ Step(r, "readSummary", "removeAudio")
        /\ UNCHANGED result
     \/ /\ pc[r] = "readSummary"
        /\ (id \in Names => summary[id] = None) \/ RedisMayFail
        /\ Report(r, "readSummary", "error")
        /\ UNCHANGED config
  /\ UNCHANGED <<store, call, copy, todo, at, creating, reply, overtaken>>

\* Seeded fault: an object that is gone counts as deleted.
RemoveObjectIfAny(r, step, kind, next) ==
  /\ Step(r, step, next)
  /\ objects' = objects \ {<<config[r], kind>>}
  /\ UNCHANGED <<presetMap, index, localPreset, summary, call, copy, todo, at,
                 config, creating, result, reply, overtaken>>

\* The API answers a delete of an object that is gone with an error.
RemoveObject(r, step, kind, next) ==
  /\ pc[r] = step
  /\ \/ /\ <<config[r], kind>> \in objects
        /\ objects' = objects \ {<<config[r], kind>>}
        /\ Step(r, step, next)
        /\ UNCHANGED result
     \/ /\ <<config[r], kind>> \notin objects
        /\ Report(r, step, "error")
        /\ UNCHANGED objects
     \/ /\ ProviderMayFail
        /\ objects' \in {objects, objects \ {<<config[r], kind>>}}
        /\ Report(r, step, "error")
  /\ UNCHANGED <<presetMap, index, localPreset, summary, call, copy, todo, at,
                 config, creating, reply, overtaken>>

RemoveAudio(r) == RemoveObject(r, "removeAudio", "audio", "removeVideo")
RemoveVideo(r) == RemoveObject(r, "removeVideo", "video", "removeSummary")

\* Seeded fault: the name leaves the index, the summary's key stays.
RemoveSummaryIndexOnly(r) ==
  /\ Report(r, "removeSummary", "ok")
  /\ UNCHANGED <<store, call, copy, todo, at, config, creating, reply, overtaken>>

RemoveSummary(r) ==
  LET id == copy[r][at[r]] IN
  /\ pc[r] = "removeSummary"
  /\ \/ /\ summary[id] # None
        /\ summary' = [summary EXCEPT ![id] = None]
        /\ Report(r, "removeSummary", "ok")
     \/ /\ summary[id] = None
        /\ Report(r, "removeSummary", "error")
        /\ UNCHANGED summary
     \/ /\ RedisMayFail
        /\ summary' \in {summary, [summary EXCEPT ![id] = None]}
        /\ Report(r, "removeSummary", "error")
  /\ UNCHANGED <<presetMap, index, localPreset, objects, call, copy, todo, at,
                 config, creating, reply, overtaken>>

-----------------------------------------------------------------------------
(* The repository: CreatePresetMap, UpdatePresetMap, DeletePresetMap and   *)
(* updatePresetMapResolvingConflicts.  WATCH without MULTI guards nothing, *)
(* so other requests run between the check and HMSET, and between HMSET    *)
(* and SADD.                                                               *)

\* Seeded fault: a conflict is ignored instead of resolved.
CheckFreeIgnoringConflict(r) ==
  /\ \/ /\ pc[r] = "checkFree" /\ (~Exists(Name(r)) \/ RedisMayFail)
        /\ Step(r, "checkFree", "save")
        /\ UNCHANGED reply
     \/ /\ pc[r] = "checkFree" /\ Exists(Name(r))
        /\ Answer(r, "checkFree", "ok")
  /\ UNCHANGED <<store, call, copy, todo, at, config, creating, result, overtaken>>

\* CreatePresetMap: any error of the read is taken for a name that is free.
CheckFree(r) ==
  /\ \/ /\ pc[r] = "checkFree" /\ (~Exists(Name(r)) \/ RedisMayFail)
        /\ Step(r, "checkFree", "save")
        /\ UNCHANGED reply
     \/ /\ pc[r] = "checkFree" /\ Exists(Name(r)) /\ call[r].op = "newPreset"
        /\ Step(r, "checkFree", "resolve")
        /\ UNCHANGED reply
     \/ /\ pc[r] = "checkFree" /\ Exists(Name(r)) /\ call[r].op = "newPresetMap"
        /\ Answer(r, "checkFree", "conflict")
  /\ UNCHANGED <<store, call, copy, todo, at, config, creating, result, overtaken>>

\* Entries stored meanwhile win over those the request just made.
Resolve(r) ==
  /\ \/ /\ pc[r] = "resolve" /\ Exists(Name(r))
        /\ copy' = [copy EXCEPT ![r] = Merge(@, presetMap[Name(r)])]
        /\ Step(r, "resolve", "checkExists")
        /\ UNCHANGED reply
     \/ /\ pc[r] = "resolve" /\ (~Exists(Name(r)) \/ RedisMayFail)
        /\ Answer(r, "resolve", "invalid")
        /\ UNCHANGED copy
  /\ UNCHANGED <<store, call, todo, at, config, creating, result, overtaken>>

\* UpdatePresetMap: any error but not-found lets the update go ahead.
CheckExists(r) ==
  /\ \/ /\ pc[r] = "checkExists" /\ (Exists(Name(r)) \/ RedisMayFail)
        /\ Step(r, "checkExists", "save")
        /\ UNCHANGED reply
     \/ /\ pc[r] = "checkExists" /\ ~Exists(Name(r))
        /\ Answer(r, "checkExists",
                  IF call[r].op = "newPreset" THEN "invalid" ELSE "notFound")
  /\ UNCHANGED <<store, call, copy, todo, at, config, creating, result, overtaken>>

\* Seeded fault: the error reply is built without a status.
SaveFailedUnset(r) == "unset"

SaveFailed(r) == IF call[r].op = "newPreset" THEN "invalid" ELSE "error"

Saved(r) ==
  presetMap' = [presetMap EXCEPT ![Name(r)] = Merge(@, copy[r])]

Save(r) ==
  /\ pc[r] = "save"
  /\ \/ /\ Saved(r)
        /\ Step(r, "save", "addToIndex")
        /\ UNCHANGED reply
     \/ /\ RedisMayFail  \* the reply of HMSET is lost, or HMSET is
        /\ Saved(r) \/ UNCHANGED presetMap
        /\ Answer(r, "save", SaveFailed(r))
  /\ UNCHANGED <<index, localPreset, summary, objects, call, copy, todo, at,
                 config, creating, result, overtaken>>

AddToIndex(r) ==
  /\ pc[r] = "addToIndex"
  /\ \/ /\ index' = index \cup {Name(r)}
        /\ Answer(r, "addToIndex", "ok")
     \/ /\ RedisMayFail
        /\ index' \in {index, index \cup {Name(r)}}
        /\ Answer(r, "addToIndex", SaveFailed(r))
  /\ UNCHANGED <<presetMap, localPreset, summary, objects, call, copy, todo, at,
                 config, creating, result, overtaken>>

\* The requests that saved a map under n, whether answered or not.
HaveSaved(n) ==
  {q \in Requests : pc[q] \in {"addToIndex", "done"} /\ Name(q) = n}

Erased(r) ==
  /\ presetMap' = [presetMap EXCEPT ![Name(r)] = Unmapped]
  /\ overtaken' = overtaken \cup HaveSaved(Name(r))

Drop(r) ==
  /\ pc[r] = "drop"
  /\ \/ /\ Exists(Name(r))
        /\ Erased(r)
        /\ Step(r, "drop", "dropFromIndex")
        /\ UNCHANGED reply
     \/ /\ ~Exists(Name(r))
        /\ Answer(r, "drop", IF call[r].op = "deletePreset" THEN "notRemoved" ELSE "notFound")
        /\ UNCHANGED <<presetMap, overtaken>>
     \/ /\ RedisMayFail
        /\ Erased(r) \/ UNCHANGED <<presetMap, overtaken>>
        /\ Answer(r, "drop", IF call[r].op = "deletePreset" THEN "notRemoved" ELSE "error")
  /\ UNCHANGED <<index, localPreset, summary, objects, call, copy, todo, at,
                 config, creating, result>>

\* The outcome of SREM is ignored.
DropFromIndex(r) ==
  /\ \/ index' = index \ {Name(r)}
     \/ RedisMayFail /\ UNCHANGED index
  /\ Answer(r, "dropFromIndex", "ok")
  /\ UNCHANGED <<presetMap, localPreset, summary, objects, call, copy, todo, at,
                 config, creating, result, overtaken>>

-----------------------------------------------------------------------------
\* The instance that serves the request dies, or its handler panics.
Crash(r) ==
  /\ "crash" \in Faults
  /\ pc[r] \notin {"done", "crashed"}
  /\ pc' = [pc EXCEPT ![r] = "crashed"]
  /\ UNCHANGED <<store, call, copy, todo, at, config, creating, result, reply,
                 overtaken>>

Serve(r) ==
  \/ NewPresetGet(r) \/ DeletePresetGet(r) \/ VisitProvider(r) \/ EndLoop(r)
  \/ LookupLocal(r) \/ SaveLocal(r)
  \/ LookupSummary(r) \/ CreateConfigs(r) \/ RecheckSummary(r) \/ SaveSummary(r)
  \/ RemoveLocal(r)
  \/ ReadSummary(r) \/ RemoveAudio(r) \/ RemoveVideo(r) \/ RemoveSummary(r)
  \/ CheckFree(r) \/ Resolve(r) \/ CheckExists(r) \/ Save(r) \/ AddToIndex(r)
  \/ Drop(r) \/ DropFromIndex(r)
  \/ Crash(r)

Next == \E r \in Requests : Serve(r)

Spec == Init /\ [][Next]_vars

-----------------------------------------------------------------------------
(* Properties that hold *)

\* A preset map never gets an entry out of nothing: every provider mapped under
\* a name was mapped by a request for that name, either a newPreset whose
\* CreatePreset succeeded there (preset.go:131-137) or the body of a request
\* on /presetmaps, whatever copies, merges and late saves happened since.
MappedFor(n, p) ==
  \E r \in Requests :
    /\ Name(r) = n
    /\ \/ call[r].op = "newPreset" /\ result[r][p] = "ok"
       \/ call[r].op # "newPreset" /\ call[r].mapping[p] # None

MappedByARequest ==
  \A n \in Names : \A p \in Mapped(presetMap[n]) : MappedFor(n, p)

\* No lost update: once a request that saves a map is answered 200, every
\* provider it reported as holding the preset is mapped for as long as nobody
\* deletes the map, although savePresetMap is a read-modify-write that other
\* requests interleave with (HMSET merges, presetmap.go:32).
Reported(r) ==
  IF call[r].op = "newPreset" THEN {p \in Providers : result[r][p] \in {"kept", "ok"}}
                              ELSE Mapped(call[r].mapping)

SaveOps == {"newPreset", "newPresetMap", "updatePresetMap"}

AcknowledgedStays ==
  \A r \in Requests :
    (reply[r] = "ok" /\ call[r].op \in SaveOps /\ r \notin overtaken)
    => Reported(r) \subseteq Mapped(presetMap[Name(r)])

\* A summary in redis always names configurations that exist in bitmovin, but
\* for those a deletePreset took and did not report as removed: a failed or
\* interrupted delete (h264_aac.go:58-71) is the only way to a broken summary.
DeletingConfig(c) ==
  \E r \in Requests : config[r] = c /\ result[r][Bitmovin] # "ok"

SummaryIntact ==
  \A n \in Names : summary[n] # None =>
    \/ {<<summary[n], "audio">>, <<summary[n], "video">>} \subseteq objects
    \/ DeletingConfig(summary[n])

\* Of several deletePresets racing for the same bitmovin configurations, at
\* most one tells its client that it removed the preset.
RemovedOnce ==
  \A r, q \in Requests :
    (/\ config[r] # None /\ config[r] = config[q]
     /\ result[r][Bitmovin] = "ok" /\ result[q][Bitmovin] = "ok") => r = q

-----------------------------------------------------------------------------
(* The catalogue promised to clients *)

PhaseOf(r) ==
  CASE pc[r] = "addToIndex"    -> "recorded"
    [] pc[r] = "dropFromIndex" -> "erased"
    [] pc[r] = "done"          -> IF reply[r] = "ok" THEN "acknowledged" ELSE "refused"
    [] pc[r] = "crashed"       -> "refused"
    [] OTHER                   -> "open"

Catalog == INSTANCE PresetCatalog WITH
             catalog <- [n \in Names |-> Mapped(presetMap[n])],
             phase <- [r \in Requests |-> PhaseOf(r)]

\* Every behaviour of the endpoints is one of the abstract catalogue: a request
\* takes effect at most once, at one redis command, only ever adds providers or
\* frees the whole name, and a 200 that says so is true.
CatalogImplemented == Catalog!CatalogSpec

-----------------------------------------------------------------------------
(* What a doc of the repository says and the code does not keep *)

Quiet == \A r \in Requests : pc[r] \in {FirstStep[call[r].op], "done"}

\* presetmap.go:115, "List available presets on the API.": with no request under
\* way, every map that exists is in the set listPresetMaps reads.
EveryMapListed == Quiet => \A n \in Names : Exists(n) => n \in index
=============================================================================
