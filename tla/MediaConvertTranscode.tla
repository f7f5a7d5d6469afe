------------------------ MODULE MediaConvertTranscode ------------------------
(* Presets kept for mediaconvert and one job made of them: CreatePreset and  *)
(* DeletePreset by way of the redis hash of a preset, the request that       *)
(* Transcode builds, the job at MediaConvert, and what JobStatus reports     *)
(* (provider/mediaconvert/mediaconvert.go, db/redis/localpreset.go).         *)
EXTENDS MediaConvertOutput, FiniteSets

CONSTANTS
  Creates,    \* the requests that create a preset, each with the preset's name
  Askable,    \* what these requests may ask for: request -> preset
  Jobs,       \* the jobs a client may ask for
  Deletable,  \* the presets somebody may delete meanwhile
  Crashing    \* whether calls to MediaConvert, and jobs, may fail

Requests == DOMAIN Creates
Names    == {Creates[r] : r \in Requests}
Types    == {Containers[c] : c \in DOMAIN Containers}
States   == {"SUBMITTED", "PROGRESSING", "COMPLETE", "CANCELED", "ERROR"}

\* Margins are what is cut off, never negative; nothing in the service checks it.
ASSUME MediaConvertAssumption ==
  /\ \A a \in Askable : DOMAIN a = Requests /\ \A r \in Requests : IsPreset(a[r])
  /\ \A j \in Jobs :
       /\ Len(j.outputs) \in Nat \ {0} /\ DOMAIN j.outputs = 1 .. Len(j.outputs)
       /\ \A i \in DOMAIN j.outputs : j.outputs[i].preset \in Names
       /\ j.source.width \in Nat /\ j.source.height \in Nat
  /\ Deletable \subseteq Names
  /\ Crashing \in BOOLEAN
  /\ None \notin States

VARIABLES
  asked,    \* the preset of each create request
  saving,   \* the next step of each create request
  hashes,   \* redis: preset name -> hash, or None
  job,
  pc,       \* the next step of Transcode
  next,     \* the output outputGroupsFrom is at
  groups,   \* outputGroups: container type -> outputs
  left,     \* the container types that the range over them has still to visit
  request,  \* mcOutputGroups, in their order
  state,    \* the state of the job at MediaConvert
  written,  \* the files it has written
  report    \* the last answer of JobStatus

vars == <<asked, saving, hashes, job, pc, next, groups, left, request, state, written, report>>

presets  == <<asked, saving, hashes>>
building == <<next, groups, left, request>>
remote   == <<state, written>>

Init ==
  /\ asked \in Askable
  /\ saving = [r \in Requests |-> "lookup"]
  /\ hashes = [n \in Names |-> None]
  /\ job \in Jobs
  /\ pc = "outputs" /\ next = 1
  /\ groups = [t \in Types |-> <<>>]
  /\ left = {} /\ request = <<>>
  /\ state = None /\ written = {} /\ report = None

-----------------------------------------------------------------------------
(* CreatePreset and DeletePreset. The key is looked up and then set.         *)

LookupPreset(r) ==
  /\ saving[r] = "lookup"
  /\ saving' = [saving EXCEPT ![r] = IF hashes[Creates[r]] # None THEN "refused" ELSE "save"]
  /\ UNCHANGED <<asked, hashes, job, pc, building, remote, report>>

SavePreset(r) ==
  LET n == Creates[r]  fields == FieldMap(asked[r]) IN
  /\ saving[r] = "save"
  /\ IF fields = Panic
     THEN saving' = [saving EXCEPT ![r] = "panicked"] /\ UNCHANGED hashes
     ELSE /\ saving' = [saving EXCEPT ![r] = "done"]
          /\ hashes' = [hashes EXCEPT ![n] = IF @ = None THEN fields ELSE HMSet(@, fields)]
  /\ UNCHANGED <<asked, job, pc, building, remote, report>>

DeletePreset(n) ==
  /\ hashes[n] # None
  /\ hashes' = [hashes EXCEPT ![n] = None]
  /\ UNCHANGED <<asked, saving, job, pc, building, remote, report>>

-----------------------------------------------------------------------------
(* Transcode *)

\* An output remembers the output of the job that it is for.
Output(o) ==
  [of |-> next, file |-> o.file, made |-> OutputFrom(Load(hashes[o.preset]), job.source)]

\* Seeded fault: an output replaces the earlier ones of its container.
GetPresetReplacing ==
  LET o == job.outputs[next]
      out == IF hashes[o.preset] = None THEN Refused
             ELSE OutputFrom(Load(hashes[o.preset]), job.source)
  IN
  /\ pc = "outputs" /\ next <= Len(job.outputs)
  /\ IF out \in {Refused, Panic}
     THEN pc' = (IF out = Panic THEN "panicked" ELSE "failed") /\ UNCHANGED <<next, groups>>
     ELSE /\ groups' = [groups EXCEPT ![out.container] = <<Output(o)>>]
          /\ next' = next + 1
          /\ UNCHANGED pc
  /\ UNCHANGED <<presets, job, left, request, remote, report>>

\* One pass through the loop of outputGroupsFrom.
GetPreset ==
  LET o == job.outputs[next]
      out == IF hashes[o.preset] = None THEN Refused
             ELSE OutputFrom(Load(hashes[o.preset]), job.source)
  IN
  /\ pc = "outputs" /\ next <= Len(job.outputs)
  /\ IF out \in {Refused, Panic}
     THEN pc' = (IF out = Panic THEN "panicked" ELSE "failed") /\ UNCHANGED <<next, groups>>
     ELSE /\ groups' = [groups EXCEPT ![out.container] = Append(@, Output(o))]
          /\ next' = next + 1
          /\ UNCHANGED pc
  /\ UNCHANGED <<presets, job, left, request, remote, report>>

EndOutputs ==
  /\ pc = "outputs" /\ next > Len(job.outputs)
  /\ left' = {t \in Types : groups[t] # <<>>}
  /\ pc' = "groups"
  /\ UNCHANGED <<presets, job, next, groups, request, remote, report>>

GroupType(t) == CASE t = "CMFC" -> "CMAF" [] t = "M3U8" -> "HLS" [] OTHER -> "FILE"

\* The range over the map of groups, in any order.
GroupOutputs ==
  /\ pc = "groups"
  /\ \E t \in left :
       /\ request' = Append(request, [type |-> GroupType(t), outputs |-> groups[t]])
       /\ left' = left \ {t}
  /\ UNCHANGED <<presets, job, pc, next, groups, remote, report>>

\* Seeded fault: the error of the call is dropped.
CreateJobUnchecked ==
  /\ pc = "groups" /\ left = {}
  /\ pc' = "answered"
  /\ state' \in {IF Crashing THEN None ELSE "SUBMITTED", "SUBMITTED"}
  /\ UNCHANGED <<presets, job, building, written, report>>

\* The call may fail before or after MediaConvert has taken the job.
CreateJob ==
  /\ pc = "groups" /\ left = {}
  /\ \/ state' = "SUBMITTED" /\ pc' = "answered"
     \/ Crashing /\ pc' = "failed" /\ state' \in {None, "SUBMITTED"}
  /\ UNCHANGED <<presets, job, building, written, report>>

Transcode == GetPreset \/ EndOutputs \/ GroupOutputs \/ CreateJob

-----------------------------------------------------------------------------
(* MediaConvert. A name is the group's destination, the name modifier and    *)
(* the extension, which is the container's own unless one is given.          *)

Extension(t) == CASE t = "MP4" -> "mp4" [] t = "MOV" -> "mov" [] t = "WEBM" -> "webm" [] OTHER -> Refused

Written1(group, out) ==
  [prefix |-> IF group.type = "FILE" THEN "m" ELSE "none", stem |-> out.file.stem,
   extension |-> IF out.file.extension = "none" THEN Extension(out.made.container) ELSE out.file.extension]

AllFiles == UNION {{Written1(request[g], request[g].outputs[k]) : k \in DOMAIN request[g].outputs}
                     : g \in DOMAIN request}

Begin ==
  /\ state = "SUBMITTED" /\ state' = "PROGRESSING"
  /\ UNCHANGED <<presets, job, pc, building, written, report>>

Complete ==
  /\ state = "PROGRESSING" /\ state' = "COMPLETE"
  /\ written' = AllFiles
  /\ UNCHANGED <<presets, job, pc, building, report>>

Stumble ==
  /\ Crashing /\ state \in {"SUBMITTED", "PROGRESSING"} /\ state' = "ERROR"
  /\ UNCHANGED <<presets, job, pc, building, written, report>>

-----------------------------------------------------------------------------
(* CancelJob and JobStatus *)

CancelJob ==
  /\ pc = "answered" /\ state \in {"SUBMITTED", "PROGRESSING"}
  /\ state' = "CANCELED"
  /\ UNCHANGED <<presets, job, pc, building, written, report>>

\* Seeded fault: a state without a case is passed on as it is.
ProviderStatusItself(s) ==
  CASE s = "COMPLETE" -> "finished" [] s = "ERROR" -> "failed" [] OTHER -> s

ProviderStatus(s) ==
  CASE s = "SUBMITTED" -> "queued" [] s = "PROGRESSING" -> "started" [] s = "COMPLETE" -> "finished"
    [] s = "CANCELED" -> "canceled" [] s = "ERROR" -> "failed" [] OTHER -> "unknown"

\* Seeded fault: the files of every group are reported, HLS's as well.
FilesOfAnyGroup ==
  UNION {{[prefix |-> "m", stem |-> o.file.stem, extension |-> Extension(o.made.container)] :
            o \in {request[g].outputs[k] : k \in DOMAIN request[g].outputs}} : g \in DOMAIN request}

\* The outputs of file groups whose container has an extension, which is the
\* one reported, whatever the extension of the file is.
Files ==
  UNION {{[prefix |-> "m", stem |-> o.file.stem, extension |-> Extension(o.made.container)] :
            o \in {q \in {request[g].outputs[k] : k \in DOMAIN request[g].outputs} :
                     request[g].type = "FILE" /\ Extension(q.made.container) # Refused}}
         : g \in DOMAIN request}

JobStatus ==
  /\ pc = "answered"
  /\ report' = [status |-> ProviderStatus(state), files |-> Files]
  /\ UNCHANGED <<presets, job, pc, building, remote>>

Next ==
  \/ \E r \in Requests : LookupPreset(r) \/ SavePreset(r)
  \/ \E n \in Deletable : DeletePreset(n)
  \/ Transcode
  \/ Begin \/ Complete \/ Stumble
  \/ CancelJob \/ JobStatus

Spec == Init /\ [][Next]_vars

-----------------------------------------------------------------------------
(* Properties *)

TypeOK ==
  /\ asked \in Askable /\ job \in Jobs
  /\ saving \in [Requests -> {"lookup", "save", "done", "refused", "panicked"}]
  /\ \A n \in Names : hashes[n] # None => DOMAIN hashes[n] \subseteq DOMAIN Fields
  /\ pc \in {"outputs", "groups", "answered", "failed", "panicked"}
  /\ next \in 1 .. Len(job.outputs) + 1
  /\ left \subseteq Types
  /\ state \in States \cup {None}
  /\ report = None \/ report.status \in {"queued", "started", "finished", "canceled", "failed"}

Placed == {<<g, k>> : g \in DOMAIN request, k \in 1 .. Len(job.outputs)}
At(p)  == request[p[1]].outputs[p[2]]
Sent   == {p \in Placed : p[2] \in DOMAIN request[p[1]].outputs}

\* In whichever order the groups are made, a job that is sent has each of its
\* outputs once, all of one container in one group, in the order of the job.
OutputsGrouped ==
  state # None =>
    /\ \A i \in DOMAIN job.outputs : Cardinality({p \in Sent : At(p).of = i}) = 1
    /\ \A p, q \in Sent : (p[1] = q[1]) <=> (At(p).made.container = At(q).made.container)
    /\ \A p, q \in Sent : p[1] = q[1] /\ p[2] < q[2] => At(p).of < At(q).of

\* What is asked of MediaConvert for an output is what a request that created
\* its preset asked for: nothing of a preset is lost or changed on its way
\* through the hash.
AsCreated ==
  \A p \in Sent : \E r \in Requests :
    /\ Creates[r] = job.outputs[At(p).of].preset
    /\ OutputFrom(asked[r], job.source) = At(p).made

Cropped(src, o) ==
  IF o.made.video = None THEN {} ELSE {o.made.video.crop} \ {None}

\* Of a source with even sides, the part that is kept lies in the source and
\* has even sides, however its margins are rounded.
CropInside ==
  job.source.width % 2 = 0 /\ job.source.height % 2 = 0 =>
    \A p \in Sent : \A c \in Cropped(job.source, At(p)) :
      /\ c.x + c.width <= job.source.width /\ c.y + c.height <= job.source.height
      /\ c.width % 2 = 0 /\ c.height % 2 = 0

\* Discrete tracks have each channel of the source in exactly one of them.
ChannelsSplit ==
  \A p \in Sent :
    LET tracks == At(p).made.audio
    IN Len(tracks) > 1 =>
         \A k \in DOMAIN tracks[1].gains :
           Cardinality({i \in DOMAIN tracks : tracks[i].channels = 1 /\ tracks[i].gains[k] = 0}) = 1

\* A file of a finished job that is reported has been written, unless the name
\* asked for has another extension than its container.
ReportTrue ==
  report # None /\ state = "COMPLETE" =>
    \A f \in report.files :
      f \in written \/ \E p \in Sent : /\ At(p).file.stem = f.stem
                                       /\ At(p).file.extension \notin {"none", f.extension}

\* The job as the service can tell.
JobState ==
  CASE state = None -> "none" [] state = "SUBMITTED" -> "queued" [] state = "PROGRESSING" -> "running"
    [] state = "COMPLETE" -> "complete" [] state = "CANCELED" -> "canceled" [] state = "ERROR" -> "error"

AnswerGiven ==
  CASE pc = "answered" -> "ok" [] pc \in {"failed", "panicked"} -> "error" [] OTHER -> "none"

Told == IF report = None THEN "none" ELSE report.status

Promise == INSTANCE ProviderJob
  WITH Canceled <- "canceled", state <- JobState, answer <- AnswerGiven, told <- Told

\* mediaconvert keeps what TranscodingProvider promises the service: ok means a
\* job, an error may mean one too, and a status is true when it is told.
PromiseKept == Promise!JobSpec

\* An unsupported profile is an error of the preset (ErrProfileUnsupported in
\* mpeg2_test.go:26), not a panic of the service.
NoPanic == pc # "panicked"
=============================================================================
