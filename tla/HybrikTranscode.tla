--------------------------- MODULE HybrikTranscode ---------------------------
(* One job at hybrik: the request that Transcode builds from the job's       *)
(* outputs (provider/hybrik/hybrik.go, job_mapping.go, element_assemblers.go,*)
(* legacy_dovi.go, packaging.go), the run of its elements by hybrik, and     *)
(* what JobStatus makes of it (job_status_mapping.go).                       *)
EXTENDS HybrikElements, FiniteSets, Sequences

CONSTANTS
  Presets,    \* the settings of each local preset, by name
  Jobs,       \* the jobs a client may ask for
  Deletable,  \* the presets somebody may delete meanwhile
  Crashing,   \* whether tasks and calls may fail
  None

Names == DOMAIN Presets
Files == UNION {{j.outputs[i].file : i \in DOMAIN j.outputs} : j \in Jobs}
Protocols == {"hls", "dash"}
States    == {"queued", "waiting", "running", "completed", "failed", "stopped"}

ASSUME HybrikAssumption ==
  /\ None \notin Names \cup Files \cup States
  /\ Deletable \subseteq Names
  /\ Crashing \in BOOLEAN
  /\ \A n \in Names : IsPreset(Presets[n])
  /\ \A j \in Jobs : j.outputs \in Seq([preset : Names, file : Files]) \ {<<>>}

VARIABLES
  job,
  pc,           \* the next step of Transcode
  next,         \* the output outputCfgsFrom is at
  stored,       \* the local presets of the repository
  cfgs,         \* outputCfgs: preset name -> file name, or None
  byFile,       \* presetsWithoutAudio: file name -> preset name, or None
  left,         \* the keys that a range over a map has still to visit
  tasks,        \* the transcode elements: number, preset and target of each
  groups,       \* elementGroups: the sets of UIDs, in their order
  connections,  \* pairs of UIDs: the second one waits for the first one
  ran,          \* the elements that hybrik has run
  state,        \* the state of the job at hybrik
  report        \* the last answer of JobStatus

vars == <<job, pc, next, stored, cfgs, byFile, left, tasks, groups, connections, ran,
          state, report>>

building == <<next, cfgs, byFile, left, tasks, groups, connections>>
remote   == <<ran, state>>

-----------------------------------------------------------------------------
(* UIDs are a stem and a number.                                             *)

Source      == <<"source_file", 0>>
Packager    == <<"packager", 0>>
DolbyVision == <<"dolby_vision_task", 0>>
TaskUID(t)  == <<"transcode_task", t.number>>

Kept == {n \in Names : cfgs[n] # None}

\* job.locations are the schemes of the source, the destination and the
\* sidecar, job.source that of the source.
Segmented == job.segmented /\ SupportsSegmentedRendering(StorageProvider(job.source))
Packaged  == job.protocol \in Protocols
Elements  == {Source} \cup UNION {groups[i] : i \in DOMAIN groups}

Init ==
  /\ job \in Jobs
  /\ pc = "locate" /\ next = 1
  /\ stored = Names
  /\ cfgs = [n \in Names |-> None]
  /\ byFile = [f \in Files |-> None]
  /\ left = {} /\ tasks = {} /\ groups = <<>> /\ connections = {}
  /\ ran = {} /\ state = None /\ report = None

-----------------------------------------------------------------------------
(* Transcode                                                                 *)

Locate ==
  /\ pc = "locate"
  /\ pc' = IF Refused \in {StorageProvider(s) : s \in job.locations}
           THEN "failed" ELSE "outputs"
  /\ UNCHANGED <<job, stored, building, remote, report>>

\* Seeded fault: the first output of a preset stays.
GetPresetFirst ==
  LET o == job.outputs[next] IN
  /\ pc = "outputs" /\ next <= Len(job.outputs)
  /\ IF o.preset \in stored
     THEN /\ cfgs' = [cfgs EXCEPT ![o.preset] = IF @ = None THEN o.file ELSE @]
          /\ next' = next + 1
          /\ UNCHANGED pc
     ELSE pc' = "failed" /\ UNCHANGED <<cfgs, next>>
  /\ UNCHANGED <<job, stored, byFile, left, tasks, groups, connections, remote, report>>

\* One pass through the loop of outputCfgsFrom: the map is keyed by the name
\* of the preset, and an output replaces an earlier one of the same preset.
GetPreset ==
  LET o == job.outputs[next] IN
  /\ pc = "outputs" /\ next <= Len(job.outputs)
  /\ IF o.preset \in stored
     THEN /\ cfgs' = [cfgs EXCEPT ![o.preset] = o.file]
          /\ next' = next + 1
          /\ UNCHANGED pc
     ELSE pc' = "failed" /\ UNCHANGED <<cfgs, next>>
  /\ UNCHANGED <<job, stored, byFile, left, tasks, groups, connections, remote, report>>

PickAssembler ==
  /\ pc = "outputs" /\ next > Len(job.outputs)
  /\ pc' = CASE \A n \in Kept : Presets[n].dovi -> "byFile"
             [] \A n \in Kept : ~Presets[n].dovi -> "tasks"
             [] OTHER -> "failed"
  /\ left' = Kept
  /\ UNCHANGED <<job, stored, next, cfgs, byFile, tasks, groups, connections, remote, report>>

\* The range over outputCfgs of the legacy Dolby Vision assembler, in any order.
KeyByFile ==
  /\ pc = "byFile"
  /\ \E n \in left :
       /\ byFile' = [byFile EXCEPT ![cfgs[n]] = n]
       /\ left' = left \ {n}
  /\ UNCHANGED <<job, pc, stored, next, cfgs, tasks, groups, connections, remote, report>>

EndByFile ==
  /\ pc = "byFile" /\ left = {}
  /\ left' = {f \in Files : byFile[f] # None}
  /\ pc' = "legacyTasks"
  /\ UNCHANGED <<job, stored, next, cfgs, byFile, tasks, groups, connections, remote, report>>

Task(n, target) == [number |-> Cardinality(tasks), preset |-> n, target |-> target]

\* Seeded fault: idx is not counted up.
AddTaskSameNumber(k, n, p, file) ==
  LET target == Target(p, file) IN
  /\ k \in left
  /\ IF target = Refused
     THEN pc' = "failed" /\ UNCHANGED <<left, tasks>>
     ELSE /\ tasks' = tasks \cup {[Task(n, target) EXCEPT !.number = 0]}
          /\ left' = left \ {k}
          /\ UNCHANGED pc
  /\ UNCHANGED <<job, stored, next, cfgs, byFile, groups, connections, remote, report>>

AddTask(k, n, p, file) ==
  LET target == Target(p, file) IN
  /\ k \in left
  /\ IF target = Refused
     THEN pc' = "failed" /\ UNCHANGED <<left, tasks>>
     ELSE /\ tasks' = tasks \cup {Task(n, target)}
          /\ left' = left \ {k}
          /\ UNCHANGED pc
  /\ UNCHANGED <<job, stored, next, cfgs, byFile, groups, connections, remote, report>>

\* The ranges over the presets: of the default assembler by name, of the
\* legacy one by file name.
AddDefaultTask == pc = "tasks" /\ \E n \in left : AddTask(n, n, Presets[n], cfgs[n])

AddLegacyTask ==
  pc = "legacyTasks" /\ \E f \in left : AddTask(f, byFile[f], WithoutAudio(Presets[byFile[f]]), f)

EndTasks ==
  /\ pc \in {"tasks", "legacyTasks"} /\ left = {}
  /\ groups' = <<IF pc = "tasks" THEN {TaskUID(t) : t \in tasks} ELSE {DolbyVision}>>
  /\ pc' = "connect"
  /\ UNCHANGED <<job, stored, next, cfgs, byFile, left, tasks, connections, remote, report>>

\* The previous group of elements leads to each group, the source to the first.
Connect ==
  /\ pc = "connect"
  /\ connections' = {Source} \X groups[1]
  /\ pc' = IF Packaged THEN "package" ELSE "queue"
  /\ UNCHANGED <<job, stored, next, cfgs, byFile, left, tasks, groups, remote, report>>

\* Seeded fault: the packager reads the source.
PackageSource ==
  /\ pc = "package"
  /\ groups' = Append(groups, {Packager})
  /\ connections' = connections \cup ({Source} \X {Packager})
  /\ pc' = "queue"
  /\ UNCHANGED <<job, stored, next, cfgs, byFile, left, tasks, remote, report>>

\* Seeded fault: nothing leads to the packager.
PackageUnconnected ==
  /\ pc = "package"
  /\ groups' = Append(groups, {Packager})
  /\ connections' = connections \cup ({Packager} \X {Packager})
  /\ pc' = "queue"
  /\ UNCHANGED <<job, stored, next, cfgs, byFile, left, tasks, remote, report>>

\* enrichCreateJobWithPackagingCfg
Package ==
  /\ pc = "package"
  /\ groups' = Append(groups, {Packager})
  /\ connections' = connections \cup (groups[1] \X {Packager})
  /\ pc' = "queue"
  /\ UNCHANGED <<job, stored, next, cfgs, byFile, left, tasks, remote, report>>

\* The call may fail before or after hybrik has taken the job.
QueueJob ==
  /\ pc = "queue"
  /\ \/ state' = "queued" /\ pc' = "answered"
     \/ Crashing /\ pc' = "failed" /\ state' \in {None, "queued"}
  /\ UNCHANGED <<job, stored, building, ran, report>>

Transcode ==
  \/ Locate \/ GetPreset \/ PickAssembler \/ KeyByFile \/ EndByFile
  \/ AddDefaultTask \/ AddLegacyTask \/ EndTasks \/ Connect \/ Package \/ QueueJob

-----------------------------------------------------------------------------
(* hybrik runs an element once all that lead to it have run.                 *)

Ready(u) ==
  /\ u \in Elements \ ran
  /\ u = Source \/ \E c \in connections : c[2] = u
  /\ \A c \in connections : c[2] = u => c[1] \in ran

Activate ==
  /\ state \in {"queued", "waiting"}
  /\ state' = IF state = "queued" THEN "waiting" ELSE "running"
  /\ UNCHANGED <<job, pc, stored, building, ran, report>>

RunElement(u) ==
  /\ state = "running" /\ Ready(u)
  /\ ran' = ran \cup {u}
  /\ state' = IF ran' = Elements THEN "completed" ELSE state
  /\ UNCHANGED <<job, pc, stored, building, report>>

Stumble ==
  /\ Crashing
  /\ state \in {"queued", "waiting", "running"}
  /\ state' = "failed"
  /\ UNCHANGED <<job, pc, stored, building, ran, report>>

Hybrik == Activate \/ Stumble \/ \E u \in Elements : RunElement(u)

\* The tasks of a result that have documents, by kind and stem of their UID,
\* and the files they name.
TaskResults(u) ==
  CASE u = Packager -> {[kind |-> "Package", stem |-> "packager", file |-> "manifest"]}
    [] u = DolbyVision ->
         {[kind |-> "Dolby Vision", stem |-> "post_transcode_stage", file |-> t.target.file] : t \in tasks}
    [] u = Source -> {}
    [] OTHER ->
         LET file == (CHOOSE t \in tasks : TaskUID(t) = u).target.file
         IN IF Segmented
            THEN {[kind |-> "Transcode", stem |-> "segment", file |-> "segment"],
                  [kind |-> "Combine Segments", stem |-> "combiner", file |-> file]}
            ELSE {[kind |-> "Transcode", stem |-> "transcode_task", file |-> file]}

-----------------------------------------------------------------------------
(* CancelJob, JobStatus, and the presets' DELETE                             *)

CancelJob ==
  /\ pc = "answered"
  /\ state \in {"queued", "running", "waiting"}
  /\ state' = "stopped"
  /\ UNCHANGED <<job, pc, stored, building, ran, report>>

\* Seeded fault: the states under the active one have no case.
StatusFromActive(s) ==
  CASE s = "active" -> "started"
    [] s = "queued" -> "queued"
    [] s = "completed" -> "finished"
    [] s = "failed" -> "failed"
    [] OTHER -> "empty"

\* Seeded fault: a state without a case is passed on as it is.
StatusFromItself(s) ==
  CASE s \in {"active", "running", "waiting"} -> "started"
    [] s = "completed" -> "finished"
    [] OTHER -> s

\* The switch of JobStatus, which has no case for a stopped job.
StatusFrom(s) ==
  CASE s \in {"active", "running", "waiting"} -> "started"
    [] s = "queued" -> "queued"
    [] s = "completed" -> "finished"
    [] s = "failed" -> "failed"
    [] OTHER -> "empty"

\* Seeded fault: the combiner of segments is not matched.
MatchersWithoutCombiner ==
  {<<"Dolby Vision", "post_transcode_stage">>, <<"Dolby Vision", "dolby_vision">>,
   <<"Transcode", "transcode_task">>, <<"Package", "packager">>}

Matchers ==
  {<<"Dolby Vision", "post_transcode_stage">>, <<"Dolby Vision", "dolby_vision">>,
   <<"Transcode", "transcode_task">>, <<"Package", "packager">>,
   <<"Combine Segments", "combiner">>}

FilesFrom(results) == {r.file : r \in {q \in results : <<q.kind, q.stem>> \in Matchers}}

\* GetJobInfo: an ended job is asked for its result in a second call.
AskInfo ==
  /\ pc = "answered"
  /\ LET status == StatusFrom(state)
     IN IF status \in {"failed", "finished"}
        THEN /\ pc' = "result"
             /\ report' = [status |-> status, files |-> None]
        ELSE /\ report' = [status |-> status, files |-> {}]
             /\ UNCHANGED pc
  /\ UNCHANGED <<job, stored, building, remote>>

\* GetJobResult. If it fails the answer is an error, not a report.
AskResult ==
  /\ pc = "result"
  /\ \/ report' = [report EXCEPT !.files = FilesFrom(UNION {TaskResults(u) : u \in ran})]
     \/ Crashing /\ report' = None
  /\ pc' = "answered"
  /\ UNCHANGED <<job, stored, building, remote>>

DeletePreset(n) ==
  /\ n \in stored
  /\ stored' = stored \ {n}
  /\ UNCHANGED <<job, pc, building, remote, report>>

Next ==
  \/ Transcode
  \/ Hybrik
  \/ CancelJob \/ AskInfo \/ AskResult
  \/ \E n \in Deletable : DeletePreset(n)

Spec == Init /\ [][Next]_vars

\* hybrik goes on with a job it has taken.
FairSpec == Spec /\ WF_vars(Activate) /\ WF_vars(\E u \in Elements : RunElement(u))

-----------------------------------------------------------------------------
(* Properties                                                                *)

Steps == {"locate", "outputs", "byFile", "tasks", "legacyTasks", "connect", "package",
          "queue", "answered", "result", "failed"}

UIDs == {Source, Packager, DolbyVision} \cup ({"transcode_task"} \X Nat)

TypeOK ==
  /\ job \in Jobs /\ pc \in Steps
  /\ next \in 1 .. Len(job.outputs) + 1
  /\ stored \subseteq Names
  /\ cfgs \in [Names -> Files \cup {None}]
  /\ byFile \in [Files -> Names \cup {None}]
  /\ left \subseteq Names \cup Files
  /\ \A t \in tasks : t.preset \in Names /\ t.target.file \in Files
  /\ groups \in Seq(SUBSET UIDs)
  /\ connections \subseteq UIDs \X UIDs
  /\ ran \subseteq Elements
  /\ state \in States \cup {None}
  /\ report = None \/ report.status \in {"queued", "started", "finished", "failed", "empty"}

Built == pc \in {"queue", "answered", "result"}

\* A request that is sent is a graph hybrik can run: no two elements have the
\* same UID, connections join elements of the request, and every element but
\* the source waits for another one.
RequestSound ==
  Built => /\ \A t, u \in tasks : TaskUID(t) = TaskUID(u) => t = u
           /\ connections \subseteq Elements \X Elements
           /\ \A u \in Elements \ {Source} : \E c \in connections : c[2] = u
           /\ \A c \in connections : c[2] # Source

Last(i) == \A j \in DOMAIN job.outputs :
             j > i => job.outputs[j].preset # job.outputs[i].preset

\* Each output that no later output of the same preset has replaced has a
\* transcode element for its file, and no element is for anything else.
OutputsKept ==
  Built =>
    /\ \A i \in DOMAIN job.outputs :
         Last(i) => \E t \in tasks :
                      /\ t.target.file = job.outputs[i].file
                      /\ t.preset = job.outputs[i].preset \/ DolbyVision \in Elements
    /\ \A t \in tasks : \E i \in DOMAIN job.outputs :
         Last(i) /\ t.preset = job.outputs[i].preset /\ t.target.file = job.outputs[i].file

\* What the presets ask for reaches the targets whichever modifiers ran before:
\* the bounds of a variable bitrate enclose it, HDR10 metadata come from where
\* the source has them, in a 10 bit picture, and what a Dolby Vision element
\* muxes is elementary (hdr.go:84), unless its preset is HDR10 as well.
TargetsFaithful ==
  \A t \in tasks :
    LET p == Presets[t.preset]  v == t.target.video IN
    /\ v.mode = "vbr" => v.minKb <= v.kb /\ v.kb <= v.maxKb
    /\ p.hdr10 => /\ v.hdr10 = (IF p.from = "mxf" THEN "source_metadata" ELSE "media")
                  /\ v.chroma = "yuv420p10le"
    /\ (p.hdr10 \/ p.dovi) /\ p.codec = "h265" => v.profile = "main10"
    /\ p.dovi /\ ~p.hdr10 => t.target.container = "elementary"

\* The manifest is made when everything it names exists.
PackagedLast == Packager \in ran => {TaskUID(t) : t \in tasks} \subseteq ran \/ DolbyVision \in ran

\* A finished job is reported with the files of all its elements and nothing
\* else, segmented or not; a failed one with no file it does not have.
ReportWhole ==
  report # None /\ report.files # None =>
    LET produced == {t.target.file : t \in tasks}
        manifest == IF Packaged THEN {"manifest"} ELSE {}
    IN /\ report.status = "finished" => report.files = produced \cup manifest
       /\ report.files \subseteq produced \cup manifest

\* The job as the service can tell; a status that waits for its result is not told.
JobState ==
  CASE state = None -> "none" [] state = "queued" -> "queued" [] state \in {"waiting", "running"} -> "running"
    [] state = "completed" -> "complete" [] state = "failed" -> "error" [] state = "stopped" -> "canceled"

AnswerGiven ==
  CASE pc \in {"answered", "result"} -> "ok" [] pc = "failed" -> "error" [] OTHER -> "none"

Told == IF report = None \/ report.files = None THEN "none" ELSE report.status

Promise == INSTANCE ProviderJob
  WITH Canceled <- "empty", state <- JobState, answer <- AnswerGiven, told <- Told

\* hybrik keeps what TranscodingProvider promises the service, though JobStatus
\* asks for the state of a job and for its result in two calls; a stopped job
\* has no status.
PromiseKept == Promise!JobSpec

Ended == state \in {"completed", "failed", "stopped"}

\* A job that hybrik has taken ends: no element waits for one that never runs.
JobEnds == (state = "queued") ~> Ended

\* "list of outputs in this job" (service/transcode_params.go:27): every output
\* of a job that was accepted is produced. Two outputs with one preset are not.
EveryOutputProduced ==
  pc = "answered" => \A i \in DOMAIN job.outputs :
                       \E t \in tasks : t.target.file = job.outputs[i].file
=============================================================================
