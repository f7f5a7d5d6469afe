----------------------- MODULE HybrikTranscode_proofs -----------------------
(* Proofs about HybrikTranscode, for any presets, jobs and failures: the     *)
(* graph a request is, which outputs it has, the order hybrik runs it in,    *)
(* and the files a report names.                                             *)
EXTENDS HybrikTranscode, FiniteSetTheorems, SequenceTheorems, TLAPS

-----------------------------------------------------------------------------
(* The inductive invariant *)

Before == {"locate", "outputs", "byFile", "tasks", "legacyTasks"}
Of(i)  == job.outputs[i]

Typed ==
  /\ job \in Jobs /\ pc \in Steps
  /\ next \in 1 .. Len(job.outputs) + 1
  /\ stored \subseteq Names
  /\ cfgs \in [Names -> Files \cup {None}]
  /\ byFile \in [Files -> Names \cup {None}]
  /\ left \subseteq Names \cup Files
  /\ IsFiniteSet(tasks)
  /\ groups \in Seq(SUBSET UIDs)
  /\ connections \subseteq UIDs \X UIDs

\* cfgs has the last output before next of each preset.
Collected ==
  /\ pc \notin {"locate", "outputs", "failed"} => next = Len(job.outputs) + 1
  /\ \A i \in 1 .. next - 1 : cfgs[Of(i).preset] # None
  /\ \A n \in Names : cfgs[n] # None =>
       \E i \in 1 .. next - 1 :
         /\ Of(i).preset = n /\ Of(i).file = cfgs[n]
         /\ \A j \in 1 .. next - 1 : j > i => Of(j).preset # n

\* byFile leads from the file of each output to a preset that is made to it.
Keyed ==
  /\ pc \in {"locate", "outputs"} => left = {} /\ \A f \in Files : byFile[f] = None
  /\ \A f \in Files : byFile[f] # None => cfgs[byFile[f]] = f
  /\ pc \in {"byFile", "tasks"} => left \subseteq Kept
  /\ pc = "byFile" => \A n \in Kept \ left : byFile[cfgs[n]] # None
  /\ pc = "legacyTasks" =>
       /\ left \subseteq {f \in Files : byFile[f] # None}
       /\ \A n \in Kept : byFile[cfgs[n]] # None

\* The target of a task is made of its preset, or of that without its sound.
MadeOf(p, t) ==
  /\ p \in {Presets[t.preset], WithoutAudio(Presets[t.preset])}
  /\ t.target # Refused /\ t.target = Target(p, t.target.file)

\* The tasks are numbered, and made of the outputs that are not left.
Tasked ==
  /\ pc \in {"locate", "outputs", "byFile"} => tasks = {}
  /\ \A t \in tasks :
       /\ t.number \in 0 .. Cardinality(tasks) - 1
       /\ t.preset \in Names /\ t.target.file \in Files /\ cfgs[t.preset] = t.target.file
       /\ \E p : MadeOf(p, t)
  /\ \A t, u \in tasks : t.number = u.number => t = u
  /\ pc = "tasks" => \A n \in Kept \ left : \E t \in tasks : t.preset = n
  /\ pc = "legacyTasks" =>
       \A f \in Files \ left : byFile[f] # None => \E t \in tasks : t.target.file = f

\* The first group has an element of each output, or stands for all of them.
FirstGroup ==
  \/ /\ groups[1] = {TaskUID(t) : t \in tasks} /\ tasks # {}
     /\ \A n \in Kept : \E t \in tasks : t.preset = n
  \/ /\ groups[1] = {DolbyVision}
     /\ \A n \in Kept : \E t \in tasks : t.target.file = cfgs[n]

Last2 == IF Packaged THEN groups[1] \X {Packager} ELSE {}

Grouped ==
  /\ pc \in Before => groups = <<>>
  /\ pc \in Before \cup {"connect"} => connections = {}
  /\ pc \in {"connect", "package"} => groups = <<groups[1]>> /\ FirstGroup
  /\ pc = "package" => connections = {Source} \X groups[1] /\ Packaged
  /\ Built \/ state # None =>
       /\ FirstGroup
       /\ groups = (IF Packaged THEN <<groups[1], {Packager}>> ELSE <<groups[1]>>)
       /\ connections = ({Source} \X groups[1]) \cup Last2

\* What has run, and when.
Running ==
  /\ state \in States \cup {None}
  /\ state # None => pc \in {"answered", "result", "failed"}
  /\ pc \in {"answered", "result"} => state # None
  /\ ran # {} => state # None
  /\ ran \subseteq Elements
  /\ Packager \in ran => groups[1] \subseteq ran
  /\ state = "completed" => ran = Elements

\* What is reported is so.
Reported ==
  /\ report # None =>
       /\ report = [status |-> report.status, files |-> report.files]
       /\ report.status \in {"queued", "started", "finished", "failed", "empty"}
       /\ report.status = "finished" => state = "completed"
       /\ pc \in {"answered", "result"}
  /\ pc = "result" =>
       /\ report = [status |-> report.status, files |-> None]
       /\ report.status \in {"finished", "failed"}
       /\ report.status = "finished" => state = "completed"
       /\ report.status = "failed" => state = "failed"
  /\ ReportWhole

HInv == Typed /\ Collected /\ Keyed /\ Tasked /\ Grouped /\ Running /\ Reported

-----------------------------------------------------------------------------
(* Elements and targets *)

LEMMA UIDsDiffer ==
  /\ Source # Packager /\ Source # DolbyVision /\ Packager # DolbyVision
  /\ \A t : TaskUID(t) \notin {Source, Packager, DolbyVision}
  /\ \A t, u : TaskUID(t) = TaskUID(u) => t.number = u.number
BY DEF Source, Packager, DolbyVision, TaskUID

\* A target is for the file it was asked for.
LEMMA TargetFile ==
  ASSUME NEW p, NEW file, Target(p, file) # Refused
  PROVE  Target(p, file).file = file
<1> DEFINE t0 == [file |-> file, container |-> ContainerKind(p),
                  passes |-> IF p.twoPass THEN 2 ELSE 1,
                  video |-> VideoTarget(p), audio |-> p.sound = "ok"]
<1>1. Target(p, file) = Modified(t0, p)
  BY DEF Target
<1>2. t0.file = file
  OBVIOUS
<1> HIDE DEF t0
<1> DEFINE rated == IF p.rate # "none" /\ p.picture # "none" THEN RateControl(t0, p) ELSE t0
           hdr   == IF rated # Refused /\ HDRType(p) # "none" THEN HDRMetadata(rated, p) ELSE rated
<1>3. rated # Refused => rated.file = file
  BY <1>2 DEF RateControl
<1> HIDE DEF rated
<1>4. hdr # Refused => hdr.file = file
  BY <1>3 DEF HDRMetadata
<1> HIDE DEF hdr
<1>5. Modified(t0, p) = IF hdr # Refused /\ p.from = "mxf" THEN MXFSource(hdr, p) ELSE hdr
  BY DEF Modified, hdr, rated
<1>6. hdr # Refused => MXFSource(hdr, p).file = file
  BY <1>4 DEF MXFSource
<1>7. QED
  BY <1>1, <1>4, <1>5, <1>6

LEMMA JobTyped ==
  ASSUME job \in Jobs
  PROVE  /\ Len(job.outputs) \in Nat \ {0} /\ DOMAIN job.outputs = 1 .. Len(job.outputs)
         /\ \A i \in 1 .. Len(job.outputs) : Of(i).preset \in Names /\ Of(i).file \in Files
         /\ None \notin Names \cup Files
<1> DEFINE S == [preset : Names, file : Files]
<1>1. /\ job.outputs \in Seq(S) /\ job.outputs # <<>>
      /\ None \notin Names \cup Files
  BY HybrikAssumption
<1>2. \A r \in S : r.preset \in Names /\ r.file \in Files
  OBVIOUS
<1> HIDE DEF S
<1>3. Len(job.outputs) \in Nat \ {0} /\ DOMAIN job.outputs = 1 .. Len(job.outputs)
  BY <1>1
<1>4. \A i \in 1 .. Len(job.outputs) : Of(i) \in S
  BY <1>1, <1>3 DEF Of
<1>5. QED
  BY <1>1, <1>2, <1>3, <1>4

-----------------------------------------------------------------------------
(* What the modifiers make of a target *)

VideoFields == {"codec", "profile", "mode", "kb", "minKb", "maxKb", "chroma", "hdr10"}

\* A target has a picture whose parts the modifiers can set.
IsTarget(t) ==
  /\ DOMAIN t = {"file", "container", "passes", "video", "audio"}
  /\ DOMAIN t.video = VideoFields

Bounded(v) == v.mode = "vbr" => v.minKb <= v.kb /\ v.kb <= v.maxKb

LEMMA Rated ==
  ASSUME NEW t, NEW p, IsTarget(t), t.video.kb \in Nat, RateControl(t, p) # Refused
  PROVE  LET u == RateControl(t, p) IN
         /\ IsTarget(u) /\ Bounded(u.video)
         /\ u.video.codec = t.video.codec
BY DEF IsTarget, VideoFields, RateControl, PercentTarget, Bounded

LEMMA HDRMade ==
  ASSUME NEW t, NEW p, IsTarget(t), HDRType(p) # "none", HDRMetadata(t, p) # Refused
  PROVE  LET u == HDRMetadata(t, p) IN
         /\ IsTarget(u)
         /\ u.video.codec = t.video.codec /\ u.video.mode = t.video.mode /\ u.video.kb = t.video.kb
         /\ u.video.minKb = t.video.minKb /\ u.video.maxKb = t.video.maxKb
         /\ u.video.codec = "h265" => u.video.profile = "main10"
         /\ u.video.chroma = "yuv420p10le"
         /\ HDRType(p) = "hdr10" => u.video.hdr10 = "media"
         /\ HDRType(p) # "hdr10" => u.container = "elementary"
BY DEF IsTarget, VideoFields, HDRMetadata, HDRProfile

LEMMA MXFMade ==
  ASSUME NEW t, NEW p, IsTarget(t)
  PROVE  LET u == MXFSource(t, p) IN
         /\ u.container = t.container
         /\ \A f \in VideoFields \ {"hdr10"} : u.video[f] = t.video[f]
         /\ u.video.hdr10 = IF p.hdr10 THEN "source_metadata" ELSE t.video.hdr10
BY DEF IsTarget, VideoFields, MXFSource

\* What a preset asks for is in its target, in whatever the modifiers change.
Faithful(v, container, p) ==
  /\ Bounded(v)
  /\ p.hdr10 => /\ v.hdr10 = (IF p.from = "mxf" THEN "source_metadata" ELSE "media")
                /\ v.chroma = "yuv420p10le"
  /\ (p.hdr10 \/ p.dovi) /\ p.codec = "h265" => v.profile = "main10"
  /\ p.dovi /\ ~p.hdr10 => container = "elementary"

LEMMA TargetFaithful ==
  ASSUME NEW p, NEW file, IsPreset(p), Target(p, file) # Refused
  PROVE  Faithful(Target(p, file).video, Target(p, file).container, p)
<1> DEFINE t0 == [file |-> file, container |-> ContainerKind(p),
                  passes |-> IF p.twoPass THEN 2 ELSE 1,
                  video |-> VideoTarget(p), audio |-> p.sound = "ok"]
           rated == IF p.rate # "none" /\ p.picture # "none" THEN RateControl(t0, p) ELSE t0
           hdr   == IF rated # Refused /\ HDRType(p) # "none" THEN HDRMetadata(rated, p) ELSE rated
<1>1. Target(p, file) = IF hdr # Refused /\ p.from = "mxf" THEN MXFSource(hdr, p) ELSE hdr
  BY DEF Target, Modified
<1>2. /\ IsTarget(t0) /\ t0.video.kb \in Nat
      /\ t0.video.mode = (IF p.picture = "none" THEN "none" ELSE p.rate)
      /\ t0.video.codec = (IF p.picture = "none" THEN "none" ELSE p.codec)
  BY DEF IsTarget, VideoFields, VideoTarget, NoVideo, IsPreset
<1> HIDE DEF t0
<1>3. rated # Refused => /\ IsTarget(rated) /\ Bounded(rated.video)
                         /\ rated.video.codec = t0.video.codec
  <2>1. CASE p.rate # "none" /\ p.picture # "none"
    BY <1>2, <2>1, Rated
  <2>2. CASE ~(p.rate # "none" /\ p.picture # "none")
    BY <1>2, <2>2 DEF Bounded
  <2>3. QED
    BY <2>1, <2>2
<1>4. {p.hdr10, p.dovi} \subseteq BOOLEAN /\ (p.hdr10 \/ p.dovi => p.picture # "none")
  BY DEF IsPreset
<1> HIDE DEF rated
<1>5. /\ p.hdr10 => HDRType(p) = "hdr10"
      /\ p.dovi /\ ~p.hdr10 => HDRType(p) = "dolbyVision"
      /\ ~p.hdr10 /\ ~p.dovi => HDRType(p) = "none"
  BY <1>4 DEF HDRType
<1>6. hdr # Refused =>
        /\ IsTarget(hdr) /\ Bounded(hdr.video)
        /\ p.hdr10 => hdr.video.hdr10 = "media" /\ hdr.video.chroma = "yuv420p10le"
        /\ (p.hdr10 \/ p.dovi) /\ p.codec = "h265" => hdr.video.profile = "main10"
        /\ p.dovi /\ ~p.hdr10 => hdr.container = "elementary"
  <2>1. CASE rated # Refused /\ HDRType(p) # "none"
    <3>1. CASE HDRMetadata(rated, p) # Refused
      BY <1>2, <1>3, <1>4, <1>5, <2>1, <3>1, HDRMade DEF Bounded
    <3>2. CASE HDRMetadata(rated, p) = Refused
      BY <2>1, <3>2
    <3>3. QED
      BY <3>1, <3>2
  <2>2. CASE rated = Refused
    BY <2>2
  <2>3. CASE rated # Refused /\ HDRType(p) = "none"
    BY <1>3, <1>4, <1>5, <2>3
  <2>4. QED
    BY <2>1, <2>2, <2>3
<1> HIDE DEF hdr
<1>7. CASE p.from = "mxf" /\ hdr # Refused
  <2>1. Target(p, file) = MXFSource(hdr, p)
    BY <1>1, <1>7
  <2>2. QED
    BY <1>6, <1>7, <2>1, MXFMade DEF Faithful, Bounded, VideoFields
<1>8. CASE p.from # "mxf" /\ hdr # Refused
  BY <1>1, <1>6, <1>8 DEF Faithful
<1>9. QED
  BY <1>1, <1>7, <1>8

\* The legacy element's preset differs in its sound only.
LEMMA WithoutAudioPreset ==
  ASSUME NEW p, IsPreset(p)
  PROVE  /\ IsPreset(WithoutAudio(p))
         /\ \A v, c : Faithful(v, c, WithoutAudio(p)) <=> Faithful(v, c, p)
<1> DEFINE q == WithoutAudio(p)
<1>1. /\ q.hdr10 = p.hdr10 /\ q.dovi = p.dovi /\ q.codec = p.codec /\ q.from = p.from
      /\ q.twoPass = p.twoPass /\ q.kb = p.kb /\ q.picture = p.picture /\ q.sound = "none"
      /\ DOMAIN q = DOMAIN p
  BY DEF IsPreset, WithoutAudio
<1> HIDE DEF q
<1>2. IsPreset(q)
  BY <1>1 DEF IsPreset
<1>3. \A v, c : Faithful(v, c, q) <=> Faithful(v, c, p)
  BY <1>1 DEF Faithful
<1>4. QED
  BY <1>2, <1>3 DEF q

-----------------------------------------------------------------------------
(* Each step keeps it *)

LEMMA InitHInv == Init => HInv
<1> SUFFICES ASSUME Init PROVE HInv
  OBVIOUS
<1>1. Typed
  BY JobTyped, FS_EmptySet DEF Init, Typed, Steps
<1>2. next - 1 = 0 /\ \A n \in Names : cfgs[n] = None
  BY DEF Init
<1>3. Collected /\ Keyed /\ Tasked
  BY <1>2 DEF Init, Collected, Keyed, Tasked
<1>4. Grouped
  BY DEF Init, Before, Grouped, Built
<1>5. Running
  BY HybrikAssumption DEF Init, Running, States
<1>6. Reported
  BY DEF Init, Reported, ReportWhole
<1>7. QED
  BY <1>1, <1>3, <1>4, <1>5, <1>6 DEF HInv

\* Steps up to the ranges over the presets: nothing is at hybrik yet.
LEMMA EarlyReported ==
  ASSUME HInv, pc \in Before \cup {"connect", "package"}, UNCHANGED remote, UNCHANGED report,
         pc' \notin {"answered", "result"}
  PROVE  state = None /\ ran = {} /\ report = None /\ Running' /\ Reported'
<1>1. state = None /\ ran = {} /\ report = None
  BY DEF HInv, Running, Reported, Before
<1>2. state' = None /\ ran' = {} /\ report' = None
  BY <1>1 DEF remote
<1>3. Running'
  BY <1>2, HybrikAssumption DEF Running, States
<1>4. Reported'
  BY <1>2 DEF Reported, ReportWhole
<1>5. QED
  BY <1>1, <1>3, <1>4

LEMMA LocateKeeps ==
  ASSUME HInv, Locate
  PROVE  HInv'
<1>1. /\ pc = "locate" /\ pc' \in {"failed", "outputs"}
      /\ UNCHANGED <<job, stored, next, cfgs, byFile, left, tasks, groups, connections>>
      /\ UNCHANGED remote /\ UNCHANGED report
  BY DEF Locate, building
<1>2. state = None /\ state' = None /\ Running' /\ Reported'
  BY <1>1, EarlyReported DEF Before, remote
<1>3. Typed'
  BY <1>1 DEF HInv, Typed, Steps
<1>4. Collected'
  BY <1>1 DEF HInv, Collected, Of
<1>5. Keyed' /\ Tasked'
  BY <1>1 DEF HInv, Keyed, Tasked
<1>6. Grouped'
  BY <1>1, <1>2 DEF HInv, Grouped, Before, Built
<1>7. QED
  BY <1>2, <1>3, <1>4, <1>5, <1>6 DEF HInv

LEMMA GetPresetKeeps ==
  ASSUME HInv, GetPreset
  PROVE  HInv'
<1>1. /\ pc = "outputs" /\ pc' \in {"failed", "outputs"} /\ next <= Len(job.outputs)
      /\ UNCHANGED <<job, stored, byFile, left, tasks, groups, connections>>
      /\ UNCHANGED remote /\ UNCHANGED report
  BY DEF GetPreset
<1>2. state = None /\ state' = None /\ Running' /\ Reported'
  BY <1>1, EarlyReported DEF Before, remote
<1>3. /\ next \in Nat \ {0} /\ Len(job.outputs) \in Nat /\ Of(next).preset \in Names
      /\ Of(next).file \in Files /\ None \notin Names \cup Files
  BY <1>1, JobTyped DEF HInv, Typed
<1>4. \/ /\ cfgs' = [cfgs EXCEPT ![Of(next).preset] = Of(next).file]
         /\ next' = next + 1
      \/ UNCHANGED <<cfgs, next>>
  BY DEF GetPreset, Of
<1>5. Typed'
  BY <1>1, <1>3, <1>4 DEF HInv, Typed, Steps
<1>6. Keyed' /\ Tasked'
  <2>1. \A f \in Files : byFile[f] = None
    BY <1>1 DEF HInv, Keyed
  <2>2. QED
    BY <1>1, <2>1 DEF HInv, Keyed, Tasked
<1>7. Grouped'
  BY <1>1, <1>2 DEF HInv, Grouped, Before, Built
<1>8. Collected'
  <2>1. CASE UNCHANGED <<cfgs, next>>
    BY <1>1, <2>1 DEF HInv, Collected, Of
  <2>2. CASE /\ cfgs' = [cfgs EXCEPT ![Of(next).preset] = Of(next).file]
             /\ next' = next + 1
    <3>1. cfgs \in [Names -> Files \cup {None}]
      BY DEF HInv, Typed
    <3>2. /\ cfgs'[Of(next).preset] = Of(next).file /\ Of(next).file # None
          /\ \A n \in Names : n # Of(next).preset => cfgs'[n] = cfgs[n]
      BY <1>3, <2>2, <3>1
    <3>3. \A i : Of(i)' = Of(i)
      BY <1>1 DEF Of
    <3>4. \A i \in 1 .. next' - 1 : i \in 1 .. next - 1 \/ i = next
      BY <1>3, <2>2
    <3>5. \A i \in 1 .. next - 1 : Of(i).preset \in Names /\ cfgs[Of(i).preset] # None
      BY <1>1, <1>3, JobTyped DEF HInv, Typed, Collected
    <3>6. \A i \in 1 .. next' - 1 : cfgs'[Of(i).preset] # None
      BY <3>2, <3>4, <3>5
    <3>7. ASSUME NEW n \in Names, cfgs'[n] # None
          PROVE  \E i \in 1 .. next' - 1 :
                   /\ Of(i).preset = n /\ Of(i).file = cfgs'[n]
                   /\ \A j \in 1 .. next' - 1 : j > i => Of(j).preset # n
      <4>1. CASE n = Of(next).preset
        <5>1. next \in 1 .. next' - 1 /\ \A j \in 1 .. next' - 1 : ~(j > next)
          BY <1>3, <2>2
        <5>2. QED
          BY <3>2, <4>1, <5>1
      <4>2. CASE n # Of(next).preset
        <5>1. PICK i \in 1 .. next - 1 :
                /\ Of(i).preset = n /\ Of(i).file = cfgs[n]
                /\ \A j \in 1 .. next - 1 : j > i => Of(j).preset # n
          BY <3>2, <3>7, <4>2 DEF HInv, Collected
        <5>2. i \in 1 .. next' - 1
          BY <1>3, <2>2
        <5>3. QED
          BY <3>2, <3>4, <4>2, <5>1, <5>2
      <4>3. QED
        BY <4>1, <4>2
    <3>8. QED
      BY <1>1, <3>3, <3>6, <3>7 DEF Collected
  <2>3. QED
    BY <1>4, <2>1, <2>2
<1>9. QED
  BY <1>2, <1>5, <1>6, <1>7, <1>8 DEF HInv

LEMMA PickAssemblerKeeps ==
  ASSUME HInv, PickAssembler
  PROVE  HInv'
<1>1. /\ pc = "outputs" /\ next > Len(job.outputs) /\ left' = Kept
      /\ UNCHANGED <<job, stored, next, cfgs, byFile, tasks, groups, connections>>
      /\ UNCHANGED remote /\ UNCHANGED report
  BY DEF PickAssembler
<1>2. pc' \in {"byFile", "tasks", "failed"}
  BY DEF PickAssembler
<1>3. state = None /\ state' = None /\ Running' /\ Reported'
  BY <1>1, <1>2, EarlyReported DEF Before, remote
<1>4. Typed'
  BY <1>1, <1>2 DEF HInv, Typed, Steps, Kept
<1>5. next = Len(job.outputs) + 1
  BY <1>1, JobTyped DEF HInv, Typed
<1>6. Collected'
  BY <1>1, <1>5 DEF HInv, Collected, Of
<1>7. Kept' = Kept
  BY <1>1 DEF Kept
<1>8. Keyed' /\ Tasked'
  BY <1>1, <1>2, <1>7 DEF HInv, Keyed, Tasked
<1>9. Grouped'
  BY <1>1, <1>2, <1>3 DEF HInv, Grouped, Before, Built
<1>10. QED
  BY <1>3, <1>4, <1>6, <1>8, <1>9 DEF HInv

LEMMA KeyByFileKeeps ==
  ASSUME HInv, KeyByFile
  PROVE  HInv'
<1>1. PICK n \in left : byFile' = [byFile EXCEPT ![cfgs[n]] = n] /\ left' = left \ {n}
  BY DEF KeyByFile
<1>2. /\ pc = "byFile" /\ pc' = pc
      /\ UNCHANGED <<job, stored, next, cfgs, tasks, groups, connections>>
      /\ UNCHANGED remote /\ UNCHANGED report
  BY DEF KeyByFile
<1>3. state = None /\ state' = None /\ Running' /\ Reported'
  BY <1>2, EarlyReported DEF Before, remote
<1>4. n \in Kept /\ n \in Names /\ cfgs[n] \in Files /\ n # None
  BY <1>2, JobTyped DEF HInv, Typed, Keyed, Kept
<1>5. Typed'
  BY <1>1, <1>2, <1>4 DEF HInv, Typed
<1>6. Collected'
  BY <1>2 DEF HInv, Collected, Of
<1>7. byFile'[cfgs[n]] = n /\ \A f \in Files : f # cfgs[n] => byFile'[f] = byFile[f]
  BY <1>1, <1>4 DEF HInv, Typed
<1>8. Keyed'
  <2>1. \A f \in Files : byFile'[f] # None => cfgs[byFile'[f]] = f
    BY <1>7 DEF HInv, Keyed
  <2>2. \A m \in Kept \ left' : byFile'[cfgs[m]] # None
    <3>1. \A m \in Kept : cfgs[m] \in Files
      BY DEF HInv, Typed, Kept
    <3>2. QED
      BY <1>1, <1>2, <1>4, <1>7, <3>1 DEF HInv, Keyed
  <2>3. left' \subseteq Kept /\ Kept' = Kept
    BY <1>1, <1>2 DEF HInv, Keyed, Kept
  <2>4. QED
    BY <1>2, <2>1, <2>2, <2>3 DEF Keyed
<1>9. Tasked'
  BY <1>2 DEF HInv, Tasked
<1>10. Grouped'
  BY <1>2, <1>3 DEF HInv, Grouped, Before, Built
<1>11. QED
  BY <1>3, <1>5, <1>6, <1>8, <1>9, <1>10 DEF HInv

LEMMA EndByFileKeeps ==
  ASSUME HInv, EndByFile
  PROVE  HInv'
<1>1. /\ pc = "byFile" /\ pc' = "legacyTasks" /\ left = {}
      /\ left' = {f \in Files : byFile[f] # None}
      /\ UNCHANGED <<job, stored, next, cfgs, byFile, tasks, groups, connections>>
      /\ UNCHANGED remote /\ UNCHANGED report
  BY DEF EndByFile
<1>2. state = None /\ state' = None /\ Running' /\ Reported'
  BY <1>1, EarlyReported DEF Before, remote
<1>3. Typed'
  BY <1>1 DEF HInv, Typed, Steps
<1>4. Collected'
  BY <1>1 DEF HInv, Collected, Of
<1>5. Keyed' /\ Tasked'
  BY <1>1 DEF HInv, Keyed, Tasked, Kept
<1>6. Grouped'
  BY <1>1, <1>2 DEF HInv, Grouped, Before, Built
<1>7. QED
  BY <1>2, <1>3, <1>4, <1>5, <1>6 DEF HInv

\* What the step of an assembler that adds a task leaves, whichever it is.
Added(k, n, file) ==
  /\ UNCHANGED <<job, stored, next, cfgs, byFile, groups, connections>>
  /\ UNCHANGED remote /\ UNCHANGED report
  /\ \/ pc' = "failed" /\ UNCHANGED <<left, tasks>>
     \/ /\ UNCHANGED pc /\ left' = left \ {k} /\ tasks \subseteq tasks'
        /\ \E t \in tasks' : t.preset = n /\ t.target.file = file
  /\ IsFiniteSet(tasks')
  /\ \A t \in tasks' :
       /\ t.number \in 0 .. Cardinality(tasks') - 1
       /\ t.preset \in Names /\ t.target.file \in Files /\ cfgs[t.preset] = t.target.file
       /\ \E p : MadeOf(p, t)
  /\ \A t, u \in tasks' : t.number = u.number => t = u

LEMMA AddTaskAdds ==
  ASSUME HInv, NEW k, NEW n \in Names, NEW p, NEW file \in Files, cfgs[n] = file,
         p \in {Presets[n], WithoutAudio(Presets[n])}, AddTask(k, n, p, file)
  PROVE  Added(k, n, file)
<1> DEFINE target == Target(p, file)
           t0 == Task(n, target)
<1>1. UNCHANGED <<job, stored, next, cfgs, byFile, groups, connections>> /\ UNCHANGED remote /\ UNCHANGED report
  BY DEF AddTask
<1>2. CASE target = Refused
  <2>1. pc' = "failed" /\ UNCHANGED <<left, tasks>>
    BY <1>2 DEF AddTask
  <2>2. QED
    BY <1>1, <2>1 DEF HInv, Typed, Tasked, Added
<1>3. CASE target # Refused
  <2>1. tasks' = tasks \cup {t0} /\ left' = left \ {k} /\ UNCHANGED pc
    BY <1>3 DEF AddTask
  <2>2. target.file = file
    BY <1>3, TargetFile
  <2>3. t0.number = Cardinality(tasks) /\ t0.preset = n /\ t0.target.file = file
    BY <2>2 DEF Task
  <2> HIDE DEF t0, target
  <2>4. /\ IsFiniteSet(tasks) /\ Cardinality(tasks) \in Nat
        /\ \A t \in tasks : t.number \in 0 .. Cardinality(tasks) - 1
        /\ \A t, u \in tasks : t.number = u.number => t = u
    BY FS_CardinalityType DEF HInv, Typed, Tasked
  <2>5. t0 \notin tasks
    BY <2>3, <2>4
  <2>6. IsFiniteSet(tasks') /\ Cardinality(tasks') = Cardinality(tasks) + 1
    BY <2>1, <2>4, <2>5, FS_AddElement
  <2>7. \A t \in tasks' : t.number \in 0 .. Cardinality(tasks') - 1
    BY <2>1, <2>3, <2>4, <2>6
  <2>8. \A t, u \in tasks' : t.number = u.number => t = u
    BY <2>1, <2>3, <2>4
  <2>9. \A t \in tasks' : t.preset \in Names /\ t.target.file \in Files /\ cfgs[t.preset] = t.target.file
    BY <2>1, <2>3 DEF HInv, Tasked
  <2>10. \A t \in tasks' : \E q : MadeOf(q, t)
    <3>1. t0.target = target
      BY DEF t0, Task
    <3>2. MadeOf(p, t0)
      BY <1>3, <2>2, <2>3, <3>1 DEF MadeOf, target
    <3>3. QED
      BY <2>1, <3>2 DEF HInv, Tasked
  <2>11. QED
    BY <1>1, <2>1, <2>3, <2>6, <2>7, <2>8, <2>9, <2>10 DEF Added
<1>4. QED
  BY <1>2, <1>3

LEMMA AddDefaultTaskKeeps ==
  ASSUME HInv, AddDefaultTask
  PROVE  HInv'
<1>1. PICK n \in left : \E p, file : p = Presets[n] /\ file = cfgs[n] /\ AddTask(n, n, p, file)
  BY DEF AddDefaultTask, AddTask
<1>2. pc = "tasks" /\ n \in Kept /\ n \in Names /\ cfgs[n] \in Files
  BY DEF AddDefaultTask, HInv, Typed, Keyed, Kept
<1>3. \E file : Added(n, n, file)
  BY <1>1, <1>2, AddTaskAdds
<1>4. state = None /\ state' = None /\ Running' /\ Reported'
  BY <1>2, <1>3, EarlyReported DEF Before, remote, Added
<1>5. Typed'
  BY <1>2, <1>3 DEF HInv, Typed, Steps, Added
<1>6. Collected'
  BY <1>2, <1>3 DEF HInv, Collected, Of, Added
<1>7. Kept' = Kept
  BY <1>3 DEF Kept, Added
<1>8. Keyed'
  BY <1>2, <1>3, <1>7 DEF HInv, Keyed, Added
<1>9. Tasked'
  <2>1. pc' = "tasks" => \A m \in Kept \ left' : \E t \in tasks' : t.preset = m
    BY <1>2, <1>3 DEF HInv, Tasked, Added
  <2>2. QED
    BY <1>2, <1>3, <1>7, <2>1 DEF Tasked, Added
<1>10. Grouped'
  BY <1>2, <1>3, <1>4 DEF HInv, Grouped, Before, Built, Added
<1>11. QED
  BY <1>4, <1>5, <1>6, <1>8, <1>9, <1>10 DEF HInv

LEMMA AddLegacyTaskKeeps ==
  ASSUME HInv, AddLegacyTask
  PROVE  HInv'
<1>1. PICK f \in left : \E n, p : n = byFile[f] /\ p = WithoutAudio(Presets[n]) /\ AddTask(f, n, p, f)
  BY DEF AddLegacyTask, AddTask
<1>0. PICK n, p : n = byFile[f] /\ p = WithoutAudio(Presets[n]) /\ AddTask(f, n, p, f)
  BY <1>1
<1>2. pc = "legacyTasks" /\ f \in Files /\ n \in Names /\ cfgs[n] = f
  BY <1>0 DEF AddLegacyTask, HInv, Typed, Keyed
<1>3. Added(f, n, f)
  BY <1>0, <1>2, AddTaskAdds
<1>4. state = None /\ state' = None /\ Running' /\ Reported'
  BY <1>2, <1>3, EarlyReported DEF Before, remote, Added
<1>5. Typed'
  BY <1>2, <1>3 DEF HInv, Typed, Steps, Added
<1>6. Collected'
  BY <1>2, <1>3 DEF HInv, Collected, Of, Added
<1>7. Kept' = Kept
  BY <1>3 DEF Kept, Added
<1>8. Keyed'
  BY <1>2, <1>3, <1>7 DEF HInv, Keyed, Added
<1>9. Tasked'
  <2>1. pc' = "legacyTasks" =>
          \A g \in Files \ left' : byFile[g] # None => \E t \in tasks' : t.target.file = g
    BY <1>2, <1>3 DEF HInv, Tasked, Added
  <2>2. QED
    BY <1>2, <1>3, <2>1 DEF Tasked, Added
<1>10. Grouped'
  BY <1>2, <1>3, <1>4 DEF HInv, Grouped, Before, Built, Added
<1>11. QED
  BY <1>4, <1>5, <1>6, <1>8, <1>9, <1>10 DEF HInv

\* A job has an output, so that some preset is kept once all are collected.
LEMMA SomeKept ==
  ASSUME HInv, next = Len(job.outputs) + 1
  PROVE  /\ Kept # {}
         /\ \A n \in Kept : n \in Names /\ cfgs[n] \in Files
<1>1. 1 \in 1 .. next - 1 /\ Of(1).preset \in Names
  BY JobTyped DEF HInv, Typed
<1>2. Of(1).preset \in Kept
  BY <1>1 DEF HInv, Collected, Kept
<1>3. QED
  BY <1>2 DEF HInv, Typed, Kept

LEMMA EndTasksKeeps ==
  ASSUME HInv, EndTasks
  PROVE  HInv'
<1>1. /\ pc \in {"tasks", "legacyTasks"} /\ pc' = "connect" /\ left = {}
      /\ groups' = <<IF pc = "tasks" THEN {TaskUID(t) : t \in tasks} ELSE {DolbyVision}>>
      /\ UNCHANGED <<job, stored, next, cfgs, byFile, left, tasks, connections>>
      /\ UNCHANGED remote /\ UNCHANGED report
  BY DEF EndTasks
<1>2. state = None /\ state' = None /\ Running' /\ Reported'
  BY <1>1, EarlyReported DEF Before, remote
<1>3. next = Len(job.outputs) + 1
  BY <1>1 DEF HInv, Collected
<1>4. Kept # {} /\ \A n \in Kept : n \in Names /\ cfgs[n] \in Files
  BY <1>3, SomeKept
<1>5. Typed'
  <2>1. {TaskUID(t) : t \in tasks} \in SUBSET UIDs /\ {DolbyVision} \in SUBSET UIDs
    <3>1. \A t \in tasks : t.number \in Nat
      BY FS_CardinalityType DEF HInv, Typed, Tasked
    <3>2. QED
      BY <3>1 DEF UIDs, TaskUID
  <2>2. groups' \in Seq(SUBSET UIDs)
    BY <1>1, <2>1
  <2>3. UIDs' = UIDs
    BY DEF UIDs, Source, Packager, DolbyVision
  <2>4. QED
    BY <1>1, <2>2, <2>3 DEF HInv, Typed, Steps
<1>6. Collected'
  BY <1>1 DEF HInv, Collected, Of
<1>7. Kept' = Kept
  BY <1>1 DEF Kept
<1>8. Keyed' /\ Tasked'
  BY <1>1 DEF HInv, Keyed, Tasked
<1>9. FirstGroup'
  <2>1. CASE pc = "tasks"
    <3>1. \A n \in Kept : \E t \in tasks : t.preset = n
      BY <1>1, <2>1 DEF HInv, Tasked
    <3>2. groups'[1] = {TaskUID(t) : t \in tasks} /\ tasks # {}
      BY <1>1, <1>4, <2>1, <3>1
    <3>3. {TaskUID(t) : t \in tasks}' = {TaskUID(t) : t \in tasks}
      BY <1>1 DEF TaskUID
    <3>4. QED
      BY <1>1, <1>7, <3>1, <3>2, <3>3 DEF FirstGroup
  <2>2. CASE pc = "legacyTasks"
    <3>1. \A n \in Kept : byFile[cfgs[n]] # None
      BY <2>2 DEF HInv, Keyed
    <3>2. \A n \in Kept : \E t \in tasks : t.target.file = cfgs[n]
      BY <1>1, <1>4, <2>2, <3>1 DEF HInv, Tasked
    <3>3. groups'[1] = {DolbyVision}
      BY <1>1, <2>2
    <3>4. QED
      BY <1>1, <1>7, <3>2, <3>3 DEF FirstGroup, DolbyVision
  <2>3. QED
    BY <1>1, <2>1, <2>2
<1>10. Grouped'
  <2>1. groups' = <<groups'[1]>> /\ connections' = {}
    BY <1>1 DEF HInv, Grouped, Before
  <2>2. QED
    BY <1>1, <1>2, <1>9, <2>1 DEF Grouped, Before, Built
<1>11. QED
  BY <1>2, <1>5, <1>6, <1>8, <1>10 DEF HInv

\* What the first group is made of does not change after it.
LEMMA FirstGroupKept ==
  ASSUME FirstGroup, UNCHANGED <<tasks, cfgs>>, groups'[1] = groups[1]
  PROVE  FirstGroup'
<1>1. Kept' = Kept /\ {TaskUID(t) : t \in tasks}' = {TaskUID(t) : t \in tasks}
  BY DEF Kept, TaskUID
<1>2. QED
  BY <1>1 DEF FirstGroup, DolbyVision

LEMMA ConnectKeeps ==
  ASSUME HInv, Connect
  PROVE  HInv'
<1>1. /\ pc = "connect" /\ pc' = (IF Packaged THEN "package" ELSE "queue")
      /\ connections' = {Source} \X groups[1]
      /\ UNCHANGED <<job, stored, next, cfgs, byFile, left, tasks, groups>>
      /\ UNCHANGED remote /\ UNCHANGED report
  BY DEF Connect
<1>2. state = None /\ state' = None /\ Running' /\ Reported'
  BY <1>1, EarlyReported DEF remote
<1>3. Typed'
  <2>1. groups[1] \subseteq UIDs /\ Source \in UIDs
    <3>1. groups = <<groups[1]>> /\ groups \in Seq(SUBSET UIDs)
      BY <1>1 DEF HInv, Grouped, Typed
    <3>2. 1 \in DOMAIN groups
      BY <3>1
    <3>3. QED
      BY <3>1, <3>2 DEF UIDs
  <2>2. connections' \subseteq UIDs \X UIDs
    BY <1>1, <2>1
  <2>3. QED
    BY <1>1, <2>2 DEF HInv, Typed, Steps
<1>4. Collected'
  BY <1>1 DEF HInv, Collected, Of
<1>5. Keyed' /\ Tasked'
  BY <1>1 DEF HInv, Keyed, Tasked
<1>6. groups = <<groups[1]>> /\ FirstGroup /\ FirstGroup' /\ Packaged' = Packaged
  BY <1>1, FirstGroupKept DEF HInv, Grouped, Packaged
<1>7. Last2' = Last2 /\ Source' = Source
  BY <1>1, <1>6 DEF Last2, Packager, Source
<1>8. Grouped'
  <2>1. CASE Packaged
    BY <1>1, <1>2, <1>6, <1>7, <2>1 DEF Grouped, Before, Built
  <2>2. CASE ~Packaged
    <3>1. Last2 = {} /\ connections' = ({Source} \X groups[1]) \cup Last2
      BY <1>1, <2>2 DEF Last2
    <3>2. QED
      BY <1>1, <1>2, <1>6, <1>7, <2>2, <3>1 DEF Grouped, Before, Built
  <2>3. QED
    BY <2>1, <2>2
<1>9. QED
  BY <1>2, <1>3, <1>4, <1>5, <1>8 DEF HInv

LEMMA PackageKeeps ==
  ASSUME HInv, Package
  PROVE  HInv'
<1>1. /\ pc = "package" /\ pc' = "queue"
      /\ groups' = Append(groups, {Packager})
      /\ connections' = connections \cup (groups[1] \X {Packager})
      /\ UNCHANGED <<job, stored, next, cfgs, byFile, left, tasks>>
      /\ UNCHANGED remote /\ UNCHANGED report
  BY DEF Package
<1>2. state = None /\ state' = None /\ Running' /\ Reported'
  BY <1>1, EarlyReported DEF remote
<1>3. Typed'
  <2>1. groups[1] \subseteq UIDs /\ Packager \in UIDs
    <3>1. groups = <<groups[1]>> /\ groups \in Seq(SUBSET UIDs)
      BY <1>1 DEF HInv, Grouped, Typed
    <3>2. 1 \in DOMAIN groups
      BY <3>1
    <3>3. QED
      BY <3>1, <3>2 DEF UIDs
  <2>2. groups' \in Seq(SUBSET UIDs) /\ connections' \subseteq UIDs \X UIDs
    BY <1>1, <2>1, AppendProperties DEF HInv, Typed
  <2>3. QED
    BY <1>1, <2>2 DEF HInv, Typed, Steps
<1>4. Collected'
  BY <1>1 DEF HInv, Collected, Of
<1>5. Keyed' /\ Tasked'
  BY <1>1 DEF HInv, Keyed, Tasked
<1>6. groups = <<groups[1]>> /\ FirstGroup /\ Packaged /\ connections = {Source} \X groups[1]
  BY <1>1 DEF HInv, Grouped
<1>7. groups' = <<groups[1], {Packager}>> /\ groups'[1] = groups[1]
  <2>1. PICK G : G = groups[1]
    OBVIOUS
  <2> DEFINE S == {G, {Packager}}
             two == <<G, {Packager}>>
  <2>2. groups = <<G>> /\ groups \in Seq(S) /\ Len(groups) = 1 /\ {Packager} \in S
    <3>1. groups = <<G>>
      BY <1>6, <2>1
    <3>2. <<G>> \in Seq(S) /\ Len(<<G>>) = 1
      OBVIOUS
    <3>3. QED
      BY <3>1, <3>2
  <2>3. /\ groups' \in Seq(S) /\ Len(groups') = 2
        /\ groups'[1] = G /\ groups'[2] = {Packager}
    BY <1>1, <2>1, <2>2, AppendProperties
  <2>4. two \in Seq(S) /\ Len(two) = 2 /\ two[1] = G /\ two[2] = {Packager}
    OBVIOUS
  <2> HIDE DEF two, S
  <2>5. \A i \in 1 .. Len(groups') : groups'[i] = two[i]
    <3>1. \A i \in 1 .. 2 : i = 1 \/ i = 2
      OBVIOUS
    <3>2. QED
      BY <2>3, <2>4, <3>1
  <2>6. groups' = two
    BY <2>3, <2>4, <2>5, SeqEqual
  <2>7. QED
    BY <2>1, <2>6 DEF two
<1>8. FirstGroup' /\ Packaged'
  BY <1>1, <1>6, <1>7, FirstGroupKept DEF Packaged
<1>9. Last2' = groups[1] \X {Packager}
  BY <1>7, <1>8 DEF Last2, Packager
<1>10. Grouped'
  BY <1>1, <1>2, <1>6, <1>7, <1>8, <1>9 DEF Grouped, Before, Built, Source, Packager
<1>11. QED
  BY <1>2, <1>3, <1>4, <1>5, <1>10 DEF HInv

LEMMA QueueJobKeeps ==
  ASSUME HInv, QueueJob
  PROVE  HInv'
<1>1. /\ pc = "queue" /\ pc' \in {"answered", "failed"} /\ state' \in {None, "queued"}
      /\ pc' = "answered" => state' = "queued"
      /\ UNCHANGED <<job, stored, next, cfgs, byFile, left, tasks, groups, connections, ran, report>>
  BY DEF QueueJob, building
<1>2. ran = {} /\ report = None /\ Built
  BY <1>1 DEF HInv, Running, Reported, Built
<1>3. Typed'
  BY <1>1 DEF HInv, Typed, Steps
<1>4. Collected'
  BY <1>1 DEF HInv, Collected, Of
<1>5. Keyed' /\ Tasked'
  BY <1>1 DEF HInv, Keyed, Tasked
<1>6. FirstGroup' /\ Packaged' = Packaged /\ Last2' = Last2
  BY <1>1, <1>2, FirstGroupKept DEF HInv, Grouped, Packaged, Last2, Packager
<1>7. Grouped'
  BY <1>1, <1>2, <1>6 DEF HInv, Grouped, Before, Built, Source, Packager
<1>8. Running'
  BY <1>1, <1>2, HybrikAssumption DEF Running, States
<1>9. Reported'
  BY <1>1, <1>2 DEF Reported, ReportWhole
<1>10. QED
  BY <1>3, <1>4, <1>5, <1>7, <1>8, <1>9 DEF HInv

\* The elements of a request that has been made.
LEMMA ElementsMade ==
  ASSUME HInv, Built \/ state # None
  PROVE  /\ Elements = {Source} \cup groups[1] \cup (IF Packaged THEN {Packager} ELSE {})
         /\ Source \notin groups[1] /\ Packager \notin groups[1]
<1>1. \/ groups[1] = {TaskUID(t) : t \in tasks}
      \/ groups[1] = {DolbyVision}
  BY DEF HInv, Grouped, FirstGroup
<1>2. Source \notin groups[1] /\ Packager \notin groups[1]
  BY <1>1, UIDsDiffer
<1>3. PICK G : G = groups[1]
  OBVIOUS
<1>4. CASE Packaged
  <2>1. groups = <<G, {Packager}>>
    BY <1>3, <1>4 DEF HInv, Grouped
  <2>2. DOMAIN groups = {1, 2} /\ groups[1] = G /\ groups[2] = {Packager}
    BY <2>1
  <2>3. {groups[i] : i \in DOMAIN groups} = {G, {Packager}}
    BY <2>2
  <2>4. QED
    BY <1>2, <1>3, <1>4, <2>3 DEF Elements
<1>5. CASE ~Packaged
  <2>1. groups = <<G>>
    BY <1>3, <1>5 DEF HInv, Grouped
  <2>2. DOMAIN groups = {1} /\ groups[1] = G
    BY <2>1
  <2>3. {groups[i] : i \in DOMAIN groups} = {G}
    BY <2>2
  <2>4. QED
    BY <1>2, <1>3, <1>5, <2>3 DEF Elements
<1>6. QED
  BY <1>4, <1>5

\* Nothing of a request changes once it has been queued.
LEMMA RequestKept ==
  ASSUME HInv, UNCHANGED <<job, stored, building>>, pc' = pc \/ (Built /\ Built'), state # None
  PROVE  /\ Typed' /\ Collected' /\ Keyed' /\ Tasked' /\ Grouped'
         /\ Packaged' = Packaged /\ Elements' = Elements
<1>1. UNCHANGED <<job, stored, next, cfgs, byFile, left, tasks, groups, connections>>
  BY DEF building
<1>2. Typed'
  BY <1>1 DEF HInv, Typed, Steps, Built
<1>3. Collected'
  BY <1>1 DEF HInv, Collected, Of, Built
<1>4. pc' \notin Before \cup {"connect", "package"}
  BY DEF HInv, Running, Before, Built
<1>5. Keyed' /\ Tasked'
  BY <1>1, <1>4 DEF HInv, Keyed, Tasked, Before
<1>6. FirstGroup' /\ Packaged' = Packaged /\ Last2' = Last2 /\ Source' = Source
  BY <1>1, FirstGroupKept DEF HInv, Grouped, Packaged, Last2, Packager, Source
<1>7. Grouped'
  BY <1>1, <1>4, <1>6 DEF HInv, Grouped, Packager
<1>8. Elements' = Elements
  BY <1>1 DEF Elements, Source
<1>9. QED
  BY <1>2, <1>3, <1>5, <1>6, <1>7, <1>8

LEMMA WholeKept ==
  ASSUME ReportWhole, UNCHANGED <<job, tasks, report>>
  PROVE  ReportWhole'
BY DEF ReportWhole, Packaged

LEMMA StateKeeps ==
  ASSUME HInv, Activate \/ Stumble \/ CancelJob
  PROVE  HInv'
<1>1. /\ state \in {"queued", "waiting", "running"} /\ state' \in {"waiting", "running", "failed", "stopped"}
      /\ UNCHANGED <<job, stored, building>> /\ pc' = pc /\ UNCHANGED <<ran, report>>
  BY DEF Activate, Stumble, CancelJob
<1>2. state # None /\ state' # None
  BY <1>1, HybrikAssumption DEF States
<1>3. Typed' /\ Collected' /\ Keyed' /\ Tasked' /\ Grouped' /\ Elements' = Elements
  BY <1>1, <1>2, RequestKept
<1>4. Running'
  <2>1. groups' = groups /\ Packager' = Packager
    BY <1>1 DEF building, Packager
  <2>2. QED
    BY <1>1, <1>2, <1>3, <2>1 DEF HInv, Running, States
<1>5. ReportWhole'
  BY <1>1, WholeKept DEF HInv, Reported, building
<1>6. Reported'
  BY <1>1, <1>5 DEF HInv, Reported
<1>7. QED
  BY <1>3, <1>4, <1>6 DEF HInv

LEMMA RunElementKeeps ==
  ASSUME HInv, NEW u \in Elements, RunElement(u)
  PROVE  HInv'
<1>1. /\ state = "running" /\ ran' = ran \cup {u}
      /\ state' \in {"running", "completed"} /\ (state' = "completed" => ran' = Elements)
      /\ UNCHANGED <<job, stored, building>> /\ pc' = pc /\ report' = report
  BY DEF RunElement
<1>2. state # None /\ state' # None
  BY <1>1, HybrikAssumption DEF States
<1>3. Typed' /\ Collected' /\ Keyed' /\ Tasked' /\ Grouped' /\ Elements' = Elements
  BY <1>1, <1>2, RequestKept
<1>4. groups' = groups /\ Packager' = Packager
  BY <1>1 DEF building, Packager
<1>5. Packager \in ran' => groups[1] \subseteq ran'
  <2>1. CASE u = Packager
    <3>1. Packaged
      BY <1>2, <2>1, ElementsMade, UIDsDiffer
    <3>2. groups[1] \X {Packager} \subseteq connections
      BY <1>2, <3>1 DEF HInv, Grouped, Last2
    <3>3. \A c \in connections : c[2] = Packager => c[1] \in ran
      BY <2>1 DEF RunElement, Ready
    <3>4. ASSUME NEW v \in groups[1]
          PROVE  v \in ran
      <4>1. <<v, Packager>> \in connections
        BY <3>2, <3>4
      <4>2. QED
        BY <3>3, <4>1
    <3>5. QED
      BY <1>1, <3>4
  <2>2. CASE u # Packager
    BY <1>1, <2>2 DEF HInv, Running
  <2>3. QED
    BY <2>1, <2>2
<1>6. Running'
  BY <1>1, <1>2, <1>3, <1>4, <1>5 DEF HInv, Running, States
<1>7. ReportWhole'
  BY <1>1, WholeKept DEF HInv, Reported, building
<1>8. Reported'
  BY <1>1, <1>7 DEF HInv, Reported
<1>9. QED
  BY <1>3, <1>6, <1>8 DEF HInv

LEMMA DeletePresetKeeps ==
  ASSUME HInv, NEW n \in Deletable, DeletePreset(n)
  PROVE  HInv'
<1>1. /\ stored' = stored \ {n}
      /\ UNCHANGED <<job, pc, next, cfgs, byFile, left, tasks, groups, connections, ran, state, report>>
  BY DEF DeletePreset, building, remote
<1>2. Typed'
  BY <1>1 DEF HInv, Typed
<1>3. Collected' /\ Keyed' /\ Tasked' /\ Kept' = Kept
  BY <1>1 DEF HInv, Collected, Of, Keyed, Tasked, Kept
<1>4. Packaged' = Packaged /\ Last2' = Last2 /\ Built' = Built /\ Elements' = Elements
  BY <1>1 DEF Packaged, Last2, Packager, Built, Elements, Source
<1>5. FirstGroup' = FirstGroup
  BY <1>1, <1>3 DEF FirstGroup, TaskUID, DolbyVision
<1>6. Grouped'
  BY <1>1, <1>4, <1>5 DEF HInv, Grouped, Packager, Source
<1>7. Running'
  BY <1>1, <1>4 DEF HInv, Running, Packager
<1>8. ReportWhole'
  BY <1>1, WholeKept DEF HInv, Reported
<1>9. Reported'
  BY <1>1, <1>8 DEF HInv, Reported
<1>10. QED
  BY <1>2, <1>3, <1>6, <1>7, <1>9 DEF HInv

-----------------------------------------------------------------------------
(* What is reported *)

\* The files whose tasks the matchers choose, of one element.
FilesOf(u) == FilesFrom(TaskResults(u))
Targets    == {t.target.file : t \in tasks}

LEMMA Matched ==
  ASSUME NEW results
  PROVE  \A x : x \in FilesFrom(results) <=>
           \E r \in results : <<r.kind, r.stem>> \in Matchers /\ r.file = x
BY DEF FilesFrom

LEMMA MatchersAre ==
  /\ <<"Package", "packager">> \in Matchers /\ <<"Dolby Vision", "post_transcode_stage">> \in Matchers
  /\ <<"Combine Segments", "combiner">> \in Matchers /\ <<"Transcode", "transcode_task">> \in Matchers
  /\ <<"Transcode", "segment">> \notin Matchers
BY DEF Matchers

LEMMA FilesOfElements ==
  ASSUME HInv
  PROVE  /\ \A x : x \notin FilesOf(Source)
         /\ \A x : x \in FilesOf(Packager) <=> x = "manifest"
         /\ \A x : x \in FilesOf(DolbyVision) <=> x \in Targets
         /\ \A t \in tasks : \A x : x \in FilesOf(TaskUID(t)) <=> x = t.target.file
<1>1. \A x : x \notin FilesOf(Source)
  <2>1. TaskResults(Source) = {}
    BY UIDsDiffer DEF TaskResults
  <2>2. QED
    BY <2>1, Matched DEF FilesOf
<1>2. \A x : x \in FilesOf(Packager) <=> x = "manifest"
  <2> DEFINE r == [kind |-> "Package", stem |-> "packager", file |-> "manifest"]
  <2>1. TaskResults(Packager) = {r}
    BY UIDsDiffer DEF TaskResults
  <2>2. <<r.kind, r.stem>> \in Matchers /\ r.file = "manifest"
    BY MatchersAre
  <2> HIDE DEF r
  <2>3. QED
    BY <2>1, <2>2, Matched DEF FilesOf
<1>3. \A x : x \in FilesOf(DolbyVision) <=> x \in Targets
  <2> DEFINE r(file) == [kind |-> "Dolby Vision", stem |-> "post_transcode_stage", file |-> file]
  <2>1. TaskResults(DolbyVision) = {r(t.target.file) : t \in tasks}
    BY UIDsDiffer DEF TaskResults
  <2>2. \A file : <<r(file).kind, r(file).stem>> \in Matchers /\ r(file).file = file
    BY MatchersAre
  <2> HIDE DEF r
  <2>3. \A x : x \in FilesOf(DolbyVision) <=>
          \E q \in TaskResults(DolbyVision) : <<q.kind, q.stem>> \in Matchers /\ q.file = x
    BY Matched DEF FilesOf
  <2>4. \A q : q \in TaskResults(DolbyVision) <=> \E t \in tasks : q = r(t.target.file)
    BY <2>1
  <2>5. ASSUME NEW x \in FilesOf(DolbyVision)
        PROVE  \E t \in tasks : t.target.file = x
    <3>1. PICK q \in TaskResults(DolbyVision) : q.file = x
      BY <2>3, <2>5
    <3>2. PICK t \in tasks : q = r(t.target.file)
      BY <2>4, <3>1
    <3>3. QED
      BY <2>2, <3>1, <3>2
  <2>6. ASSUME NEW t \in tasks
        PROVE  t.target.file \in FilesOf(DolbyVision)
    <3>1. PICK q : q = r(t.target.file)
      OBVIOUS
    <3>2. q \in TaskResults(DolbyVision) /\ <<q.kind, q.stem>> \in Matchers /\ q.file = t.target.file
      BY <2>2, <2>4, <3>1
    <3>3. QED
      BY <2>3, <3>2
  <2>7. QED
    BY <2>5, <2>6 DEF Targets
<1>4. ASSUME NEW t \in tasks
      PROVE  \A x : x \in FilesOf(TaskUID(t)) <=> x = t.target.file
  <2>1. TaskUID(t) # Source /\ TaskUID(t) # Packager /\ TaskUID(t) # DolbyVision
    BY UIDsDiffer
  <2>2. \A u \in tasks : TaskUID(u) = TaskUID(t) => u = t
    BY UIDsDiffer DEF HInv, Tasked
  <2>3. (CHOOSE u \in tasks : TaskUID(u) = TaskUID(t)) = t
    BY <2>2
  <2> DEFINE file == t.target.file
             segment  == [kind |-> "Transcode", stem |-> "segment", file |-> "segment"]
             combined == [kind |-> "Combine Segments", stem |-> "combiner", file |-> file]
             whole    == [kind |-> "Transcode", stem |-> "transcode_task", file |-> file]
  <2>4. TaskResults(TaskUID(t)) = IF Segmented THEN {segment, combined} ELSE {whole}
    BY <2>1, <2>3 DEF TaskResults
  <2>5. /\ <<segment.kind, segment.stem>> \notin Matchers
        /\ <<combined.kind, combined.stem>> \in Matchers /\ combined.file = file
        /\ <<whole.kind, whole.stem>> \in Matchers /\ whole.file = file
    BY MatchersAre
  <2> HIDE DEF segment, combined, whole
  <2>6. \A x : x \in FilesOf(TaskUID(t)) <=>
          \E q \in TaskResults(TaskUID(t)) : <<q.kind, q.stem>> \in Matchers /\ q.file = x
    BY Matched DEF FilesOf
  <2> HIDE DEF file
  <2>7. CASE Segmented
    <3>1. \A q : q \in TaskResults(TaskUID(t)) <=> q = segment \/ q = combined
      BY <2>4, <2>7
    <3>2. file \in FilesOf(TaskUID(t))
      BY <2>5, <2>6, <3>1
    <3>3. ASSUME NEW x \in FilesOf(TaskUID(t))
          PROVE  x = file
      <4>1. PICK q \in TaskResults(TaskUID(t)) : <<q.kind, q.stem>> \in Matchers /\ q.file = x
        BY <2>6, <3>3
      <4>2. q # segment
        BY <2>5, <4>1
      <4>3. q = combined
        BY <3>1, <4>2
      <4>4. QED
        BY <2>5, <4>1, <4>3
    <3>4. QED
      BY <3>2, <3>3 DEF file
  <2>8. CASE ~Segmented
    <3>1. \A q : q \in TaskResults(TaskUID(t)) <=> q = whole
      BY <2>4, <2>8
    <3>2. file \in FilesOf(TaskUID(t))
      BY <2>5, <2>6, <3>1
    <3>3. ASSUME NEW x \in FilesOf(TaskUID(t))
          PROVE  x = file
      <4>1. PICK q \in TaskResults(TaskUID(t)) : q.file = x
        BY <2>6, <3>3
      <4>2. q = whole
        BY <3>1
      <4>3. QED
        BY <2>5, <4>1, <4>2
    <3>4. QED
      BY <3>2, <3>3 DEF file
  <2>9. QED
    BY <2>7, <2>8
<1>5. QED
  BY <1>1, <1>2, <1>3, <1>4

\* A result names files of the request only, and all of them when all has run.
LEMMA ResultWhole ==
  ASSUME HInv, Built
  PROVE  LET files    == FilesFrom(UNION {TaskResults(u) : u \in ran})
             manifest == IF Packaged THEN {"manifest"} ELSE {}
         IN /\ files \subseteq Targets \cup manifest
            /\ ran = Elements => files = Targets \cup manifest
<1> DEFINE files    == FilesFrom(UNION {TaskResults(u) : u \in ran})
           manifest == IF Packaged THEN {"manifest"} ELSE {}
<1>1. \A x : x \in files <=> \E u \in ran : x \in FilesOf(u)
  <2>1. \A x : x \in files <=> \E r \in UNION {TaskResults(u) : u \in ran} :
                                 <<r.kind, r.stem>> \in Matchers /\ r.file = x
    BY Matched
  <2>2. \A r : r \in UNION {TaskResults(u) : u \in ran} <=> \E u \in ran : r \in TaskResults(u)
    OBVIOUS
  <2>3. \A u, x : x \in FilesOf(u) <=> \E r \in TaskResults(u) :
                                         <<r.kind, r.stem>> \in Matchers /\ r.file = x
    BY Matched DEF FilesOf
  <2> HIDE DEF files
  <2>4. QED
    BY <2>1, <2>2, <2>3
<1>2. \A u : u \in Elements <=> u = Source \/ u \in groups[1] \/ (Packaged /\ u = Packager)
  BY ElementsMade
<1>3. \/ groups[1] = {TaskUID(t) : t \in tasks}
      \/ groups[1] = {DolbyVision}
  BY DEF HInv, Grouped, FirstGroup
<1>4. \A x : x \in Targets <=> \E u \in groups[1] : x \in FilesOf(u)
  BY <1>3, FilesOfElements DEF Targets
<1>5. \A x : (\E u \in Elements : x \in FilesOf(u)) <=> x \in Targets \cup manifest
  BY <1>2, <1>4, FilesOfElements
<1>6. ran \subseteq Elements
  BY DEF HInv, Running
<1> HIDE DEF files, manifest
<1>7. files \subseteq Targets \cup manifest
  BY <1>1, <1>5, <1>6
<1>8. ran = Elements => files = Targets \cup manifest
  BY <1>1, <1>5
<1>9. QED
  BY <1>7, <1>8 DEF files, manifest

LEMMA AskInfoKeeps ==
  ASSUME HInv, AskInfo
  PROVE  HInv'
<1> DEFINE status == StatusFrom(state)
<1>1. /\ pc = "answered" /\ UNCHANGED <<job, stored, building>> /\ UNCHANGED <<ran, state>>
      /\ \/ /\ status \in {"failed", "finished"} /\ pc' = "result"
            /\ report' = [status |-> status, files |-> None]
         \/ /\ status \notin {"failed", "finished"} /\ pc' = "answered"
            /\ report' = [status |-> status, files |-> {}]
  BY DEF AskInfo, remote
<1>2. Built /\ Built' /\ state # None /\ state \in States
  BY <1>1 DEF HInv, Running, Built
<1>3. /\ status \in {"queued", "started", "finished", "failed", "empty"}
      /\ status = "finished" => state = "completed"
      /\ status = "failed" => state = "failed"
  BY <1>2 DEF StatusFrom, States
<1> HIDE DEF status
<1>4. Typed' /\ Collected' /\ Keyed' /\ Tasked' /\ Grouped' /\ Elements' = Elements
  BY <1>1, <1>2, RequestKept
<1>5. Running'
  <2>1. groups' = groups /\ Packager' = Packager
    BY <1>1 DEF building, Packager
  <2>2. QED
    BY <1>1, <1>2, <1>4, <2>1 DEF HInv, Running
<1>6. report'.status = status /\ report' = [status |-> report'.status, files |-> report'.files]
  BY <1>1
<1>7. ReportWhole'
  <2>1. CASE report'.files = None
    BY <2>1 DEF ReportWhole
  <2>2. CASE report'.files = {} /\ status # "finished"
    BY <1>6, <2>2 DEF ReportWhole
  <2>3. QED
    BY <1>1, <2>1, <2>2
<1>8. Reported'
  <2>1. pc' = "result" => /\ report' = [status |-> status, files |-> None]
                          /\ status \in {"finished", "failed"}
    BY <1>1
  <2>2. QED
    BY <1>1, <1>3, <1>6, <1>7, <2>1 DEF Reported
<1>9. QED
  BY <1>4, <1>5, <1>8 DEF HInv

LEMMA AskResultKeeps ==
  ASSUME HInv, AskResult
  PROVE  HInv'
<1> DEFINE F == FilesFrom(UNION {TaskResults(u) : u \in ran})
<1>1. /\ pc = "result" /\ pc' = "answered"
      /\ UNCHANGED <<job, stored, building>> /\ UNCHANGED <<ran, state>>
      /\ report' = [report EXCEPT !.files = F] \/ report' = None
  BY DEF AskResult, remote
<1>2. Built /\ Built' /\ state # None /\ state \in States
  BY <1>1 DEF HInv, Running, Built
<1>3. /\ report = [status |-> report.status, files |-> None]
      /\ report.status \in {"finished", "failed"}
      /\ report.status = "finished" => state = "completed"
  BY <1>1 DEF HInv, Reported
<1>4. Typed' /\ Collected' /\ Keyed' /\ Tasked' /\ Grouped' /\ Elements' = Elements /\ Packaged' = Packaged
  BY <1>1, <1>2, RequestKept
<1>5. Running'
  <2>1. groups' = groups /\ Packager' = Packager
    BY <1>1 DEF building, Packager
  <2>2. QED
    BY <1>1, <1>2, <1>4, <2>1 DEF HInv, Running
<1>6. /\ F \subseteq Targets \cup (IF Packaged THEN {"manifest"} ELSE {})
      /\ state = "completed" => F = Targets \cup (IF Packaged THEN {"manifest"} ELSE {})
  <2>1. state = "completed" => ran = Elements
    BY DEF HInv, Running
  <2>2. QED
    BY <1>2, <2>1, ResultWhole
<1>7. tasks' = tasks
  BY <1>1 DEF building
<1> HIDE DEF F
<1>8. ASSUME report' = None
      PROVE  Reported'
  BY <1>1, <1>8 DEF Reported, ReportWhole
<1>9. ASSUME report' = [report EXCEPT !.files = F]
      PROVE  Reported'
  <2>1. report' = [status |-> report.status, files |-> F]
    BY <1>3, <1>9
  <2>2. report'.status = report.status /\ report'.files = F
    BY <2>1
  <2>3. ReportWhole'
    BY <1>3, <1>4, <1>6, <1>7, <2>2 DEF ReportWhole, Targets
  <2>4. QED
    BY <1>1, <1>3, <2>1, <2>2, <2>3 DEF Reported
<1>10. QED
  BY <1>1, <1>4, <1>5, <1>8, <1>9 DEF HInv

-----------------------------------------------------------------------------
(* The invariant, and what follows from it *)

LEMMA Inductive == HInv /\ [Next]_vars => HInv'
<1> SUFFICES ASSUME HInv, [Next]_vars PROVE HInv'
  OBVIOUS
<1>1. CASE Transcode
  BY <1>1, LocateKeeps, GetPresetKeeps, PickAssemblerKeeps, KeyByFileKeeps, EndByFileKeeps,
     AddDefaultTaskKeeps, AddLegacyTaskKeeps, EndTasksKeeps, ConnectKeeps, PackageKeeps,
     QueueJobKeeps DEF Transcode
<1>2. CASE Hybrik
  BY <1>2, StateKeeps, RunElementKeeps DEF Hybrik
<1>3. CASE CancelJob \/ AskInfo \/ AskResult
  BY <1>3, StateKeeps, AskInfoKeeps, AskResultKeeps
<1>4. CASE \E n \in Deletable : DeletePreset(n)
  BY <1>4, DeletePresetKeeps
<1>5. CASE UNCHANGED vars
  <2>1. UNCHANGED <<job, pc, stored, next, cfgs, byFile, left, tasks, groups, connections,
                    ran, state, report>>
    BY <1>5 DEF vars
  <2>2. Typed' /\ Collected' /\ Keyed' /\ Tasked'
    BY <2>1 DEF HInv, Typed, Collected, Of, Keyed, Kept, Tasked
  <2>3. Packaged' = Packaged /\ Built' = Built /\ Elements' = Elements /\ FirstGroup' = FirstGroup
    BY <2>1 DEF Packaged, Built, Elements, Source, FirstGroup, Kept, TaskUID, DolbyVision
  <2>4. Grouped'
    BY <2>1, <2>3 DEF HInv, Grouped, Last2, Packager, Source
  <2>5. Running'
    BY <2>1, <2>3 DEF HInv, Running, Packager
  <2>6. ReportWhole'
    BY <2>1, WholeKept DEF HInv, Reported
  <2>7. Reported'
    BY <2>1, <2>6 DEF HInv, Reported
  <2>8. QED
    BY <2>2, <2>4, <2>5, <2>7 DEF HInv
<1>6. QED
  BY <1>1, <1>2, <1>3, <1>4, <1>5 DEF Next

LEMMA Invariant == Spec => []HInv
<1>1. QED
  BY InitHInv, Inductive, PTL DEF Spec

\* What the request is built from and what it holds keep their types.
THEOREM TypeCorrect == Spec => []TypeOK
<1>1. ASSUME HInv
      PROVE  TypeOK
  <2>1. \A t \in tasks : t.preset \in Names /\ t.target.file \in Files
    BY <1>1 DEF HInv, Tasked
  <2>2. ran \subseteq Elements /\ state \in States \cup {None}
    BY <1>1 DEF HInv, Running
  <2>3. report = None \/ report.status \in {"queued", "started", "finished", "failed", "empty"}
    BY <1>1 DEF HInv, Reported
  <2>4. QED
    BY <1>1, <2>1, <2>2, <2>3 DEF HInv, Typed, TypeOK
<1>2. QED
  BY <1>1, Invariant, PTL

\* A request is a graph that can run: its elements have names of their own, and
\* each but the source waits for others of the request.
THEOREM RequestSoundHolds == Spec => []RequestSound
<1>1. ASSUME HInv, Built
      PROVE  /\ \A t, u \in tasks : TaskUID(t) = TaskUID(u) => t = u
             /\ connections \subseteq Elements \X Elements
             /\ \A u \in Elements \ {Source} : \E c \in connections : c[2] = u
             /\ \A c \in connections : c[2] # Source
  <2>1. \A t, u \in tasks : TaskUID(t) = TaskUID(u) => t = u
    BY <1>1, UIDsDiffer DEF HInv, Tasked
  <2>2. /\ \A u : u \in Elements <=> u = Source \/ u \in groups[1] \/ (Packaged /\ u = Packager)
        /\ Source \notin groups[1]
    BY <1>1, ElementsMade
  <2>3. connections = ({Source} \X groups[1]) \cup Last2
    BY <1>1 DEF HInv, Grouped
  <2>4. \A c : c \in connections <=>
          \/ c \in {Source} \X groups[1]
          \/ Packaged /\ c \in groups[1] \X {Packager}
    BY <2>3 DEF Last2
  <2>5. \A c \in connections : /\ c = <<c[1], c[2]>> /\ c[1] \in Elements /\ c[2] \in Elements
                               /\ c[2] # Source
    BY <2>2, <2>4, UIDsDiffer
  <2>6. PICK u \in groups[1] : TRUE
    <3>1. Kept # {} \/ tasks # {}
      BY <1>1, SomeKept DEF HInv, Collected, Built
    <3>2. QED
      BY <1>1, <3>1 DEF HInv, Grouped, FirstGroup
  <2>7. ASSUME NEW v \in Elements \ {Source}
        PROVE  \E c \in connections : c[2] = v
    <3>1. CASE v \in groups[1]
      <4>1. <<Source, v>> \in connections
        BY <2>4, <3>1
      <4>2. QED
        BY <4>1
    <3>2. CASE Packaged /\ v = Packager
      <4>1. <<u, Packager>> \in connections
        BY <2>4, <2>6, <3>2
      <4>2. QED
        BY <3>2, <4>1
    <3>3. QED
      BY <2>2, <3>1, <3>2
  <2>8. connections \subseteq Elements \X Elements
    BY <2>5
  <2>9. QED
    BY <2>1, <2>5, <2>7, <2>8
<1>2. HInv => RequestSound
  BY <1>1 DEF RequestSound
<1>3. QED
  BY <1>2, Invariant, PTL

\* Whatever the presets of a job and in whichever order the maps are visited,
\* each preset's last output has its element, and there are no others.
THEOREM OutputsKeptHolds == Spec => []OutputsKept
<1>1. ASSUME HInv, Built, NEW i \in DOMAIN job.outputs, Last(i)
      PROVE  \E t \in tasks : /\ t.target.file = job.outputs[i].file
                              /\ t.preset = job.outputs[i].preset \/ DolbyVision \in Elements
  <2>1. next - 1 = Len(job.outputs) /\ DOMAIN job.outputs = 1 .. Len(job.outputs) /\ Len(job.outputs) \in Nat
    BY <1>1, JobTyped DEF HInv, Typed, Collected, Built
  <2>2. Of(i).preset \in Names /\ cfgs[Of(i).preset] # None
    BY <1>1, <2>1, JobTyped DEF HInv, Typed, Collected
  <2>3. PICK k \in 1 .. next - 1 :
          /\ Of(k).preset = Of(i).preset /\ Of(k).file = cfgs[Of(i).preset]
          /\ \A j \in 1 .. next - 1 : j > k => Of(j).preset # Of(i).preset
    BY <1>1, <2>2 DEF HInv, Collected
  <2>4. k = i
    BY <1>1, <2>1, <2>3 DEF Last, Of
  <2>5. cfgs[Of(i).preset] = Of(i).file /\ Of(i).preset \in Kept
    BY <2>2, <2>3, <2>4 DEF Kept
  <2>6. CASE \A n \in Kept : \E t \in tasks : t.preset = n
    BY <1>1, <2>5, <2>6 DEF HInv, Tasked, Of
  <2>7. CASE groups[1] = {DolbyVision} /\ \A n \in Kept : \E t \in tasks : t.target.file = cfgs[n]
    <3>1. DolbyVision \in Elements
      BY <1>1, <2>7, ElementsMade
    <3>2. QED
      BY <2>5, <2>7, <3>1 DEF Of
  <2>8. QED
    BY <1>1, <2>6, <2>7 DEF HInv, Grouped, FirstGroup
<1>2. ASSUME HInv, Built, NEW t \in tasks
      PROVE  \E i \in DOMAIN job.outputs :
               Last(i) /\ t.preset = job.outputs[i].preset /\ t.target.file = job.outputs[i].file
  <2>1. next - 1 = Len(job.outputs) /\ DOMAIN job.outputs = 1 .. Len(job.outputs)
    BY <1>2, JobTyped DEF HInv, Typed, Collected, Built
  <2>2. t.preset \in Names /\ cfgs[t.preset] = t.target.file /\ cfgs[t.preset] # None
    BY <1>2, HybrikAssumption DEF HInv, Tasked
  <2>3. PICK i \in 1 .. next - 1 :
          /\ Of(i).preset = t.preset /\ Of(i).file = cfgs[t.preset]
          /\ \A j \in 1 .. next - 1 : j > i => Of(j).preset # t.preset
    BY <1>2, <2>2 DEF HInv, Collected
  <2>4. QED
    BY <2>1, <2>2, <2>3 DEF Last, Of
<1>3. HInv => OutputsKept
  BY <1>1, <1>2 DEF OutputsKept
<1>4. QED
  BY <1>3, Invariant, PTL

\* However the elements of a job are interleaved, and wherever they stop, the
\* packager has not run before what it packages.
THEOREM PackagedLastHolds == Spec => []PackagedLast
<1>1. ASSUME HInv, Packager \in ran
      PROVE  {TaskUID(t) : t \in tasks} \subseteq ran \/ DolbyVision \in ran
  <2>1. groups[1] \subseteq ran /\ FirstGroup
    BY <1>1 DEF HInv, Running, Grouped
  <2>2. QED
    BY <2>1 DEF FirstGroup
<1>2. HInv => PackagedLast
  BY <1>1 DEF PackagedLast
<1>3. QED
  BY <1>2, Invariant, PTL

\* For every preset, whichever modifiers it calls for: what one of them sets is
\* not undone by the others.
THEOREM TargetsFaithfulHolds == Spec => []TargetsFaithful
<1>1. ASSUME HInv, NEW t \in tasks
      PROVE  Faithful(t.target.video, t.target.container, Presets[t.preset])
  <2>1. PICK p : MadeOf(p, t)
    BY <1>1 DEF HInv, Tasked
  <2>2. t.preset \in Names /\ IsPreset(Presets[t.preset])
    BY <1>1, HybrikAssumption DEF HInv, Tasked
  <2>3. IsPreset(p) /\ \A v, c : Faithful(v, c, p) <=> Faithful(v, c, Presets[t.preset])
    BY <2>1, <2>2, WithoutAudioPreset DEF MadeOf
  <2>4. Faithful(t.target.video, t.target.container, p)
    BY <2>1, <2>3, TargetFaithful DEF MadeOf
  <2>5. QED
    BY <2>3, <2>4
<1>2. HInv => TargetsFaithful
  BY <1>1 DEF TargetsFaithful, Faithful, Bounded
<1>3. QED
  BY <1>2, Invariant, PTL

\* A job that is reported finished is reported with all its files, and no
\* report has a file that the request does not make.
THEOREM ReportWholeHolds == Spec => []ReportWhole
<1>1. HInv => ReportWhole
  BY DEF HInv, Reported
<1>2. QED
  BY <1>1, Invariant, PTL

-----------------------------------------------------------------------------
(* What the service is promised                                              *)

JobStatesAre ==
  /\ state = None => JobState = "none"
  /\ state = "queued" => JobState = "queued"
  /\ state \in {"waiting", "running"} => JobState = "running"
  /\ state = "completed" => JobState = "complete"
  /\ state = "failed" => JobState = "error"
  /\ state = "stopped" => JobState = "canceled"

LEMMA JobStates == state \in States \cup {None} => JobStatesAre
BY HybrikAssumption DEF States, JobState, JobStatesAre

LEMMA JobStatesNext == state' \in States \cup {None} => JobStatesAre'
BY HybrikAssumption DEF States, JobState, JobStatesAre

\* A status is true in whichever of the two calls it was asked for: what was
\* found to be an end when the result was asked for still is one.
LEMMA PromiseStep == HInv /\ HInv' /\ [Next]_vars => [Promise!JobNext]_(Promise!jobVars)
<1> SUFFICES ASSUME HInv, HInv', [Next]_vars PROVE [Promise!JobNext]_(Promise!jobVars)
  OBVIOUS
<1> USE DEF building, remote
<1>1. /\ state \in States \cup {None} /\ state' \in States \cup {None}
      /\ JobStatesAre /\ JobStatesAre'
  <2>1. state \in States \cup {None} /\ state' \in States \cup {None}
    BY DEF HInv, Running
  <2>2. QED
    BY <2>1, JobStates, JobStatesNext
<1>2. CASE UNCHANGED <<state, report>> /\ AnswerGiven' = AnswerGiven
  BY <1>2 DEF Promise!jobVars, JobState, Told
<1>3. CASE Transcode /\ ~QueueJob
  <2>1. /\ pc \in Before \cup {"connect", "package"}
        /\ pc' \notin {"answered", "result"} /\ UNCHANGED <<state, report>>
    BY <1>3 DEF Transcode, Locate, GetPreset, PickAssembler, KeyByFile, EndByFile, AddDefaultTask,
       AddLegacyTask, AddTask, EndTasks, Connect, Package, Before
  <2>2. state = None
    BY <2>1 DEF HInv, Running, Before
  <2>3. AnswerGiven = "none" /\ AnswerGiven' \in {"none", "error"}
    BY <2>1 DEF AnswerGiven, Before
  <2>4. JobState = "none" /\ JobState' = "none" /\ Told' = Told
    BY <1>1, <2>1, <2>2 DEF JobStatesAre, Told
  <2>5. QED
    BY <2>3, <2>4 DEF Promise!JobNext, Promise!Fail, Promise!jobVars
<1>4. CASE QueueJob
  <2>1. /\ pc = "queue" /\ UNCHANGED report
        /\ \/ pc' = "answered" /\ state' = "queued"
           \/ pc' = "failed" /\ state' \in {None, "queued"}
    BY <1>4 DEF QueueJob
  <2>2. state = None
    BY <2>1 DEF HInv, Running, Before
  <2>3. AnswerGiven = "none" /\ JobState = "none" /\ Told' = Told
    BY <1>1, <2>1, <2>2 DEF JobStatesAre, AnswerGiven, Told
  <2>4. \/ AnswerGiven' = "ok" /\ JobState' = "queued"
        \/ AnswerGiven' = "error" /\ JobState' \in {"none", "queued"}
    BY <1>1, <2>1 DEF JobStatesAre, AnswerGiven
  <2>5. QED
    BY <2>3, <2>4 DEF Promise!JobNext, Promise!Start, Promise!Fail
<1>5. CASE Hybrik \/ CancelJob
  <2>1. /\ UNCHANGED <<pc, report>>
        /\ \/ UNCHANGED state
           \/ state = "queued" /\ state' \in {"waiting", "failed"}
           \/ state \in {"waiting", "running"} /\ state' \in {"running", "completed", "failed"}
           \/ /\ pc = "answered"
              /\ state \in {"queued", "waiting", "running"} /\ state' = "stopped"
    BY <1>5 DEF Hybrik, Activate, Stumble, RunElement, CancelJob
  <2>2. AnswerGiven' = AnswerGiven /\ Told' = Told /\ (pc = "answered" => AnswerGiven = "ok")
    BY <2>1 DEF AnswerGiven, Told
  <2>3. \/ JobState' = JobState
        \/ JobState = "queued" /\ JobState' \in {"running", "error"}
        \/ JobState = "running" /\ JobState' \in {"complete", "error"}
        \/ pc = "answered" /\ JobState \in {"queued", "running"} /\ JobState' = "canceled"
    BY <1>1, <2>1 DEF JobStatesAre, JobState
  <2>4. QED
    BY <2>2, <2>3 DEF Promise!JobNext, Promise!Advance, Promise!Stop, Promise!Live, Promise!Onward,
       Promise!Stopped, Promise!jobVars
<1>6. CASE AskInfo
  <2>1. /\ pc = "answered" /\ pc' \in {"answered", "result"} /\ UNCHANGED state
        /\ report'.status = StatusFrom(state)
    BY <1>6 DEF AskInfo
  <2>2. state \in States
    BY <1>1, <2>1 DEF HInv, Running
  <2>3. StatusFrom(state) = Promise!StatusOf[JobState]
    BY <1>1, <2>2 DEF States, JobStatesAre, StatusFrom, Promise!StatusOf
  <2>4. Told' \in {"none", Promise!StatusOf[JobState]}
    BY <2>1, <2>3 DEF Told
  <2>5. AnswerGiven = "ok" /\ UNCHANGED <<AnswerGiven, JobState>>
    BY <2>1 DEF AnswerGiven, JobState
  <2>6. QED
    BY <2>4, <2>5 DEF Promise!JobNext, Promise!Ask, Promise!Tell
<1>7. CASE AskResult
  <2>1. /\ pc = "result" /\ pc' = "answered" /\ UNCHANGED state
        /\ report' = None \/ report'.status = report.status
    BY <1>7 DEF AskResult, HInv, Reported
  <2>3. \/ report.status = "finished" /\ state = "completed"
        \/ report.status = "failed" /\ state = "failed"
    BY <2>1 DEF HInv, Reported
  <2>4. report.status = Promise!StatusOf[JobState]
    BY <1>1, <2>3 DEF JobStatesAre, Promise!StatusOf
  <2>5. Told' \in {"none", Promise!StatusOf[JobState]}
    BY <2>1, <2>4 DEF Told
  <2>6. AnswerGiven = "ok" /\ UNCHANGED <<AnswerGiven, JobState>>
    BY <2>1 DEF AnswerGiven, JobState
  <2>7. QED
    BY <2>5, <2>6 DEF Promise!JobNext, Promise!Ask, Promise!Tell
<1>8. CASE \E n \in Deletable : DeletePreset(n)
  BY <1>2, <1>8 DEF DeletePreset, AnswerGiven
<1>9. CASE UNCHANGED vars
  BY <1>2, <1>9 DEF vars, AnswerGiven
<1>10. QED
  BY <1>3, <1>4, <1>5, <1>6, <1>7, <1>8, <1>9 DEF Next

\* For any presets, jobs and failures hybrik keeps what a provider promises:
\* an acknowledged job exists, one that ended stays as it is, and the status
\* told is that of its state, although two calls are made for it.
THEOREM PromiseKeptHolds == Spec => PromiseKept
<1>1. Init => Promise!JobInit
  BY HybrikAssumption DEF Init, Promise!JobInit, JobState, AnswerGiven, Told, States
<1>2. QED
  BY <1>1, PromiseStep, Invariant, PTL DEF Spec, PromiseKept, Promise!JobSpec
-----------------------------------------------------------------------------
(* What the end of a job rests on                                            *)

\* Hybrik ends a job with the last of its elements: one that it may still run
\* has an element that has not.
Unfinished == state \in {"queued", "waiting", "running"} => ran # Elements

\* A running job has an element that hybrik can run next: whatever has run, what
\* is left does not wait for itself.
SomeReady == state = "running" => \E u \in Elements : Ready(u)

LEMMA UnfinishedStep == HInv /\ Unfinished /\ [Next]_vars => Unfinished'
<1> DEFINE open == {"queued", "waiting", "running"}
<1> SUFFICES ASSUME HInv, Unfinished, [Next]_vars, state' \in open
             PROVE  ran' # Elements'
  BY DEF Unfinished
<1>1. CASE state = None
  <2>1. ran = {} /\ pc \notin {"answered", "result"}
    BY <1>1 DEF HInv, Running
  <2>2. ran' = ran
    BY <1>1, <2>1, HybrikAssumption
    DEF Next, Transcode, Locate, GetPreset, PickAssembler, KeyByFile, EndByFile, AddDefaultTask,
        AddLegacyTask, AddTask, EndTasks, Connect, Package, QueueJob, Hybrik, Activate, RunElement,
        Stumble, CancelJob, AskInfo, AskResult, DeletePreset, States, remote, vars
  <2>3. Source' \in Elements'
    BY DEF Elements
  <2>4. QED
    BY <2>1, <2>2, <2>3
<1>2. CASE state # None
  <2>1. pc \in {"answered", "result", "failed"}
    BY <1>2 DEF HInv, Running
  <2>2. UNCHANGED groups
    BY <2>1
    DEF Next, Transcode, Locate, GetPreset, PickAssembler, KeyByFile, EndByFile, AddDefaultTask,
        AddLegacyTask, EndTasks, Connect, Package, QueueJob, Hybrik, Activate, RunElement,
        Stumble, CancelJob, AskInfo, AskResult, DeletePreset, building, vars
  <2>3. Elements' = Elements
    BY <2>2 DEF Elements, Source
  <2>4. CASE \E u \in Elements : RunElement(u)
    <3>1. ran' = Elements' => state' = "completed"
      BY <2>3, <2>4 DEF RunElement
    <3>2. QED
      BY <3>1
  <2>5. CASE ~\E u \in Elements : RunElement(u)
    <3>1. ran' = ran /\ state \in open
      BY <2>1, <2>5
      DEF Next, Transcode, Locate, GetPreset, PickAssembler, KeyByFile, EndByFile, AddDefaultTask,
          AddLegacyTask, EndTasks, Connect, Package, QueueJob, Hybrik, Activate,
          Stumble, CancelJob, AskInfo, AskResult, DeletePreset, remote, vars
    <3>2. QED
      BY <2>3, <3>1 DEF Unfinished
  <2>6. QED
    BY <2>4, <2>5
<1>3. QED
  BY <1>1, <1>2

\* Whatever presets, outputs and packaging a job has, and in whichever order its
\* elements run, hybrik is never left with elements that wait for ever.
THEOREM SomeReadyHolds == Spec => [](Unfinished /\ SomeReady)
<1>1. Init => Unfinished
  BY HybrikAssumption DEF Init, Unfinished, States
<1>2. ASSUME HInv, Unfinished, state = "running"
      PROVE  \E u \in Elements : Ready(u)
  <2>1. /\ ran \subseteq Elements /\ ran # Elements /\ state # None
        /\ Packager \in ran => groups[1] \subseteq ran
    BY <1>2, HybrikAssumption DEF HInv, Running, Unfinished, States
  <2>2. /\ Elements = {Source} \cup groups[1] \cup (IF Packaged THEN {Packager} ELSE {})
        /\ Source \notin groups[1] /\ Packager \notin groups[1]
    BY <1>2, <2>1, ElementsMade
  <2>3. connections = ({Source} \X groups[1]) \cup (IF Packaged THEN groups[1] \X {Packager} ELSE {})
    BY <1>2, <2>1 DEF HInv, Grouped, Last2
  <2>4. CASE Source \notin ran
    <3>1. \A c \in connections : c[2] # Source
      BY <2>2, <2>3, UIDsDiffer
    <3>2. QED
      BY <2>2, <2>4, <3>1 DEF Ready
  <2>5. CASE Source \in ran /\ \E v \in groups[1] : v \notin ran
    <3>1. PICK v \in groups[1] : v \notin ran
      BY <2>5
    <3>2. <<Source, v>> \in connections /\ <<Source, v>>[2] = v
      BY <2>3
    <3>3. \A c \in connections : c[2] = v => c[1] = Source
      BY <2>2, <2>3
    <3>4. QED
      BY <2>2, <2>5, <3>1, <3>2, <3>3 DEF Ready
  <2>6. CASE Source \in ran /\ groups[1] \subseteq ran
    <3>1. Packaged /\ Packager \notin ran
      BY <2>1, <2>2, <2>6
    <3>2. \A c \in connections : c[2] = Packager => c[1] \in ran
      BY <2>2, <2>3, <2>6, UIDsDiffer
    <3>3. groups[1] # {}
      BY <1>2, <2>1 DEF HInv, Grouped, FirstGroup
    <3>4. PICK v : v \in groups[1]
      BY <3>3
    <3>5. <<v, Packager>> \in connections /\ <<v, Packager>>[2] = Packager
      BY <2>3, <3>1, <3>4
    <3>6. QED
      BY <2>2, <3>1, <3>2, <3>5 DEF Ready
  <2>7. QED
    BY <2>4, <2>5, <2>6
<1>3. HInv /\ Unfinished => SomeReady
  BY <1>2 DEF SomeReady
<1>4. QED
  BY <1>1, <1>3, UnfinishedStep, InitHInv, Inductive, PTL DEF Spec
=============================================================================
