--------------------------- MODULE BitmovinStatus ---------------------------
(***************************************************************************)
(* A job of bitmovin from Transcode to its report: the containers of the   *)
(* outputs, with the HLS playlist that their assemblers fill while the     *)
(* goroutines of Transcode run, the encoding at bitmovin, CancelJob, and a *)
(* call of JobStatus, which asks bitmovin page by page what it has made.   *)
(*                                                                         *)
(* An action of JobStatus is one call of bitmovin's API.                   *)
(***************************************************************************)
EXTENDS BitmovinTranscode

CONSTANTS
  Jobs,    \* the containers the presets of a job may name, by output
  Limit    \* the number of muxings in a page: 100 in the code

\* Containers with one file for an output, and those with segments and a playlist.
Progressive == {"webm", "mp4", "mov"}
Segmented   == {"m3u8", "cmafhls"}
Services    == Progressive \cup Segmented

ASSUME StatusAssumption ==
  /\ IsFiniteSet(Outputs)
  /\ Jobs \subseteq [Outputs -> Services \cup {"unknown"}]
  /\ Limit \in Nat \ {0}
  /\ APIMayFail     \* bitmovin may always refuse; a container may be unknown

VARIABLES
  container,  \* the container of each output's preset
  playlist,   \* <<o, kind>>: the entries of the HLS manifest
  task,       \* the encoding's status at bitmovin
  step,       \* the next step of JobStatus
  status,     \* s.Status
  todo,       \* the services whose enricher is still to run
  listing,    \* the muxings of the service at work, in bitmovin's order
  muxings,    \* those fetched and not yet described
  files,      \* how many entries of s.Output.Files are of each output
  manifest    \* whether s.ProviderStatus names the manifest's status

job    == <<container, playlist, task>>
report == <<step, status, todo, listing, muxings, files, manifest>>
all    == <<vars, job, report>>

Tasks == {"CREATED", "QUEUED", "RUNNING", "FINISHED", "ERROR", "CANCELED"}
Steps == {"idle", "source", "next", "list", "describe", "answered", "failed"}

\* Transcode creates a manifest only for presets that say m3u8.
HasManifest == \E o \in Outputs : container[o] = "m3u8"

Entries(o) == (({o} \cap WithAudio) \X {"audio"}) \cup (({o} \cap WithVideo) \X {"video"})

AllEntries == UNION {Entries(o) : o \in {p \in Outputs : container[p] \in Segmented}}

ReportTypeOK ==
  /\ container \in Jobs
  /\ playlist \in SUBSET AllEntries
  /\ task \in Tasks
  /\ step \in Steps
  /\ status \in {"unknown", "queued", "started", "finished", "failed", "canceled"}
  /\ todo \in SUBSET Services
  /\ listing \in Seq(Outputs)
  /\ muxings \in Seq(Outputs)
  /\ files \in [Outputs -> Nat]
  /\ manifest \in BOOLEAN

StatusInit ==
  /\ Init
  /\ container \in Jobs
  /\ playlist = {} /\ task = "CREATED"
  /\ step = "idle" /\ status = "unknown"
  /\ todo = {} /\ listing = <<>> /\ muxings = <<>>
  /\ files = [o \in Outputs |-> 0] /\ manifest = FALSE

-----------------------------------------------------------------------------
(* Transcode *)

\* Seeded fault: the picture is entered before the sound it refers to.
WrittenInAnyOrder(o) == SUBSET Entries(o)

\* What an Assemble that fails may leave: the sound comes before the picture.
Written(o) ==
  {E \in SUBSET Entries(o) :
     <<o, "video">> \in E /\ o \in WithAudio => <<o, "audio">> \in E}

\* AddMuxing, with what it adds to the playlist: containerServicesFrom knows no
\* other container, and bitmovin adds no entry to a manifest without an id.
Assemble(o) ==
  LET enters == container[o] \in Segmented /\ Entries(o) # {} IN
  /\ AddMuxing(o)
  /\ \/ /\ out'[o] = "leave"
        /\ container[o] \in Services
        /\ enters => HasManifest
        /\ playlist' = playlist \cup (IF enters THEN Entries(o) ELSE {})
     \/ /\ out'[o] = "send"
        /\ container[o] \notin Services => muxed' = muxed
        /\ \E E \in Written(o) :
             playlist' = playlist \cup (IF enters /\ HasManifest THEN E ELSE {})
  /\ UNCHANGED <<container, task, report>>

\* What else happens in Transcode.
Elsewhere ==
  /\ \/ Main \/ Splice \/ Close
     \/ \E o \in Outputs : AddAudio(o) \/ AddVideo(o) \/ Leave(o)
  /\ UNCHANGED <<job, report>>

-----------------------------------------------------------------------------
(* The encoding at bitmovin *)

After == [CREATED |-> {"QUEUED"}, QUEUED |-> {"RUNNING", "ERROR"},
          RUNNING |-> {"FINISHED", "ERROR"}]

Advance ==
  /\ encoding = "running" /\ task \in DOMAIN After
  /\ task' \in After[task]
  /\ UNCHANGED <<vars, container, playlist, report>>

\* Encodings.Stop, for a client that knows the job.
CancelJob ==
  /\ answer = "ok" /\ task \in DOMAIN After
  /\ task' = "CANCELED"
  /\ UNCHANGED <<vars, container, playlist, report>>

-----------------------------------------------------------------------------
(* JobStatus *)

\* Seeded fault: the status is passed on as bitmovin spells it.
RawStatus(s) == s

ToProviderStatus(s) ==
  CASE s \in {"CREATED", "QUEUED"} -> "queued"
    [] s = "RUNNING"  -> "started"
    [] s = "FINISHED" -> "finished"
    [] s = "ERROR"    -> "failed"
    [] s = "CANCELED" -> "canceled"
    [] OTHER -> "unknown"

\* Any call may fail; the answer is then an error, whatever was gathered.
GiveUp ==
  /\ APIMayFail /\ step' = "failed"
  /\ UNCHANGED <<status, todo, listing, muxings, files, manifest>>

AskStatus ==
  /\ answer = "ok" /\ step = "idle"
  /\ \/ /\ status' = ToProviderStatus(task)
        /\ step' = IF status' = "finished" THEN "source" ELSE "answered"
        /\ UNCHANGED <<todo, listing, muxings, files, manifest>>
     \/ GiveUp
  /\ UNCHANGED <<vars, job>>

\* The first stream tells the source; an encoding with none is an error.
EnrichSourceInfo ==
  /\ step = "source"
  /\ \/ /\ streams # {}
        /\ step' = "next" /\ todo' = Services
        /\ UNCHANGED <<status, listing, muxings, files, manifest>>
     \/ GiveUp
  /\ UNCHANGED <<vars, job>>

\* The services come in any order: a map of Go is ranged over.
EnrichPlaylist(c) ==
  /\ step = "next" /\ c \in todo \cap Segmented
  /\ \/ /\ manifest' = (manifest \/ HasManifest)
        /\ todo' = todo \ {c}
        /\ UNCHANGED <<step, status, listing, muxings, files>>
     \/ GiveUp
  /\ UNCHANGED <<vars, job>>

Orderings(S) ==
  {l \in [1 .. Cardinality(S) -> S] :
     /\ \A x \in S : \E i \in DOMAIN l : l[i] = x
     /\ \A i, j \in DOMAIN l : l[i] = l[j] => i = j}

\* The muxings of a container do not change any more, nor does their order.
EnrichFiles(c) ==
  /\ step = "next" /\ c \in todo \cap Progressive
  /\ step' = "list" /\ todo' = todo \ {c}
  /\ listing' \in Orderings({o \in muxed : container[o] = c})
  /\ muxings' = <<>>
  /\ UNCHANGED <<vars, job, status, files, manifest>>

\* Seeded fault: every page is asked for from the start.
FirstPage(l, offset) ==
  SubSeq(l, 1, IF Limit < Len(l) THEN Limit ELSE Len(l))

Page(l, offset) ==
  SubSeq(l, offset + 1, IF offset + Limit < Len(l) THEN offset + Limit ELSE Len(l))

\* Seeded fault: one page more is awaited than there is.
MoreOrFull(fetched, total) == fetched <= total

More(fetched, total) == fetched < total

\* Each reply brings the total; the first is asked for in any case.
List ==
  /\ step = "list"
  /\ \/ /\ muxings' = muxings \o Page(listing, Len(muxings))
        /\ step' = IF More(Len(muxings'), Len(listing)) THEN "list"
                   ELSE IF muxings' = <<>> THEN "next" ELSE "describe"
        /\ UNCHANGED <<status, todo, listing, files, manifest>>
     \/ GiveUp
  /\ UNCHANGED <<vars, job>>

\* Information.Get, and the file it describes.
Describe ==
  /\ step = "describe"
  /\ \/ /\ files' = [files EXCEPT ![Head(muxings)] = @ + 1]
        /\ muxings' = Tail(muxings)
        /\ step' = IF muxings' = <<>> THEN "next" ELSE "describe"
        /\ UNCHANGED <<status, todo, listing, manifest>>
     \/ GiveUp
  /\ UNCHANGED <<vars, job>>

Answer ==
  /\ step = "next" /\ todo = {}
  /\ step' = "answered"
  /\ UNCHANGED <<vars, job, status, todo, listing, muxings, files, manifest>>

Enrich ==
  \/ EnrichSourceInfo \/ List \/ Describe \/ Answer
  \/ \E c \in Services : EnrichPlaylist(c) \/ EnrichFiles(c)

-----------------------------------------------------------------------------
StatusNext ==
  Elsewhere \/ (\E o \in Outputs : Assemble(o)) \/ Advance \/ CancelJob
  \/ AskStatus \/ Enrich

\* A step of JobStatus that bitmovin did not refuse.
Answered == Enrich /\ (step' = "failed" => streams = {})

\* The goroutines of Transcode are scheduled.  A client may never ask, but the
\* handler of one that asked goes on, and no refusal is needed to end it.
StatusSpec ==
  StatusInit /\ [][StatusNext]_all /\ Fairness /\ WF_all(Answered)

-----------------------------------------------------------------------------
(* Properties *)

\* A status of finished reports one file for each output in a container of one
\* file, none twice however the pages fall, and the manifest of every playlist
\* (bitmovin.go:692-712, mp4.go:52-94).
ReportComplete ==
  step = "answered" /\ status = "finished" =>
    /\ files = [o \in Outputs |-> IF container[o] \in Progressive THEN 1 ELSE 0]
    /\ playlist # {} => manifest

\* A picture in the playlist never refers to a sound that is not there, and a
\* running encoding has every entry (hls.go:34-90, cmaf.go:28-89).
PlaylistWhole ==
  /\ \A o \in WithAudio : <<o, "video">> \in playlist => <<o, "audio">> \in playlist
  /\ encoding = "running" => playlist = AllEntries

\* The job as the service can tell: an encoding is one when it has been started.
JobState ==
  IF encoding # "running" THEN "none"
  ELSE CASE task \in {"CREATED", "QUEUED"} -> "queued" [] task = "RUNNING" -> "running"
         [] task = "FINISHED" -> "complete" [] task = "ERROR" -> "error" [] task = "CANCELED" -> "canceled"

Promise == INSTANCE ProviderJob
  WITH Canceled <- "canceled", state <- JobState, answer <- answer,
       told <- IF step = "answered" THEN status ELSE "none"

\* bitmovin keeps what TranscodingProvider promises the service: its goroutines
\* start no job after an error was returned, and a status that many calls were
\* made for is true when it is told.
PromiseKept == Promise!JobSpec

\* JobStatus returns: its loops over pages and muxings end.
JobStatusReturns == step # "idle" ~> step \in {"answered", "failed"}
=============================================================================
