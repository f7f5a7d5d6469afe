----------------------- MODULE BitmovinStatus_proofs -----------------------
(* Proofs about BitmovinStatus, for every job: any number of outputs, of   *)
(* any containers, any size of the pages, whichever calls fail.  What is   *)
(* proved of Transcode holds here too (Composed), and is used.             *)
EXTENDS BitmovinStatus, BitmovinTranscode_proofs, FiniteSetTheorems, SequenceTheorems

\* The muxings of a service.
Of(c) == {o \in muxed : container[o] = c}

\* How many files of output o there are once the enrichers but those of S have run.
FilesBut(S) == [o \in Outputs |-> IF container[o] \in Progressive \ S THEN 1 ELSE 0]

\* The same while the k first muxings of service c have been described.
FilesUpTo(S, c, k) ==
  [o \in Outputs |-> IF container[o] \in Progressive \ (S \cup {c}) THEN 1
                     ELSE IF \E i \in 1 .. k : listing[i] = o THEN 1 ELSE 0]

\* What the goroutines have entered in the playlist.
PlaylistInv ==
  /\ playlist # {} => HasManifest
  /\ \A o \in WithAudio : <<o, "video">> \in playlist => <<o, "audio">> \in playlist
  /\ \A o \in Outputs : container[o] \in Segmented /\ out[o] \in {"leave", "done"} =>
       Entries(o) \subseteq playlist \/ answer = "error"
  /\ encoding = "running" => playlist = AllEntries

\* A service at work: its muxings in an order, some fetched, some described.
AtWork(c) ==
  /\ c \in Progressive \ todo
  /\ listing \in Orderings(Of(c))
  /\ step = "list" =>
       /\ Len(muxings) \in 0 .. Len(listing)
       /\ muxings = SubSeq(listing, 1, Len(muxings))
       /\ files = FilesUpTo(todo, c, 0)
  /\ step = "describe" =>
       \E k \in 0 .. Len(listing) - 1 :
         /\ muxings = SubSeq(listing, k + 1, Len(listing))
         /\ files = FilesUpTo(todo, c, k)

\* What is known of JobStatus at each of its steps.
ReportInv ==
  /\ answer = "ok" => encoding = "running"
  /\ step # "idle" => answer = "ok"
  /\ step \in {"idle", "source"} => files = FilesBut(Progressive)
  /\ step \in {"source", "next", "list", "describe"} => status = "finished"
  /\ step \in {"next", "list", "describe", "answered"} /\ status = "finished" =>
       (todo \cap Segmented = {} => (HasManifest => manifest))
  /\ step = "next" => files = FilesBut(todo)
  /\ step \in {"list", "describe"} => \E c \in Services : AtWork(c)
  /\ step = "answered" /\ status = "finished" => todo = {} /\ files = FilesBut({})

SInv == ReportTypeOK /\ PlaylistInv /\ ReportInv

-----------------------------------------------------------------------------
(* Operators *)

LEMMA OrderingsFinite ==
  ASSUME NEW S \in SUBSET Outputs, NEW l \in Orderings(S)
  PROVE  /\ l \in Seq(Outputs) /\ Len(l) = Cardinality(S) /\ Len(l) \in Nat
         /\ DOMAIN l = 1 .. Len(l)
         /\ \A x \in S : \E i \in 1 .. Len(l) : l[i] = x
         /\ \A i \in 1 .. Len(l) : l[i] \in S
         /\ \A i, j \in 1 .. Len(l) : l[i] = l[j] => i = j
<1>1. IsFiniteSet(S)
  BY FS_Subset, StatusAssumption
<1>2. Cardinality(S) \in Nat
  BY <1>1, FS_CardinalityType
<1>3. l \in [1 .. Cardinality(S) -> S]
  BY DEF Orderings
<1>4. l \in Seq(S)
  BY <1>2, <1>3
<1>5. Len(l) = Cardinality(S)
  BY <1>2, <1>3, <1>4
<1>6. l \in Seq(Outputs)
  BY <1>2, <1>3
<1>7. QED
  BY <1>2, <1>3, <1>5, <1>6 DEF Orderings

\* A page goes on where the last one ended: what was fetched stays a prefix.
LEMMA PageContinues ==
  ASSUME NEW l \in Seq(Outputs), NEW n \in 0 .. Len(l)
  PROVE  \E m \in n .. Len(l) :
           /\ SubSeq(l, 1, n) \o Page(l, n) = SubSeq(l, 1, m)
           /\ Len(SubSeq(l, 1, m)) = m
           /\ m < Len(l) => n < m
<1> DEFINE m == IF n + Limit < Len(l) THEN n + Limit ELSE Len(l)
<1>1. Limit \in Nat \ {0} /\ Len(l) \in Nat /\ n \in Nat
  BY StatusAssumption
<1>2. m \in n .. Len(l)
  BY <1>1
<1>3. Page(l, n) = SubSeq(l, n + 1, m)
  BY DEF Page
<1>4. SubSeq(l, 1, n) \o SubSeq(l, n + 1, m) = SubSeq(l, 1, m)
  <2>1. 1 \in 1 .. Len(l) + 1 /\ n \in (1 - 1) .. Len(l)
    BY <1>1
  <2>2. QED
    BY <1>2, <2>1, ConcatAdjacentSubSeq
<1>5. Len(SubSeq(l, 1, m)) = m
  BY <1>1, <1>2, SubSeqProperties
<1>6. m < Len(l) => n < m
  BY <1>1
<1>7. QED
  BY <1>2, <1>3, <1>4, <1>5, <1>6

-----------------------------------------------------------------------------
(* Transcode goes on as it did alone *)

LEMMA StepsCompose == [StatusNext]_all => [Next]_vars
BY DEF StatusNext, Elsewhere, Assemble, Advance, CancelJob, AskStatus, Enrich, EnrichSourceInfo,
       List, Describe, Answer, EnrichPlaylist, EnrichFiles, Next, Output, all

\* A job's JobStatus, CancelJob and containers leave Transcode what it is: all
\* that is proved of BitmovinTranscode holds of the composition.
THEOREM Composed == StatusSpec => Spec
<1>1. StatusInit => Init
  BY DEF StatusInit
<1>2. [StatusNext]_all => [Next]_vars
  BY StepsCompose
<1>3. QED
  BY <1>1, <1>2, PTL DEF StatusSpec, Spec

LEMMA Progress == StatusSpec => []TInv
BY Composed, Inductive, PTL

-----------------------------------------------------------------------------
(* The steps of Transcode *)

LEMMA EntriesType ==
  ASSUME NEW o \in Outputs
  PROVE  /\ Entries(o) \subseteq Outputs \X Kinds
         /\ \A p, k : <<p, k>> \in Entries(o) => p = o
         /\ <<o, "video">> \in Entries(o) /\ o \in WithAudio => <<o, "audio">> \in Entries(o)
BY TranscodeAssumption DEF Entries, Kinds

LEMMA EntriesSame ==
  UNCHANGED container => /\ AllEntries' = AllEntries /\ HasManifest' = HasManifest
                         /\ \A o \in Outputs : Entries(o)' = Entries(o)
BY DEF AllEntries, HasManifest, Entries

\* What a step of Transcode other than Assemble does to the steps of the outputs,
\* the answer and the encoding.
Effect ==
  /\ \A o \in Outputs : out'[o] \in {"leave", "done"} =>
       out[o] \in {"leave", "done"} \/ answer' = "error"
  /\ answer # "none" => answer' = answer
  /\ encoding = "running" => encoding' = "running"
  /\ encoding # "running" /\ encoding' = "running" => main = "start" /\ UNCHANGED out
  /\ answer' = "ok" /\ answer # "ok" => encoding' = "running"
  /\ muxed' = muxed

LEMMA ElsewhereEffect == ASSUME TInv, Elsewhere PROVE Effect
<1> USE DEF TInv, Typed, MainInv, Effect
<1>1. CASE Prepare \/ CreateEncoding \/ Ingest \/ SpawnTrims \/ Collect \/ Concatenate
  BY <1>1 DEF Prepare, CreateEncoding, Ingest, SpawnTrims, Collect, Concatenate, Go, Return, outputs
<1>2. ASSUME NEW o \in Outputs, SpawnOutput(o) PROVE Effect
  <2>1. NextPart(o, {}) \notin {"leave", "done"}
    BY NextPartType
  <2>2. out' = [out EXCEPT ![o] = NextPart(o, {})]
    BY <1>2 DEF SpawnOutput
  <2>3. \A p \in Outputs : out'[p] \in {"leave", "done"} => out[p] \in {"leave", "done"}
    BY <2>1, <2>2
  <2>4. UNCHANGED <<answer, encoding, muxed>>
    BY <1>2 DEF SpawnOutput
  <2>5. QED
    BY <2>3, <2>4
<1>3. CASE SpawnCloser \/ EndDrain \/ Close
  BY <1>3 DEF SpawnCloser, EndDrain, Close, Go, outputs
<1>4. ASSUME NEW o \in Outputs, Receive(o) PROVE Effect
  BY <1>4 DEF Receive, Return, Go
<1>5. CASE Start
  BY <1>5 DEF Start, Return, Go, outputs
<1>6. CASE Splice
  BY <1>6 DEF Splice, Trim, outputs
<1>7. ASSUME NEW o \in Outputs, AddAudio(o) \/ AddVideo(o) PROVE Effect
  <2>1. \A d : NextPart(o, d) \notin {"leave", "done"}
    BY NextPartType
  <2>2. \E x : x \notin {"leave", "done"} /\ out' = [out EXCEPT ![o] = x]
    BY <1>7, <2>1 DEF AddAudio, AddVideo, AddStream, Fail
  <2>3. \A p \in Outputs : out'[p] \in {"leave", "done"} => out[p] \in {"leave", "done"}
    BY <2>2
  <2>4. UNCHANGED <<answer, encoding, muxed>>
    BY <1>7 DEF AddAudio, AddVideo, AddStream, Fail
  <2>5. QED
    BY <2>3, <2>4
<1>8. ASSUME NEW o \in Outputs, Leave(o) PROVE Effect
  BY <1>8 DEF Leave
<1>9. QED
  BY <1>1, <1>2, <1>3, <1>4, <1>5, <1>6, <1>7, <1>8 DEF Elsewhere, Main

\* A step of an output that is at its muxing: it is not done, and goes nowhere else.
LEMMA AssembleEffect ==
  ASSUME TInv, NEW o \in Outputs, AddMuxing(o)
  PROVE  /\ out' = [out EXCEPT ![o] = out'[o]] /\ out[o] = "mux"
         /\ out'[o] \in {"leave", "send"}
         /\ UNCHANGED <<answer, encoding>> /\ encoding # "running"
BY DEF AddMuxing, Fail, TInv, Typed, RunningInv

\* What an Assemble enters: whole, or the sound first.
LEMMA AssembleEnters ==
  ASSUME NEW o \in Outputs, Assemble(o)
  PROVE  \E E \in Written(o) :
           /\ playlist' = playlist \cup E
           /\ E # {} => HasManifest /\ container[o] \in Segmented
           /\ out'[o] = "leave" /\ container[o] \in Segmented => E = Entries(o)
<1>1. Entries(o) \in Written(o) /\ {} \in Written(o)
  BY EntriesType DEF Written
<1>2. CASE out'[o] = "leave" /\ container[o] \in Segmented /\ Entries(o) # {}
  <2>1. playlist' = playlist \cup Entries(o) /\ HasManifest
    BY <1>2 DEF Assemble
  <2>2. QED
    BY <1>1, <1>2, <2>1
<1>3. CASE out'[o] = "leave" /\ ~(container[o] \in Segmented /\ Entries(o) # {})
  <2>1. playlist' = playlist \cup {}
    BY <1>3 DEF Assemble
  <2>2. QED
    BY <1>1, <1>3, <2>1
<1>4. CASE out'[o] # "leave"
  <2>1. PICK E \in Written(o) :
          playlist' = playlist \cup
            (IF (container[o] \in Segmented /\ Entries(o) # {}) /\ HasManifest THEN E ELSE {})
    BY <1>4 DEF Assemble
  <2>2. CASE container[o] \in Segmented /\ Entries(o) # {} /\ HasManifest
    BY <1>4, <2>1, <2>2
  <2>3. CASE ~(container[o] \in Segmented /\ Entries(o) # {} /\ HasManifest)
    BY <1>1, <1>4, <2>1, <2>3
  <2>4. QED
    BY <2>2, <2>3
<1>5. QED
  BY <1>2, <1>3, <1>4

LEMMA AssemblePlaylist ==
  ASSUME TInv, ReportTypeOK, PlaylistInv, NEW o \in Outputs, Assemble(o)
  PROVE  PlaylistInv' /\ playlist' \in SUBSET AllEntries
<1>1. PICK E \in Written(o) :
        /\ playlist' = playlist \cup E
        /\ E # {} => HasManifest /\ container[o] \in Segmented
        /\ out'[o] = "leave" /\ container[o] \in Segmented => E = Entries(o)
  BY AssembleEnters
<1>2. AddMuxing(o) /\ UNCHANGED container
  BY DEF Assemble
<1>3. /\ out' = [out EXCEPT ![o] = out'[o]] /\ out[o] = "mux"
      /\ out'[o] \in {"leave", "send"}
      /\ UNCHANGED <<answer, encoding>> /\ encoding # "running"
  BY <1>2, AssembleEffect
<1>4. E \subseteq Entries(o)
  BY DEF Written
<1>5. playlist' \in SUBSET AllEntries
  BY <1>1, <1>4 DEF ReportTypeOK, AllEntries
<1>6. (playlist # {} => HasManifest)'
  BY <1>1, <1>2, EntriesSame DEF PlaylistInv
<1>7. ASSUME NEW p \in WithAudio, <<p, "video">> \in playlist'
      PROVE  <<p, "audio">> \in playlist'
  <2>1. CASE <<p, "video">> \in playlist
    BY <1>1, <2>1, <1>7 DEF PlaylistInv
  <2>2. CASE <<p, "video">> \in E
    <3>1. p = o
      BY <1>4, <2>2, EntriesType, TranscodeAssumption
    <3>2. <<o, "audio">> \in E
      BY <2>2, <3>1, <1>7 DEF Written
    <3>3. QED
      BY <1>1, <3>1, <3>2
  <2>3. QED
    BY <1>1, <1>7, <2>1, <2>2
<1>8. ASSUME NEW p \in Outputs, container[p] \in Segmented, out'[p] \in {"leave", "done"}
      PROVE  Entries(p) \subseteq playlist' \/ answer' = "error"
  <2>1. CASE p = o
    BY <1>1, <1>3, <1>8, <2>1
  <2>2. CASE p # o
    <3>1. out'[p] = out[p]
      BY <1>3, <2>2 DEF TInv, Typed
    <3>2. QED
      BY <1>1, <1>3, <1>8, <3>1 DEF PlaylistInv
  <2>3. QED
    BY <2>1, <2>2
<1>9. QED
  BY <1>2, <1>3, <1>5, <1>6, <1>7, <1>8, EntriesSame DEF PlaylistInv

LEMMA ElsewherePlaylist ==
  ASSUME TInv, ReportTypeOK, PlaylistInv, Elsewhere
  PROVE  PlaylistInv'
<1>1. Effect /\ UNCHANGED <<container, playlist>>
  BY ElsewhereEffect DEF Elsewhere, job
<1>2. ASSUME NEW o \in Outputs, container[o] \in Segmented, out'[o] \in {"leave", "done"}
      PROVE  Entries(o) \subseteq playlist \/ answer' = "error"
  BY <1>1, <1>2 DEF PlaylistInv, Effect
<1>3. ASSUME encoding # "running", encoding' = "running"
      PROVE  playlist = AllEntries
  <2>1. main = "start" /\ closer = "done" /\ answer = "none"
    BY <1>1, <1>3 DEF Effect, TInv, MainInv, Typed
  <2>2. \A o \in Outputs : out[o] = "done"
    BY <2>1, ClosedMeansDone
  <2>3. \A o \in Outputs : container[o] \in Segmented => Entries(o) \subseteq playlist
    BY <2>1, <2>2 DEF PlaylistInv
  <2>4. AllEntries \subseteq playlist
    BY <2>3 DEF AllEntries
  <2>5. QED
    BY <2>4 DEF ReportTypeOK
<1>4. encoding = "running" => encoding' = "running"
  BY <1>1 DEF Effect
<1>5. (encoding = "running" => playlist = AllEntries)'
  BY <1>1, <1>3, <1>4, EntriesSame DEF PlaylistInv
<1>6. QED
  BY <1>1, <1>2, <1>5, EntriesSame DEF PlaylistInv

-----------------------------------------------------------------------------
(* The report while Transcode, the encoding and the clients go on *)

LEMMA QuietReport ==
  ASSUME ReportInv, UNCHANGED <<report, container>>,
         answer = "ok" => UNCHANGED <<answer, encoding>>,
         answer' = "ok" /\ answer # "ok" => encoding' = "running",
         muxed' = muxed \/ answer # "ok"
  PROVE  ReportInv'
<1>1. CASE answer = "ok"
  <2>1. UNCHANGED <<answer, encoding, muxed, report, container>>
    BY <1>1
  <2>2. UNCHANGED <<step, todo, listing, muxings, files>>
    BY <2>1 DEF report
  <2>3. ASSUME NEW c \in Services, AtWork(c)
        PROVE  AtWork(c)'
    BY <2>1, <2>2, <2>3 DEF AtWork, FilesUpTo, Of
  <2>4. HasManifest' = HasManifest /\ \A S : FilesBut(S)' = FilesBut(S)
    BY <2>1 DEF HasManifest, FilesBut
  <2>5. QED
    BY <2>1, <2>3, <2>4 DEF ReportInv, report, FilesBut
<1>2. CASE answer # "ok"
  <2>1. step = "idle" /\ step' = "idle"
    BY <1>2 DEF ReportInv, report
  <2>2. (answer = "ok" => encoding = "running")'
    BY <1>2
  <2>3. files = FilesBut(Progressive) /\ UNCHANGED files /\ FilesBut(Progressive)' = FilesBut(Progressive)
    BY <2>1 DEF ReportInv, report, FilesBut
  <2>4. QED
    BY <2>1, <2>2, <2>3 DEF ReportInv
<1>3. QED
  BY <1>1, <1>2

LEMMA ElsewhereReport ==
  ASSUME TInv, ReportInv, Elsewhere
  PROVE  ReportInv'
<1>1. Effect /\ UNCHANGED <<report, container>>
  BY ElsewhereEffect DEF Elsewhere, job
<1>2. answer = "ok" => UNCHANGED <<answer, encoding>>
  BY <1>1 DEF Effect, ReportInv
<1>3. QED
  BY <1>1, <1>2, QuietReport DEF Effect

LEMMA AssembleReport ==
  ASSUME TInv, ReportInv, NEW o \in Outputs, Assemble(o)
  PROVE  ReportInv'
<1>1. AddMuxing(o) /\ UNCHANGED <<report, container>>
  BY DEF Assemble
<1>2. UNCHANGED <<answer, encoding>> /\ encoding # "running"
  BY <1>1, AssembleEffect
<1>3. QED
  BY <1>1, <1>2, QuietReport DEF ReportInv

LEMMA TaskReport ==
  ASSUME ReportInv, Advance \/ CancelJob \/ UNCHANGED all
  PROVE  ReportInv'
<1>1. UNCHANGED <<vars, report, container>>
  BY DEF Advance, CancelJob, all, job
<1>2. UNCHANGED <<answer, encoding, muxed>>
  BY <1>1 DEF vars
<1>3. QED
  BY <1>1, <1>2, QuietReport

-----------------------------------------------------------------------------
(* The calls of JobStatus *)

Asking == AskStatus \/ Enrich

LEMMA AskingFrame ==
  Asking => /\ UNCHANGED <<answer, encoding, out, streams, muxed, container, playlist, task>>
            /\ HasManifest' = HasManifest
            /\ \A S : FilesBut(S)' = FilesBut(S)
            /\ \A c : Of(c)' = Of(c)
BY DEF Asking, AskStatus, Enrich, EnrichSourceInfo, List, Describe, Answer, EnrichPlaylist,
       EnrichFiles, vars, job, HasManifest, FilesBut, Of

LEMMA GiveUpStep ==
  ASSUME ReportInv, Asking, GiveUp, answer = "ok"
  PROVE  ReportInv'
BY AskingFrame DEF ReportInv, GiveUp

LEMMA AskStatusStep ==
  ASSUME ReportInv, AskStatus
  PROVE  ReportInv'
<1>1. Asking /\ answer = "ok"
  BY DEF Asking, AskStatus
<1>2. CASE GiveUp
  BY <1>1, <1>2, GiveUpStep
<1>3. CASE ~GiveUp
  <2>1. step = "idle" /\ step' \in {"source", "answered"} /\ UNCHANGED files
        /\ (step' = "source" <=> status' = "finished")
    BY <1>3 DEF AskStatus
  <2>2. QED
    BY <1>1, <2>1, AskingFrame DEF ReportInv
<1>4. QED
  BY <1>2, <1>3

LEMMA EnrichSourceInfoStep ==
  ASSUME ReportInv, EnrichSourceInfo
  PROVE  ReportInv'
<1>1. Asking /\ answer = "ok" /\ step = "source" /\ files = FilesBut(Progressive)
  BY DEF Asking, Enrich, EnrichSourceInfo, ReportInv
<1>2. CASE GiveUp
  BY <1>1, <1>2, GiveUpStep
<1>3. CASE ~GiveUp
  <2>1. step' = "next" /\ todo' = Services /\ UNCHANGED <<files, status>>
    BY <1>3 DEF EnrichSourceInfo
  <2>2. Progressive \ Services = Progressive \ Progressive /\ "m3u8" \in Services \cap Segmented
    BY DEF Services, Segmented
  <2>3. status = "finished"
    BY <1>1 DEF EnrichSourceInfo, ReportInv
  <2>4. files' = FilesBut(todo)'
    BY <1>1, <2>1, <2>2, AskingFrame DEF FilesBut
  <2>5. QED
    BY <1>1, <2>1, <2>2, <2>3, <2>4, AskingFrame DEF ReportInv
<1>4. QED
  BY <1>2, <1>3

LEMMA EnrichPlaylistStep ==
  ASSUME ReportInv, NEW c \in Services, EnrichPlaylist(c)
  PROVE  ReportInv'
<1>1. Asking /\ answer = "ok" /\ step = "next" /\ status = "finished" /\ c \in Segmented
      /\ files = FilesBut(todo)
  BY DEF Asking, Enrich, EnrichPlaylist, ReportInv
<1>2. CASE GiveUp
  BY <1>1, <1>2, GiveUpStep
<1>3. CASE ~GiveUp
  <2>1. /\ manifest' = (manifest \/ HasManifest) /\ todo' = todo \ {c}
        /\ UNCHANGED <<step, status, files>>
    BY <1>3 DEF EnrichPlaylist
  <2>2. FilesBut(todo \ {c}) = FilesBut(todo)
    BY <1>1 DEF FilesBut, Progressive, Segmented
  <2>3. HasManifest => manifest'
    BY <2>1
  <2>4. files' = FilesBut(todo)'
    BY <1>1, <2>1, <2>2 DEF FilesBut, EnrichPlaylist, job
  <2>5. QED
    BY <1>1, <2>1, <2>3, <2>4, AskingFrame DEF ReportInv
<1>4. QED
  BY <1>2, <1>3

LEMMA EnrichFilesStep ==
  ASSUME ReportInv, NEW c \in Services, EnrichFiles(c), muxed \subseteq Outputs
  PROVE  ReportInv'
<1>1. /\ Asking /\ answer = "ok" /\ step = "next" /\ status = "finished"
      /\ c \in Progressive /\ c \in todo /\ files = FilesBut(todo)
  BY DEF Asking, Enrich, EnrichFiles, ReportInv
<1>2. /\ step' = "list" /\ todo' = todo \ {c} /\ listing' \in Orderings(Of(c))
      /\ muxings' = <<>> /\ UNCHANGED <<status, files, manifest, container, muxed>>
  BY DEF EnrichFiles, Of, vars, job
<1>3. c \in Progressive \ todo'
  BY <1>1, <1>2
<1>4. files' = FilesUpTo(todo, c, 0)'
  BY <1>1, <1>2 DEF FilesBut, FilesUpTo
<1>5. PICK S \in SUBSET Outputs : S = Of(c)
  BY DEF Of
<1>6. listing' \in Seq(Outputs) /\ Len(listing') \in Nat
  BY <1>2, <1>5, OrderingsFinite
<1>7. Len(muxings') = 0 /\ muxings' = SubSeq(listing', 1, Len(muxings'))
  BY <1>2, SubSeqEmpty
<1>8. AtWork(c)'
  BY <1>1, <1>2, <1>3, <1>4, <1>6, <1>7 DEF AtWork, Of
<1>9. (todo \cap Segmented = {} => (HasManifest => manifest))'
  <2>1. c \notin Segmented
    BY <1>1 DEF Progressive, Segmented
  <2>2. QED
    BY <1>1, <1>2, <2>1, AskingFrame DEF ReportInv
<1>10. QED
  BY <1>1, <1>2, <1>8, <1>9, AskingFrame DEF ReportInv

\* When all muxings of a service have been described, its files are complete.
LEMMA FilesAll ==
  ASSUME muxed = Outputs, NEW c \in Progressive \ todo, listing \in Orderings(Of(c))
  PROVE  FilesUpTo(todo, c, Len(listing)) = FilesBut(todo)
<1>1. PICK S \in SUBSET Outputs : S = Of(c)
  BY DEF Of
<1>2. \A x \in S : \E i \in 1 .. Len(listing) : listing[i] = x
  BY <1>1, OrderingsFinite
<1>3. \A i \in 1 .. Len(listing) : listing[i] \in S
  BY <1>1, OrderingsFinite
<1>4. \A o \in Outputs : container[o] = c <=> \E i \in 1 .. Len(listing) : listing[i] = o
  BY <1>1, <1>2, <1>3 DEF Of
<1>5. QED
  BY <1>4 DEF FilesUpTo, FilesBut

\* The next muxing described adds its file, the first of its output.
LEMMA FilesOneMore ==
  ASSUME muxed = Outputs, NEW c \in Progressive \ todo, listing \in Orderings(Of(c)),
         NEW k \in 0 .. Len(listing) - 1, files = FilesUpTo(todo, c, k)
  PROVE  [files EXCEPT ![listing[k + 1]] = @ + 1] = FilesUpTo(todo, c, k + 1)
<1>1. PICK S \in SUBSET Outputs : S = Of(c)
  BY DEF Of
<1>2. /\ Len(listing) \in Nat
      /\ \A i \in 1 .. Len(listing) : listing[i] \in S
      /\ \A i, j \in 1 .. Len(listing) : listing[i] = listing[j] => i = j
  BY <1>1, OrderingsFinite
<1>3. k + 1 \in 1 .. Len(listing) /\ \A i \in 1 .. k : i \in 1 .. Len(listing) /\ i # k + 1
  BY <1>2
<1>4. listing[k + 1] \in Outputs /\ container[listing[k + 1]] = c
  BY <1>1, <1>2, <1>3 DEF Of
<1>5. ~ \E i \in 1 .. k : listing[i] = listing[k + 1]
  BY <1>2, <1>3
<1>6. ASSUME NEW o \in Outputs
      PROVE  [files EXCEPT ![listing[k + 1]] = @ + 1][o] = FilesUpTo(todo, c, k + 1)[o]
  <2>1. CASE o = listing[k + 1]
    <3>1. files[o] = 0
      BY <1>4, <1>5, <2>1 DEF FilesUpTo
    <3>2. FilesUpTo(todo, c, k + 1)[o] = 1
      <4>1. k + 1 \in 1 .. k + 1
        BY <1>3
      <4>2. QED
        BY <4>1, <2>1 DEF FilesUpTo
    <3>3. o \in DOMAIN files
      BY DEF FilesUpTo
    <3>4. QED
      BY <2>1, <3>1, <3>2, <3>3
  <2>2. CASE o # listing[k + 1]
    <3>1. (\E i \in 1 .. k + 1 : listing[i] = o) <=> (\E i \in 1 .. k : listing[i] = o)
      <4>1. \A i \in 1 .. k + 1 : i = k + 1 \/ i \in 1 .. k
        OBVIOUS
      <4>2. \A i \in 1 .. k : i \in 1 .. k + 1
        OBVIOUS
      <4>3. QED
        BY <2>2, <4>1, <4>2
    <3>2. FilesUpTo(todo, c, k)[o] = FilesUpTo(todo, c, k + 1)[o]
      BY <3>1 DEF FilesUpTo
    <3>3. QED
      BY <2>2, <3>2 DEF FilesUpTo
  <2>3. QED
    BY <2>1, <2>2
<1>7. QED
  BY <1>6 DEF FilesUpTo

LEMMA ListStep ==
  ASSUME ReportInv, List, muxed = Outputs
  PROVE  ReportInv'
<1>1. Asking /\ answer = "ok" /\ encoding = "running" /\ step = "list" /\ status = "finished"
  BY DEF Asking, Enrich, List, ReportInv
<1>2. CASE GiveUp
  BY <1>1, <1>2, GiveUpStep
<1>3. CASE ~GiveUp
  <2>1. PICK c \in Services : AtWork(c)
    BY <1>1 DEF ReportInv
  <2>2. /\ muxings' = muxings \o Page(listing, Len(muxings))
        /\ step' = IF Len(muxings') < Len(listing) THEN "list"
                   ELSE IF muxings' = <<>> THEN "next" ELSE "describe"
        /\ UNCHANGED <<status, todo, listing, files, manifest, container, muxed>>
    BY <1>3 DEF List, More, vars, job
  <2>3. PICK S \in SUBSET Outputs : S = Of(c)
    BY DEF Of
  <2>4. listing \in Seq(Outputs) /\ Len(listing) \in Nat
    BY <2>1, <2>3, OrderingsFinite DEF AtWork
  <2>5. PICK m \in Len(muxings) .. Len(listing) :
          muxings' = SubSeq(listing, 1, m) /\ Len(muxings') = m
    <3>1. PICK l \in Seq(Outputs) : l = listing
      BY <2>4
    <3>2. PICK n \in 0 .. Len(l) : n = Len(muxings)
      BY <1>1, <2>1, <3>1 DEF AtWork
    <3>3. PICK m \in n .. Len(l) : /\ SubSeq(l, 1, n) \o Page(l, n) = SubSeq(l, 1, m)
                                  /\ Len(SubSeq(l, 1, m)) = m
      BY PageContinues
    <3>4. muxings' = SubSeq(l, 1, n) \o Page(l, n)
      BY <1>1, <2>1, <2>2, <3>1, <3>2 DEF AtWork
    <3>5. QED
      BY <3>1, <3>2, <3>3, <3>4
  <2>6. m \in 0 .. Len(listing)
    BY <1>1, <2>1, <2>4, <2>5 DEF AtWork
  <2>7. files' = FilesUpTo(todo, c, 0)' /\ files = FilesUpTo(todo, c, 0)
    BY <1>1, <2>1, <2>2 DEF AtWork, FilesUpTo
  <2>8. c \in Progressive \ todo' /\ listing' \in Orderings(Of(c)')
    BY <2>1, <2>2 DEF AtWork, Of
  <2>9. (todo \cap Segmented = {} => (HasManifest => manifest))'
    BY <1>1, <2>2, AskingFrame DEF ReportInv
  <2>10. CASE m < Len(listing)
    <3>1. step' = "list"
      BY <2>2, <2>5, <2>10
    <3>2. AtWork(c)'
      BY <2>2, <2>5, <2>6, <2>7, <2>8, <3>1 DEF AtWork
    <3>3. QED
      BY <1>1, <2>2, <2>9, <3>1, <3>2, AskingFrame DEF ReportInv
  <2>11. CASE ~(m < Len(listing)) /\ Len(listing) # 0
    <3>1. m = Len(listing)
      BY <2>4, <2>6, <2>11
    <3>2. step' = "describe"
      BY <2>2, <2>5, <2>11, <3>1
    <3>3. 0 \in 0 .. Len(listing) - 1 /\ muxings' = SubSeq(listing, 0 + 1, Len(listing))
      BY <2>4, <2>5, <2>11, <3>1
    <3>4. AtWork(c)'
      BY <2>2, <2>7, <2>8, <3>2, <3>3 DEF AtWork
    <3>5. QED
      BY <1>1, <2>2, <2>9, <3>2, <3>4, AskingFrame DEF ReportInv
  <2>12. CASE Len(listing) = 0
    <3>1. m = 0 /\ muxings' = <<>>
      BY <2>5, <2>6, <2>12, SubSeqEmpty
    <3>2. step' = "next"
      BY <2>2, <2>5, <2>12, <3>1
    <3>3. files = FilesBut(todo)
      BY <2>1, <2>7, <2>12, FilesAll DEF AtWork
    <3>4. files' = FilesBut(todo)'
      BY <2>2, <3>3 DEF FilesBut
    <3>5. QED
      BY <1>1, <2>2, <2>9, <3>2, <3>4, AskingFrame DEF ReportInv
  <2>13. QED
    BY <2>4, <2>6, <2>10, <2>11, <2>12
<1>4. QED
  BY <1>2, <1>3

LEMMA DescribeStep ==
  ASSUME ReportInv, Describe, muxed = Outputs
  PROVE  ReportInv'
<1>1. Asking /\ answer = "ok" /\ encoding = "running" /\ step = "describe" /\ status = "finished"
  BY DEF Asking, Enrich, Describe, ReportInv
<1>2. CASE GiveUp
  BY <1>1, <1>2, GiveUpStep
<1>3. CASE ~GiveUp
  <2>1. PICK c \in Services : AtWork(c)
    BY <1>1 DEF ReportInv
  <2>2. /\ files' = [files EXCEPT ![Head(muxings)] = @ + 1] /\ muxings' = Tail(muxings)
        /\ step' = IF muxings' = <<>> THEN "next" ELSE "describe"
        /\ UNCHANGED <<status, todo, listing, manifest, container, muxed>>
    BY <1>3 DEF Describe, vars, job
  <2>3. PICK S \in SUBSET Outputs : S = Of(c)
    BY DEF Of
  <2>4. listing \in Seq(Outputs) /\ Len(listing) \in Nat
    BY <2>1, <2>3, OrderingsFinite DEF AtWork
  <2>5. PICK k \in 0 .. Len(listing) - 1 :
          /\ muxings = SubSeq(listing, k + 1, Len(listing))
          /\ files = FilesUpTo(todo, c, k)
    BY <1>1, <2>1 DEF AtWork
  <2>6. Head(muxings) = listing[k + 1] /\ muxings' = SubSeq(listing, k + 2, Len(listing))
    <3>1. PICK l \in Seq(Outputs) : l = listing
      BY <2>4
    <3>2. k + 1 \in 1 .. Len(l) /\ Len(l) \in k + 1 .. Len(l) /\ (k + 1) + 1 = k + 2
      BY <2>4, <3>1
    <3>3. /\ Head(SubSeq(l, k + 1, Len(l))) = l[k + 1]
          /\ Tail(SubSeq(l, k + 1, Len(l))) = SubSeq(l, k + 2, Len(l))
      BY <3>2, HeadTailOfSubSeq
    <3>4. QED
      BY <2>2, <2>5, <3>1, <3>3
  <2>7. files' = FilesUpTo(todo, c, k + 1)
    BY <2>1, <2>2, <2>5, <2>6, FilesOneMore DEF AtWork
  <2>8. c \in Progressive \ todo' /\ listing' \in Orderings(Of(c)')
    BY <2>1, <2>2 DEF AtWork, Of
  <2>9. (todo \cap Segmented = {} => (HasManifest => manifest))'
    BY <1>1, <2>2, AskingFrame DEF ReportInv
  <2>10. CASE k + 1 < Len(listing)
    <3>1. muxings' # <<>>
      <4>1. PICK l \in Seq(Outputs) : l = listing
        BY <2>4
      <4>2. Len(SubSeq(l, k + 2, Len(l))) = Len(l) - (k + 2) + 1
        BY <2>4, <2>10, <4>1
      <4>3. Len(muxings') # 0
        BY <2>4, <2>6, <2>10, <4>1, <4>2
      <4>4. QED
        BY <4>3
    <3>2. step' = "describe"
      BY <2>2, <3>1
    <3>3. k + 1 \in 0 .. Len(listing') - 1 /\ muxings' = SubSeq(listing', (k + 1) + 1, Len(listing'))
      <4>1. k + 2 = (k + 1) + 1 /\ k + 1 \in 0 .. Len(listing) - 1
        BY <2>4, <2>10
      <4>2. listing' = listing
        BY <2>2
      <4>3. QED
        BY <2>6, <4>1, <4>2
    <3>4. files' = FilesUpTo(todo, c, k + 1)'
      BY <2>2, <2>7 DEF FilesUpTo
    <3>5. \E j \in 0 .. Len(listing') - 1 :
            /\ muxings' = SubSeq(listing', j + 1, Len(listing'))
            /\ files' = FilesUpTo(todo, c, j)'
      BY <3>3, <3>4
    <3>6. AtWork(c)'
      BY <2>8, <3>2, <3>5 DEF AtWork
    <3>7. QED
      BY <1>1, <2>2, <2>9, <3>2, <3>6, AskingFrame DEF ReportInv
  <2>11. CASE k + 1 = Len(listing)
    <3>1. muxings' = <<>>
      BY <2>4, <2>6, <2>11, SubSeqEmpty
    <3>2. step' = "next"
      BY <2>2, <3>1
    <3>3. files' = FilesBut(todo)
      BY <2>1, <2>7, <2>11, FilesAll DEF AtWork
    <3>4. files' = FilesBut(todo)'
      BY <2>2, <3>3 DEF FilesBut
    <3>5. QED
      BY <1>1, <2>2, <2>9, <3>2, <3>4, AskingFrame DEF ReportInv
  <2>12. QED
    BY <2>4, <2>10, <2>11
<1>4. QED
  BY <1>2, <1>3

LEMMA AnswerStep ==
  ASSUME ReportInv, Answer
  PROVE  ReportInv'
<1>1. Asking /\ answer = "ok" /\ step = "next" /\ status = "finished" /\ todo = {}
      /\ files = FilesBut({})
  BY DEF Asking, Enrich, Answer, ReportInv
<1>2. step' = "answered" /\ UNCHANGED <<status, todo, files, manifest>>
  BY DEF Answer
<1>3. QED
  BY <1>1, <1>2, AskingFrame DEF ReportInv

-----------------------------------------------------------------------------
(* Types *)

LEMMA TypeStep ==
  ASSUME TInv, ReportTypeOK, PlaylistInv, ReportInv, [StatusNext]_all
  PROVE  ReportTypeOK'
<1>1. container' = container
  BY DEF StatusNext, Elsewhere, Assemble, Advance, CancelJob, AskStatus, Enrich,
         EnrichSourceInfo, List, Describe, Answer, EnrichPlaylist, EnrichFiles, all, job
<1>2. AllEntries' = AllEntries
  BY <1>1, EntriesSame
<1>3. ASSUME NEW o \in Outputs, Assemble(o) PROVE ReportTypeOK'
  BY <1>2, <1>3, AssemblePlaylist DEF ReportTypeOK, Assemble, report
<1>4. CASE Elsewhere \/ CancelJob \/ UNCHANGED all
  BY <1>2, <1>4 DEF ReportTypeOK, Elsewhere, CancelJob, all, job, report, Tasks
<1>5. CASE Advance
  <2>1. task' \in Tasks
    BY <1>5 DEF Advance, After, Tasks
  <2>2. QED
    BY <1>2, <1>5, <2>1 DEF ReportTypeOK, Advance, report
<1>6. ASSUME Asking, GiveUp PROVE ReportTypeOK'
  BY <1>1, <1>2, <1>6, AskingFrame DEF ReportTypeOK, GiveUp, Steps
<1>7. CASE AskStatus /\ ~GiveUp
  <2>1. status' \in {"unknown", "queued", "started", "finished", "failed", "canceled"}
    BY <1>7 DEF AskStatus, ToProviderStatus
  <2>2. QED
    BY <1>2, <1>7, <2>1 DEF ReportTypeOK, AskStatus, Steps, job
<1>8. CASE (EnrichSourceInfo \/ Answer) /\ ~GiveUp
  BY <1>2, <1>8 DEF ReportTypeOK, EnrichSourceInfo, Answer, Steps, job
<1>9. ASSUME NEW c \in Services, EnrichPlaylist(c), ~GiveUp PROVE ReportTypeOK'
  BY <1>2, <1>9 DEF ReportTypeOK, EnrichPlaylist, Steps, job, HasManifest
<1>10. ASSUME NEW c \in Services, EnrichFiles(c) PROVE ReportTypeOK'
  <2>1. PICK S \in SUBSET Outputs : S = Of(c)
    BY DEF Of, TInv, Typed
  <2>2. listing' \in Seq(Outputs)
    BY <1>10, <2>1, OrderingsFinite DEF EnrichFiles, Of
  <2>3. QED
    BY <1>2, <1>10, <2>2 DEF ReportTypeOK, EnrichFiles, Steps, job
<1>11. CASE List /\ ~GiveUp
  <2>1. muxings' \in Seq(Outputs)
    <3>1. PICK c \in Services : AtWork(c)
      BY <1>11 DEF List, ReportInv
    <3>2. PICK l \in Seq(Outputs) : l = listing
      BY DEF ReportTypeOK
    <3>3. PICK n \in 0 .. Len(l) : n = Len(muxings)
      BY <1>11, <3>1, <3>2 DEF AtWork, List
    <3>4. PICK m \in n .. Len(l) : SubSeq(l, 1, n) \o Page(l, n) = SubSeq(l, 1, m)
      BY PageContinues
    <3>5. muxings' = SubSeq(l, 1, m)
      BY <1>11, <3>1, <3>2, <3>3, <3>4 DEF AtWork, List
    <3>6. QED
      BY <3>5, <3>3
  <2>2. QED
    BY <1>2, <1>11, <2>1 DEF ReportTypeOK, List, Steps, job
<1>12. CASE Describe /\ ~GiveUp
  <2>1. PICK q \in Seq(Outputs) : q = muxings
    BY DEF ReportTypeOK
  <2>2. q # <<>>
    <3>1. PICK c \in Services : AtWork(c)
      BY <1>12 DEF Describe, ReportInv
    <3>2. PICK k \in 0 .. Len(listing) - 1 : muxings = SubSeq(listing, k + 1, Len(listing))
      BY <1>12, <3>1 DEF AtWork, Describe
    <3>3. PICK l \in Seq(Outputs) : l = listing
      BY DEF ReportTypeOK
    <3>4. Len(SubSeq(l, k + 1, Len(l))) = Len(l) - (k + 1) + 1 /\ Len(l) - (k + 1) + 1 > 0
      BY <3>2, <3>3
    <3>5. q = SubSeq(l, k + 1, Len(l))
      BY <2>1, <3>2, <3>3
    <3>6. Len(q) > 0
      BY <3>4, <3>5
    <3>7. QED
      BY <3>6
  <2>3. muxings' = Tail(muxings) /\ files' = [files EXCEPT ![Head(muxings)] = @ + 1]
        /\ step' \in Steps /\ UNCHANGED <<status, todo, listing, manifest, container, playlist, task>>
    BY <1>12 DEF Describe, Steps, job
  <2>4. muxings' \in Seq(Outputs)
    BY <2>1, <2>2, <2>3
  <2>5. Head(muxings) \in Outputs
    BY <2>1, <2>2
  <2>6. files' \in [Outputs -> Nat]
    BY <2>3, <2>5 DEF ReportTypeOK
  <2>7. QED
    BY <1>2, <2>3, <2>4, <2>6 DEF ReportTypeOK
<1>13. QED
  BY <1>3, <1>4, <1>5, <1>6, <1>7, <1>8, <1>9, <1>10, <1>11, <1>12 DEF StatusNext, Enrich, Asking

-----------------------------------------------------------------------------
(* Theorems *)

LEMMA InitSInv == StatusInit => SInv
<1> SUFFICES ASSUME StatusInit PROVE SInv
  OBVIOUS
<1>1. ReportTypeOK
  <2>1. listing \in Seq(Outputs) /\ muxings \in Seq(Outputs)
    BY DEF StatusInit
  <2>2. files \in [Outputs -> Nat]
    BY DEF StatusInit
  <2>3. container \in Jobs /\ playlist = {} /\ todo = {} /\ task \in Tasks /\ step \in Steps
        /\ status = "unknown" /\ manifest \in BOOLEAN
    BY DEF StatusInit, Tasks, Steps
  <2>4. QED
    BY <2>1, <2>2, <2>3 DEF ReportTypeOK
<1>2. PlaylistInv
  BY DEF StatusInit, Init, PlaylistInv
<1>3. files = FilesBut(Progressive)
  BY DEF StatusInit, FilesBut
<1>4. ReportInv
  BY <1>3 DEF StatusInit, Init, ReportInv
<1>5. QED
  BY <1>1, <1>2, <1>4 DEF SInv

LEMMA NextSInv == TInv /\ SInv /\ [StatusNext]_all => SInv'
<1> SUFFICES ASSUME TInv, SInv, [StatusNext]_all PROVE SInv'
  OBVIOUS
<1> USE DEF SInv
<1>1. ReportTypeOK'
  BY TypeStep
<1>2. PlaylistInv'
  <2>1. CASE Elsewhere
    BY <2>1, ElsewherePlaylist
  <2>2. ASSUME NEW o \in Outputs, Assemble(o) PROVE PlaylistInv'
    BY <2>2, AssemblePlaylist
  <2>3. CASE Advance \/ CancelJob \/ Asking \/ UNCHANGED all
    <3>1. UNCHANGED <<container, playlist, out, answer, encoding>>
      BY <2>3, AskingFrame DEF Advance, CancelJob, all, vars, job
    <3>2. QED
      BY <3>1, EntriesSame DEF PlaylistInv
  <2>4. QED
    BY <2>1, <2>2, <2>3 DEF StatusNext, Asking
<1>3. step # "idle" => encoding = "running"
  BY DEF ReportInv
<1>4. step # "idle" => muxed = Outputs
  BY <1>3 DEF TInv, Typed, RunningInv
<1>5. ReportInv'
  <2>1. CASE Elsewhere
    BY <2>1, ElsewhereReport
  <2>2. ASSUME NEW o \in Outputs, Assemble(o) PROVE ReportInv'
    BY <2>2, AssembleReport
  <2>3. CASE Advance \/ CancelJob \/ UNCHANGED all
    BY <2>3, TaskReport
  <2>4. CASE AskStatus
    BY <2>4, AskStatusStep
  <2>5. CASE EnrichSourceInfo \/ Answer
    BY <2>5, EnrichSourceInfoStep, AnswerStep
  <2>6. ASSUME NEW c \in Services, EnrichPlaylist(c) \/ EnrichFiles(c) PROVE ReportInv'
    BY <2>6, EnrichPlaylistStep, EnrichFilesStep DEF TInv, Typed
  <2>7. CASE List
    BY <2>7, <1>4, ListStep DEF List
  <2>8. CASE Describe
    BY <2>8, <1>4, DescribeStep DEF Describe
  <2>9. QED
    BY <2>1, <2>2, <2>3, <2>4, <2>5, <2>6, <2>7, <2>8 DEF StatusNext, Enrich
<1>6. QED
  BY <1>1, <1>2, <1>5

LEMMA SInductive == StatusSpec => []SInv
<1>1. StatusInit => SInv
  BY InitSInv
<1>2. TInv /\ SInv /\ [StatusNext]_all => SInv'
  BY NextSInv
<1>3. QED
  BY <1>1, <1>2, Progress, PTL DEF StatusSpec

\* The state of a job and of a status call has its types.
THEOREM ReportTypeCorrect == StatusSpec => []ReportTypeOK
<1>1. SInv => ReportTypeOK
  BY DEF SInv
<1>2. QED
  BY <1>1, SInductive, PTL

\* The playlist of a running encoding has every entry, and at no time a picture
\* without the sound it refers to (hls.go:34-90, cmaf.go:28-89).
THEOREM PlaylistWholeHolds == StatusSpec => []PlaylistWhole
<1>1. SInv => PlaylistWhole
  BY DEF SInv, PlaylistInv, PlaylistWhole
<1>2. QED
  BY <1>1, SInductive, PTL

\* A status of finished reports each file once and the manifest, for any number
\* of outputs and pages of any size (bitmovin.go:692-712, mp4.go:52-94).
THEOREM ReportCompleteHolds == StatusSpec => []ReportComplete
<1>1. SInv => ReportComplete
  <2> SUFFICES ASSUME SInv, step = "answered", status = "finished"
      PROVE  /\ files = [o \in Outputs |-> IF container[o] \in Progressive THEN 1 ELSE 0]
             /\ playlist # {} => manifest
    BY DEF ReportComplete
  <2>1. todo = {} /\ files = FilesBut({})
    BY DEF SInv, ReportInv
  <2>2. HasManifest => manifest
    BY <2>1 DEF SInv, ReportInv
  <2>3. playlist # {} => HasManifest
    BY DEF SInv, PlaylistInv
  <2>4. QED
    BY <2>1, <2>2, <2>3 DEF FilesBut
<1>2. QED
  BY <1>1, SInductive, PTL

-----------------------------------------------------------------------------
(* What JobStatus and CancelJob promise *)

\* bitmovin does nothing with an encoding that was not started, and one that
\* has finished stays so while the calls of JobStatus go on.
TaskInv ==
  /\ encoding # "running" => task = "CREATED"
  /\ step \in {"source", "next", "list", "describe"} => task = "FINISHED"

ToldStatus == IF step = "answered" THEN status ELSE "none"

LEMMA InitTask == StatusInit => TaskInv
BY DEF StatusInit, Init, TaskInv

LEMMA AskingTask == ASSUME TaskInv, Asking PROVE TaskInv'
<1>1. UNCHANGED <<encoding, task>>
  BY AskingFrame
<1>2. CASE AskStatus
  <2>1. step' = "source" => task = "FINISHED"
    BY <1>2 DEF AskStatus, ToProviderStatus, GiveUp
  <2>2. step' \in {"source", "answered", "failed"}
    BY <1>2 DEF AskStatus, GiveUp
  <2>3. QED
    BY <1>1, <2>1, <2>2 DEF TaskInv
<1>3. CASE Enrich
  <2>1. step \in {"source", "next", "list", "describe"}
    BY <1>3 DEF Enrich, EnrichSourceInfo, List, Describe, Answer, EnrichPlaylist, EnrichFiles
  <2>2. QED
    BY <1>1, <2>1 DEF TaskInv
<1>4. QED
  BY <1>2, <1>3 DEF Asking

LEMMA NextTask == TInv /\ SInv /\ TaskInv /\ [StatusNext]_all => TaskInv'
<1> SUFFICES ASSUME TInv, SInv, TaskInv, [StatusNext]_all PROVE TaskInv'
  OBVIOUS
<1>1. CASE Elsewhere
  <2>1. UNCHANGED <<task, step>> /\ (encoding = "running" => encoding' = "running")
    BY <1>1, ElsewhereEffect DEF Elsewhere, job, report, Effect
  <2>2. QED
    BY <2>1 DEF TaskInv
<1>2. ASSUME NEW o \in Outputs, Assemble(o) PROVE TaskInv'
  <2>1. UNCHANGED <<task, step, encoding>>
    BY <1>2, AssembleEffect DEF Assemble, report
  <2>2. QED
    BY <2>1 DEF TaskInv
<1>3. CASE Advance \/ CancelJob
  <2>1. UNCHANGED <<step, encoding>> /\ task # "FINISHED" /\ encoding = "running"
    BY <1>3 DEF Advance, CancelJob, After, vars, report, SInv, ReportInv
  <2>2. QED
    BY <2>1 DEF TaskInv
<1>4. CASE Asking
  BY <1>4, AskingTask
<1>5. CASE UNCHANGED all
  BY <1>5 DEF all, vars, job, report, TaskInv
<1>6. QED
  BY <1>1, <1>2, <1>3, <1>4, <1>5 DEF StatusNext, Asking

LEMMA TaskInductive == StatusSpec => []TaskInv
<1>1. StatusInit => TaskInv
  BY InitTask
<1>2. TInv /\ SInv /\ TaskInv /\ [StatusNext]_all => TaskInv'
  BY NextTask
<1>3. QED
  BY <1>1, <1>2, Progress, SInductive, PTL DEF StatusSpec

\* Where neither what a client sees nor the encoding's state changes.
LEMMA PromiseStutters ==
  ASSUME UNCHANGED <<encoding, task, answer>>, ToldStatus' = ToldStatus
  PROVE  UNCHANGED Promise!jobVars
BY DEF Promise!jobVars, JobState, ToldStatus

\* Transcode returns once, and starts the encoding only then.
LEMMA PromiseOfTranscode ==
  ASSUME TInv, TInv', ReportInv, TaskInv, Elsewhere
  PROVE  [Promise!JobNext]_(Promise!jobVars)
<1>1. Effect /\ UNCHANGED <<task, step, status>>
  BY ElsewhereEffect DEF Elsewhere, job, report
<1>2. ToldStatus' = ToldStatus
  BY <1>1 DEF ToldStatus
<1>3. CASE UNCHANGED <<answer, encoding>>
  BY <1>1, <1>2, <1>3, PromiseStutters
<1>4. CASE answer = answer' /\ encoding' # encoding
  <2>1. encoding # "running" /\ encoding' # "running"
    BY <1>1, <1>4 DEF Effect, TInv, MainInv, RunningInv
  <2>2. JobState' = JobState
    BY <2>1 DEF JobState
  <2>3. QED
    BY <1>2, <1>4, <2>2 DEF Promise!jobVars, ToldStatus
<1>5. CASE answer # answer'
  <2>1. answer = "none" /\ answer' \in {"ok", "error"}
    BY <1>1, <1>5 DEF Effect, TInv, Typed
  <2>2. encoding # "running" /\ task = "CREATED" /\ task' = "CREATED"
    BY <1>1, <2>1 DEF TInv, MainInv, RunningInv, TaskInv
  <2>3. JobState = "none" /\ JobState' \in {"none", "queued"}
    BY <2>2 DEF JobState
  <2>4. answer' = "ok" => JobState' = "queued"
    BY <1>1, <2>1, <2>2 DEF Effect, JobState
  <2>5. QED
    BY <1>2, <2>1, <2>3, <2>4 DEF Promise!JobNext, Promise!Start, Promise!Fail, ToldStatus
<1>6. QED
  BY <1>3, <1>4, <1>5

\* The encoding at bitmovin moves as a job may, and is cancelled only for a client.
LEMMA PromiseOfTask ==
  ASSUME ReportInv, Advance \/ CancelJob
  PROVE  [Promise!JobNext]_(Promise!jobVars)
<1>1. UNCHANGED <<encoding, answer, step, status>> /\ encoding = "running"
  BY DEF Advance, CancelJob, vars, report, ReportInv
<1>2. ToldStatus' = ToldStatus
  BY <1>1 DEF ToldStatus
<1>3. CASE Advance
  <2>1. \/ task = "CREATED" /\ task' = "QUEUED"
        \/ task = "QUEUED" /\ task' \in {"RUNNING", "ERROR"}
        \/ task = "RUNNING" /\ task' \in {"FINISHED", "ERROR"}
    BY <1>3 DEF Advance, After
  <2>2. \/ JobState' = JobState
        \/ JobState = "queued" /\ JobState' \in {"running", "error"}
        \/ JobState = "running" /\ JobState' \in {"complete", "error"}
    BY <1>1, <2>1 DEF JobState
  <2>3. QED
    BY <1>1, <1>2, <2>2 DEF Promise!JobNext, Promise!Advance, Promise!Live, Promise!Onward,
       Promise!jobVars, ToldStatus
<1>4. CASE CancelJob
  <2>1. answer = "ok" /\ task \in {"CREATED", "QUEUED", "RUNNING"} /\ task' = "CANCELED"
    BY <1>4 DEF CancelJob, After
  <2>2. JobState \in {"queued", "running"} /\ JobState' = "canceled"
    BY <1>1, <2>1 DEF JobState
  <2>3. QED
    BY <1>1, <1>2, <2>1, <2>2 DEF Promise!JobNext, Promise!Stop, Promise!Live, Promise!Stopped,
       ToldStatus
<1>5. QED
  BY <1>3, <1>4

\* A status is told by the first call, or after all that were made for it.
LEMMA PromiseOfStatus ==
  ASSUME ReportTypeOK, ReportInv, TaskInv, Asking
  PROVE  [Promise!JobNext]_(Promise!jobVars)
<1>1. UNCHANGED <<encoding, task, answer>> /\ answer = "ok" /\ encoding = "running" /\ task \in Tasks
  BY AskingFrame DEF Asking, AskStatus, Enrich, EnrichSourceInfo, List, Describe, Answer,
     EnrichPlaylist, EnrichFiles, ReportInv, ReportTypeOK
<1>2. ToProviderStatus(task) = Promise!StatusOf[JobState]
  BY <1>1 DEF Tasks, ToProviderStatus, JobState, Promise!StatusOf
<1>3. step # "answered"
  BY DEF Asking, AskStatus, Enrich, EnrichSourceInfo, List, Describe, Answer, EnrichPlaylist, EnrichFiles
<1>4. CASE step' # "answered"
  BY <1>1, <1>3, <1>4, PromiseStutters DEF ToldStatus
<1>5. CASE step' = "answered"
  <2>1. status' = ToProviderStatus(task)
    <3>1. CASE AskStatus
      BY <1>5, <3>1 DEF AskStatus, GiveUp
    <3>2. CASE Enrich
      <4>1. Answer
        BY <1>5, <3>2 DEF Enrich, EnrichSourceInfo, List, Describe, EnrichPlaylist, EnrichFiles, GiveUp
      <4>2. status' = "finished" /\ task = "FINISHED"
        BY <4>1 DEF Answer, ReportInv, TaskInv
      <4>3. QED
        BY <4>2 DEF ToProviderStatus
    <3>3. QED
      BY <3>1, <3>2 DEF Asking
  <2>2. ToldStatus' = Promise!StatusOf[JobState]
    BY <1>2, <1>5, <2>1 DEF ToldStatus
  <2>3. JobState' = JobState
    BY <1>1 DEF JobState
  <2>4. QED
    BY <1>1, <2>2, <2>3 DEF Promise!JobNext, Promise!Tell, ToldStatus
<1>6. QED
  BY <1>4, <1>5

LEMMA PromiseStep ==
  TInv /\ TInv' /\ SInv /\ TaskInv /\ [StatusNext]_all => [Promise!JobNext]_(Promise!jobVars)
<1> SUFFICES ASSUME TInv, TInv', SInv, TaskInv, [StatusNext]_all
    PROVE [Promise!JobNext]_(Promise!jobVars)
  OBVIOUS
<1> USE DEF SInv
<1>1. CASE Elsewhere
  BY <1>1, PromiseOfTranscode
<1>2. ASSUME NEW o \in Outputs, Assemble(o) PROVE [Promise!JobNext]_(Promise!jobVars)
  <2>1. UNCHANGED <<encoding, task, answer, step, status>>
    BY <1>2, AssembleEffect DEF Assemble, report
  <2>2. QED
    BY <2>1, PromiseStutters DEF ToldStatus
<1>3. CASE Advance \/ CancelJob
  BY <1>3, PromiseOfTask
<1>4. CASE Asking
  BY <1>4, PromiseOfStatus
<1>5. CASE UNCHANGED all
  BY <1>5, PromiseStutters DEF all, vars, job, report, ToldStatus
<1>6. QED
  BY <1>1, <1>2, <1>3, <1>4, <1>5 DEF StatusNext, Asking

\* For any outputs, pages and failures bitmovin keeps what a provider promises:
\* no encoding is started once Transcode has returned, and what a client is
\* told is the encoding's status, however many calls it takes to gather.
THEOREM PromiseKeptHolds == StatusSpec => PromiseKept
<1>1. StatusInit => Promise!JobInit
  BY DEF StatusInit, Init, Promise!JobInit, JobState
<1>2. TInv /\ TInv' /\ SInv /\ TaskInv /\ [StatusNext]_all => [Promise!JobNext]_(Promise!jobVars)
  BY PromiseStep
<1>3. QED
  BY <1>1, <1>2, Progress, SInductive, TaskInductive, PTL DEF StatusSpec, PromiseKept, Promise!JobSpec
-----------------------------------------------------------------------------
(* What the return of JobStatus rests on                                     *)

\* A page that is not the last one brings something, so that the loop over pages
\* has at most as many turns as there are muxings.
ListAdvances ==
  [][List /\ step' = "list" => Len(muxings') \in Len(muxings) + 1 .. Len(listing) - 1]_all

\* For any number of muxings and pages of any size, each turn of the loop fetches
\* more of them, and there is another turn only while some are missing.
THEOREM ListAdvancesHolds == StatusSpec => ListAdvances
<1>1. ASSUME TInv, SInv, List, step' = "list"
      PROVE  Len(muxings') \in Len(muxings) + 1 .. Len(listing) - 1
  <2>1. /\ step = "list" /\ muxings' = muxings \o Page(listing, Len(muxings))
        /\ Len(muxings') < Len(listing)
    BY <1>1 DEF List, GiveUp, More
  <2>2. ReportInv
    BY <1>1 DEF SInv
  <2>3. PICK c \in Services : AtWork(c)
    BY <2>1, <2>2 DEF ReportInv
  <2>4. PICK S \in SUBSET Outputs : S = Of(c)
    BY <1>1 DEF Of, TInv, Typed
  <2>5. listing \in Seq(Outputs) /\ Len(listing) \in Nat
    BY <2>3, <2>4, OrderingsFinite DEF AtWork
  <2>6. PICK l \in Seq(Outputs) : l = listing
    BY <2>5
  <2>7. PICK n \in 0 .. Len(l) : n = Len(muxings)
    BY <2>1, <2>3, <2>6 DEF AtWork
  <2>8. PICK m \in n .. Len(l) :
          /\ SubSeq(l, 1, n) \o Page(l, n) = SubSeq(l, 1, m)
          /\ Len(SubSeq(l, 1, m)) = m
          /\ m < Len(l) => n < m
    BY PageContinues
  <2>9. muxings' = SubSeq(l, 1, n) \o Page(l, n)
    BY <2>1, <2>3, <2>6, <2>7 DEF AtWork
  <2>10. Len(muxings') = m
    BY <2>8, <2>9
  <2>11. QED
    BY <2>1, <2>5, <2>6, <2>7, <2>8, <2>10
<1>2. TInv /\ SInv /\ [StatusNext]_all =>
        [List /\ step' = "list" => Len(muxings') \in Len(muxings) + 1 .. Len(listing) - 1]_all
  BY <1>1
<1>3. QED
  BY <1>2, Progress, SInductive, PTL DEF StatusSpec, ListAdvances
=============================================================================
