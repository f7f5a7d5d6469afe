------------------------- MODULE BitmovinTranscode -------------------------
(***************************************************************************)
(* One call of bitmovinProvider.Transcode: it creates an encoding, trims   *)
(* the source to the ranges of the job (a goroutine per range, results     *)
(* collected from a buffered channel) and sets up the outputs (a goroutine *)
(* per output, errors collected from an unbuffered channel that a further  *)
(* goroutine closes when the wait group is done), then starts the          *)
(* encoding.  Calls of different jobs share nothing but what they read.    *)
(*                                                                         *)
(* An action is one call of bitmovin's API, or one operation on a channel  *)
(* or the wait group, of one goroutine.                                    *)
(***************************************************************************)
EXTENDS Naturals, Sequences, FiniteSets, Functions

CONSTANTS
  Outputs,        \* the outputs of the job
  WithAudio,      \* outputs whose preset has an audio configuration
  WithVideo,      \* outputs whose preset has a video configuration
  RangeCounts,    \* how many ranges job.SourceSplice may have
  APIMayFail      \* whether calls of the API may fail

ASSUME TranscodeAssumption ==
  /\ Outputs # {}
  /\ WithAudio \subseteq Outputs /\ WithVideo \subseteq Outputs
  /\ RangeCounts \subseteq Nat
  /\ APIMayFail \in BOOLEAN

VARIABLES
  main,      \* the next step of the goroutine that runs Transcode
  answer,    \* what it returned: none, ok or error
  encoding,  \* the encoding in bitmovin: none, created or running
  ranges,    \* len(job.SourceSplice)
  trimming,  \* the ranges whose goroutine has not sent its result
  workc,     \* the buffered channel: results in the order of arrival
  cat,       \* the results main has collected
  input,     \* the ranges of the source the outputs read, <<>> for all of it
  out,       \* the step of the goroutine of each output
  streams,   \* <<o, kind>>: the streams added to the encoding
  muxed,     \* the outputs whose muxing was added to the encoding
  wg,        \* the outputs the wait group counts
  closer,    \* the goroutine that closes errorc: none, waiting or done
  failed     \* history: the outputs whose goroutine met an error

splicing == <<ranges, trimming, workc, cat, input>>
outputs  == <<out, streams, muxed, wg, failed>>
vars == <<main, answer, encoding, ranges, trimming, workc, cat, input, out,
          streams, muxed, wg, closer, failed>>

MainSteps == {"prepare", "create", "ingest", "trim", "collect", "concatenate",
              "outputs", "drain", "start", "returned"}

OutSteps == {"idle", "audio", "video", "mux", "send", "leave", "done"}

Kinds == {"audio", "video"}

\* A result on workc: the position of its range, and whether it was trimmed.
Work == [pos : Nat, ok : BOOLEAN]

\* An entry of the concatenation.
Entry == [pos : Nat, main : BOOLEAN]

TypeOK ==
  /\ main \in MainSteps
  /\ answer \in {"none", "ok", "error"}
  /\ encoding \in {"none", "created", "running"}
  /\ ranges \in RangeCounts
  /\ trimming \in SUBSET (0 .. ranges - 1)
  /\ workc \in Seq(Work)
  /\ cat \in Seq(Entry)
  /\ input \in Seq(Nat)
  /\ out \in [Outputs -> OutSteps]
  /\ streams \in SUBSET (Outputs \X Kinds)
  /\ muxed \in SUBSET Outputs
  /\ wg \in SUBSET Outputs
  /\ closer \in {"none", "waiting", "done"}
  /\ failed \in SUBSET Outputs

Init ==
  /\ main = "prepare" /\ answer = "none" /\ encoding = "none"
  /\ ranges \in RangeCounts
  /\ trimming = {} /\ workc = <<>> /\ cat = <<>> /\ input = <<>>
  /\ out = [o \in Outputs |-> "idle"]
  /\ streams = {} /\ muxed = {} /\ wg = {} /\ failed = {}
  /\ closer = "none"

Go(from, to) == main = from /\ main' = to

Return(from, a) == Go(from, "returned") /\ answer' = a

-----------------------------------------------------------------------------
(* Before the goroutines *)

\* The summaries of the presets, the input, the output and the manifest.
Prepare ==
  /\ \/ Go("prepare", "create") /\ UNCHANGED answer
     \/ APIMayFail /\ Return("prepare", "error")
  /\ UNCHANGED <<encoding, splicing, outputs, closer>>

CreateEncoding ==
  /\ \/ /\ Go("create", "ingest")
        /\ encoding' = "created"
        /\ UNCHANGED answer
     \/ /\ APIMayFail
        /\ Return("create", "error")
        /\ encoding' \in {"none", "created"}
  /\ UNCHANGED <<splicing, outputs, closer>>

Ingest ==
  /\ \/ Go("ingest", IF ranges = 0 THEN "outputs" ELSE "trim") /\ UNCHANGED answer
     \/ APIMayFail /\ Return("ingest", "error")
  /\ UNCHANGED <<encoding, splicing, outputs, closer>>

-----------------------------------------------------------------------------
(* The ranges *)

\* Seeded fault: a goroutine too many.
SpawnTrimsTooMany ==
  /\ Go("trim", "collect")
  /\ trimming' = 0 .. ranges
  /\ UNCHANGED <<answer, encoding, ranges, workc, cat, input, outputs, closer>>

SpawnTrims ==
  /\ Go("trim", "collect")
  /\ trimming' = 0 .. ranges - 1
  /\ UNCHANGED <<answer, encoding, ranges, workc, cat, input, outputs, closer>>

\* Seeded fault: the goroutine reads the loop's variable, by now at the last range.
TrimLast(i) ==
  /\ i \in trimming
  /\ trimming' = trimming \ {i}
  /\ \E ok \in {TRUE, ~APIMayFail} :
       workc' = Append(workc, [pos |-> ranges - 1, ok |-> ok])
  /\ UNCHANGED <<main, answer, encoding, ranges, cat, input, outputs, closer>>

\* The channel has room for all results: a send never blocks.
Trim(i) ==
  /\ i \in trimming
  /\ trimming' = trimming \ {i}
  /\ \E ok \in {TRUE, ~APIMayFail} :
       workc' = Append(workc, [pos |-> i, ok |-> ok])
  /\ UNCHANGED <<main, answer, encoding, ranges, cat, input, outputs, closer>>

\* A single range is not concatenated; the first to arrive is the main one.
Collect ==
  /\ main = "collect" /\ workc # <<>>
  /\ workc' = Tail(workc)
  /\ LET w == Head(workc) IN
       \/ /\ ~w.ok
          /\ Return("collect", "error")
          /\ UNCHANGED <<cat, input>>
       \/ /\ w.ok /\ ranges = 1
          /\ Go("collect", "outputs")
          /\ input' = <<w.pos>>
          /\ UNCHANGED <<answer, cat>>
       \/ /\ w.ok /\ ranges > 1
          /\ cat' = Append(cat, [pos |-> w.pos, main |-> cat = <<>>])
          /\ Go("collect", IF Len(cat') = ranges THEN "concatenate" ELSE "collect")
          /\ UNCHANGED <<answer, input>>
  /\ UNCHANGED <<encoding, ranges, trimming, outputs, closer>>

\* Seeded fault: the entries stay in the order of arrival.
AsArrived(s) == s

\* Whether taking the entries of s in the order p sorts them.
Sorts(p, s) == \A i, j \in DOMAIN s : i < j => s[p[i]].pos =< s[p[j]].pos

ByPosition(s) ==
  LET order == CHOOSE p \in Bijection(DOMAIN s, DOMAIN s) : Sorts(p, s)
  IN  [i \in DOMAIN s |-> s[order[i]]]

Concatenate ==
  /\ \/ /\ Go("concatenate", "outputs")
        /\ cat' = ByPosition(cat)
        /\ input' = [i \in 1 .. ranges |-> cat'[i].pos]
        /\ UNCHANGED answer
     \/ /\ APIMayFail
        /\ Return("concatenate", "error")
        /\ UNCHANGED <<cat, input>>
  /\ UNCHANGED <<encoding, ranges, trimming, workc, outputs, closer>>

-----------------------------------------------------------------------------
(* The outputs *)

\* Where createOutput goes on after the streams of the kinds in done.
NextPart(o, done) ==
  IF o \in WithAudio /\ "audio" \notin done THEN "audio"
  ELSE IF o \in WithVideo /\ "video" \notin done THEN "video"
  ELSE "mux"

\* Seeded fault: the goroutine is started and not counted.
SpawnOutputUncounted(o) ==
  /\ main = "outputs" /\ out[o] = "idle"
  /\ out' = [out EXCEPT ![o] = NextPart(o, {})]
  /\ UNCHANGED <<main, answer, encoding, splicing, streams, muxed, wg, closer, failed>>

SpawnOutput(o) ==
  /\ main = "outputs" /\ out[o] = "idle"
  /\ out' = [out EXCEPT ![o] = NextPart(o, {})]
  /\ wg' = wg \cup {o}
  /\ UNCHANGED <<main, answer, encoding, splicing, streams, muxed, closer, failed>>

SpawnCloser ==
  /\ \A o \in Outputs : out[o] # "idle"
  /\ Go("outputs", "drain")
  /\ closer' = "waiting"
  /\ UNCHANGED <<answer, encoding, splicing, outputs>>

\* createOutput meets an error: it has to send it before it can leave.
Fail(o) ==
  /\ out' = [out EXCEPT ![o] = "send"]
  /\ failed' = failed \cup {o}

\* A stream and the filters it gets; a filter may fail when the stream is there.
AddStream(o, kind, done) ==
  /\ out[o] = kind
  /\ \/ /\ streams' = streams \cup {<<o, kind>>}
        /\ out' = [out EXCEPT ![o] = NextPart(o, done)]
        /\ UNCHANGED failed
     \/ /\ APIMayFail
        /\ streams' \in {streams, streams \cup {<<o, kind>>}}
        /\ Fail(o)
  /\ UNCHANGED <<main, answer, encoding, splicing, muxed, wg, closer>>

AddAudio(o) == AddStream(o, "audio", {"audio"})
AddVideo(o) == AddStream(o, "video", {"audio", "video"})

\* containerServicesFrom and Assemble.
AddMuxing(o) ==
  /\ out[o] = "mux"
  /\ \/ /\ muxed' = muxed \cup {o}
        /\ out' = [out EXCEPT ![o] = "leave"]
        /\ UNCHANGED failed
     \/ /\ APIMayFail
        /\ muxed' \in {muxed, muxed \cup {o}}
        /\ Fail(o)
  /\ UNCHANGED <<main, answer, encoding, splicing, streams, wg, closer>>

\* Seeded fault: main keeps draining after an error.
ReceiveAndGoOn(o) ==
  /\ main = "drain" /\ out[o] = "send"
  /\ out' = [out EXCEPT ![o] = "leave"]
  /\ UNCHANGED <<main, answer, encoding, splicing, streams, muxed, wg, closer, failed>>

\* errorc has no buffer: the send and main's receive are one step, and main
\* receives no more after its first error.
Receive(o) ==
  /\ out[o] = "send"
  /\ out' = [out EXCEPT ![o] = "leave"]
  /\ Return("drain", "error")
  /\ UNCHANGED <<encoding, splicing, streams, muxed, wg, closer, failed>>

\* Seeded faults: wg.Done is forgotten; or only runs on the way of success.
LeaveWithoutDone(o) ==
  /\ out[o] = "leave"
  /\ out' = [out EXCEPT ![o] = "done"]
  /\ UNCHANGED <<main, answer, encoding, splicing, streams, muxed, wg, closer, failed>>

LeaveDoneIfOK(o) ==
  /\ out[o] = "leave"
  /\ out' = [out EXCEPT ![o] = "done"]
  /\ wg' = IF o \in failed THEN wg ELSE wg \ {o}
  /\ UNCHANGED <<main, answer, encoding, splicing, streams, muxed, closer, failed>>

\* The deferred wg.Done.
Leave(o) ==
  /\ out[o] = "leave"
  /\ out' = [out EXCEPT ![o] = "done"]
  /\ wg' = wg \ {o}
  /\ UNCHANGED <<main, answer, encoding, splicing, streams, muxed, closer, failed>>

\* Seeded fault: errorc is closed without waiting.
CloseAtOnce ==
  /\ closer = "waiting"
  /\ closer' = "done"
  /\ UNCHANGED <<main, answer, encoding, splicing, outputs>>

Close ==
  /\ closer = "waiting" /\ wg = {}
  /\ closer' = "done"
  /\ UNCHANGED <<main, answer, encoding, splicing, outputs>>

\* The range over errorc ends when it is closed.
EndDrain ==
  /\ closer = "done"
  /\ Go("drain", "start")
  /\ UNCHANGED <<answer, encoding, splicing, outputs, closer>>

\* Seeded fault: the error of Encodings.Start is dropped.
StartUnchecked ==
  /\ Return("start", "ok")
  /\ \/ encoding' = "running"
     \/ APIMayFail /\ UNCHANGED encoding
  /\ UNCHANGED <<splicing, outputs, closer>>

Start ==
  /\ \/ /\ Return("start", "ok")
        /\ encoding' = "running"
     \/ /\ APIMayFail
        /\ Return("start", "error")
        /\ encoding' \in {encoding, "running"}
  /\ UNCHANGED <<splicing, outputs, closer>>

-----------------------------------------------------------------------------
Main == Prepare \/ CreateEncoding \/ Ingest \/ SpawnTrims \/ Collect \/ Concatenate
        \/ (\E o \in Outputs : SpawnOutput(o)) \/ SpawnCloser
        \/ (\E o \in Outputs : Receive(o)) \/ EndDrain \/ Start

Splice == \E i \in 0 .. ranges - 1 : Trim(i)

Output(o) == AddAudio(o) \/ AddVideo(o) \/ AddMuxing(o) \/ Leave(o)

Next == Main \/ Splice \/ (\E o \in Outputs : Output(o)) \/ Close

\* Goroutines are scheduled, and calls of the API return.
Fairness ==
  /\ WF_vars(Main) /\ WF_vars(Splice) /\ WF_vars(Close)
  /\ \A o \in Outputs : WF_vars(Output(o))

Spec == Init /\ [][Next]_vars /\ Fairness

-----------------------------------------------------------------------------
(* Properties *)

\* An encoding that runs is complete: each output has its streams and its
\* muxing, and no goroutine is left that could still change it
\* (bitmovin.go:384-414: wait group, closer and unbuffered channel together).
StartedComplete ==
  encoding = "running" =>
    /\ muxed = Outputs
    /\ streams = (WithAudio \X {"audio"}) \cup (WithVideo \X {"video"})
    /\ \A o \in Outputs : out[o] = "done"

\* No goroutine is about to send on errorc, or may get there, once it is closed:
\* that would panic outside any request and end the process.
NoSendOnClosed ==
  closer = "done" => \A o \in Outputs : out[o] = "done"

\* However the trims finish, what the outputs read is the ranges of the request
\* in their order, each once, and one of them is the main one
\* (bitmovin.go:351-373).
SplicedInOrder ==
  encoding = "running" =>
    /\ input = [i \in 1 .. ranges |-> i - 1]
    /\ ranges > 1 => Cardinality({i \in 1 .. ranges : cat[i].main}) = 1

Call == INSTANCE EncodingCall WITH Parts <- Outputs, parts <- muxed

\* A call of Transcode does what the abstract call promises.
EncodingCallImplemented == Call!CallSpec

\* Transcode returns: main never waits for a goroutine that does not come.
TranscodeReturns == <>(main = "returned")

AllEnded ==
  /\ main = "returned" /\ trimming = {} /\ closer # "waiting"
  /\ \A o \in Outputs : out[o] \in {"idle", "done"}

\* One failing output leaves no goroutine behind.  Two may: only the first error
\* is received, and the other sender and the closer wait for ever
\* (bitmovin.go:409-414).
NoGoroutineLeft == <>(AllEnded \/ Cardinality(failed) > 1)
=============================================================================
