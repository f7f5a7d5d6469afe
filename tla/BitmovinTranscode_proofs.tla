---------------------- MODULE BitmovinTranscode_proofs ----------------------
(* Proofs about BitmovinTranscode, for every job: any number of outputs    *)
(* and ranges, whichever calls of the API fail.                            *)
EXTENDS BitmovinTranscode, FiniteSetTheorems, SequenceTheorems, TLAPS

\* The streams output o should get, and those it has.
Wanted(o) == {k \in Kinds : <<o, k>> \in (WithAudio \X {"audio"}) \cup (WithVideo \X {"video"})}
Has(o) == {k \in Kinds : <<o, k>> \in streams}

SetUp == {"audio", "video", "mux", "send"}
BeforeOutputs == {"prepare", "create", "ingest", "trim", "collect", "concatenate"}

\* The type of what the outputs' part of Transcode reads and writes.
Typed ==
  /\ main \in MainSteps
  /\ answer \in {"none", "ok", "error"}
  /\ encoding \in {"none", "created", "running"}
  /\ out \in [Outputs -> OutSteps]
  /\ streams \in SUBSET (Outputs \X Kinds)
  /\ muxed \in SUBSET Outputs
  /\ wg \in SUBSET Outputs
  /\ closer \in {"none", "waiting", "done"}
  /\ failed \in SUBSET Outputs

\* What is known of the goroutine of output o at each of its steps.
OutputOf(o) ==
  /\ o \in wg <=> out[o] \in SetUp \cup {"leave"}
  /\ out[o] = "idle" => closer = "none" /\ Has(o) = {}
  /\ out[o] # "idle" => main \notin BeforeOutputs /\ encoding # "none"
  /\ Has(o) \subseteq Wanted(o)
  /\ out[o] = "audio" => o \in WithAudio /\ Has(o) = {}
  /\ out[o] = "video" => o \in WithVideo /\ Has(o) = Wanted(o) \ {"video"}
  /\ out[o] = "mux" => Has(o) = Wanted(o)
  /\ out[o] \in {"leave", "done"} => (Has(o) = Wanted(o) /\ o \in muxed) \/ answer = "error"

\* What is known of main and the closer.
MainInv ==
  /\ main = "returned" <=> answer # "none"
  /\ main \in {"prepare", "create"} => encoding = "none"
  /\ main \notin {"prepare", "create", "returned"} => encoding = "created"
  /\ main \in BeforeOutputs \cup {"outputs"} => closer = "none"
  /\ main \in {"drain", "start"} => closer # "none"
  /\ main = "start" => closer = "done"
  /\ closer = "done" => wg = {}

\* An encoding runs only when everything else has ended.
RunningInv ==
  encoding = "running" =>
    /\ main = "returned" /\ closer = "done"
    /\ \A o \in Outputs : out[o] = "done" /\ Has(o) = Wanted(o) /\ o \in muxed

TInv == Typed /\ (\A o \in Outputs : OutputOf(o)) /\ MainInv /\ RunningInv

-----------------------------------------------------------------------------
(* Operators *)

\* Where createOutput goes next, and what is still to be added then.
LEMMA NextPartType ==
  ASSUME NEW o \in Outputs, NEW done
  PROVE  NextPart(o, done) \in {"audio", "video", "mux"}
BY DEF NextPart

LEMMA FirstPart ==
  ASSUME NEW o \in Outputs
  PROVE  /\ NextPart(o, {}) = "audio" => o \in WithAudio
         /\ NextPart(o, {}) = "video" => o \in WithVideo /\ Wanted(o) \ {"video"} = {}
         /\ NextPart(o, {}) = "mux" => Wanted(o) = {}
BY DEF NextPart, Wanted, Kinds

LEMMA PartAfterAudio ==
  ASSUME NEW o \in WithAudio
  PROVE  /\ NextPart(o, {"audio"}) # "audio"
         /\ NextPart(o, {"audio"}) = "video" =>
              o \in WithVideo /\ Wanted(o) \ {"video"} = {"audio"}
         /\ NextPart(o, {"audio"}) = "mux" => Wanted(o) = {"audio"}
         /\ "audio" \in Wanted(o)
BY DEF NextPart, Wanted, Kinds

LEMMA PartAfterVideo ==
  ASSUME NEW o \in WithVideo
  PROVE  /\ NextPart(o, {"audio", "video"}) = "mux"
         /\ Wanted(o) = (Wanted(o) \ {"video"}) \cup {"video"}
BY DEF NextPart, Wanted, Kinds

\* Adding a stream to one output adds its kind to that output's and changes no other.
LEMMA HasAfterAdd ==
  ASSUME NEW o \in Outputs, NEW k \in Kinds, streams' = streams \cup {<<o, k>>}
  PROVE  /\ Has(o)' = Has(o) \cup {k}
         /\ \A p \in Outputs \ {o} : Has(p)' = Has(p)
BY DEF Has

LEMMA HasSame == streams' = streams => \A o \in Outputs : Has(o)' = Has(o)
BY DEF Has

-----------------------------------------------------------------------------
(* The invariant *)

LEMMA InitTInv == Init => TInv
BY DEF Init, TInv, Typed, OutputOf, MainInv, RunningInv, MainSteps, OutSteps, SetUp,
       BeforeOutputs, Has, Wanted, Kinds

\* The steps of main that touch no output and have not reached the outputs.
Early == Prepare \/ CreateEncoding \/ Ingest \/ SpawnTrims \/ Collect \/ Concatenate

LEMMA EarlyEffect ==
  Early => /\ UNCHANGED <<outputs, closer>>
           /\ main \in BeforeOutputs
           /\ \/ main' = "returned" /\ answer' = "error"
              \/ main' \in BeforeOutputs \cup {"outputs"} /\ answer' = answer
           /\ \/ encoding' = encoding /\ main # "create"
              \/ main = "create" /\ main' # "ingest" /\ encoding' \in {"none", "created"}
                 /\ main' = "returned"
              \/ main = "create" /\ main' = "ingest" /\ encoding' = "created"
           /\ main = "prepare" <=> main' = "create" \/ (main = "prepare" /\ main' = "returned")
           /\ main' # "prepare"
BY DEF Early, Prepare, CreateEncoding, Ingest, SpawnTrims, Collect, Concatenate, Go, Return,
       outputs, BeforeOutputs

LEMMA EarlyStep == TInv /\ Early => TInv'
<1> SUFFICES ASSUME TInv, Early PROVE TInv'
  OBVIOUS
<1> USE EarlyEffect DEF outputs
<1>1. \A o \in Outputs : out[o] = "idle" /\ Has(o)' = Has(o)
  BY HasSame DEF TInv, OutputOf, Typed
<1>2. Typed'
  BY DEF TInv, Typed, MainSteps, BeforeOutputs
<1>3. encoding # "running" /\ encoding' # "running"
  BY DEF TInv, RunningInv, BeforeOutputs
<1>4. \A o \in Outputs : OutputOf(o)'
  BY <1>1 DEF TInv, OutputOf, SetUp
<1>5. MainInv'
  BY DEF TInv, MainInv, BeforeOutputs, Typed, MainSteps
<1>6. QED
  BY <1>2, <1>3, <1>4, <1>5 DEF TInv, RunningInv

\* A step of output o alone: one stream, muxing or step of the goroutine of o.
LEMMA OthersKept ==
  ASSUME TInv, NEW o \in Outputs,
         UNCHANGED <<main, answer, encoding, closer>>,
         out' = [out EXCEPT ![o] = out'[o]],
         \A p \in Outputs \ {o} :
           Has(p)' = Has(p) /\ (p \in muxed' <=> p \in muxed) /\ (p \in wg' <=> p \in wg)
  PROVE  \A p \in Outputs \ {o} : OutputOf(p)'
<1> SUFFICES ASSUME NEW p \in Outputs \ {o} PROVE OutputOf(p)'
  OBVIOUS
<1>1. out'[p] = out[p]
  BY DEF TInv, Typed
<1>2. Wanted(p)' = Wanted(p)
  BY DEF Wanted
<1>3. QED
  BY <1>1, <1>2 DEF TInv, OutputOf

\* While an output is being set up the encoding is there and does not run.
LEMMA SettingUp ==
  ASSUME TInv, NEW o \in Outputs, out[o] \notin {"idle", "done"}
  PROVE  /\ encoding = "created" /\ closer # "done" /\ o \in wg
         /\ main \in {"outputs", "drain", "returned"}
BY DEF TInv, OutputOf, MainInv, RunningInv, Typed, OutSteps, SetUp, MainSteps, BeforeOutputs

LEMMA SpawnOutputStep == ASSUME TInv, NEW o \in Outputs, SpawnOutput(o) PROVE TInv'
<1> USE DEF SpawnOutput
<1>1. out'[o] = NextPart(o, {}) /\ out[o] = "idle" /\ out' = [out EXCEPT ![o] = out'[o]]
  BY DEF TInv, Typed
<1>2. out'[o] \in {"audio", "video", "mux"}
  BY <1>1, NextPartType
<1>3. Typed'
  BY <1>2 DEF TInv, Typed, OutSteps
<1>4. \A p \in Outputs : Has(p)' = Has(p)
  BY HasSame
<1>5. \A p \in Outputs \ {o} : OutputOf(p)'
  BY <1>1, <1>4, OthersKept
<1>6. OutputOf(o)'
  <2>1. Has(o)' = {} /\ Wanted(o)' = Wanted(o)
    BY <1>1, <1>4 DEF TInv, OutputOf, Wanted
  <2>2. encoding = "created" /\ closer = "none" /\ main \notin BeforeOutputs
    BY DEF TInv, MainInv, BeforeOutputs
  <2>3. QED
    BY <1>1, <1>2, <2>1, <2>2, FirstPart DEF OutputOf, SetUp
<1>7. MainInv' /\ RunningInv'
  BY DEF TInv, MainInv, RunningInv, BeforeOutputs
<1>8. QED
  BY <1>3, <1>5, <1>6, <1>7 DEF TInv

\* An output that is set up leaves main, the closer and a running encoding alone.
LEMMA SetUpKeeps ==
  ASSUME TInv, NEW o \in Outputs, out[o] \notin {"idle", "done"},
         UNCHANGED <<main, answer, encoding, closer>>
  PROVE  MainInv' /\ RunningInv'
<1>1. encoding = "created" /\ closer # "done"
  BY SettingUp
<1>2. QED
  BY <1>1 DEF TInv, MainInv, RunningInv

LEMMA AddAudioStep == ASSUME TInv, NEW o \in Outputs, AddAudio(o) PROVE TInv'
<1> USE DEF AddAudio, AddStream, Fail
<1>1. /\ out[o] = "audio" /\ out' = [out EXCEPT ![o] = out'[o]]
      /\ o \in WithAudio /\ Has(o) = {}
      /\ main \notin BeforeOutputs /\ encoding # "none" /\ o \in wg
  BY DEF TInv, Typed, OutputOf, SetUp
<1>2. \/ streams' = streams \cup {<<o, "audio">>} /\ out'[o] \in {NextPart(o, {"audio"}), "send"}
      \/ streams' = streams /\ out'[o] = "send"
  BY DEF TInv, Typed
<1>3. out'[o] \in {"audio", "video", "mux", "send"}
  BY <1>2, NextPartType
<1>4. Typed'
  BY <1>2, <1>3 DEF TInv, Typed, OutSteps, Kinds
<1>5. /\ Has(o)' = {"audio"} \/ (Has(o)' = {} /\ out'[o] = "send")
      /\ \A p \in Outputs \ {o} : Has(p)' = Has(p)
  BY <1>1, <1>2, HasAfterAdd, HasSame DEF Kinds
<1>6. \A p \in Outputs \ {o} : OutputOf(p)'
  BY <1>1, <1>5, OthersKept
<1>7. OutputOf(o)'
  <2>1. Wanted(o)' = Wanted(o)
    BY DEF Wanted
  <2>2. QED
    BY <1>1, <1>2, <1>3, <1>5, <2>1, PartAfterAudio DEF OutputOf, SetUp
<1>8. QED
  BY <1>1, <1>4, <1>6, <1>7, SetUpKeeps DEF TInv

LEMMA AddVideoStep == ASSUME TInv, NEW o \in Outputs, AddVideo(o) PROVE TInv'
<1> USE DEF AddVideo, AddStream, Fail
<1>1. /\ out[o] = "video" /\ out' = [out EXCEPT ![o] = out'[o]]
      /\ o \in WithVideo /\ Has(o) = Wanted(o) \ {"video"}
      /\ main \notin BeforeOutputs /\ encoding # "none" /\ o \in wg
  BY DEF TInv, Typed, OutputOf, SetUp
<1>2. \/ streams' = streams \cup {<<o, "video">>}
         /\ out'[o] \in {NextPart(o, {"audio", "video"}), "send"}
      \/ streams' = streams /\ out'[o] = "send"
  BY DEF TInv, Typed
<1>3. out'[o] \in {"mux", "send"}
  BY <1>1, <1>2, PartAfterVideo
<1>4. Typed'
  BY <1>2, <1>3 DEF TInv, Typed, OutSteps, Kinds
<1>5. /\ Has(o)' = Wanted(o) \/ (Has(o)' = Wanted(o) \ {"video"} /\ out'[o] = "send")
      /\ \A p \in Outputs \ {o} : Has(p)' = Has(p)
  BY <1>1, <1>2, HasAfterAdd, HasSame, PartAfterVideo DEF Kinds
<1>6. \A p \in Outputs \ {o} : OutputOf(p)'
  BY <1>1, <1>5, OthersKept
<1>7. OutputOf(o)'
  <2>1. Wanted(o)' = Wanted(o)
    BY DEF Wanted
  <2>2. QED
    BY <1>1, <1>3, <1>5, <2>1 DEF OutputOf, SetUp
<1>8. QED
  BY <1>1, <1>4, <1>6, <1>7, SetUpKeeps DEF TInv

LEMMA AddMuxingStep == ASSUME TInv, NEW o \in Outputs, AddMuxing(o) PROVE TInv'
<1> USE DEF AddMuxing, Fail
<1>1. /\ out[o] = "mux" /\ out' = [out EXCEPT ![o] = out'[o]]
      /\ Has(o) = Wanted(o)
      /\ main \notin BeforeOutputs /\ encoding # "none" /\ o \in wg
  BY DEF TInv, Typed, OutputOf, SetUp
<1>2. \/ muxed' = muxed \cup {o} /\ out'[o] = "leave"
      \/ muxed' \in {muxed, muxed \cup {o}} /\ out'[o] = "send"
  BY DEF TInv, Typed
<1>3. Typed'
  BY <1>2 DEF TInv, Typed, OutSteps
<1>4. \A p \in Outputs : Has(p)' = Has(p)
  BY HasSame
<1>5. \A p \in Outputs \ {o} : OutputOf(p)'
  BY <1>1, <1>2, <1>4, OthersKept
<1>6. OutputOf(o)'
  <2>1. Wanted(o)' = Wanted(o)
    BY DEF Wanted
  <2>2. QED
    BY <1>1, <1>2, <1>4, <2>1 DEF OutputOf, SetUp
<1>7. QED
  BY <1>1, <1>3, <1>5, <1>6, SetUpKeeps DEF TInv

LEMMA LeaveStep == ASSUME TInv, NEW o \in Outputs, Leave(o) PROVE TInv'
<1> USE DEF Leave
<1>1. /\ out[o] = "leave" /\ out'[o] = "done" /\ out' = [out EXCEPT ![o] = out'[o]]
  BY DEF TInv, Typed
<1>2. Typed'
  BY <1>1 DEF TInv, Typed, OutSteps
<1>3. \A p \in Outputs : Has(p)' = Has(p)
  BY HasSame
<1>4. \A p \in Outputs \ {o} : OutputOf(p)'
  BY <1>1, <1>3, OthersKept
<1>5. OutputOf(o)'
  <2>1. Wanted(o)' = Wanted(o)
    BY DEF Wanted
  <2>2. QED
    BY <1>1, <1>3, <2>1 DEF TInv, OutputOf, SetUp
<1>6. QED
  BY <1>1, <1>2, <1>4, <1>5, SetUpKeeps DEF TInv

\* main leaves with the error of o; the others go on as they were.
LEMMA ReceiveStep == ASSUME TInv, NEW o \in Outputs, Receive(o) PROVE TInv'
<1> USE DEF Receive, Return, Go
<1>1. /\ out[o] = "send" /\ out'[o] = "leave" /\ \A p \in Outputs \ {o} : out'[p] = out[p]
      /\ main = "drain" /\ main' = "returned" /\ answer' = "error"
  BY DEF TInv, Typed
<1>2. Typed'
  BY <1>1 DEF TInv, Typed, OutSteps, MainSteps
<1>3. encoding = "created" /\ closer # "done"
  BY <1>1, SettingUp
<1>4. \A p \in Outputs : Has(p)' = Has(p) /\ Wanted(p)' = Wanted(p)
  BY HasSame DEF Wanted
<1>5. ASSUME NEW p \in Outputs PROVE OutputOf(p)'
  BY <1>1, <1>4 DEF TInv, OutputOf, SetUp, BeforeOutputs
<1>6. MainInv' /\ RunningInv'
  BY <1>1, <1>3 DEF TInv, MainInv, RunningInv, BeforeOutputs
<1>7. QED
  BY <1>2, <1>5, <1>6 DEF TInv

\* When errorc is closed every goroutine has ended, and main has seen no error:
\* each output is complete.
LEMMA ClosedMeansDone ==
  ASSUME TInv, closer = "done"
  PROVE  \A o \in Outputs :
           /\ out[o] = "done"
           /\ answer = "none" => Has(o) = Wanted(o) /\ o \in muxed
BY DEF TInv, MainInv, OutputOf, Typed, OutSteps, SetUp

\* The steps of main and the closer once the goroutines of the outputs run.
LEMMA LateStep ==
  ASSUME TInv, SpawnCloser \/ Close \/ EndDrain \/ Start
  PROVE  TInv'
<1> USE DEF SpawnCloser, Close, EndDrain, Start, Go, Return, outputs
<1>1. UNCHANGED <<out, streams, muxed, wg>>
  OBVIOUS
<1>2. Typed'
  BY <1>1 DEF TInv, Typed, MainSteps
<1>3. \A p \in Outputs : Has(p)' = Has(p) /\ Wanted(p)' = Wanted(p)
  BY <1>1, HasSame DEF Wanted
<1>4. ASSUME NEW p \in Outputs PROVE OutputOf(p)'
  <2>1. main' \notin BeforeOutputs \/ main' = main
    BY DEF BeforeOutputs
  <2>2. encoding' = encoding \/ encoding' # "none"
    OBVIOUS
  <2>3. out[p] = "idle" => closer' = "none"
    BY DEF TInv, OutputOf, MainInv
  <2>4. answer' = answer \/ answer = "none"
    BY DEF TInv, MainInv
  <2>5. out[p] \in {"leave", "done"} => (Has(p) = Wanted(p) /\ p \in muxed) \/ answer' = "error"
    BY <2>4 DEF TInv, OutputOf
  <2>6. QED
    BY <1>1, <1>3, <2>1, <2>2, <2>3, <2>5 DEF TInv, OutputOf
<1>5. MainInv'
  BY <1>1 DEF TInv, MainInv, BeforeOutputs, Typed, MainSteps
<1>6. RunningInv'
  <2>1. CASE Start
    <3>1. closer = "done" /\ answer = "none"
      BY <2>1 DEF TInv, MainInv
    <3>2. main' = "returned" /\ closer' = "done"
      BY <2>1, <3>1
    <3>3. QED
      BY <1>1, <1>3, <3>1, <3>2, ClosedMeansDone DEF RunningInv
  <2>2. CASE ~Start
    <3>1. encoding' = encoding /\ encoding # "running"
      BY <2>2 DEF TInv, MainInv, RunningInv
    <3>2. QED
      BY <3>1 DEF RunningInv
  <2>3. QED
    BY <2>1, <2>2
<1>7. QED
  BY <1>2, <1>4, <1>5, <1>6 DEF TInv

\* The goroutine of a range touches nothing of the outputs.
LEMMA QuietStep ==
  ASSUME TInv, UNCHANGED <<main, answer, encoding, outputs, closer>>
  PROVE  TInv'
<1>1. \A o \in Outputs : Has(o)' = Has(o) /\ Wanted(o)' = Wanted(o)
  BY HasSame DEF outputs, Wanted
<1>2. Typed' /\ MainInv'
  BY DEF TInv, Typed, MainInv, outputs
<1>3. \A o \in Outputs : OutputOf(o)'
  BY <1>1 DEF TInv, OutputOf, outputs
<1>4. RunningInv'
  BY <1>1 DEF TInv, RunningInv, outputs
<1>5. QED
  BY <1>2, <1>3, <1>4 DEF TInv

LEMMA NextTInv == TInv /\ [Next]_vars => TInv'
<1> SUFFICES ASSUME TInv, [Next]_vars PROVE TInv'
  OBVIOUS
<1>1. CASE Prepare \/ CreateEncoding \/ Ingest \/ SpawnTrims \/ Collect \/ Concatenate
  BY <1>1, EarlyStep DEF Early
<1>2. CASE \E o \in Outputs : SpawnOutput(o)
  BY <1>2, SpawnOutputStep
<1>3. CASE \E o \in Outputs : Receive(o)
  BY <1>3, ReceiveStep
<1>4. CASE SpawnCloser \/ EndDrain \/ Start \/ Close
  BY <1>4, LateStep
<1>5. CASE Splice
  BY <1>5, QuietStep DEF Splice, Trim, outputs
<1>6. CASE \E o \in Outputs : Output(o)
  BY <1>6, AddAudioStep, AddVideoStep, AddMuxingStep, LeaveStep DEF Output
<1>7. CASE UNCHANGED vars
  BY <1>7, QuietStep DEF vars, outputs
<1>8. QED
  BY <1>1, <1>2, <1>3, <1>4, <1>5, <1>6, <1>7 DEF Next, Main

\* The invariant the two results below rest on.
THEOREM Inductive == Spec => []TInv
<1>1. Init => TInv
  BY InitTInv
<1>2. TInv /\ [Next]_vars => TInv'
  BY NextTInv
<1>3. QED
  BY <1>1, <1>2, PTL DEF Spec

-----------------------------------------------------------------------------
(* The ranges *)

SpliceType ==
  /\ ranges \in RangeCounts
  /\ trimming \in SUBSET (0 .. ranges - 1)
  /\ workc \in Seq(Work)
  /\ cat \in Seq(Entry)
  /\ input \in Seq(Nat)

\* A result arrives once, of a range that is no longer being trimmed.
Arrived ==
  \A i \in 1 .. Len(workc) :
    /\ workc[i].pos \in (0 .. ranges - 1) \ trimming
    /\ \A j \in 1 .. Len(workc) : workc[j].pos = workc[i].pos => j = i

\* What was collected has left the channel; only the first entry is the main one.
Collected ==
  \A i \in 1 .. Len(cat) :
    /\ cat[i].pos \in (0 .. ranges - 1) \ trimming
    /\ \A j \in 1 .. Len(workc) : workc[j].pos # cat[i].pos
    /\ \A j \in 1 .. Len(cat) : cat[j].pos = cat[i].pos => j = i
    /\ cat[i].main <=> i = 1

Spliced ==
  /\ input = [i \in 1 .. ranges |-> i - 1]
  /\ ranges > 1 => Cardinality({i \in 1 .. ranges : cat[i].main}) = 1

BeforeSplice == {"prepare", "create", "ingest", "trim"}
AfterSplice  == {"outputs", "drain", "start"}

SpliceInv ==
  /\ SpliceType
  /\ Arrived
  /\ main \in BeforeSplice => trimming = {} /\ workc = <<>> /\ cat = <<>> /\ input = <<>>
  /\ main = "trim" => ranges >= 1
  /\ main = "collect" => Collected /\ Len(cat) < ranges
  /\ main = "concatenate" => Collected /\ Len(cat) = ranges /\ ranges > 1
  /\ main \in AfterSplice \/ encoding = "running" => Spliced

-----------------------------------------------------------------------------
(* Sorting by position *)

\* Positions that are distinct and below the number of entries are all of them.
LEMMA EveryPosition ==
  ASSUME NEW n \in Nat, NEW f \in [1 .. n -> 0 .. n - 1],
         \A i, j \in 1 .. n : f[i] = f[j] => i = j
  PROVE  f \in Bijection(1 .. n, 0 .. n - 1)
<1>1. f \in Injection(1 .. n, 0 .. n - 1)
  BY DEF Injection, IsInjective
<1>2. Cardinality(1 .. n) = Cardinality(0 .. n - 1) /\ IsFiniteSet(0 .. n - 1)
  BY FS_Interval
<1>3. f \in Surjection(1 .. n, 0 .. n - 1)
  BY <1>1, <1>2, FS_Injection
<1>4. QED
  BY <1>1, <1>3 DEF Bijection

\* Such a function that does not decrease counts up from 0: as many entries lie
\* before the k-th as there are positions below its own.
LEMMA CountsUp ==
  ASSUME NEW n \in Nat, NEW f \in Bijection(1 .. n, 0 .. n - 1),
         \A i, j \in 1 .. n : i < j => f[i] =< f[j],
         NEW k \in 1 .. n
  PROVE  f[k] = k - 1
<1> DEFINE g == [i \in 1 .. k - 1 |-> f[i]]
<1>1. /\ f \in [1 .. n -> 0 .. n - 1]
      /\ \A i, j \in 1 .. n : f[i] = f[j] => i = j
      /\ \A m \in 0 .. n - 1 : \E i \in 1 .. n : f[i] = m
  BY DEF Bijection, Injection, Surjection, IsInjective
<1>2. f[k] \in 0 .. n - 1
  BY <1>1
<1>3. \A i \in 1 .. n : i < k <=> f[i] < f[k]
  <2> TAKE i \in 1 .. n
  <2>1. CASE i < k
    BY <1>1, <2>1
  <2>2. CASE i = k
    BY <1>1, <2>2
  <2>3. CASE i > k
    BY <1>1, <2>3
  <2>4. QED
    BY <2>1, <2>2, <2>3
<1>4. g \in [1 .. k - 1 -> 0 .. f[k] - 1]
  <2> SUFFICES ASSUME NEW i \in 1 .. k - 1 PROVE f[i] \in 0 .. f[k] - 1
    OBVIOUS
  <2>1. i \in 1 .. n /\ i < k
    OBVIOUS
  <2>2. QED
    BY <1>1, <1>2, <1>3, <2>1
<1>5. g \in Injection(1 .. k - 1, 0 .. f[k] - 1)
  <2>1. \A i, j \in 1 .. k - 1 : g[i] = g[j] => i = j
    BY <1>1
  <2>2. QED
    BY <1>4, <2>1 DEF Injection, IsInjective
<1>6. g \in Surjection(1 .. k - 1, 0 .. f[k] - 1)
  <2>1. ASSUME NEW m \in 0 .. f[k] - 1 PROVE \E i \in 1 .. k - 1 : g[i] = m
    <3>1. m \in 0 .. n - 1 /\ m < f[k]
      BY <1>2
    <3>2. PICK i \in 1 .. n : f[i] = m
      BY <1>1, <3>1
    <3>3. i \in 1 .. k - 1
      BY <1>3, <3>1, <3>2
    <3>4. QED
      BY <3>2, <3>3
  <2>2. QED
    BY <1>4, <2>1 DEF Surjection
<1>7. IsFiniteSet(1 .. k - 1) /\ Cardinality(1 .. k - 1) = k - 1
  <2>1. 1 \in Int /\ k - 1 \in Int
    OBVIOUS
  <2>2. IsFiniteSet(1 .. k - 1) /\ Cardinality(1 .. k - 1) = IF 1 > k - 1 THEN 0 ELSE k - 1 - 1 + 1
    BY <2>1, FS_Interval, Zenon
  <2>3. QED
    BY <2>2
<1>8. Cardinality(0 .. f[k] - 1) = f[k]
  <2>1. 0 \in Int /\ f[k] - 1 \in Int
    BY <1>2
  <2>2. Cardinality(0 .. f[k] - 1) = IF 0 > f[k] - 1 THEN 0 ELSE f[k] - 1 - 0 + 1
    BY <2>1, FS_Interval, Zenon
  <2>3. QED
    BY <1>2, <2>2
<1>9. ExistsBijection(1 .. k - 1, 0 .. f[k] - 1)
  BY <1>5, <1>6 DEF ExistsBijection, Bijection
<1>10. QED
  BY <1>7, <1>8, <1>9, FS_Bijection

\* ByPosition puts the entry with position k - 1 at place k, and is a permutation.
LEMMA Sorted ==
  ASSUME NEW n \in Nat, NEW s \in Seq(Entry), Len(s) = n,
         \A i \in 1 .. n : s[i].pos \in 0 .. n - 1,
         \A i, j \in 1 .. n : s[i].pos = s[j].pos => i = j
  PROVE  /\ ByPosition(s) \in Seq(Entry)
         /\ \A k \in 1 .. n : ByPosition(s)[k].pos = k - 1
         /\ \E p \in Bijection(1 .. n, 1 .. n) : \A k \in 1 .. n : ByPosition(s)[k] = s[p[k]]
<1> DEFINE D == 1 .. n
           pos == [i \in D |-> s[i].pos]
           p == CHOOSE q \in Bijection(D, D) : Sorts(q, s)
<1>1. DOMAIN s = D /\ \A i \in D : s[i] \in Entry
  OBVIOUS
<1>2. pos \in Bijection(D, 0 .. n - 1)
  BY EveryPosition
<1>3. /\ pos \in [D -> 0 .. n - 1]
      /\ \A m \in 0 .. n - 1 : \E i \in D : pos[i] = m
      /\ \A i, j \in D : pos[i] = pos[j] => i = j
      /\ \A i \in D : pos[i] = s[i].pos /\ pos[i] \in 0 .. n - 1
  BY <1>2 DEF Bijection, Injection, Surjection, IsInjective
<1> HIDE DEF pos
<1>4. \E q \in Bijection(D, D) : Sorts(q, s)
  <2> DEFINE at == [k \in D |-> CHOOSE i \in D : pos[i] = k - 1]
  <2>1. \A k \in D : at[k] \in D /\ pos[at[k]] = k - 1
    <3> TAKE k \in D
    <3>1. k - 1 \in 0 .. n - 1
      OBVIOUS
    <3>2. \E i \in D : pos[i] = k - 1
      BY <1>3, <3>1
    <3>3. QED
      BY <3>2
  <2>2. at \in [D -> D]
    BY <2>1
  <2> HIDE DEF at
  <2>3. at \in Injection(D, D)
    <3>1. \A i, j \in D : at[i] = at[j] => i = j
      BY <2>1
    <3>2. QED
      BY <2>2, <3>1 DEF Injection, IsInjective
  <2>4. ASSUME NEW i \in D PROVE \E k \in D : at[k] = i
    <3>1. pos[i] \in 0 .. n - 1 /\ pos[i] + 1 \in D
      <4>1. pos[i] \in 0 .. n - 1
        BY <1>3
      <4>2. QED
        BY <4>1
    <3>2. at[pos[i] + 1] \in D /\ pos[at[pos[i] + 1]] = pos[i] + 1 - 1
      BY <2>1, <3>1
    <3>3. pos[at[pos[i] + 1]] = pos[i]
      BY <3>1, <3>2
    <3>4. at[pos[i] + 1] = i
      BY <1>3, <3>2, <3>3
    <3>5. QED
      BY <3>1, <3>4
  <2>5. at \in Bijection(D, D)
    BY <2>2, <2>3, <2>4 DEF Bijection, Surjection
  <2>6. Sorts(at, s)
    <3> SUFFICES ASSUME NEW i \in D, NEW j \in D, i < j
                 PROVE  s[at[i]].pos =< s[at[j]].pos
      BY <1>1 DEF Sorts
    <3>1. pos[at[i]] = i - 1 /\ pos[at[j]] = j - 1 /\ at[i] \in D /\ at[j] \in D
      BY <2>1
    <3>2. s[at[i]].pos = i - 1 /\ s[at[j]].pos = j - 1
      BY <1>3, <3>1
    <3>3. QED
      BY <3>2
  <2>7. QED
    BY <2>5, <2>6
<1>5. p \in Bijection(D, D) /\ Sorts(p, s)
  BY <1>4
<1> HIDE DEF p
<1>6. /\ p \in [D -> D]
      /\ \A i \in D : p[i] \in D
      /\ \A i, j \in D : p[i] = p[j] => i = j
      /\ \A i \in D : \E k \in D : p[k] = i
  <2>1. p \in Injection(D, D) /\ p \in Surjection(D, D)
    BY <1>5 DEF Bijection
  <2>2. p \in [D -> D] /\ \A i \in D : \E k \in D : p[k] = i
    BY <2>1 DEF Surjection
  <2>3. \A i, j \in D : p[i] = p[j] => i = j
    BY <2>1, <2>2 DEF Injection, IsInjective
  <2>4. QED
    BY <2>2, <2>3
<1>7. ByPosition(s) = [i \in D |-> s[p[i]]]
  BY <1>1 DEF ByPosition, p
<1>8. ByPosition(s) \in Seq(Entry)
  <2>1. \A i \in D : s[p[i]] \in Entry
    BY <1>1, <1>6
  <2>2. QED
    BY <1>7, <2>1
<1>9. ASSUME NEW k \in D PROVE ByPosition(s)[k].pos = k - 1
  <2> DEFINE f == [i \in D |-> pos[p[i]]]
  <2>0. \A i \in D : f[i] = pos[p[i]] /\ f[i] = s[p[i]].pos
    BY <1>3, <1>6
  <2>1. f \in [D -> 0 .. n - 1]
    BY <1>3, <1>6
  <2> HIDE DEF f
  <2>2. \A i, j \in D : f[i] = f[j] => i = j
    BY <1>3, <1>6, <2>0
  <2>3. f \in Bijection(D, 0 .. n - 1)
    BY <2>1, <2>2, EveryPosition
  <2>4. \A i, j \in D : i < j => f[i] =< f[j]
    BY <1>1, <1>5, <2>0 DEF Sorts
  <2>5. f[k] = k - 1
    BY <2>3, <2>4, CountsUp
  <2>6. QED
    BY <1>7, <2>0, <2>5
<1>10. QED
  BY <1>5, <1>7, <1>8, <1>9

-----------------------------------------------------------------------------
(* What the outputs read *)

LEMMA RangesType == SpliceType => ranges \in Nat
BY TranscodeAssumption DEF SpliceType

LEMMA InitSplice == Init => SpliceInv
BY EmptySeq DEF Init, SpliceInv, SpliceType, Arrived, AfterSplice

\* Without ranges the outputs read the input as it is.
LEMMA NothingSpliced == ranges = 0 /\ input = <<>> => Spliced
<1>1. <<>> = [i \in 1 .. 0 |-> i - 1]
  <2>1. [i \in 1 .. 0 |-> i - 1] \in Seq(Nat) /\ Len([i \in 1 .. 0 |-> i - 1]) = 0
    OBVIOUS
  <2>2. QED
    BY <2>1, EmptySeq
<1>2. QED
  BY <1>1 DEF Spliced

LEMMA OneSpliced == ranges = 1 /\ input = <<0>> => Spliced
<1>1. <<0>> = [i \in 1 .. 1 |-> i - 1]
  OBVIOUS
<1>2. QED
  BY <1>1 DEF Spliced

\* The steps of Transcode that neither trim nor read the results.
LEMMA SplicingKept ==
  ASSUME TInv, SpliceInv, UNCHANGED splicing,
         main' \in BeforeSplice => main \in BeforeSplice,
         main' = "trim" => ranges >= 1,
         main' = "collect" => main = "collect",
         main' = "concatenate" => main = "concatenate",
         main' \in AfterSplice \/ encoding' = "running" =>
           main \in AfterSplice \/ encoding = "running" \/ Spliced
  PROVE  SpliceInv'
<1> USE DEF splicing
<1>1. SpliceType' /\ Arrived'
  BY DEF SpliceInv, SpliceType, Arrived
<1>2. (Collected => Collected') /\ (Spliced => Spliced')
  BY DEF Collected, Spliced
<1>3. QED
  BY <1>1, <1>2 DEF SpliceInv

LEMMA OutsideSplice ==
  ASSUME TInv, SpliceInv,
         \/ Prepare \/ CreateEncoding \/ Ingest \/ SpawnCloser \/ Close \/ EndDrain \/ Start
         \/ \E o \in Outputs : SpawnOutput(o) \/ Receive(o) \/ Output(o)
         \/ UNCHANGED vars
  PROVE  SpliceInv'
<1> USE DEF BeforeSplice, AfterSplice
<1>1. CASE Prepare \/ CreateEncoding
  <2>1. /\ UNCHANGED splicing /\ main \in BeforeSplice /\ main' \in {"create", "ingest", "returned"}
        /\ encoding' = "running" => encoding = "running"
    BY <1>1 DEF Prepare, CreateEncoding, Go, Return
  <2>2. QED
    BY <2>1, SplicingKept
<1>2. CASE Ingest
  <2>1. /\ UNCHANGED <<splicing, encoding>> /\ main = "ingest"
        /\ main' = "returned" \/ (main' = "outputs" /\ ranges = 0) \/ (main' = "trim" /\ ranges # 0)
    BY <1>2 DEF Ingest, Go, Return
  <2>2. ranges \in Nat /\ input = <<>>
    BY <2>1, RangesType DEF SpliceInv
  <2>3. ranges = 0 => Spliced
    BY <2>2, NothingSpliced
  <2>4. QED
    BY <2>1, <2>2, <2>3, SplicingKept
<1>3. CASE SpawnCloser \/ Close \/ EndDrain \/ Start
  <2>1. /\ UNCHANGED splicing
        /\ main' = main \/ (main \in AfterSplice /\ main' \in {"drain", "start", "returned"})
        /\ encoding' = encoding \/ main \in AfterSplice
    BY <1>3 DEF SpawnCloser, Close, EndDrain, Start, Go, Return
  <2>2. main = "trim" => ranges >= 1
    BY DEF SpliceInv
  <2>3. QED
    BY <2>1, <2>2, SplicingKept
<1>4. CASE (\E o \in Outputs : SpawnOutput(o) \/ Receive(o) \/ Output(o)) \/ UNCHANGED vars
  <2>1. /\ UNCHANGED <<splicing, encoding>>
        /\ main' = main \/ main' = "returned"
    BY <1>4 DEF SpawnOutput, Receive, Output, AddAudio, AddVideo, AddStream, AddMuxing, Leave,
                Fail, Go, Return, vars, splicing
  <2>2. main = "trim" => ranges >= 1
    BY DEF SpliceInv
  <2>3. QED
    BY <2>1, <2>2, SplicingKept
<1>5. QED
  BY <1>1, <1>2, <1>3, <1>4

LEMMA SpawnTrimsStep == ASSUME TInv, SpliceInv, SpawnTrims PROVE SpliceInv'
<1>1. /\ main = "trim" /\ main' = "collect" /\ trimming' = 0 .. ranges - 1
      /\ UNCHANGED <<encoding, ranges, workc, cat, input>>
  BY DEF SpawnTrims, Go
<1>2. workc = <<>> /\ cat = <<>> /\ ranges >= 1 /\ SpliceType /\ ranges \in Nat
  BY <1>1, RangesType DEF SpliceInv, BeforeSplice
<1>3. Len(workc) = 0 /\ Len(cat) = 0
  BY <1>2
<1>4. SpliceType'
  BY <1>1, <1>2 DEF SpliceType
<1>5. Arrived' /\ Collected'
  BY <1>1, <1>3 DEF Arrived, Collected
<1>6. encoding # "running"
  BY <1>1 DEF TInv, RunningInv
<1>7. QED
  BY <1>1, <1>2, <1>3, <1>4, <1>5, <1>6 DEF SpliceInv, BeforeSplice, AfterSplice

LEMMA TrimStep == ASSUME TInv, SpliceInv, NEW i \in 0 .. ranges - 1, Trim(i) PROVE SpliceInv'
<1>1. PICK ok \in BOOLEAN :
        /\ i \in trimming /\ trimming' = trimming \ {i}
        /\ workc' = Append(workc, [pos |-> i, ok |-> ok])
        /\ UNCHANGED <<main, encoding, ranges, cat, input>>
  BY TranscodeAssumption DEF Trim
<1> DEFINE w == [pos |-> i, ok |-> ok]
<1>2. SpliceType /\ Arrived /\ ranges \in Nat /\ i \in Nat
  BY RangesType DEF SpliceInv
<1>3. w \in Work /\ workc \in Seq(Work)
  BY <1>2 DEF Work, SpliceType
<1>4. /\ workc' \in Seq(Work) /\ Len(workc') = Len(workc) + 1 /\ Len(workc) \in Nat
      /\ \A j \in 1 .. Len(workc) : workc'[j] = workc[j]
      /\ workc'[Len(workc) + 1].pos = i
  BY <1>1, <1>3
<1>5. \A j \in 1 .. Len(workc) : workc[j].pos # i
  BY <1>1, <1>2 DEF Arrived
<1>6. SpliceType'
  BY <1>1, <1>2, <1>4 DEF SpliceType
<1>7. Arrived'
  <2> SUFFICES ASSUME NEW k \in 1 .. Len(workc) + 1
               PROVE  /\ workc'[k].pos \in (0 .. ranges - 1) \ trimming'
                      /\ \A j \in 1 .. Len(workc) + 1 : workc'[j].pos = workc'[k].pos => j = k
    BY <1>1, <1>4 DEF Arrived
  <2>1. CASE k = Len(workc) + 1
    BY <1>1, <1>4, <1>5, <2>1
  <2>2. CASE k \in 1 .. Len(workc)
    BY <1>1, <1>2, <1>4, <1>5, <2>2 DEF Arrived
  <2>3. QED
    BY <1>4, <2>1, <2>2
<1>8. Collected => Collected'
  <2> SUFFICES ASSUME Collected, NEW k \in 1 .. Len(cat)
               PROVE  /\ cat[k].pos \in (0 .. ranges - 1) \ trimming'
                      /\ \A j \in 1 .. Len(workc') : workc'[j].pos # cat[k].pos
                      /\ \A j \in 1 .. Len(cat) : cat[j].pos = cat[k].pos => j = k
                      /\ cat[k].main <=> k = 1
    BY <1>1 DEF Collected
  <2>1. cat[k].pos # i
    BY <1>1 DEF Collected
  <2>2. ASSUME NEW j \in 1 .. Len(workc') PROVE workc'[j].pos # cat[k].pos
    <3>1. CASE j = Len(workc) + 1
      BY <1>4, <2>1, <3>1
    <3>2. CASE j \in 1 .. Len(workc)
      BY <1>4, <3>2 DEF Collected
    <3>3. QED
      BY <1>4, <3>1, <3>2
  <2>3. QED
    BY <1>1, <2>2 DEF Collected
<1>9. main \notin BeforeSplice
  BY <1>1 DEF SpliceInv
<1>10. Spliced => Spliced'
  BY <1>1 DEF Spliced
<1>11. QED
  BY <1>1, <1>6, <1>7, <1>8, <1>9, <1>10 DEF SpliceInv, BeforeSplice

LEMMA CollectStep == ASSUME TInv, SpliceInv, Collect PROVE SpliceInv'
<1> DEFINE w == Head(workc)
<1>1. /\ main = "collect" /\ workc # <<>> /\ workc' = Tail(workc)
      /\ UNCHANGED <<encoding, ranges, trimming>>
  BY DEF Collect
<1>2. /\ SpliceType /\ Arrived /\ Collected /\ Len(cat) < ranges /\ ranges \in Nat
      /\ workc \in Seq(Work) /\ cat \in Seq(Entry)
  BY <1>1, RangesType DEF SpliceInv, SpliceType
<1>3. encoding # "running"
  BY <1>1 DEF TInv, RunningInv
<1>4. /\ w \in Work /\ w = workc[1] /\ Len(workc) \in Nat \ {0}
      /\ workc' \in Seq(Work) /\ Len(workc') = Len(workc) - 1
      /\ \A j \in 1 .. Len(workc') : workc'[j] = workc[j + 1]
  BY <1>1, <1>2, HeadTailProperties, EmptySeq
<1>5. /\ w.pos \in (0 .. ranges - 1) \ trimming
      /\ \A j \in 1 .. Len(workc') : workc'[j].pos # w.pos
      /\ \A k \in 1 .. Len(cat) : cat[k].pos # w.pos
  <2>1. 1 \in 1 .. Len(workc)
    BY <1>4
  <2>2. ASSUME NEW j \in 1 .. Len(workc') PROVE workc'[j].pos # w.pos
    <3>1. j + 1 \in 1 .. Len(workc) /\ j + 1 # 1 /\ workc'[j] = workc[j + 1]
      BY <1>4
    <3>2. QED
      BY <1>2, <1>4, <2>1, <3>1 DEF Arrived
  <2>3. w.pos \in (0 .. ranges - 1) \ trimming
    BY <1>2, <1>4, <2>1 DEF Arrived
  <2>4. \A k \in 1 .. Len(cat) : cat[k].pos # w.pos
    BY <1>2, <1>4, <2>1 DEF Collected
  <2>5. QED
    BY <2>2, <2>3, <2>4
<1>6. Arrived'
  <2> SUFFICES ASSUME NEW k \in 1 .. Len(workc')
               PROVE  /\ workc'[k].pos \in (0 .. ranges - 1) \ trimming
                      /\ \A j \in 1 .. Len(workc') : workc'[j].pos = workc'[k].pos => j = k
    BY <1>1 DEF Arrived
  <2>1. k + 1 \in 1 .. Len(workc)
    BY <1>4
  <2>2. \A j \in 1 .. Len(workc') : j + 1 \in 1 .. Len(workc) /\ (j + 1 = k + 1 => j = k)
    BY <1>4
  <2>3. QED
    BY <1>2, <1>4, <2>1, <2>2 DEF Arrived
<1>7. CASE main' = "returned" /\ UNCHANGED <<cat, input>>
  BY <1>1, <1>2, <1>3, <1>4, <1>6, <1>7 DEF SpliceInv, SpliceType, BeforeSplice, AfterSplice
<1>8. CASE ranges = 1 /\ main' = "outputs" /\ input' = <<w.pos>> /\ cat' = cat
  <2>1. w.pos = 0
    BY <1>5, <1>8
  <2>2. Spliced'
    <3>1. ranges' = 1 /\ input' = <<0>>
      BY <1>1, <1>8, <2>1
    <3>2. <<0>> = [i \in 1 .. 1 |-> i - 1]
      OBVIOUS
    <3>3. QED
      BY <3>1, <3>2 DEF Spliced
  <2>3. SpliceType'
    BY <1>1, <1>2, <1>4, <1>8, <2>1 DEF SpliceType
  <2>4. QED
    BY <1>6, <1>8, <2>2, <2>3 DEF SpliceInv, BeforeSplice
<1>9. CASE /\ ranges > 1
           /\ cat' = Append(cat, [pos |-> w.pos, main |-> cat = <<>>])
           /\ main' = IF Len(cat') = ranges THEN "concatenate" ELSE "collect"
           /\ input' = input
  <2> DEFINE e == [pos |-> w.pos, main |-> cat = <<>>]
  <2>1. e \in Entry /\ e.pos = w.pos /\ (e.main <=> Len(cat) = 0)
    BY <1>2, <1>4, EmptySeq DEF Entry, Work
  <2> HIDE DEF e
  <2>2. /\ cat' \in Seq(Entry) /\ Len(cat') = Len(cat) + 1 /\ Len(cat) \in Nat
        /\ \A k \in 1 .. Len(cat) : cat'[k] = cat[k]
        /\ cat'[Len(cat) + 1] = e
    BY <1>2, <1>9, <2>1 DEF e
  <2>3. Collected'
    <3> SUFFICES ASSUME NEW k \in 1 .. Len(cat) + 1
                 PROVE  /\ cat'[k].pos \in (0 .. ranges - 1) \ trimming
                        /\ \A j \in 1 .. Len(workc') : workc'[j].pos # cat'[k].pos
                        /\ \A j \in 1 .. Len(cat) + 1 : cat'[j].pos = cat'[k].pos => j = k
                        /\ cat'[k].main <=> k = 1
      BY <1>1, <2>2 DEF Collected
    <3>1. CASE k = Len(cat) + 1
      BY <1>5, <2>1, <2>2, <3>1
    <3>2. CASE k \in 1 .. Len(cat)
      <4>1. cat'[k] = cat[k]
        BY <2>2, <3>2
      <4>2. \A j \in 1 .. Len(workc') : workc'[j].pos # cat[k].pos
        <5> TAKE j \in 1 .. Len(workc')
        <5>1. workc'[j] = workc[j + 1] /\ j + 1 \in 1 .. Len(workc)
          BY <1>4
        <5>2. QED
          BY <1>2, <3>2, <5>1 DEF Collected
      <4>3. \A j \in 1 .. Len(cat) + 1 : cat'[j].pos = cat[k].pos => j = k
        <5> TAKE j \in 1 .. Len(cat) + 1
        <5>1. CASE j = Len(cat) + 1
          BY <1>5, <2>1, <2>2, <3>2, <5>1
        <5>2. CASE j \in 1 .. Len(cat)
          BY <1>2, <2>2, <3>2, <5>2 DEF Collected
        <5>3. QED
          BY <2>2, <5>1, <5>2
      <4>4. QED
        BY <1>2, <3>2, <4>1, <4>2, <4>3 DEF Collected
    <3>3. QED
      BY <2>2, <3>1, <3>2
  <2>4. SpliceType'
    BY <1>1, <1>2, <1>4, <1>9, <2>2 DEF SpliceType
  <2>5. /\ main' \in {"collect", "concatenate"}
        /\ main' = "collect" => Len(cat') < ranges'
        /\ main' = "concatenate" => Len(cat') = ranges' /\ ranges' > 1
    BY <1>1, <1>2, <1>9, <2>2
  <2>6. QED
    BY <1>1, <1>3, <1>6, <2>3, <2>4, <2>5 DEF SpliceInv, BeforeSplice, AfterSplice
<1>10. QED
  BY <1>7, <1>8, <1>9 DEF Collect, Go, Return

LEMMA ConcatenateStep == ASSUME TInv, SpliceInv, Concatenate PROVE SpliceInv'
<1>1. /\ main = "concatenate" /\ UNCHANGED <<encoding, ranges, trimming, workc>>
  BY DEF Concatenate, Go, Return
<1>2. /\ SpliceType /\ Arrived /\ Collected /\ Len(cat) = ranges /\ ranges > 1
      /\ ranges \in Nat /\ cat \in Seq(Entry)
  BY <1>1, RangesType DEF SpliceInv, SpliceType
<1>3. encoding # "running"
  BY <1>1 DEF TInv, RunningInv
<1>4. Arrived'
  BY <1>1, <1>2 DEF Arrived
<1>5. CASE main' = "returned" /\ UNCHANGED <<cat, input>>
  BY <1>1, <1>2, <1>3, <1>4, <1>5 DEF SpliceInv, SpliceType, BeforeSplice, AfterSplice
<1>6. CASE /\ main' = "outputs" /\ cat' = ByPosition(cat)
           /\ input' = [i \in 1 .. ranges |-> cat'[i].pos]
  <2> DEFINE D == 1 .. ranges
  <2>1. /\ \A i \in D : cat[i].pos \in 0 .. ranges - 1
        /\ \A i, j \in D : cat[i].pos = cat[j].pos => i = j
        /\ \A i \in D : cat[i].main <=> i = 1
    BY <1>2 DEF Collected
  <2>2. /\ cat' \in Seq(Entry)
        /\ \A k \in D : cat'[k].pos = k - 1
        /\ \E p \in Bijection(D, D) : \A k \in D : cat'[k] = cat[p[k]]
    <3>1. /\ ByPosition(cat) \in Seq(Entry)
          /\ \A k \in 1 .. ranges : ByPosition(cat)[k].pos = k - 1
          /\ \E p \in Bijection(1 .. ranges, 1 .. ranges) :
               \A k \in 1 .. ranges : ByPosition(cat)[k] = cat[p[k]]
      <4>1. \A i \in 1 .. ranges : cat[i].pos \in 0 .. ranges - 1
        BY <2>1
      <4>2. \A i, j \in 1 .. ranges : cat[i].pos = cat[j].pos => i = j
        BY <2>1
      <4>3. QED
        BY <1>2, <4>1, <4>2, Sorted, Zenon
    <3>2. QED
      BY <1>6, <3>1
  <2>3. input' = [i \in D |-> i - 1]
    BY <1>6, <2>2
  <2>4. input' \in Seq(Nat)
    BY <1>2, <2>3
  <2>5. Cardinality({i \in D : cat'[i].main}) = 1
    <3>1. PICK p \in Bijection(D, D) : \A k \in D : cat'[k] = cat[p[k]]
      BY <2>2
    <3>2. p \in Injection(D, D) /\ p \in Surjection(D, D)
      BY DEF Bijection
    <3>3. p \in [D -> D] /\ \A i \in D : \E k \in D : p[k] = i
      BY <3>2 DEF Surjection
    <3>4. \A i, j \in D : p[i] = p[j] => i = j
      BY <3>2, <3>3 DEF Injection, IsInjective
    <3>5. 1 \in D
      BY <1>2
    <3>6. PICK m \in D : p[m] = 1
      BY <3>3, <3>5
    <3>7. ASSUME NEW i \in D PROVE cat'[i].main <=> i = m
      <4>1. cat'[i] = cat[p[i]] /\ p[i] \in D
        BY <3>1, <3>3
      <4>2. p[i] = 1 <=> i = m
        BY <3>4, <3>6
      <4>3. cat[p[i]].main <=> p[i] = 1
        BY <2>1, <4>1
      <4>4. QED
        BY <4>1, <4>2, <4>3, Zenon
    <3>8. {i \in D : cat'[i].main} = {m}
      BY <3>7
    <3>9. QED
      BY <3>8, FS_Singleton
  <2>6. Spliced'
    BY <1>1, <2>3, <2>5 DEF Spliced
  <2>7. SpliceType'
    BY <1>1, <1>2, <2>2, <2>4 DEF SpliceType
  <2>8. QED
    BY <1>4, <1>6, <2>6, <2>7 DEF SpliceInv, BeforeSplice
<1>7. QED
  BY <1>5, <1>6 DEF Concatenate, Go, Return

\* The invariant behind it: what was trimmed, arrived and was collected.
THEOREM SpliceInductive == Spec => []SpliceInv
<1>1. Init => SpliceInv
  BY InitSplice
<1>2. TInv /\ SpliceInv /\ [Next]_vars => SpliceInv'
  <2> SUFFICES ASSUME TInv, SpliceInv, [Next]_vars PROVE SpliceInv'
    OBVIOUS
  <2>1. CASE SpawnTrims
    BY <2>1, SpawnTrimsStep
  <2>2. CASE Splice
    BY <2>2, TrimStep DEF Splice
  <2>3. CASE Collect
    BY <2>3, CollectStep
  <2>4. CASE Concatenate
    BY <2>4, ConcatenateStep
  <2>5. QED
    BY <2>1, <2>2, <2>3, <2>4, OutsideSplice DEF Next, Main
<1>3. QED
  BY <1>1, <1>2, Inductive, PTL DEF Spec

\* However the trims finish, the outputs of a running encoding read the ranges of
\* the request in their order, each once, and one of them is the main one: for any
\* number of ranges.
THEOREM SplicedInOrderHolds == Spec => []SplicedInOrder
<1>1. SpliceInv => SplicedInOrder
  BY DEF SpliceInv, Spliced, SplicedInOrder
<1>2. QED
  BY <1>1, SpliceInductive, PTL

\* Every variable of a call keeps its type.
THEOREM TypeCorrect == Spec => []TypeOK
<1>1. TInv /\ SpliceInv => TypeOK
  BY DEF TInv, Typed, SpliceInv, SpliceType, TypeOK
<1>2. QED
  BY <1>1, Inductive, SpliceInductive, PTL

-----------------------------------------------------------------------------
(* What the callers rely on *)

\* The streams are those wanted when each output has those it wants.
LEMMA StreamsByOutput ==
  ASSUME Typed, \A o \in Outputs : Has(o) = Wanted(o)
  PROVE  streams = (WithAudio \X {"audio"}) \cup (WithVideo \X {"video"})
<1> DEFINE W == (WithAudio \X {"audio"}) \cup (WithVideo \X {"video"})
<1>1. W \subseteq Outputs \X Kinds
  BY TranscodeAssumption DEF Kinds
<1>2. streams \subseteq Outputs \X Kinds
  BY DEF Typed
<1>3. \A o \in Outputs, k \in Kinds : <<o, k>> \in streams <=> <<o, k>> \in W
  BY DEF Has, Wanted
<1>4. QED
  BY <1>1, <1>2, <1>3

\* A running encoding has every stream and muxing the job asks for, and no
\* goroutine is left that could change it, for any number of outputs.
THEOREM StartedCompleteHolds == Spec => []StartedComplete
<1>1. TInv => StartedComplete
  <2> SUFFICES ASSUME TInv, encoding = "running"
      PROVE  /\ muxed = Outputs
             /\ streams = (WithAudio \X {"audio"}) \cup (WithVideo \X {"video"})
             /\ \A o \in Outputs : out[o] = "done"
    BY DEF StartedComplete
  <2>1. \A o \in Outputs : out[o] = "done" /\ Has(o) = Wanted(o) /\ o \in muxed
    BY DEF TInv, RunningInv
  <2>2. muxed = Outputs
    BY <2>1 DEF TInv, Typed
  <2>3. QED
    BY <2>1, <2>2, StreamsByOutput DEF TInv
<1>2. QED
  BY <1>1, Inductive, PTL

\* Once errorc is closed no goroutine of an output can still send on it, for any
\* number of outputs and whichever of them fail.
THEOREM NoSendOnClosedHolds == Spec => []NoSendOnClosed
<1>1. TInv => NoSendOnClosed
  BY ClosedMeansDone DEF NoSendOnClosed
<1>2. QED
  BY <1>1, Inductive, PTL

-----------------------------------------------------------------------------
(* Refinement *)

LEMMA InitImplements == Init => Call!CallInit
BY DEF Init, Call!CallInit

LEMMA StepImplements == TInv /\ [Next]_vars => [Call!CallNext]_<<encoding, muxed, answer>>
<1> SUFFICES ASSUME TInv, [Next]_vars PROVE [Call!CallNext]_<<encoding, muxed, answer>>
  OBVIOUS
<1> DEFINE Skip == UNCHANGED <<encoding, muxed, answer>>
<1>1. main # "returned" => answer = "none"
  BY DEF TInv, MainInv
<1>2. CASE CreateEncoding
  <2>1. encoding = "none" /\ answer = "none"
    BY <1>2 DEF CreateEncoding, Go, Return, TInv, MainInv
  <2>2. QED
    BY <1>2, <2>1 DEF CreateEncoding, Go, Return, outputs, Call!CallNext, Call!Create,
       Call!Reject
<1>3. CASE Prepare \/ Ingest \/ SpawnTrims \/ Collect \/ Concatenate
  <2>1. UNCHANGED <<encoding, muxed>> /\ main # "returned"
    BY <1>3 DEF Prepare, Ingest, SpawnTrims, Collect, Concatenate, Go, Return, outputs
  <2>2. answer' \in {answer, "error"}
    BY <1>3 DEF Prepare, Ingest, SpawnTrims, Collect, Concatenate, Go, Return
  <2>3. QED
    BY <1>1, <2>1, <2>2 DEF Call!CallNext, Call!Reject
<1>4. CASE \E o \in Outputs : Receive(o)
  <2>1. UNCHANGED <<encoding, muxed>> /\ main # "returned" /\ answer' = "error"
    BY <1>4 DEF Receive, Return, Go
  <2>2. QED
    BY <1>1, <2>1 DEF Call!CallNext, Call!Reject
<1>5. CASE \E o \in Outputs : AddMuxing(o)
  <2>1. PICK o \in Outputs : AddMuxing(o)
    BY <1>5
  <2>2. encoding = "created"
    BY <2>1, SettingUp DEF AddMuxing
  <2>3. muxed' \in {muxed, muxed \cup {o}} /\ UNCHANGED <<encoding, answer>>
    BY <2>1 DEF AddMuxing
  <2>4. QED
    BY <2>2, <2>3 DEF Call!CallNext, Call!Add
<1>6. CASE Start
  <2>1. main = "start" /\ main' = "returned" /\ muxed' = muxed
    BY <1>6 DEF Start, Go, Return, outputs
  <2>2. closer = "done" /\ answer = "none" /\ encoding = "created"
    BY <2>1 DEF TInv, MainInv, BeforeOutputs
  <2>3. muxed = Outputs
    BY <2>2, ClosedMeansDone DEF TInv, Typed
  <2>4. \/ encoding' = "running" /\ answer' \in {"ok", "error"}
        \/ encoding' = encoding /\ answer' = "error"
    BY <1>6 DEF Start, Return, Go
  <2>5. QED
    BY <2>1, <2>2, <2>3, <2>4 DEF Call!CallNext, Call!Run, Call!Reject
<1>7. CASE \E o \in Outputs : SpawnOutput(o) \/ AddAudio(o) \/ AddVideo(o) \/ Leave(o)
  <2>1. Skip
    BY <1>7 DEF SpawnOutput, AddAudio, AddVideo, AddStream, Leave
  <2>2. QED
    BY <2>1
<1>8. CASE SpawnCloser \/ EndDrain \/ Close \/ Splice \/ UNCHANGED vars
  <2>1. Skip
    BY <1>8 DEF SpawnCloser, EndDrain, Close, Splice, Trim, Go, outputs, vars
  <2>2. QED
    BY <2>1
<1>9. QED
  BY <1>2, <1>3, <1>4, <1>5, <1>6, <1>7, <1>8 DEF Next, Main, Output

\* A call of Transcode implements the abstract call: the encoding runs only
\* complete, nothing joins it afterwards, and ok means that it runs.
THEOREM Refinement == Spec => EncodingCallImplemented
<1>1. Init => Call!CallInit
  BY InitImplements
<1>2. TInv /\ [Next]_vars => [Call!CallNext]_<<encoding, muxed, answer>>
  BY StepImplements
<1>3. [][Call!CallNext]_<<encoding, muxed, answer>> /\ Call!CallInit => EncodingCallImplemented
  BY PTL DEF EncodingCallImplemented, Call!CallSpec, Call!callVars
<1>4. QED
  BY <1>1, <1>2, <1>3, Inductive, PTL DEF Spec
-----------------------------------------------------------------------------
(* What the return of Transcode rests on                                     *)

\* While main collects, no range is lost: it is being trimmed, or its result is
\* in the channel, or has been collected.
NoRangeLost ==
  main = "collect" =>
    \A p \in (0 .. ranges - 1) \ trimming :
      \/ \E j \in 1 .. Len(workc) : workc[j].pos = p
      \/ \E k \in 1 .. Len(cat) : cat[k].pos = p

\* Main waits for a channel only while it has something to read there, or another
\* goroutine that has not come to its end, or the closer, will bring it.
NeverStuck ==
  /\ main = "collect" => workc # <<>> \/ trimming # {}
  /\ main = "drain" => \/ closer = "done" \/ wg = {}
                       \/ \E o \in Outputs : out[o] \in SetUp \cup {"leave"}

LEMMA NoRangeLostStep == TInv /\ SpliceInv /\ NoRangeLost /\ [Next]_vars => NoRangeLost'
<1> SUFFICES ASSUME TInv, SpliceInv, NoRangeLost, [Next]_vars, main' = "collect",
                    NEW p \in (0 .. ranges' - 1) \ trimming'
             PROVE  \/ \E j \in 1 .. Len(workc') : workc'[j].pos = p
                    \/ \E k \in 1 .. Len(cat') : cat'[k].pos = p
  BY DEF NoRangeLost
<1>1. SpliceType /\ ranges \in Nat
  BY RangesType DEF SpliceInv
<1>2. CASE SpawnTrims
  BY <1>2 DEF SpawnTrims
<1>3. CASE Splice
  <2>1. PICK i \in 0 .. ranges - 1 : Trim(i)
    BY <1>3 DEF Splice
  <2>2. PICK ok \in BOOLEAN :
          /\ trimming' = trimming \ {i}
          /\ workc' = Append(workc, [pos |-> i, ok |-> ok])
          /\ UNCHANGED <<main, ranges, cat>>
    BY <2>1, TranscodeAssumption DEF Trim
  <2>3. workc \in Seq(Work) /\ [pos |-> i, ok |-> ok] \in Work
    BY <1>1 DEF SpliceType, Work
  <2>4. /\ Len(workc') = Len(workc) + 1 /\ Len(workc) \in Nat
        /\ \A j \in 1 .. Len(workc) : workc'[j] = workc[j]
        /\ workc'[Len(workc) + 1].pos = i
    BY <2>2, <2>3
  <2>5. CASE p = i
    BY <2>4, <2>5
  <2>6. CASE p # i
    <3>1. \/ \E j \in 1 .. Len(workc) : workc[j].pos = p
          \/ \E k \in 1 .. Len(cat) : cat[k].pos = p
      BY <2>2, <2>6 DEF NoRangeLost
    <3>2. QED
      BY <2>2, <2>4, <3>1
  <2>7. QED
    BY <2>5, <2>6
<1>4. CASE Collect
  <2> DEFINE w == Head(workc)
  <2>1. /\ main = "collect" /\ workc # <<>> /\ workc' = Tail(workc)
        /\ cat' = Append(cat, [pos |-> w.pos, main |-> cat = <<>>])
        /\ UNCHANGED <<ranges, trimming>>
    BY <1>4 DEF Collect, Go, Return
  <2>2. workc \in Seq(Work) /\ cat \in Seq(Entry)
    BY <1>1 DEF SpliceType
  <2>3. /\ w = workc[1] /\ w \in Work /\ Len(workc) \in Nat \ {0} /\ Len(workc') = Len(workc) - 1
        /\ \A j \in 1 .. Len(workc') : workc'[j] = workc[j + 1]
    BY <2>1, <2>2, HeadTailProperties, EmptySeq
  <2>4. [pos |-> w.pos, main |-> cat = <<>>] \in Entry
    BY <2>3 DEF Entry, Work
  <2>5. /\ Len(cat') = Len(cat) + 1 /\ Len(cat) \in Nat
        /\ \A k \in 1 .. Len(cat) : cat'[k] = cat[k]
        /\ cat'[Len(cat) + 1].pos = w.pos
    BY <2>1, <2>2, <2>4
  <2>6. \/ \E j \in 1 .. Len(workc) : workc[j].pos = p
        \/ \E k \in 1 .. Len(cat) : cat[k].pos = p
    BY <2>1 DEF NoRangeLost
  <2>7. ASSUME NEW j \in 1 .. Len(workc), workc[j].pos = p, j # 1
        PROVE  \E i \in 1 .. Len(workc') : workc'[i].pos = p
    <3>1. j - 1 \in 1 .. Len(workc') /\ workc'[j - 1] = workc[j]
      BY <2>3, <2>7
    <3>2. QED
      BY <2>7, <3>1
  <2>8. ASSUME NEW k \in 1 .. Len(cat), cat[k].pos = p
        PROVE  \E i \in 1 .. Len(cat') : cat'[i].pos = p
    <3>1. k \in 1 .. Len(cat') /\ cat'[k].pos = p
      BY <2>5, <2>8
    <3>2. QED
      BY <3>1
  <2>9. workc[1].pos = p => \E i \in 1 .. Len(cat') : cat'[i].pos = p
    <3>1. Len(cat) + 1 \in 1 .. Len(cat') /\ cat'[Len(cat) + 1].pos = workc[1].pos
      BY <2>3, <2>5
    <3>2. QED
      BY <3>1
  <2>10. QED
    BY <2>6, <2>7, <2>8, <2>9
<1>5. CASE \/ Prepare \/ CreateEncoding \/ Ingest \/ Concatenate \/ SpawnCloser \/ Close \/ EndDrain \/ Start
           \/ \E o \in Outputs : SpawnOutput(o) \/ Receive(o) \/ Output(o)
           \/ UNCHANGED vars
  <2>1. CASE \/ Prepare \/ CreateEncoding \/ Ingest \/ Concatenate \/ EndDrain \/ Start \/ SpawnCloser
    BY <2>1 DEF Prepare, CreateEncoding, Ingest, Concatenate, SpawnCloser, EndDrain, Start, Go, Return
  <2>2. CASE Close \/ (\E o \in Outputs : SpawnOutput(o) \/ Receive(o) \/ Output(o)) \/ UNCHANGED vars
    <3>1. main = "collect" /\ UNCHANGED splicing
      BY <2>2 DEF Close, SpawnOutput, Receive, Output, AddAudio, AddVideo, AddStream, AddMuxing,
                  Leave, Fail, Go, Return, vars, splicing
    <3>2. QED
      BY <3>1 DEF NoRangeLost, splicing
  <2>3. QED
    BY <1>5, <2>1, <2>2
<1>6. QED
  BY <1>2, <1>3, <1>4, <1>5 DEF Next, Main

\* As many ranges are to be collected as there are, so that not all of them can
\* have been while main still waits for one.
LEMMA OneToCome ==
  ASSUME SpliceInv, NoRangeLost, main = "collect", workc = <<>>
  PROVE  trimming # {}
<1> SUFFICES ASSUME trimming = {} PROVE FALSE
  OBVIOUS
<1> DEFINE D == 1 .. Len(cat)
           T == 0 .. ranges - 1
           f == [k \in D |-> cat[k].pos]
<1>1. Len(cat) \in Nat /\ ranges \in Nat /\ Len(cat) < ranges
  BY RangesType DEF SpliceInv, SpliceType
<1>2. f \in [D -> T]
  BY DEF SpliceInv, Collected
<1>3. \A p \in T : \E k \in D : f[k] = p
  BY EmptySeq DEF NoRangeLost
<1>4. f \in Surjection(D, T)
  BY <1>2, <1>3 DEF Surjection
<1>5. /\ IsFiniteSet(D) /\ Cardinality(D) = Len(cat)
      /\ Cardinality(T) = ranges
  <2>1. 1 \in Int /\ Len(cat) \in Int /\ 0 \in Int /\ ranges - 1 \in Int
    BY <1>1
  <2>2. IsFiniteSet(D) /\ Cardinality(D) = (IF 1 > Len(cat) THEN 0 ELSE Len(cat) - 1 + 1)
    BY <2>1, FS_Interval
  <2>3. Cardinality(T) = (IF 0 > ranges - 1 THEN 0 ELSE ranges - 1 - 0 + 1)
    BY <2>1, FS_Interval
  <2>4. QED
    BY <1>1, <2>2, <2>3
<1> HIDE DEF D, T, f
<1>6. Cardinality(T) <= Cardinality(D)
  BY <1>4, <1>5, FS_Surjection
<1>7. QED
  BY <1>1, <1>5, <1>6

\* For any outputs and ranges and whichever calls fail, Transcode does not wait for
\* a message that nobody will send.
THEOREM NeverStuckHolds == Spec => []NeverStuck
<1>1. Init => NoRangeLost
  BY DEF Init, NoRangeLost
<1>2. TInv /\ SpliceInv /\ NoRangeLost => NeverStuck
  <2> SUFFICES ASSUME TInv, SpliceInv, NoRangeLost PROVE NeverStuck
    OBVIOUS
  <2>1. ASSUME main = "drain", closer # "done", wg # {}
        PROVE  \E o \in Outputs : out[o] \in SetUp \cup {"leave"}
    <3>1. PICK o \in Outputs : o \in wg
      BY <2>1 DEF TInv, Typed
    <3>2. QED
      BY <3>1 DEF TInv, OutputOf
  <2>2. QED
    BY <2>1, OneToCome DEF NeverStuck
<1>3. QED
  BY <1>1, <1>2, NoRangeLostStep, Inductive, SpliceInductive, PTL DEF Spec
-----------------------------------------------------------------------------
(* What is left behind                                                       *)

\* A sender has failed; and when main has returned on it, either no output was at
\* work or the error of one was received.
HeardInv ==
  /\ \A o \in Outputs : out[o] = "send" => o \in failed
  /\ main = "returned" => \/ \A o \in Outputs : out[o] \in {"idle", "done"}
                          \/ \E p \in failed : out[p] \in {"leave", "done"}

\* A goroutine that is left with an error which nobody receives has failed, and is
\* not the only one that has (bitmovin.go:409-414).
BlockedByTwo ==
  \A o \in Outputs : main = "returned" /\ out[o] = "send" => o \in failed /\ failed # {o}

LEMMA HeardStep == TInv /\ HeardInv /\ [Next]_vars => HeardInv'
<1> SUFFICES ASSUME TInv, HeardInv, [Next]_vars PROVE HeardInv'
  OBVIOUS
<1>1. out \in [Outputs -> OutSteps] /\ failed \in SUBSET Outputs
  BY DEF TInv, Typed
<1>2. CASE Prepare \/ CreateEncoding \/ Ingest \/ SpawnTrims \/ Collect \/ Concatenate
  <2>1. UNCHANGED <<out, failed>> /\ main \in BeforeOutputs
    BY <1>2 DEF Prepare, CreateEncoding, Ingest, SpawnTrims, Collect, Concatenate, Go, Return, outputs,
                BeforeOutputs
  <2>2. \A o \in Outputs : out[o] = "idle"
    BY <2>1 DEF TInv, OutputOf
  <2>3. QED
    BY <2>1, <2>2 DEF HeardInv
<1>3. CASE \E o \in Outputs : SpawnOutput(o)
  <2>1. PICK o \in Outputs : SpawnOutput(o)
    BY <1>3
  <2>2. /\ main = "outputs" /\ main' = main /\ UNCHANGED failed
        /\ out' = [out EXCEPT ![o] = NextPart(o, {})]
    BY <2>1 DEF SpawnOutput
  <2>3. NextPart(o, {}) # "send"
    BY NextPartType
  <2>4. QED
    BY <1>1, <2>2, <2>3 DEF HeardInv
<1>4. CASE SpawnCloser \/ Close \/ EndDrain
  <2>1. UNCHANGED <<out, failed>> /\ (main' = main \/ main' # "returned")
    BY <1>4 DEF SpawnCloser, Close, EndDrain, Go, outputs
  <2>2. QED
    BY <2>1 DEF HeardInv
<1>5. CASE Start
  <2>1. UNCHANGED <<out, failed>> /\ main = "start"
    BY <1>5 DEF Start, Go, Return, outputs
  <2>2. \A o \in Outputs : out[o] \in {"idle", "done"}
    BY <1>1, <2>1 DEF TInv, MainInv, OutputOf, OutSteps, SetUp
  <2>3. QED
    BY <2>1, <2>2 DEF HeardInv
<1>6. CASE \E o \in Outputs : Receive(o)
  <2>1. PICK o \in Outputs : Receive(o)
    BY <1>6
  <2>2. out[o] = "send" /\ out' = [out EXCEPT ![o] = "leave"] /\ UNCHANGED failed
    BY <2>1 DEF Receive
  <2>3. o \in failed' /\ out'[o] = "leave"
    BY <1>1, <2>2 DEF HeardInv
  <2>4. \A q \in Outputs : out'[q] = "send" => q \in failed'
    BY <1>1, <2>2 DEF HeardInv
  <2>5. QED
    BY <2>3, <2>4 DEF HeardInv
<1>7. CASE \E o \in Outputs : Output(o)
  <2>1. PICK o \in Outputs : Output(o)
    BY <1>7
  <2>2. /\ UNCHANGED main
        /\ out[o] \in {"audio", "video", "mux", "leave"}
        /\ out[o] = "leave" => out' = [out EXCEPT ![o] = "done"] /\ failed' = failed
    BY <2>1 DEF Output, AddAudio, AddVideo, AddStream, AddMuxing, Leave
  <2>3. /\ \A q \in Outputs \ {o} : out'[q] = out[q]
        /\ failed \subseteq failed' /\ (out'[o] = "send" => o \in failed')
    BY <1>1, <2>1, NextPartType DEF Output, AddAudio, AddVideo, AddStream, AddMuxing, Leave, Fail
  <2>4. \A q \in Outputs : out'[q] = "send" => q \in failed'
    BY <2>3 DEF HeardInv
  <2>5. ASSUME NEW p \in failed, out[p] \in {"leave", "done"}
        PROVE  p \in failed' /\ out'[p] \in {"leave", "done"}
    BY <1>1, <2>2, <2>3, <2>5
  <2>6. QED
    BY <2>2, <2>4, <2>5 DEF HeardInv
<1>8. CASE Splice \/ UNCHANGED vars
  <2>1. UNCHANGED <<main, out, failed>>
    BY <1>8 DEF Splice, Trim, vars, outputs
  <2>2. QED
    BY <2>1 DEF HeardInv
<1>9. QED
  BY <1>2, <1>3, <1>4, <1>5, <1>6, <1>7, <1>8 DEF Next, Main

\* For any number of outputs, a goroutine is left at its send only if two failed.
THEOREM BlockedByTwoHolds == Spec => []BlockedByTwo
<1>1. Init => HeardInv
  BY DEF Init, HeardInv
<1>2. HeardInv => BlockedByTwo
  BY DEF HeardInv, BlockedByTwo
<1>3. QED
  BY <1>1, <1>2, HeardStep, Inductive, PTL DEF Spec
=============================================================================
