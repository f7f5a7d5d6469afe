------------------------ MODULE MediaConvert_proofs ------------------------
(* Proofs about MediaConvertTranscode, for any presets, jobs and failures:   *)
(* how the outputs of a job are grouped, and what its crops and its discrete *)
(* tracks are made of.                                                       *)
EXTENDS MediaConvertTranscode, SequenceTheorems, FiniteSetTheorems, TLAPS

-----------------------------------------------------------------------------
(* The inductive invariant *)

\* What the request of each output and the hash of each preset hold.
HasMargins(p) == \A f \in Margins : p[f] \in Nat

MadeOfPreset(o) ==
  /\ o.made \notin {Refused, Panic}
  /\ \E p : HasMargins(p) /\ o.made = OutputFrom(p, job.source)

Hashes ==
  \A n \in Names : hashes[n] # None =>
    \A f \in Margins : f \in DOMAIN hashes[n] => hashes[n][f].digits \in Nat

\* The outputs before next are in the group of their container, in their order.
Groups ==
  /\ DOMAIN groups = Types
  /\ \A t \in Types : \E S : groups[t] \in Seq(S)
  /\ \A t \in Types : Len(groups[t]) < next
  /\ \A t \in Types : \A k \in 1 .. Len(groups[t]) :
       /\ groups[t][k].of \in 1 .. next - 1
       /\ groups[t][k].made.container = t
       /\ MadeOfPreset(groups[t][k])
  /\ \A t \in Types : \A k, l \in 1 .. Len(groups[t]) :
       k < l => groups[t][k].of < groups[t][l].of
  /\ \A i \in 1 .. next - 1 : \E t \in Types : \E k \in 1 .. Len(groups[t]) : groups[t][k].of = i
  /\ \A t, u \in Types : \A k \in 1 .. Len(groups[t]), l \in 1 .. Len(groups[u]) :
       groups[t][k].of = groups[u][l].of => t = u

\* The request has the groups that are not left, each once.
Grouped ==
  /\ \E S : request \in Seq(S)
  /\ left \subseteq Types /\ \A t \in left : groups[t] # <<>>
  /\ \A g \in 1 .. Len(request) : \E t \in Types \ left :
       groups[t] # <<>> /\ request[g].outputs = groups[t]
  /\ \A g, h \in 1 .. Len(request) : request[g].outputs = request[h].outputs => g = h
  /\ pc # "outputs" /\ next > Len(job.outputs) =>
       \A t \in Types \ left : groups[t] # <<>> =>
         \E g \in 1 .. Len(request) : request[g].outputs = groups[t]

\* How far Transcode is, and that nothing is sent before all groups are made.
Progress ==
  /\ pc \in {"outputs", "groups", "answered", "failed", "panicked"}
  /\ next \in 1 .. Len(job.outputs) + 1
  /\ pc = "outputs" => request = <<>> /\ left = {}
  /\ pc \in {"groups", "answered"} => next = Len(job.outputs) + 1
  /\ pc = "answered" => state # None
  /\ state # None => pc \in {"answered", "failed"} /\ left = {} /\ next = Len(job.outputs) + 1

IInv ==
  /\ TypeOK /\ DOMAIN hashes = Names
  /\ Hashes
  /\ Groups
  /\ Grouped
  /\ Progress

-----------------------------------------------------------------------------
(* What a preset is turned into *)

LEMMA OutputMade ==
  ASSUME NEW p, NEW src, OutputFrom(p, src) \notin {Refused, Panic}
  PROVE  LET video == IF HasVideo(p) THEN VideoFrom(p, src) ELSE None
         IN /\ p.container \in DOMAIN Containers
            /\ video \notin {Refused, Panic} /\ AudioTracks(p) # Refused
            /\ OutputFrom(p, src) =
                 [container |-> Containers[p.container], video |-> video, audio |-> AudioTracks(p)]
<1> DEFINE video == IF HasVideo(p) THEN VideoFrom(p, src) ELSE None
<1> HIDE DEF video
<1>1. OutputFrom(p, src) =
        CASE p.container \notin DOMAIN Containers -> Refused
          [] p.container \in DOMAIN Containers /\ video \in {Refused, Panic} -> video
          [] p.container \in DOMAIN Containers /\ video \notin {Refused, Panic}
               /\ AudioTracks(p) = Refused -> Refused
          [] OTHER -> [container |-> Containers[p.container], video |-> video, audio |-> AudioTracks(p)]
  BY DEF OutputFrom, video
<1>2. p.container \in DOMAIN Containers
  BY <1>1
<1>3. video \notin {Refused, Panic}
  BY <1>1, <1>2
<1>4. AudioTracks(p) # Refused
  BY <1>1, <1>2, <1>3
<1>5. OutputFrom(p, src) =
        [container |-> Containers[p.container], video |-> video, audio |-> AudioTracks(p)]
  BY <1>1, <1>2, <1>3, <1>4
<1>6. QED
  BY <1>2, <1>3, <1>4, <1>5 DEF video

LEMMA VideoMade ==
  ASSUME NEW p, NEW src, VideoFrom(p, src) \notin {Refused, Panic}
  PROVE  VideoFrom(p, src).crop = Crop(p, src)
BY DEF VideoFrom

LEMMA RoundedUp ==
  ASSUME NEW i \in Int
  PROVE  /\ RoundEven(i, 1) = IF i % 2 = 0 THEN i ELSE i + 1
         /\ RoundEven(i, 1) \in Int
BY DEF RoundEven

LEMMA RoundedDown ==
  ASSUME NEW i \in Int
  PROVE  /\ RoundEven(i, -1) = IF i % 2 = 0 THEN i ELSE i - 1
         /\ RoundEven(i, -1) \in Int
         /\ RoundEven(i, -1) % 2 = 0
BY DEF RoundEven

\* Of a side of even length, an offset that is rounded up and a length that is
\* rounded down stay within it.
LEMMA SideFits ==
  ASSUME NEW size \in Int, size % 2 = 0, NEW near \in Nat, NEW far \in Nat
  PROVE  /\ RoundEven(near, 1) + RoundEven(size - near - far, -1) <= size
         /\ RoundEven(size - near - far, -1) % 2 = 0
<1>1. size - near - far \in Int /\ near \in Int
  OBVIOUS
<1>2. CASE near % 2 = 0
  BY <1>1, <1>2, RoundedUp, RoundedDown
<1>3. CASE near % 2 # 0 /\ far % 2 = 0
  <2>1. (size - near - far) % 2 # 0
    BY <1>3
  <2>2. QED
    BY <1>1, <1>3, <2>1, RoundedUp, RoundedDown
<1>4. CASE near % 2 # 0 /\ far % 2 # 0
  <2>1. far >= 1
    BY <1>4
  <2>2. QED
    BY <1>1, <1>4, <2>1, RoundedUp, RoundedDown
<1>5. QED
  BY <1>2, <1>3, <1>4

LEMMA CropFits ==
  ASSUME NEW p, HasMargins(p), NEW src, NEW c, c = Crop(p, src), c # None,
         src.width \in Nat, src.height \in Nat, src.width % 2 = 0, src.height % 2 = 0
  PROVE  /\ c.x + c.width <= src.width /\ c.y + c.height <= src.height
         /\ c.width % 2 = 0 /\ c.height % 2 = 0
<1>1. c = [x |-> RoundEven(p.left, 1), width |-> RoundEven(src.width - p.left - p.right, -1),
           y |-> RoundEven(p.top, 1), height |-> RoundEven(src.height - p.top - p.bottom, -1)]
  BY DEF Crop
<1>2. p.left \in Nat /\ p.right \in Nat /\ p.top \in Nat /\ p.bottom \in Nat
  BY DEF HasMargins, Margins
<1>3. src.width \in Int /\ src.height \in Int
  OBVIOUS
<1>4. /\ RoundEven(p.left, 1) + RoundEven(src.width - p.left - p.right, -1) <= src.width
      /\ RoundEven(src.width - p.left - p.right, -1) % 2 = 0
  BY <1>2, <1>3, SideFits
<1>5. /\ RoundEven(p.top, 1) + RoundEven(src.height - p.top - p.bottom, -1) <= src.height
      /\ RoundEven(src.height - p.top - p.bottom, -1) % 2 = 0
  BY <1>2, <1>3, SideFits
<1>6. QED
  BY <1>1, <1>4, <1>5

\* Each channel is heard in one of the tracks of a split.
LEMMA SplitEach ==
  ASSUME NEW p, AudioTracks(p) # Refused, Len(AudioTracks(p)) > 1
  PROVE  LET tracks == AudioTracks(p)
         IN \A k \in DOMAIN tracks[1].gains :
              Cardinality({i \in DOMAIN tracks : tracks[i].channels = 1 /\ tracks[i].gains[k] = 0}) = 1
<1> DEFINE a == AudioFrom(p)
<1>1. AudioTracks(p) = AudioSplit(a) /\ a # Refused
  BY DEF AudioTracks
<1>2. a.codec = "pcm"
  <2> SUFFICES ASSUME a.codec # "pcm" PROVE FALSE
    OBVIOUS
  <2>1. AudioTracks(p) = <<a>>
    BY <1>1, Zenon DEF AudioSplit
  <2> HIDE DEF a
  <2>2. Len(AudioTracks(p)) = 1
    BY <2>1
  <2>3. QED
    BY <2>2
<1>3. a.channels = 2
  BY <1>1 DEF AudioFrom
<1>4. AudioSplit(a) = [i \in 1 .. 2 |->
          [a EXCEPT !.channels = 1, !.normalize = FALSE,
                    !.gains = [k \in 1 .. 2 |-> IF k = i THEN 0 ELSE -60]]]
  BY <1>2, <1>3 DEF AudioSplit
<1>5. {"channels", "gains"} \subseteq DOMAIN a
  BY <1>1 DEF AudioFrom
<1>6. \A i \in 1 .. 2 : /\ AudioSplit(a)[i].channels = 1
                       /\ AudioSplit(a)[i].gains = [k \in 1 .. 2 |-> IF k = i THEN 0 ELSE -60]
  BY <1>4, <1>5
<1>7. DOMAIN AudioSplit(a) = 1 .. 2
  BY <1>4
<1>8. ASSUME NEW k \in 1 .. 2
      PROVE  {i \in 1 .. 2 : AudioSplit(a)[i].channels = 1 /\ AudioSplit(a)[i].gains[k] = 0} = {k}
  BY <1>6
<1>9. \A k \in 1 .. 2 : Cardinality({k}) = 1
  BY FS_Singleton
<1>10. DOMAIN AudioSplit(a)[1].gains = 1 .. 2
  BY <1>6
<1>11. \A k \in 1 .. 2 :
         Cardinality({i \in DOMAIN AudioSplit(a) :
                        AudioSplit(a)[i].channels = 1 /\ AudioSplit(a)[i].gains[k] = 0}) = 1
  BY <1>7, <1>8, <1>9
<1> HIDE DEF a
<1>12. QED
  BY <1>1, <1>10, <1>11

-----------------------------------------------------------------------------
(* Presets in redis *)

LEMMA MarginField ==
  ASSUME NEW f \in Margins
  PROVE  f \in DOMAIN Fields /\ Fields[f].kind = "amount" /\ f # "overlays"
BY DEF Fields, Margins, Amount, Text, Flag

LEMMA PresetMargins ==
  ASSUME NEW p, IsPreset(p)
  PROVE  HasMargins(p)
BY MarginField DEF HasMargins, IsPreset

LEMMA LoadMargins ==
  ASSUME NEW h, \A f \in Margins : f \in DOMAIN h => h[f].digits \in Nat
  PROVE  HasMargins(Load(h))
<1> SUFFICES ASSUME NEW f \in Margins PROVE Load(h)[f] \in Nat
  BY DEF HasMargins
<1>1. Load(h)[f] = IF f \in DOMAIN h THEN Parsed("amount", h[f]) ELSE Zero("amount")
  BY MarginField DEF Load
<1>2. Parsed("amount", h[f]) = h[f].digits /\ Zero("amount") = 0
  BY DEF Parsed, Zero
<1>3. QED
  BY <1>1, <1>2

LEMMA FieldMapMargins ==
  ASSUME NEW p, HasMargins(p), FieldMap(p) # Panic
  PROVE  /\ DOMAIN FieldMap(p) \subseteq DOMAIN Fields
         /\ \A f \in Margins : f \in DOMAIN FieldMap(p) => FieldMap(p)[f].digits \in Nat
<1>1. FieldMap(p) = [f \in {g \in DOMAIN Fields : ~Omitted(p, g)} |-> Written(Fields[f].kind, p[f])]
  BY DEF FieldMap
<1>2. ASSUME NEW f \in Margins, f \in DOMAIN FieldMap(p)
      PROVE  FieldMap(p)[f].digits \in Nat
  <2>1. FieldMap(p)[f] = Written("amount", p[f])
    BY <1>1, <1>2, MarginField
  <2>2. Written("amount", p[f]) = [digits |-> p[f]]
    BY DEF Written
  <2>3. QED
    BY <2>1, <2>2 DEF HasMargins
<1>3. QED
  BY <1>1, <1>2

LEMMA Kinds ==
  ASSUME NEW f \in DOMAIN Fields
  PROVE  Fields[f].kind \in {"text", "flag", "amount"} /\ f # "overlays"
BY DEF Fields, Amount, Text, Flag

\* What is parsed is what was written.
LEMMA ParsedWritten ==
  ASSUME NEW kind \in {"text", "flag", "amount"}, NEW x, kind = "flag" => x \in BOOLEAN
  PROVE  Parsed(kind, Written(kind, x)) = x
<1>1. CASE kind = "text"
  BY <1>1 DEF Parsed, Written
<1>2. CASE kind = "amount"
  BY <1>2 DEF Parsed, Written
<1>3. CASE kind = "flag"
  <2>1. Written(kind, x) = IF x THEN "true" ELSE "false"
    BY <1>3 DEF Written
  <2>2. Parsed(kind, Written(kind, x)) = (Written(kind, x) = "true")
    BY <1>3 DEF Parsed
  <2>3. QED
    BY <1>3, <2>1, <2>2
<1>4. QED
  BY <1>1, <1>2, <1>3

\* What is left out is what loading starts from.
LEMMA OmittedZero ==
  ASSUME NEW p, NEW f \in DOMAIN Fields, Omitted(p, f)
  PROVE  p[f] = Zero(Fields[f].kind)
BY DEF Omitted, ZeroStruct, IsZero, Zero

\* A preset without overlays comes back from its hash as it was.
LEMMA LoadFieldMap ==
  ASSUME NEW p, IsPreset(p), FieldMap(p) # Panic
  PROVE  Load(FieldMap(p)) = p
<1> DEFINE hash == FieldMap(p)
<1>1. /\ p.overlays = "nil"
      /\ hash = [f \in {g \in DOMAIN Fields : ~Omitted(p, g)} |-> Written(Fields[f].kind, p[f])]
  BY DEF FieldMap
<1>2. ASSUME NEW f \in DOMAIN Fields
      PROVE  Load(hash)[f] = p[f]
  <2>1. Load(hash)[f] = IF f \in DOMAIN hash THEN Parsed(Fields[f].kind, hash[f])
                        ELSE Zero(Fields[f].kind)
    BY Kinds DEF Load
  <2>2. CASE Omitted(p, f)
    <3>1. f \notin DOMAIN hash
      BY <1>1, <2>2
    <3>2. QED
      BY <2>1, <2>2, <3>1, OmittedZero
  <2>3. CASE ~Omitted(p, f)
    <3>1. f \in DOMAIN hash /\ hash[f] = Written(Fields[f].kind, p[f])
      BY <1>1, <2>3
    <3>2. Fields[f].kind = "flag" => p[f] \in BOOLEAN
      BY DEF IsPreset
    <3>3. QED
      BY <2>1, <3>1, <3>2, Kinds, ParsedWritten
  <2>4. QED
    BY <2>2, <2>3
<1>3. Load(hash) = [f \in DOMAIN Fields \cup {"overlays"} |-> Load(hash)[f]] /\ Load(hash)["overlays"] = "nil"
  BY DEF Load
<1>4. p = [f \in DOMAIN Fields \cup {"overlays"} |-> p[f]]
  BY DEF IsPreset
<1> HIDE DEF hash
<1>5. \A f \in DOMAIN Fields \cup {"overlays"} : Load(hash)[f] = p[f]
  BY <1>1, <1>2, <1>3
<1>6. QED
  BY <1>3, <1>4, <1>5, Zenon DEF hash

-----------------------------------------------------------------------------
(* The invariant is kept *)

LEMMA InitInv == Init => IInv
<1> SUFFICES ASSUME Init PROVE IInv
  OBVIOUS
<1> USE DEF Init
<1>1. Len(job.outputs) \in Nat \ {0}
  BY MediaConvertAssumption
<1>2. TypeOK /\ DOMAIN hashes = Names
  BY <1>1 DEF TypeOK
<1>3. Groups
  <2>1. \A t \in Types : groups[t] = <<>> /\ Len(groups[t]) = 0 /\ groups[t] \in Seq({})
    OBVIOUS
  <2>2. 1 .. next - 1 = {} /\ \A t \in Types : 1 .. Len(groups[t]) = {}
    BY <2>1
  <2>3. QED
    BY <2>1, <2>2 DEF Groups
<1>4. Grouped
  <2>1. request \in Seq({}) /\ 1 .. Len(request) = {}
    OBVIOUS
  <2>2. QED
    BY <2>1 DEF Grouped
<1>5. Progress
  BY <1>1 DEF Progress
<1>6. QED
  BY <1>2, <1>3, <1>4, <1>5 DEF IInv, Hashes

\* What the presets in redis do not touch.
LEMMA BuildingKept ==
  ASSUME IInv, UNCHANGED <<job, pc, building, state>>
  PROVE  Groups' /\ Grouped' /\ Progress'
<1>1. UNCHANGED <<job, pc, next, groups, left, request, state>>
  BY DEF building
<1>2. Groups'
  BY <1>1 DEF IInv, Groups, MadeOfPreset
<1>3. Grouped'
  BY <1>1 DEF IInv, Grouped
<1>4. Progress'
  BY <1>1 DEF IInv, Progress
<1>5. QED
  BY <1>2, <1>3, <1>4

LEMMA PresetKeeps ==
  ASSUME IInv,
         \/ \E r \in Requests : LookupPreset(r) \/ SavePreset(r)
         \/ \E n \in Deletable : DeletePreset(n)
  PROVE  IInv'
<1> USE DEF building, remote
<1>1. Groups' /\ Grouped' /\ Progress'
  BY BuildingKept DEF LookupPreset, SavePreset, DeletePreset
<1>2. CASE \E r \in Requests : LookupPreset(r)
  BY <1>1, <1>2 DEF IInv, LookupPreset, TypeOK, Hashes
<1>3. ASSUME NEW r \in Requests, SavePreset(r)
      PROVE  IInv'
  <2> DEFINE n == Creates[r]  p == asked[r]
  <2>1. CASE FieldMap(p) = Panic
    BY <1>1, <1>3, <2>1 DEF IInv, SavePreset, TypeOK, Hashes
  <2>2. CASE FieldMap(p) # Panic
    <3>1. /\ saving' = [saving EXCEPT ![r] = "done"]
          /\ hashes' = [hashes EXCEPT ![n] = IF @ = None THEN FieldMap(p) ELSE HMSet(@, FieldMap(p))]
          /\ n \in Names /\ UNCHANGED <<asked, job, pc, building, remote, report>>
      BY <1>3, <2>2 DEF SavePreset, Names
    <3>2. HasMargins(p)
      BY MediaConvertAssumption, PresetMargins DEF IInv, TypeOK
    <3>3. /\ DOMAIN FieldMap(p) \subseteq DOMAIN Fields
          /\ \A f \in Margins : f \in DOMAIN FieldMap(p) => FieldMap(p)[f].digits \in Nat
      BY <2>2, <3>2, FieldMapMargins
    <3> HIDE DEF p, n
    <3>4. hashes'[n] # None =>
            /\ DOMAIN hashes'[n] \subseteq DOMAIN Fields
            /\ \A f \in Margins : f \in DOMAIN hashes'[n] => hashes'[n][f].digits \in Nat
      <4>1. CASE hashes[n] = None
        BY <3>1, <3>3, <4>1 DEF IInv
      <4>2. CASE hashes[n] # None
        <5>1. hashes'[n] = HMSet(hashes[n], FieldMap(p))
          BY <3>1, <4>2 DEF IInv
        <5>2. DOMAIN hashes'[n] = DOMAIN hashes[n] \cup DOMAIN FieldMap(p)
          BY <5>1 DEF HMSet
        <5>3. \A f \in DOMAIN hashes'[n] :
                 hashes'[n][f] = IF f \in DOMAIN FieldMap(p) THEN FieldMap(p)[f] ELSE hashes[n][f]
          BY <5>1, <5>2 DEF HMSet
        <5>4. DOMAIN hashes[n] \subseteq DOMAIN Fields
          BY <3>1, <4>2 DEF IInv, TypeOK
        <5>5. \A f \in Margins : f \in DOMAIN hashes[n] => hashes[n][f].digits \in Nat
          BY <3>1, <4>2 DEF IInv, Hashes
        <5>6. QED
          BY <3>3, <5>2, <5>3, <5>4, <5>5
      <4>3. QED
        BY <4>1, <4>2
    <3>5. \A m \in Names \ {n} : hashes'[m] = hashes[m]
      BY <3>1 DEF IInv
    <3>6. DOMAIN hashes' = Names
      BY <3>1 DEF IInv
    <3>7. Hashes'
      BY <3>4, <3>5 DEF IInv, Hashes
    <3>8. TypeOK'
      BY <3>1, <3>4, <3>5 DEF IInv, TypeOK
    <3>9. QED
      BY <1>1, <3>6, <3>7, <3>8 DEF IInv
  <2>3. QED
    BY <2>1, <2>2
<1>4. ASSUME NEW n \in Deletable, DeletePreset(n)
      PROVE  IInv'
  BY <1>1, <1>4, MediaConvertAssumption DEF IInv, DeletePreset, TypeOK, Hashes
<1>5. QED
  BY <1>2, <1>3, <1>4

\* An output is added to the group of its container.
LEMMA GetPresetKeeps ==
  ASSUME IInv, GetPreset
  PROVE  IInv'
<1> USE DEF presets, remote
<1> DEFINE o == job.outputs[next]
           out == IF hashes[o.preset] = None THEN Refused
                  ELSE OutputFrom(Load(hashes[o.preset]), job.source)
<1>1. /\ pc = "outputs" /\ next <= Len(job.outputs)
      /\ UNCHANGED <<presets, job, left, request, remote, report>>
  BY DEF GetPreset
<1>2. request = <<>> /\ left = {} /\ state = None
  BY <1>1 DEF IInv, Progress
<1>3. next \in 1 .. Len(job.outputs) /\ Len(job.outputs) \in Nat
  BY <1>1, MediaConvertAssumption DEF IInv, TypeOK
<1>4. CASE out \in {Refused, Panic}
  <2>1. pc' \in {"panicked", "failed"} /\ UNCHANGED <<next, groups>>
    BY <1>4 DEF GetPreset
  <2>2. TypeOK' /\ Hashes' /\ DOMAIN hashes' = Names
    BY <1>1, <2>1 DEF IInv, TypeOK, Hashes
  <2>3. Groups'
    BY <1>1, <2>1 DEF IInv, Groups, MadeOfPreset
  <2>4. Grouped'
    BY <1>1, <1>2, <1>3, <2>1 DEF IInv, Grouped
  <2>5. Progress'
    BY <1>1, <1>2, <1>3, <2>1 DEF IInv, Progress
  <2>6. QED
    BY <2>2, <2>3, <2>4, <2>5 DEF IInv
<1>5. CASE out \notin {Refused, Panic}
  <2> DEFINE t == out.container
             new == Output(o)
  <2>1. /\ groups' = [groups EXCEPT ![t] = Append(@, new)]
        /\ next' = next + 1 /\ pc' = "outputs"
    BY <1>1, <1>5 DEF GetPreset
  <2>2. hashes[o.preset] # None /\ out = OutputFrom(Load(hashes[o.preset]), job.source)
    BY <1>5
  <2>3. o.preset \in Names
    BY <1>3, MediaConvertAssumption DEF IInv, TypeOK
  <2>4. HasMargins(Load(hashes[o.preset]))
    BY <2>2, <2>3, LoadMargins DEF IInv, Hashes
  <2>5. new.of = next /\ new.made = out
    BY <2>2 DEF Output
  <2>6. t \in Types
    BY <1>5, <2>2, OutputMade DEF Types
  <2>7. \E p : HasMargins(p) /\ new.made = OutputFrom(p, job.source)
    BY <2>2, <2>4, <2>5
  <2>8. new.made \notin {Refused, Panic} /\ new.made.container = t
    BY <1>5, <2>5
  <2> HIDE DEF t, new, out, o
  <2>9. PICK S : groups[t] \in Seq(S)
    BY <2>6 DEF IInv, Groups
  <2>10. /\ groups'[t] \in Seq(S \cup {new}) /\ Len(groups'[t]) = Len(groups[t]) + 1
         /\ \A k \in 1 .. Len(groups[t]) : groups'[t][k] = groups[t][k]
         /\ groups'[t][Len(groups[t]) + 1] = new
         /\ Len(groups[t]) \in Nat
    <3>1. groups[t] \in Seq(S \cup {new}) /\ new \in S \cup {new}
      BY <2>9
    <3>2. groups'[t] = Append(groups[t], new)
      BY <2>1, <2>6 DEF IInv, Groups
    <3>3. QED
      BY <3>1, <3>2, AppendProperties
  <2>11. \A u \in Types \ {t} : groups'[u] = groups[u]
    BY <2>1 DEF IInv, Groups
  <2>12. \A u \in Types : Len(groups[u]) \in Nat
    BY DEF IInv, Groups
  <2>13. Groups'
    <3>1. DOMAIN groups' = Types /\ \A u \in Types : \E R : groups'[u] \in Seq(R)
      BY <2>1, <2>10, <2>11 DEF IInv, Groups
    <3>2. \A u \in Types : Len(groups'[u]) < next'
      BY <1>3, <2>1, <2>10, <2>11, <2>12 DEF IInv, Groups
    <3>3. \A u \in Types : \A k \in 1 .. Len(groups'[u]) :
            \/ k \in 1 .. Len(groups[u]) /\ groups'[u][k] = groups[u][k]
            \/ u = t /\ k = Len(groups[t]) + 1 /\ groups'[u][k] = new
      BY <2>10, <2>11, <2>12
    <3>4. \A u \in Types : \A k \in 1 .. Len(groups[u]) :
            groups[u][k].of \in 1 .. next - 1 /\ groups[u][k].made.container = u
      BY DEF IInv, Groups
    <3>5. \A u \in Types : \A k \in 1 .. Len(groups[u]) : MadeOfPreset(groups[u][k])'
      BY <1>1, <2>1 DEF IInv, Groups, MadeOfPreset
    <3>6. ASSUME NEW u \in Types, NEW k \in 1 .. Len(groups'[u])
          PROVE  /\ groups'[u][k].of \in 1 .. next' - 1
                 /\ groups'[u][k].made.container = u
                 /\ MadeOfPreset(groups[u][k])'
      <4>1. CASE k \in 1 .. Len(groups[u]) /\ groups'[u][k] = groups[u][k]
        BY <1>3, <2>1, <3>4, <3>5, <4>1 DEF MadeOfPreset
      <4>2. CASE u = t /\ groups'[u][k] = new
        <5>1. MadeOfPreset(groups[u][k])'
          BY <1>1, <2>7, <2>8, <4>2 DEF MadeOfPreset
        <5>2. QED
          BY <1>3, <2>1, <2>5, <2>8, <4>2, <5>1
      <4>3. QED
        BY <3>3, <4>1, <4>2
    <3>7. ASSUME NEW u \in Types, NEW k \in 1 .. Len(groups'[u]), NEW l \in 1 .. Len(groups'[u]), k < l
          PROVE  groups'[u][k].of < groups'[u][l].of
      <4>1. Len(groups'[u]) \in Nat
        BY <2>10, <2>11, <2>12
      <4>2. CASE l \in 1 .. Len(groups[u]) /\ groups'[u][l] = groups[u][l]
        <5>1. k \in 1 .. Len(groups[u]) /\ groups'[u][k] = groups[u][k]
          BY <2>10, <2>11, <2>12, <3>7, <4>1, <4>2
        <5>2. QED
          BY <3>7, <4>2, <5>1 DEF IInv, Groups
      <4>3. CASE u = t /\ l = Len(groups[t]) + 1 /\ groups'[u][l] = new
        <5>1. k \in 1 .. Len(groups[u]) /\ groups'[u][k] = groups[u][k]
          BY <2>10, <2>12, <3>7, <4>1, <4>3
        <5>2. groups[u][k].of \in 1 .. next - 1
          BY <3>4, <5>1
        <5>3. QED
          BY <1>3, <2>5, <4>3, <5>1, <5>2
      <4>4. QED
        BY <3>3, <4>2, <4>3
    <3>8. \A i \in 1 .. next' - 1 : \E u \in Types : \E k \in 1 .. Len(groups'[u]) : groups'[u][k].of = i
      <4> SUFFICES ASSUME NEW i \in 1 .. next' - 1
                   PROVE  \E u \in Types : \E k \in 1 .. Len(groups'[u]) : groups'[u][k].of = i
        OBVIOUS
      <4>1. CASE i = next
        BY <2>5, <2>6, <2>10, <4>1
      <4>2. CASE i # next
        <5>1. i \in 1 .. next - 1
          BY <1>3, <2>1, <4>2
        <5>2. PICK u \in Types : \E k \in 1 .. Len(groups[u]) : groups[u][k].of = i
          BY <5>1 DEF IInv, Groups
        <5>3. \A k \in 1 .. Len(groups[u]) : k \in 1 .. Len(groups'[u]) /\ groups'[u][k] = groups[u][k]
          BY <2>10, <2>11, <2>12
        <5>4. QED
          BY <5>2, <5>3
      <4>3. QED
        BY <4>1, <4>2
    <3>9. ASSUME NEW u \in Types, NEW v \in Types, NEW k \in 1 .. Len(groups'[u]),
                 NEW l \in 1 .. Len(groups'[v]), groups'[u][k].of = groups'[v][l].of
          PROVE  u = v
      <4>1. CASE /\ k \in 1 .. Len(groups[u]) /\ groups'[u][k] = groups[u][k]
                 /\ l \in 1 .. Len(groups[v]) /\ groups'[v][l] = groups[v][l]
        BY <3>9, <4>1 DEF IInv, Groups
      <4>2. CASE /\ k \in 1 .. Len(groups[u]) /\ groups'[u][k] = groups[u][k]
                 /\ groups'[v][l] = new
        <5>1. groups[u][k].of \in 1 .. next - 1
          BY <3>4, <4>2
        <5>2. QED
          BY <1>3, <2>5, <3>9, <4>2, <5>1
      <4>3. CASE /\ l \in 1 .. Len(groups[v]) /\ groups'[v][l] = groups[v][l]
                 /\ groups'[u][k] = new
        <5>1. groups[v][l].of \in 1 .. next - 1
          BY <3>4, <4>3
        <5>2. QED
          BY <1>3, <2>5, <3>9, <4>3, <5>1
      <4>4. CASE u = t /\ v = t
        BY <4>4
      <4>5. QED
        BY <3>3, <4>1, <4>2, <4>3, <4>4
    <3>10. QED
      BY <3>1, <3>2, <3>6, <3>7, <3>8, <3>9 DEF Groups
  <2>14. Grouped'
    <3>1. request' = <<>> /\ 1 .. Len(request') = {} /\ request' \in Seq({}) /\ left' = {}
      BY <1>1, <1>2
    <3>2. QED
      BY <2>1, <3>1 DEF Grouped
  <2>15. TypeOK' /\ Hashes' /\ DOMAIN hashes' = Names
    BY <1>1, <1>2, <1>3, <2>1 DEF IInv, TypeOK, Hashes
  <2>16. Progress'
    BY <1>1, <1>2, <1>3, <2>1 DEF IInv, Progress
  <2>17. QED
    BY <2>13, <2>14, <2>15, <2>16 DEF IInv
<1>6. QED
  BY <1>4, <1>5

LEMMA EndOutputsKeeps ==
  ASSUME IInv, EndOutputs
  PROVE  IInv'
<1> USE DEF presets, remote
<1>1. /\ pc = "outputs" /\ pc' = "groups" /\ next > Len(job.outputs)
      /\ left' = {t \in Types : groups[t] # <<>>}
      /\ UNCHANGED <<presets, job, next, groups, request, remote, report>>
  BY DEF EndOutputs
<1>2. request = <<>> /\ state = None
  BY <1>1 DEF IInv, Progress
<1>3. Len(job.outputs) \in Nat /\ next = Len(job.outputs) + 1
  BY <1>1, MediaConvertAssumption DEF IInv, TypeOK
<1>4. TypeOK' /\ Hashes' /\ DOMAIN hashes' = Names
  BY <1>1 DEF IInv, TypeOK, Hashes
<1>5. Groups'
  BY <1>1 DEF IInv, Groups, MadeOfPreset
<1>6. Grouped'
  <2>1. request' \in Seq({}) /\ 1 .. Len(request') = {}
    BY <1>1, <1>2
  <2>2. QED
    BY <1>1, <2>1 DEF Grouped
<1>7. Progress'
  BY <1>1, <1>2, <1>3 DEF IInv, Progress
<1>8. QED
  BY <1>4, <1>5, <1>6, <1>7 DEF IInv

\* The groups of two containers differ in their first outputs.
LEMMA GroupsDiffer ==
  ASSUME IInv, NEW t \in Types, NEW u \in Types, groups[t] # <<>>, groups[t] = groups[u]
  PROVE  t = u
<1>1. PICK S : groups[t] \in Seq(S)
  BY DEF IInv, Groups
<1>2. Len(groups[t]) \in Nat /\ Len(groups[t]) # 0
  BY <1>1
<1>3. 1 \in 1 .. Len(groups[t])
  BY <1>2
<1>4. QED
  BY <1>3 DEF IInv, Groups

LEMMA GroupOutputsKeeps ==
  ASSUME IInv, GroupOutputs
  PROVE  IInv'
<1> USE DEF presets, remote
<1>1. PICK t \in left :
        /\ request' = Append(request, [type |-> GroupType(t), outputs |-> groups[t]])
        /\ left' = left \ {t}
  BY DEF GroupOutputs
<1>2. /\ pc = "groups" /\ UNCHANGED <<presets, job, pc, next, groups, remote, report>>
  BY DEF GroupOutputs
<1> DEFINE group == [type |-> GroupType(t), outputs |-> groups[t]]
<1>3. group.outputs = groups[t]
  OBVIOUS
<1>4. left \subseteq Types /\ t \in Types
  BY DEF IInv, Grouped
<1>5. state = None /\ next = Len(job.outputs) + 1
  BY <1>2, <1>1 DEF IInv, Progress
<1> HIDE DEF group
<1>6. PICK S : request \in Seq(S)
  BY DEF IInv, Grouped
<1>7. /\ request' \in Seq(S \cup {group}) /\ Len(request') = Len(request) + 1
      /\ \A g \in 1 .. Len(request) : request'[g] = request[g]
      /\ request'[Len(request) + 1] = group /\ Len(request) \in Nat
  <2>1. request \in Seq(S \cup {group}) /\ group \in S \cup {group}
    BY <1>6
  <2>2. request' = Append(request, group)
    BY <1>1 DEF group
  <2>3. QED
    BY <2>1, <2>2, AppendProperties
<1>8. groups[t] # <<>>
  BY DEF IInv, Grouped
<1>9. \A g \in 1 .. Len(request) : request[g].outputs # groups[t]
  BY <1>1, <1>4, <1>8, GroupsDiffer DEF IInv, Grouped
<1>10. \A g \in 1 .. Len(request') :
        \/ g \in 1 .. Len(request) /\ request'[g] = request[g]
        \/ g = Len(request) + 1 /\ request'[g].outputs = groups[t]
  BY <1>3, <1>7
<1>11. \A g \in 1 .. Len(request') : \E u \in Types \ left' :
        groups[u] # <<>> /\ request'[g].outputs = groups[u]
  <2>1. \A g \in 1 .. Len(request) : \E u \in Types \ left :
          groups[u] # <<>> /\ request[g].outputs = groups[u]
    BY DEF IInv, Grouped
  <2>2. t \in Types \ left' /\ Types \ left \subseteq Types \ left'
    BY <1>1, <1>4
  <2>3. QED
    BY <1>8, <1>10, <2>1, <2>2
<1>12. \A g, h \in 1 .. Len(request') : request'[g].outputs = request'[h].outputs => g = h
  <2>1. \A g, h \in 1 .. Len(request) : request[g].outputs = request[h].outputs => g = h
    BY DEF IInv, Grouped
  <2>2. QED
    BY <1>9, <1>10, <2>1
<1>13. \A u \in Types \ left' : groups[u] # <<>> =>
        \E g \in 1 .. Len(request') : request'[g].outputs = groups[u]
  <2>1. Len(request) + 1 \in 1 .. Len(request') /\ request'[Len(request) + 1].outputs = groups[t]
    BY <1>3, <1>7
  <2>2. ASSUME NEW u \in Types \ left, groups[u] # <<>>
        PROVE  \E g \in 1 .. Len(request') : request'[g].outputs = groups[u]
    <3>1. PICK g \in 1 .. Len(request) : request[g].outputs = groups[u]
      BY <1>2, <1>5, <2>2, MediaConvertAssumption DEF IInv, Grouped, TypeOK
    <3>2. g \in 1 .. Len(request') /\ request'[g] = request[g]
      BY <1>7
    <3>3. QED
      BY <3>1, <3>2
  <2>3. QED
    BY <1>1, <2>1, <2>2
<1>14. Grouped'
  <2>1. left' \subseteq Types /\ \A u \in left' : groups'[u] # <<>>
    BY <1>1, <1>2, <1>4 DEF IInv, Grouped
  <2>2. \E Q : request' \in Seq(Q)
    BY <1>7
  <2>3. groups' = groups
    BY <1>2
  <2>4. \A g \in 1 .. Len(request') : \E u \in Types \ left' :
          groups'[u] # <<>> /\ request'[g].outputs = groups'[u]
    BY <1>11, <2>3
  <2>5. \A u \in Types \ left' : groups'[u] # <<>> =>
          \E g \in 1 .. Len(request') : request'[g].outputs = groups'[u]
    BY <1>13, <2>3
  <2>6. QED
    BY <1>12, <2>1, <2>2, <2>4, <2>5, Zenon DEF Grouped
<1>15. TypeOK' /\ Hashes' /\ DOMAIN hashes' = Names /\ Groups' /\ Progress'
  <2>1. TypeOK' /\ Hashes' /\ DOMAIN hashes' = Names
    BY <1>1, <1>2, <1>4 DEF IInv, TypeOK, Hashes
  <2>2. Groups'
    BY <1>2 DEF IInv, Groups, MadeOfPreset
  <2>3. Progress'
    BY <1>1, <1>2, <1>4, <1>5 DEF IInv, Progress
  <2>4. QED
    BY <2>1, <2>2, <2>3
<1>16. QED
  BY <1>14, <1>15 DEF IInv

\* What the job at MediaConvert and its status do not touch.
LEMMA RestKeeps ==
  ASSUME IInv, CreateJob \/ Begin \/ Complete \/ Stumble \/ CancelJob \/ JobStatus
  PROVE  IInv'
<1> USE DEF presets, building, remote
<1>1. UNCHANGED <<asked, saving, hashes, job, next, groups, left, request>>
  BY DEF CreateJob, Begin, Complete, Stumble, CancelJob, JobStatus
<1>2. Hashes' /\ DOMAIN hashes' = Names /\ Groups'
  <2>1. Hashes' /\ DOMAIN hashes' = Names
    BY <1>1 DEF IInv, Hashes
  <2>2. Groups'
    BY <1>1 DEF IInv, Groups, MadeOfPreset
  <2>3. QED
    BY <2>1, <2>2
<1>3. CASE CreateJob
  <2>1. /\ pc = "groups" /\ left = {} /\ pc' \in {"answered", "failed"}
        /\ state' \in {None, "SUBMITTED"} /\ UNCHANGED <<written, report>>
        /\ pc' = "answered" => state' = "SUBMITTED"
    BY <1>3 DEF CreateJob
  <2>2. next = Len(job.outputs) + 1
    BY <2>1 DEF IInv, Progress
  <2>3. TypeOK'
    BY <1>1, <2>1 DEF IInv, TypeOK, States
  <2>4. Grouped'
    BY <1>1, <2>1 DEF IInv, Grouped
  <2>5. Progress'
    BY <1>1, <2>1, <2>2, MediaConvertAssumption DEF IInv, TypeOK, Progress, States
  <2>6. QED
    BY <1>2, <2>3, <2>4, <2>5 DEF IInv
<1>4. CASE Begin \/ Complete \/ Stumble \/ CancelJob
  <2>1. /\ UNCHANGED <<pc, report>>
        /\ state \in {"SUBMITTED", "PROGRESSING"}
        /\ state' \in {"PROGRESSING", "COMPLETE", "CANCELED", "ERROR"}
    BY <1>4 DEF Begin, Complete, Stumble, CancelJob
  <2>2. TypeOK' /\ Grouped'
    BY <1>1, <2>1 DEF IInv, TypeOK, Grouped, States
  <2>3. state # None /\ state' # None
    BY <2>1, MediaConvertAssumption DEF States
  <2>4. Progress'
    BY <1>1, <2>1, <2>3 DEF IInv, Progress
  <2>5. QED
    BY <1>2, <2>2, <2>4 DEF IInv
<1>5. CASE JobStatus
  <2>1. UNCHANGED <<pc, state, written>> /\ pc = "answered" /\ report'.status = ProviderStatus(state)
    BY <1>5 DEF JobStatus
  <2>2. state \in States
    BY <2>1 DEF IInv, TypeOK, Progress
  <2>3. ProviderStatus(state) \in {"queued", "started", "finished", "canceled", "failed"}
    BY <2>2 DEF States, ProviderStatus
  <2>4. TypeOK'
    BY <1>1, <2>1, <2>3 DEF IInv, TypeOK
  <2>5. Grouped' /\ Progress'
    BY <1>1, <2>1 DEF IInv, Grouped, Progress
  <2>6. QED
    BY <1>2, <2>4, <2>5 DEF IInv
<1>6. QED
  BY <1>3, <1>4, <1>5

LEMMA Inductive == IInv /\ [Next]_vars => IInv'
<1> SUFFICES ASSUME IInv, [Next]_vars PROVE IInv'
  OBVIOUS
<1>1. CASE Next
  BY <1>1, PresetKeeps, GetPresetKeeps, EndOutputsKeeps, GroupOutputsKeeps, RestKeeps
     DEF Next, Transcode
<1>2. CASE UNCHANGED vars
  <2>1. UNCHANGED <<asked, saving, hashes, job, pc, building, state, report>>
    BY <1>2 DEF vars, building
  <2>2. TypeOK' /\ Hashes' /\ DOMAIN hashes' = Names
    BY <2>1 DEF building, IInv, TypeOK, Hashes
  <2>3. QED
    BY <2>1, <2>2, BuildingKept DEF IInv
<1>3. QED
  BY <1>1, <1>2

LEMMA Invariant == Spec => []IInv
<1>1. QED
  BY InitInv, Inductive, PTL DEF Spec

-----------------------------------------------------------------------------
(* The theorems *)

\* Every variable of MediaConvertTranscode keeps its type, and every state of a
\* job at MediaConvert has a status of the service.
THEOREM TypeCorrect == Spec => []TypeOK
<1>1. IInv => TypeOK
  BY DEF IInv
<1>2. QED
  BY <1>1, Invariant, PTL

\* An output of the request is one of a group.
LEMMA SentFrom ==
  ASSUME IInv, NEW p \in Sent
  PROVE  /\ p = <<p[1], p[2]>> /\ p[1] \in 1 .. Len(request)
         /\ \E t \in Types : /\ request[p[1]].outputs = groups[t]
                            /\ p[2] \in 1 .. Len(groups[t]) /\ At(p) = groups[t][p[2]]
<1>1. PICK S : request \in Seq(S)
  BY DEF IInv, Grouped
<1>2. p = <<p[1], p[2]>> /\ p[1] \in 1 .. Len(request) /\ p[2] \in DOMAIN request[p[1]].outputs
  BY <1>1 DEF Sent, Placed
<1>3. PICK t \in Types : request[p[1]].outputs = groups[t]
  BY <1>2 DEF IInv, Grouped
<1>4. PICK R : groups[t] \in Seq(R)
  BY DEF IInv, Groups
<1>5. QED
  BY <1>2, <1>3, <1>4 DEF At

\* However many outputs, of whatever containers, and in whatever order the map
\* of groups is visited, each output is sent once, with those of its container.
THEOREM OutputsGroupedHolds == Spec => []OutputsGrouped
<1>1. ASSUME IInv, state # None
      PROVE  /\ \A i \in DOMAIN job.outputs : Cardinality({p \in Sent : At(p).of = i}) = 1
             /\ \A p, q \in Sent : (p[1] = q[1]) <=> (At(p).made.container = At(q).made.container)
             /\ \A p, q \in Sent : p[1] = q[1] /\ p[2] < q[2] => At(p).of < At(q).of
  <2>1. left = {} /\ next = Len(job.outputs) + 1 /\ pc # "outputs" /\ Len(job.outputs) \in Nat
    BY <1>1, MediaConvertAssumption DEF IInv, Progress, TypeOK
  <2>2. ASSUME NEW p \in Sent, NEW q \in Sent, NEW t \in Types,
               request[p[1]].outputs = groups[t], request[q[1]].outputs = groups[t]
        PROVE  p[1] = q[1]
    BY <1>1, <2>2, SentFrom DEF IInv, Grouped
  <2>3. ASSUME NEW i \in DOMAIN job.outputs
        PROVE  Cardinality({p \in Sent : At(p).of = i}) = 1
    <3>1. i \in 1 .. next - 1
      BY <1>1, <2>1, MediaConvertAssumption DEF IInv, TypeOK
    <3>2. PICK t \in Types : \E k \in 1 .. Len(groups[t]) : groups[t][k].of = i
      BY <1>1, <3>1 DEF IInv, Groups
    <3>3. PICK k \in 1 .. Len(groups[t]) : groups[t][k].of = i
      BY <3>2
    <3>4. PICK R : groups[t] \in Seq(R)
      BY <1>1 DEF IInv, Groups
    <3>5. groups[t] # <<>> /\ DOMAIN groups[t] = 1 .. Len(groups[t]) /\ Len(groups[t]) \in Nat
      BY <3>3, <3>4
    <3>6. PICK g \in 1 .. Len(request) : request[g].outputs = groups[t]
      BY <1>1, <2>1, <3>5 DEF IInv, Grouped
    <3>7. Len(groups[t]) < next
      BY <1>1 DEF IInv, Groups
    <3>8. k \in 1 .. Len(job.outputs)
      BY <2>1, <3>5, <3>7
    <3>9. PICK Q : request \in Seq(Q)
      BY <1>1 DEF IInv, Grouped
    <3> DEFINE p0 == <<g, k>>
    <3>10. p0 \in Sent /\ At(p0).of = i
      BY <3>3, <3>5, <3>6, <3>8, <3>9 DEF Sent, Placed, At
    <3>11. ASSUME NEW q \in Sent, At(q).of = i
           PROVE  q = p0
      <4>1. PICK u \in Types : /\ request[q[1]].outputs = groups[u]
                               /\ q[2] \in 1 .. Len(groups[u]) /\ At(q) = groups[u][q[2]]
        BY <1>1, SentFrom
      <4>2. groups[u][q[2]].of = groups[t][k].of
        BY <3>3, <3>11, <4>1
      <4>3. u = t
        BY <1>1, <4>1, <4>2 DEF IInv, Groups
      <4>4. q[2] = k
        <5>1. \A l, n \in 1 .. Len(groups[t]) : l < n => groups[t][l].of < groups[t][n].of
          BY <1>1 DEF IInv, Groups
        <5>2. groups[t][k].of \in Int
          BY <1>1 DEF IInv, Groups
        <5>3. q[2] \in 1 .. Len(groups[t]) /\ groups[t][q[2]].of = groups[t][k].of
          BY <4>1, <4>2, <4>3
        <5>4. ~(q[2] < k) /\ ~(k < q[2])
          BY <5>1, <5>2, <5>3
        <5>5. QED
          BY <3>5, <5>3, <5>4
      <4>5. q[1] = g
        BY <1>1, <3>6, <4>1, <4>3, SentFrom DEF IInv, Grouped
      <4>6. QED
        BY <1>1, <4>4, <4>5, SentFrom
    <3>12. {p \in Sent : At(p).of = i} = {p0}
      BY <3>10, <3>11
    <3>13. QED
      BY <3>12, FS_Singleton
  <2>4. ASSUME NEW p \in Sent, NEW q \in Sent
        PROVE  /\ (p[1] = q[1]) <=> (At(p).made.container = At(q).made.container)
               /\ p[1] = q[1] /\ p[2] < q[2] => At(p).of < At(q).of
    <3>1. PICK t \in Types : /\ request[p[1]].outputs = groups[t]
                             /\ p[2] \in 1 .. Len(groups[t]) /\ At(p) = groups[t][p[2]]
      BY <1>1, SentFrom
    <3>2. PICK u \in Types : /\ request[q[1]].outputs = groups[u]
                             /\ q[2] \in 1 .. Len(groups[u]) /\ At(q) = groups[u][q[2]]
      BY <1>1, SentFrom
    <3>3. At(p).made.container = t /\ At(q).made.container = u
      BY <1>1, <3>1, <3>2 DEF IInv, Groups
    <3>4. groups[t] # <<>>
      <4>1. PICK R : groups[t] \in Seq(R)
        BY <1>1 DEF IInv, Groups
      <4>2. QED
        BY <3>1, <4>1
    <3>5. p[1] = q[1] => t = u
      BY <1>1, <3>1, <3>2, <3>4, GroupsDiffer
    <3>6. t = u => p[1] = q[1]
      BY <2>2, <3>1, <3>2
    <3>7. t = u /\ p[2] < q[2] => At(p).of < At(q).of
      BY <1>1, <3>1, <3>2 DEF IInv, Groups
    <3>8. QED
      BY <3>3, <3>5, <3>6, <3>7
  <2>5. QED
    BY <2>3, <2>4
<1>2. IInv => OutputsGrouped
  BY <1>1 DEF OutputsGrouped
<1>3. QED
  BY <1>2, Invariant, PTL

\* An output that is sent is made of a preset with proper margins.
LEMMA SentMade ==
  ASSUME IInv, NEW p \in Sent
  PROVE  MadeOfPreset(At(p))
<1>1. PICK t \in Types : p[2] \in 1 .. Len(groups[t]) /\ At(p) = groups[t][p[2]]
  BY SentFrom
<1>2. QED
  BY <1>1 DEF IInv, Groups

\* Whatever the margins and the size of the source, as long as its sides are
\* even, what is kept of the picture lies within it and has even sides.
THEOREM CropInsideHolds == Spec => []CropInside
<1>1. ASSUME IInv, job.source.width % 2 = 0, job.source.height % 2 = 0, NEW p \in Sent,
             NEW c \in Cropped(job.source, At(p))
      PROVE  /\ c.x + c.width <= job.source.width /\ c.y + c.height <= job.source.height
             /\ c.width % 2 = 0 /\ c.height % 2 = 0
  <2> DEFINE o == At(p)
  <2>1. PICK q : HasMargins(q) /\ o.made = OutputFrom(q, job.source) /\ o.made \notin {Refused, Panic}
    BY <1>1, SentMade DEF MadeOfPreset
  <2> HIDE DEF o
  <2>2. o.made.video # None /\ c = o.made.video.crop /\ c # None
    BY DEF Cropped, o
  <2>3. OutputFrom(q, job.source) \notin {Refused, Panic}
    BY <2>1
  <2>4. o.made.video = VideoFrom(q, job.source) /\ VideoFrom(q, job.source) \notin {Refused, Panic}
    BY <2>1, <2>2, <2>3, OutputMade
  <2>5. c = Crop(q, job.source)
    BY <2>2, <2>4, VideoMade
  <2>6. job.source.width \in Nat /\ job.source.height \in Nat
    BY <1>1, MediaConvertAssumption DEF IInv, TypeOK
  <2>7. QED
    BY <1>1, <2>1, <2>2, <2>5, <2>6, CropFits
<1>2. IInv => CropInside
  BY <1>1 DEF CropInside
<1>3. QED
  BY <1>2, Invariant, PTL

\* Every channel of a source that is split is heard in exactly one track.
THEOREM ChannelsSplitHolds == Spec => []ChannelsSplit
<1>1. ASSUME IInv, NEW p \in Sent, Len(At(p).made.audio) > 1
      PROVE  LET tracks == At(p).made.audio
             IN \A k \in DOMAIN tracks[1].gains :
                  Cardinality({i \in DOMAIN tracks : tracks[i].channels = 1 /\ tracks[i].gains[k] = 0}) = 1
  <2>1. PICK q : At(p).made = OutputFrom(q, job.source) /\ OutputFrom(q, job.source) \notin {Refused, Panic}
    BY <1>1, SentMade DEF MadeOfPreset
  <2>2. At(p).made.audio = AudioTracks(q) /\ AudioTracks(q) # Refused
    BY <2>1, OutputMade
  <2>3. QED
    BY <1>1, <2>2, SplitEach
<1>2. IInv => ChannelsSplit
  BY <1>1 DEF ChannelsSplit
<1>3. QED
  BY <1>2, Invariant, PTL
-----------------------------------------------------------------------------
(* What is reported *)

\* A report is of the request that was sent, which nothing changes any more;
\* so is what MediaConvert has written.
ReportInv ==
  /\ report # None => pc = "answered" /\ report.files = Files
  /\ state = "COMPLETE" => written = AllFiles

LEMMA ReportStep == IInv /\ ReportInv /\ [Next]_vars => ReportInv'
<1> SUFFICES ASSUME IInv, ReportInv, [Next]_vars PROVE ReportInv'
  OBVIOUS
<1> USE DEF presets, building, remote
<1>1. state = "COMPLETE" => state # None
  BY MediaConvertAssumption DEF States
<1>2. ASSUME request' = request
      PROVE  Files' = Files /\ AllFiles' = AllFiles
  BY <1>2 DEF Files, AllFiles
<1>3. CASE UNCHANGED <<pc, request, state, written, report>>
  BY <1>2, <1>3 DEF ReportInv
<1>4. CASE GetPreset \/ EndOutputs
  <2>1. pc = "outputs" /\ UNCHANGED <<request, remote, report>>
    BY <1>4 DEF GetPreset, EndOutputs
  <2>2. QED
    BY <1>2, <2>1 DEF ReportInv
<1>5. CASE GroupOutputs
  <2>1. pc = "groups" /\ UNCHANGED <<pc, remote, report>> /\ left # {}
    BY <1>5 DEF GroupOutputs
  <2>2. state # "COMPLETE"
    BY <1>1, <2>1 DEF IInv, Progress
  <2>3. QED
    BY <2>1, <2>2 DEF ReportInv
<1>6. CASE CreateJob
  <2>1. pc = "groups" /\ state' \in {None, "SUBMITTED"} /\ UNCHANGED <<request, written, report>>
    BY <1>6 DEF CreateJob
  <2>2. state' # "COMPLETE"
    BY <2>1, MediaConvertAssumption DEF States
  <2>3. QED
    BY <2>1, <2>2 DEF ReportInv
<1>7. CASE Begin \/ Complete \/ Stumble \/ CancelJob
  <2>1. UNCHANGED <<pc, request, report>> /\ (state' = "COMPLETE" => written' = AllFiles)
    BY <1>7 DEF Begin, Complete, Stumble, CancelJob
  <2>2. QED
    BY <1>2, <2>1 DEF ReportInv
<1>8. CASE JobStatus
  <2>1. /\ pc = "answered" /\ report'.files = Files
        /\ UNCHANGED <<pc, request, state, written>>
    BY <1>8 DEF JobStatus
  <2>2. QED
    BY <1>2, <2>1 DEF ReportInv
<1>9. CASE \/ \E r \in Requests : LookupPreset(r) \/ SavePreset(r)
           \/ \E n \in Deletable : DeletePreset(n)
  BY <1>3, <1>9 DEF LookupPreset, SavePreset, DeletePreset
<1>10. CASE UNCHANGED vars
  BY <1>3, <1>10 DEF vars
<1>11. QED
  BY <1>4, <1>5, <1>6, <1>7, <1>8, <1>9, <1>10 DEF Next, Transcode

LEMMA ReportInvariant == Spec => [](IInv /\ ReportInv)
<1>1. Init => ReportInv
  BY MediaConvertAssumption DEF Init, ReportInv, States
<1>2. QED
  BY <1>1, ReportStep, Invariant, PTL DEF Spec

\* Of any job that is complete, a reported file has been written unless its
\* output asks for an extension that is not its container's.
THEOREM ReportTrueHolds == Spec => []ReportTrue
<1>1. ASSUME IInv, ReportInv, report # None, state = "COMPLETE", NEW f \in report.files
      PROVE  \/ f \in written
             \/ \E p \in Sent : At(p).file.stem = f.stem /\ At(p).file.extension \notin {"none", f.extension}
  <2>1. f \in Files /\ written = AllFiles
    BY <1>1 DEF ReportInv
  <2>2. PICK g \in DOMAIN request :
          \E o \in {request[g].outputs[k] : k \in DOMAIN request[g].outputs} :
             /\ request[g].type = "FILE"
             /\ f = [prefix |-> "m", stem |-> o.file.stem, extension |-> Extension(o.made.container)]
    BY <2>1 DEF Files
  <2>3. PICK k \in DOMAIN request[g].outputs :
          LET o == request[g].outputs[k]
          IN f = [prefix |-> "m", stem |-> o.file.stem, extension |-> Extension(o.made.container)]
    BY <2>2
  <2> DEFINE o == request[g].outputs[k]
  <2>4. f = [prefix |-> "m", stem |-> o.file.stem, extension |-> Extension(o.made.container)]
    BY <2>3
  <2>5. CASE o.file.extension \in {"none", f.extension}
    <3>1. Written1(request[g], o) = f
      BY <2>2, <2>4, <2>5 DEF Written1
    <3>2. Written1(request[g], o) \in AllFiles
      BY DEF AllFiles
    <3>3. QED
      BY <2>1, <3>1, <3>2
  <2>6. CASE o.file.extension \notin {"none", f.extension}
    <3>1. k \in 1 .. Len(job.outputs)
      <4>1. PICK S : request \in Seq(S)
        BY <1>1 DEF IInv, Grouped
      <4>2. PICK t \in Types : request[g].outputs = groups[t]
        BY <1>1, <4>1 DEF IInv, Grouped
      <4>3. PICK R : groups[t] \in Seq(R)
        BY <1>1 DEF IInv, Groups
      <4>4. k \in 1 .. Len(groups[t]) /\ Len(groups[t]) \in Nat
        BY <4>2, <4>3
      <4>5. Len(groups[t]) < next /\ next \in 1 .. Len(job.outputs) + 1 /\ Len(job.outputs) \in Nat
        BY <1>1, MediaConvertAssumption DEF IInv, Groups, TypeOK
      <4>6. QED
        BY <4>4, <4>5
    <3>2. <<g, k>> \in Sent /\ At(<<g, k>>) = o
      BY <3>1 DEF Sent, Placed, At
    <3>3. f.stem = o.file.stem
      BY <2>4
    <3>4. QED
      BY <2>6, <3>2, <3>3
  <2>7. QED
    BY <2>5, <2>6
<1>2. IInv /\ ReportInv => ReportTrue
  BY <1>1 DEF ReportTrue
<1>3. QED
  BY <1>2, ReportInvariant, PTL

-----------------------------------------------------------------------------
(* What is asked for is what was created                                     *)

\* No two requests create a preset of one name.
CreatedOnce == \A r, q \in Requests : Creates[r] = Creates[q] => r = q

\* The hash of a name is that of the request that has created it.
HashesAsAsked ==
  \A n \in Names : hashes[n] # None =>
    \E r \in Requests : /\ Creates[r] = n /\ saving[r] = "done"
                        /\ FieldMap(asked[r]) # Panic /\ hashes[n] = FieldMap(asked[r])

\* An output in a group is made of what the request for its preset asked.
MadeAsAsked ==
  \A t \in Types : \A k \in 1 .. Len(groups[t]) :
    \E r \in Requests : /\ Creates[r] = job.outputs[groups[t][k].of].preset
                        /\ OutputFrom(asked[r], job.source) = groups[t][k].made

\* CreatedOnce is a conjunct so that the steps below may assume it.
CreatedInv == CreatedOnce /\ HashesAsAsked /\ MadeAsAsked

\* A name has a hash only after its one request is done, so that no fields are
\* set in the hash of another preset.
LEMMA SaveStep ==
  ASSUME IInv, CreatedInv, NEW r \in Requests, SavePreset(r)
  PROVE  CreatedInv'
<1> USE DEF building, remote
<1> DEFINE n == Creates[r]  fields == FieldMap(asked[r])
<1>1. saving[r] = "save" /\ UNCHANGED <<asked, job, groups>> /\ n \in Names
  BY DEF SavePreset, Names
<1>2. CreatedOnce' /\ MadeAsAsked'
  BY <1>1 DEF CreatedInv, CreatedOnce, MadeAsAsked, Requests, Types
<1>3. CASE fields = Panic
  <2>1. saving' = [saving EXCEPT ![r] = "panicked"] /\ UNCHANGED hashes
    BY <1>3 DEF SavePreset
  <2>2. \A q \in Requests : saving[q] = "done" => saving'[q] = "done"
    BY <1>1, <2>1 DEF IInv, TypeOK
  <2>3. HashesAsAsked'
    BY <1>1, <2>1, <2>2 DEF CreatedInv, HashesAsAsked
  <2>4. QED
    BY <1>2, <2>3 DEF CreatedInv
<1>4. CASE fields # Panic
  <2>1. /\ saving' = [saving EXCEPT ![r] = "done"]
        /\ hashes' = [hashes EXCEPT ![n] = IF @ = None THEN fields ELSE HMSet(@, fields)]
    BY <1>4 DEF SavePreset
  <2>2. hashes[n] = None
    BY <1>1 DEF CreatedInv, CreatedOnce, HashesAsAsked
  <2>3. hashes'[n] = fields /\ \A m \in Names \ {n} : hashes'[m] = hashes[m]
    BY <1>1, <2>1, <2>2 DEF IInv
  <2>4. saving'[r] = "done" /\ \A q \in Requests : saving[q] = "done" => saving'[q] = "done"
    BY <1>1, <2>1 DEF IInv, TypeOK
  <2>5. HashesAsAsked'
    <3> SUFFICES ASSUME NEW m \in Names, hashes'[m] # None
                 PROVE  \E q \in Requests : /\ Creates[q] = m /\ saving'[q] = "done"
                                            /\ FieldMap(asked[q]) # Panic
                                            /\ hashes'[m] = FieldMap(asked[q])
      BY <1>1 DEF HashesAsAsked
    <3>1. CASE m = n
      BY <1>4, <2>3, <2>4, <3>1
    <3>2. CASE m # n
      BY <2>3, <2>4, <3>2 DEF CreatedInv, HashesAsAsked
    <3>3. QED
      BY <3>1, <3>2
  <2>6. QED
    BY <1>2, <2>5 DEF CreatedInv
<1>5. QED
  BY <1>3, <1>4

\* A preset is loaded as it was asked for, and the output is made of it.
LEMMA MadeStep ==
  ASSUME IInv, CreatedInv, GetPreset
  PROVE  CreatedInv'
<1> USE DEF presets, remote
<1> DEFINE o == job.outputs[next]
           out == IF hashes[o.preset] = None THEN Refused
                  ELSE OutputFrom(Load(hashes[o.preset]), job.source)
<1>1. /\ pc = "outputs" /\ next <= Len(job.outputs)
      /\ UNCHANGED <<asked, saving, hashes, job>>
  BY DEF GetPreset
<1>2. CreatedOnce' /\ HashesAsAsked'
  BY <1>1 DEF CreatedInv, CreatedOnce, HashesAsAsked
<1>3. CASE out \in {Refused, Panic}
  <2>1. UNCHANGED groups
    BY <1>3 DEF GetPreset
  <2>2. QED
    BY <1>1, <1>2, <2>1 DEF CreatedInv, MadeAsAsked
<1>4. CASE out \notin {Refused, Panic}
  <2> DEFINE t == out.container
             new == Output(o)
  <2>1. groups' = [groups EXCEPT ![t] = Append(@, new)]
    BY <1>4 DEF GetPreset
  <2>2. hashes[o.preset] # None /\ out = OutputFrom(Load(hashes[o.preset]), job.source)
    BY <1>4
  <2>3. o.preset \in Names
    <3>1. next \in DOMAIN job.outputs
      BY <1>1, MediaConvertAssumption DEF IInv, TypeOK
    <3>2. QED
      BY <3>1, MediaConvertAssumption DEF IInv, TypeOK
  <2>4. new.of = next /\ new.made = out
    BY <2>2 DEF Output
  <2>5. t \in Types
    BY <1>4, <2>2, OutputMade DEF Types
  <2>6. PICK r \in Requests : /\ Creates[r] = o.preset /\ FieldMap(asked[r]) # Panic
                              /\ hashes[o.preset] = FieldMap(asked[r])
    BY <2>2, <2>3 DEF CreatedInv, HashesAsAsked
  <2>7. IsPreset(asked[r])
    BY MediaConvertAssumption DEF IInv, TypeOK
  <2>8. OutputFrom(asked[r], job.source) = new.made
    BY <2>2, <2>4, <2>6, <2>7, LoadFieldMap
  <2>9. Creates[r] = job.outputs[new.of].preset
    BY <2>4, <2>6
  <2> HIDE DEF t, new, out, o
  <2>10. PICK S : groups[t] \in Seq(S)
    BY <2>5 DEF IInv, Groups
  <2>11. /\ Len(groups'[t]) = Len(groups[t]) + 1 /\ Len(groups[t]) \in Nat
         /\ \A k \in 1 .. Len(groups[t]) : groups'[t][k] = groups[t][k]
         /\ groups'[t][Len(groups[t]) + 1] = new
    <3>1. groups[t] \in Seq(S \cup {new}) /\ new \in S \cup {new}
      BY <2>10
    <3>2. groups'[t] = Append(groups[t], new)
      BY <2>1, <2>5 DEF IInv, Groups
    <3>3. QED
      BY <3>1, <3>2, AppendProperties
  <2>12. \A u \in Types \ {t} : groups'[u] = groups[u]
    BY <2>1 DEF IInv, Groups
  <2>13. ASSUME NEW u \in Types, NEW k \in 1 .. Len(groups'[u])
         PROVE  \E q \in Requests : /\ Creates[q] = job.outputs[groups'[u][k].of].preset
                                    /\ OutputFrom(asked[q], job.source) = groups'[u][k].made
    <3>1. \/ k \in 1 .. Len(groups[u]) /\ groups'[u][k] = groups[u][k]
          \/ groups'[u][k] = new
      BY <2>11, <2>12
    <3>2. CASE k \in 1 .. Len(groups[u]) /\ groups'[u][k] = groups[u][k]
      BY <3>2 DEF CreatedInv, MadeAsAsked
    <3>3. CASE groups'[u][k] = new
      BY <2>8, <2>9, <3>3
    <3>4. QED
      BY <3>1, <3>2, <3>3
  <2>14. MadeAsAsked'
    BY <1>1, <2>13 DEF MadeAsAsked
  <2>15. QED
    BY <1>2, <2>14 DEF CreatedInv
<1>5. QED
  BY <1>3, <1>4

LEMMA CreatedStep == IInv /\ CreatedInv /\ [Next]_vars => CreatedInv'
<1> SUFFICES ASSUME IInv, CreatedInv, [Next]_vars PROVE CreatedInv'
  OBVIOUS
<1> USE DEF presets, building, remote
<1>1. CASE UNCHANGED <<asked, saving, hashes, job, groups>>
  BY <1>1 DEF CreatedInv, CreatedOnce, HashesAsAsked, MadeAsAsked
<1>2. ASSUME NEW r \in Requests, LookupPreset(r)
      PROVE  CreatedInv'
  <2>1. \A q \in Requests : saving[q] = "done" => saving'[q] = "done"
    BY <1>2 DEF LookupPreset, IInv, TypeOK
  <2>2. UNCHANGED <<asked, hashes, job, groups>>
    BY <1>2 DEF LookupPreset
  <2>3. QED
    BY <2>1, <2>2 DEF CreatedInv, CreatedOnce, HashesAsAsked, MadeAsAsked
<1>3. ASSUME NEW n \in Deletable, DeletePreset(n)
      PROVE  CreatedInv'
  <2>1. /\ UNCHANGED <<asked, saving, job, groups>>
        /\ \A m \in Names : hashes'[m] # None => hashes'[m] = hashes[m]
    BY <1>3, MediaConvertAssumption DEF DeletePreset, IInv
  <2>2. HashesAsAsked'
    BY <2>1 DEF CreatedInv, HashesAsAsked
  <2>3. QED
    BY <2>1, <2>2 DEF CreatedInv, CreatedOnce, MadeAsAsked
<1>4. CASE EndOutputs \/ GroupOutputs \/ CreateJob \/ Begin \/ Complete \/ Stumble \/ CancelJob \/ JobStatus
  BY <1>1, <1>4
     DEF EndOutputs, GroupOutputs, CreateJob, Begin, Complete, Stumble, CancelJob, JobStatus
<1>5. CASE UNCHANGED vars
  BY <1>1, <1>5 DEF vars
<1>6. QED
  BY <1>2, <1>3, <1>4, <1>5, SaveStep, MadeStep DEF Next, Transcode

\* When each name is created once, what any job asks of MediaConvert for an
\* output is what the request for its preset asked for, field by field: the
\* hash neither loses nor invents anything. Of two creates of one name it does
\* not hold.
THEOREM AsCreatedHolds ==
  ASSUME CreatedOnce
  PROVE  Spec => []AsCreated
<1>1. Init => CreatedInv
  <2> SUFFICES ASSUME Init PROVE CreatedInv
    OBVIOUS
  <2>1. \A t \in Types : 1 .. Len(groups[t]) = {}
    BY DEF Init
  <2>2. QED
    BY <2>1 DEF Init, CreatedInv, HashesAsAsked, MadeAsAsked
<1>2. IInv /\ CreatedInv => AsCreated
  <2> SUFFICES ASSUME IInv, CreatedInv, NEW p \in Sent
               PROVE  \E r \in Requests : /\ Creates[r] = job.outputs[At(p).of].preset
                                          /\ OutputFrom(asked[r], job.source) = At(p).made
    BY DEF AsCreated
  <2>1. PICK t \in Types : p[2] \in 1 .. Len(groups[t]) /\ At(p) = groups[t][p[2]]
    BY SentFrom
  <2>2. QED
    BY <2>1 DEF CreatedInv, MadeAsAsked
<1>3. QED
  BY <1>1, <1>2, CreatedStep, Invariant, PTL DEF Spec

-----------------------------------------------------------------------------
(* What the service is promised                                              *)

LEMMA JobStates ==
  ASSUME state \in States \cup {None}
  PROVE  /\ JobState = "none" <=> state = None
         /\ state = "SUBMITTED" => JobState = "queued"
         /\ state = "PROGRESSING" => JobState = "running"
         /\ state = "COMPLETE" => JobState = "complete"
         /\ state = "CANCELED" => JobState = "canceled"
         /\ state = "ERROR" => JobState = "error"
BY MediaConvertAssumption DEF States, JobState

LEMMA JobStatesNext ==
  ASSUME state' \in States \cup {None}
  PROVE  /\ JobState' = "none" <=> state' = None
         /\ state' = "SUBMITTED" => JobState' = "queued"
         /\ state' = "PROGRESSING" => JobState' = "running"
         /\ state' = "COMPLETE" => JobState' = "complete"
         /\ state' = "CANCELED" => JobState' = "canceled"
         /\ state' = "ERROR" => JobState' = "error"
BY MediaConvertAssumption DEF States, JobState

\* The status of a state is the one that the service's states have.
LEMMA StatusTrue ==
  ASSUME state \in States
  PROVE  ProviderStatus(state) = Promise!StatusOf[JobState]
<1>1. state \in States \cup {None} /\ state # None
  BY MediaConvertAssumption
<1>2. QED
  BY <1>1, JobStates DEF States, ProviderStatus, Promise!StatusOf

LEMMA PromiseStep == IInv /\ [Next]_vars => [Promise!JobNext]_(Promise!jobVars)
<1> SUFFICES ASSUME IInv, [Next]_vars PROVE [Promise!JobNext]_(Promise!jobVars)
  OBVIOUS
<1> USE DEF presets, building, remote
<1>1. state \in States \cup {None}
  BY DEF IInv, TypeOK
<1>2. CASE UNCHANGED <<pc, state, report>>
  BY <1>2 DEF Promise!jobVars, JobState, AnswerGiven, Told
<1>3. CASE GetPreset
  <2>1. pc = "outputs" /\ pc' \in {"outputs", "failed", "panicked"} /\ UNCHANGED <<state, report>>
    BY <1>3 DEF GetPreset
  <2>2. state = None
    BY <2>1 DEF IInv, Progress
  <2>3. JobState = "none" /\ JobState' = "none" /\ Told' = Told
    BY <1>1, <2>1, <2>2, JobStates, JobStatesNext DEF Told
  <2>4. AnswerGiven = "none" /\ AnswerGiven' \in {"none", "error"}
    BY <2>1 DEF AnswerGiven
  <2>5. QED
    BY <2>3, <2>4 DEF Promise!JobNext, Promise!Fail, Promise!jobVars
<1>4. CASE EndOutputs
  BY <1>4 DEF EndOutputs, Promise!jobVars, JobState, AnswerGiven, Told
<1>5. CASE CreateJob
  <2>1. /\ pc = "groups" /\ UNCHANGED report
        /\ \/ pc' = "answered" /\ state' = "SUBMITTED"
           \/ pc' = "failed" /\ state' \in {None, "SUBMITTED"}
    BY <1>5 DEF CreateJob
  <2>2. state = None /\ state' \in States \cup {None}
    BY <2>1 DEF IInv, Progress, States
  <2>3. JobState = "none" /\ AnswerGiven = "none" /\ Told' = Told
    BY <1>1, <2>1, <2>2, JobStates DEF AnswerGiven, Told
  <2>4. \/ AnswerGiven' = "ok" /\ JobState' = "queued"
        \/ AnswerGiven' = "error" /\ JobState' \in {"none", "queued"}
    BY <2>1, <2>2, JobStatesNext DEF AnswerGiven
  <2>5. QED
    BY <2>3, <2>4 DEF Promise!JobNext, Promise!Start, Promise!Fail
<1>6. CASE Begin \/ Complete \/ Stumble \/ CancelJob
  <2>1. /\ UNCHANGED <<pc, report>>
        /\ \/ state = "SUBMITTED" /\ state' \in {"PROGRESSING", "ERROR"}
           \/ state = "PROGRESSING" /\ state' \in {"COMPLETE", "ERROR"}
           \/ pc = "answered" /\ state \in {"SUBMITTED", "PROGRESSING"} /\ state' = "CANCELED"
    BY <1>6 DEF Begin, Complete, Stumble, CancelJob
  <2>2. state' \in States \cup {None}
    BY <2>1 DEF States
  <2>3. AnswerGiven' = AnswerGiven /\ Told' = Told /\ (pc = "answered" => AnswerGiven = "ok")
    BY <2>1 DEF AnswerGiven, Told
  <2>4. \/ JobState = "queued" /\ JobState' \in {"running", "error"}
        \/ JobState = "running" /\ JobState' \in {"complete", "error"}
        \/ pc = "answered" /\ JobState \in {"queued", "running"} /\ JobState' = "canceled"
    BY <1>1, <2>1, <2>2, JobStates, JobStatesNext
  <2>5. QED
    BY <2>3, <2>4 DEF Promise!JobNext, Promise!Advance, Promise!Stop, Promise!Live, Promise!Onward,
       Promise!Stopped
<1>7. CASE JobStatus
  <2>1. pc = "answered" /\ UNCHANGED <<pc, state>> /\ report'.status = ProviderStatus(state)
    BY <1>7 DEF JobStatus
  <2>2. state \in States
    BY <1>1, <2>1 DEF IInv, Progress
  <2>3. Told' \in {"none", Promise!StatusOf[JobState]}
    BY <2>1, <2>2, StatusTrue DEF Told
  <2>4. AnswerGiven = "ok" /\ UNCHANGED <<AnswerGiven, JobState>>
    BY <2>1 DEF AnswerGiven, JobState
  <2>5. QED
    BY <2>3, <2>4 DEF Promise!JobNext, Promise!Ask, Promise!Tell
<1>8. CASE \/ \E r \in Requests : LookupPreset(r) \/ SavePreset(r)
           \/ \E n \in Deletable : DeletePreset(n)
  BY <1>2, <1>8 DEF LookupPreset, SavePreset, DeletePreset
<1>9. CASE GroupOutputs
  BY <1>2, <1>9 DEF GroupOutputs
<1>10. CASE UNCHANGED vars
  BY <1>2, <1>10 DEF vars
<1>11. QED
  BY <1>3, <1>4, <1>5, <1>6, <1>7, <1>8, <1>9, <1>10 DEF Next, Transcode

\* For any presets, jobs and failures mediaconvert keeps what a provider
\* promises: an acknowledged job exists, one that ended stays as it is, and
\* the status told is that of its state.
THEOREM PromiseKeptHolds == Spec => PromiseKept
<1>1. Init => Promise!JobInit
  BY MediaConvertAssumption DEF Init, Promise!JobInit, JobState, AnswerGiven, Told, States
<1>2. QED
  BY <1>1, PromiseStep, Invariant, PTL DEF Spec, PromiseKept, Promise!JobSpec
=============================================================================
