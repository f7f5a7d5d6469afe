---------------------- MODULE PresetProvisioning_proofs ----------------------
(* Proofs about PresetProvisioning, for every set of requests, names,      *)
(* providers, calls and failures.                                          *)
EXTENDS PresetProvisioning, TLAPS

-----------------------------------------------------------------------------
(* The names of steps, results and replies, so that their sets need not be *)
(* expanded below.                                                         *)

LEMMA StepNames ==
  /\ "get" \in Steps /\ "loop" \in Steps /\ "lookupLocal" \in Steps
  /\ "saveLocal" \in Steps /\ "lookupSummary" \in Steps /\ "createConfigs" \in Steps
  /\ "recheckSummary" \in Steps /\ "saveSummary" \in Steps /\ "removeLocal" \in Steps
  /\ "readSummary" \in Steps /\ "removeAudio" \in Steps /\ "removeVideo" \in Steps
  /\ "removeSummary" \in Steps /\ "checkFree" \in Steps /\ "checkExists" \in Steps
  /\ "resolve" \in Steps /\ "save" \in Steps /\ "addToIndex" \in Steps
  /\ "drop" \in Steps /\ "dropFromIndex" \in Steps /\ "done" \in Steps
  /\ "crashed" \in Steps
  BY DEF Steps

LEMMA ResultNames ==
  /\ "none" \in Results /\ "kept" \in Results /\ "ok" \in Results
  /\ "error" \in Results
  BY DEF Results

LEMMA ReplyNames ==
  /\ "none" \in Replies /\ "ok" \in Replies /\ "notRemoved" \in Replies
  /\ "invalid" \in Replies /\ "notFound" \in Replies /\ "conflict" \in Replies
  /\ "error" \in Replies
  BY DEF Replies

-----------------------------------------------------------------------------
(* The helpers of the actions keep the types of what they assign. *)

LEMMA CallType ==
  ASSUME TypeOK, NEW r \in Requests
  PROVE  /\ call[r] \in Call
         /\ Name(r) \in Names /\ call[r].op \in Ops
         /\ call[r].mapping \in Mapping /\ call[r].providers \subseteq Providers
  BY ProvisioningAssumption DEF ProvisioningAssumption, TypeOK, Call, Name

LEMMA StepType ==
  ASSUME TypeOK, NEW r \in Requests, NEW from, NEW to \in Steps, Step(r, from, to)
  PROVE  pc' \in [Requests -> Steps]
  BY DEF TypeOK, Step

LEMMA AnswerType ==
  ASSUME TypeOK, NEW r \in Requests, NEW from, NEW a \in Replies, Answer(r, from, a)
  PROVE  pc' \in [Requests -> Steps] /\ reply' \in [Requests -> Replies]
<1>1. "done" \in Steps
  BY DEF Steps
<1> QED
  BY <1>1, StepType DEF TypeOK, Answer

LEMMA ReportType ==
  ASSUME TypeOK, NEW r \in Requests, NEW from, NEW res \in Results,
         Report(r, from, res)
  PROVE  /\ pc' \in [Requests -> Steps]
         /\ result' \in [Requests -> [Providers -> Results]]
<1>1. "loop" \in Steps
  BY DEF Steps
<1> QED
  BY <1>1, StepType DEF TypeOK, Report

LEMMA MapProviderType ==
  ASSUME TypeOK, NEW r \in Requests, NEW id \in Ids, MapProvider(r, id)
  PROVE  copy' \in [Requests -> Mapping]
  BY DEF TypeOK, MapProvider, Mapping

LEMMA MergeType ==
  ASSUME NEW old \in Mapping, NEW new \in Mapping
  PROVE  Merge(old, new) \in Mapping
  BY DEF Merge, Mapping

\* Merging forgets no provider and invents none.
LEMMA MergeMapped ==
  ASSUME NEW old, NEW new
  PROVE  Mapped(Merge(old, new)) = Mapped(old) \cup Mapped(new)
  BY DEF Merge, Mapped

LEMMA UnmappedType == Unmapped \in Mapping
  BY DEF Unmapped, Mapping

-----------------------------------------------------------------------------

LEMMA TypeInit == Init => TypeOK
<1> SUFFICES ASSUME Init PROVE TypeOK
  OBVIOUS
<1>1. \A r \in Requests : call[r] \in Call
  BY ProvisioningAssumption DEF ProvisioningAssumption, Init
<1>2. pc \in [Requests -> Steps]
  BY <1>1 DEF Init, Call, Ops, FirstStep, Steps
<1>3. copy \in [Requests -> Mapping]
  BY <1>1, UnmappedType DEF Init, Call
<1> QED
  BY <1>2, <1>3, UnmappedType DEF Init, TypeOK, Providers, Results, Replies

LEMMA TypeStep == TypeOK /\ [Next]_vars => TypeOK'
<1> SUFFICES ASSUME TypeOK, [Next]_vars PROVE TypeOK'
  OBVIOUS
<1> USE CallType, StepType, AnswerType, ReportType, StepNames, ResultNames, ReplyNames
<1>1. ASSUME NEW r \in Requests, NewPresetGet(r) PROVE TypeOK'
  <2>1. presetMap[Name(r)] \in Mapping
    BY DEF TypeOK
  <2>2. copy' \in [Requests -> Mapping]
    BY <1>1, <2>1 DEF NewPresetGet, TypeOK
  <2>3. /\ call[r].providers \in SUBSET Providers
        /\ call[r].providers \ Mapped(presetMap[Name(r)]) \in SUBSET Providers
    OBVIOUS
  <2>4. todo' \in [Requests -> SUBSET Providers]
    <3>1. CASE todo' = [todo EXCEPT ![r] = call[r].providers \ Mapped(presetMap[Name(r)])]
      BY <3>1, <2>3 DEF TypeOK
    <3>2. CASE todo' = [todo EXCEPT ![r] = call[r].providers]
      BY <3>2, <2>3 DEF TypeOK
    <3> QED
      BY <1>1, <3>1, <3>2 DEF NewPresetGet, TypeOK
  <2>5. [p \in Providers |-> IF presetMap[Name(r)][p] # None THEN "kept" ELSE "none"]
          \in [Providers -> Results]
    OBVIOUS
  <2>6. result' \in [Requests -> [Providers -> Results]]
    BY <1>1, <2>5 DEF NewPresetGet, TypeOK
  <2>7. pc' \in [Requests -> Steps] /\ reply' \in [Requests -> Replies]
    BY <1>1 DEF NewPresetGet, TypeOK
  <2> QED
    BY <1>1, <2>2, <2>4, <2>6, <2>7 DEF NewPresetGet, TypeOK, store
<1>2. ASSUME NEW r \in Requests, DeletePresetGet(r) PROVE TypeOK'
  <2>1. presetMap[Name(r)] \in Mapping /\ Mapped(presetMap[Name(r)]) \in SUBSET Providers
    BY DEF TypeOK, Mapped
  <2>2. copy' \in [Requests -> Mapping]
    BY <1>2, <2>1 DEF DeletePresetGet, TypeOK
  <2>3. todo' \in [Requests -> SUBSET Providers]
    BY <1>2, <2>1 DEF DeletePresetGet, TypeOK
  <2> QED
    BY <1>2, <2>2, <2>3 DEF DeletePresetGet, TypeOK, store
<1>3. ASSUME NEW r \in Requests, VisitProvider(r) PROVE TypeOK'
  <2>1. PICK p \in todo[r] : VisitProvider(r)!2!(p)
    BY <1>3 DEF VisitProvider
  <2>2. p \in Providers /\ ProviderStep(call[r].op, p) \in Steps
    BY DEF TypeOK, ProviderStep
  <2>3. pc' \in [Requests -> Steps] /\ at' \in [Requests -> Providers]
    BY <2>1, <2>2 DEF TypeOK
  <2>4. [result[r] EXCEPT ![p] = "error"] \in [Providers -> Results]
    BY DEF TypeOK
  <2>5. result' \in [Requests -> [Providers -> Results]]
    BY <2>1, <2>4 DEF TypeOK
  <2>6. todo' \in [Requests -> SUBSET Providers]
    BY <2>1 DEF TypeOK
  <2> QED
    BY <1>3, <2>3, <2>5, <2>6 DEF VisitProvider, TypeOK, store
<1>4. ASSUME NEW r \in Requests, EndLoop(r) PROVE TypeOK'
  BY <1>4 DEF EndLoop, TypeOK, store
<1>5. ASSUME NEW r \in Requests, LookupLocal(r) PROVE TypeOK'
  BY <1>5 DEF LookupLocal, TypeOK, store
<1>6. ASSUME NEW r \in Requests, SaveLocal(r) PROVE TypeOK'
  BY <1>6, MapProviderType DEF SaveLocal, Ids, TypeOK, store
<1>7. ASSUME NEW r \in Requests, LookupSummary(r) PROVE TypeOK'
  BY <1>7, MapProviderType DEF LookupSummary, Ids, TypeOK, store
<1>8. ASSUME NEW r \in Requests, CreateConfigs(r) PROVE TypeOK'
  BY <1>8 DEF CreateConfigs, ObjectKinds, TypeOK, store
<1>9. ASSUME NEW r \in Requests, RecheckSummary(r) PROVE TypeOK'
  BY <1>9, MapProviderType DEF RecheckSummary, Ids, TypeOK, store
<1>10. ASSUME NEW r \in Requests, SaveSummary(r) PROVE TypeOK'
  BY <1>10, MapProviderType DEF SaveSummary, Ids, TypeOK, store
<1>11. ASSUME NEW r \in Requests, RemoveLocal(r) PROVE TypeOK'
  BY <1>11 DEF RemoveLocal, TypeOK, store
<1>12. ASSUME NEW r \in Requests, ReadSummary(r) PROVE TypeOK'
  BY <1>12 DEF ReadSummary, TypeOK, store
<1>13. ASSUME NEW r \in Requests, RemoveAudio(r) PROVE TypeOK'
  BY <1>13 DEF RemoveAudio, RemoveObject, TypeOK, store
<1>14. ASSUME NEW r \in Requests, RemoveVideo(r) PROVE TypeOK'
  BY <1>14 DEF RemoveVideo, RemoveObject, TypeOK, store
<1>15. ASSUME NEW r \in Requests, RemoveSummary(r) PROVE TypeOK'
  BY <1>15 DEF RemoveSummary, TypeOK, store
<1>16. ASSUME NEW r \in Requests, CheckFree(r) PROVE TypeOK'
  BY <1>16 DEF CheckFree, TypeOK, store
<1>17. ASSUME NEW r \in Requests, Resolve(r) PROVE TypeOK'
  <2>1. Merge(copy[r], presetMap[Name(r)]) \in Mapping
    BY MergeType DEF TypeOK
  <2>2. copy' \in [Requests -> Mapping]
    BY <1>17, <2>1 DEF Resolve, TypeOK
  <2> QED
    BY <1>17, <2>2 DEF Resolve, TypeOK, store
<1>18. ASSUME NEW r \in Requests, CheckExists(r) PROVE TypeOK'
  BY <1>18 DEF CheckExists, TypeOK, store
<1>19. ASSUME NEW r \in Requests, Save(r) PROVE TypeOK'
  <2>1. Merge(presetMap[Name(r)], copy[r]) \in Mapping
    BY MergeType DEF TypeOK
  <2>2. presetMap' \in [Names -> Mapping]
    BY <1>19, <2>1 DEF Save, Saved, TypeOK
  <2>3. SaveFailed(r) \in Replies
    BY DEF SaveFailed
  <2> QED
    BY <1>19, <2>2, <2>3 DEF Save, TypeOK
<1>20. ASSUME NEW r \in Requests, AddToIndex(r) PROVE TypeOK'
  BY <1>20 DEF AddToIndex, SaveFailed, TypeOK, store
<1>21. ASSUME NEW r \in Requests, Drop(r) PROVE TypeOK'
  BY <1>21, UnmappedType DEF Drop, Erased, HaveSaved, TypeOK, store
<1>22. ASSUME NEW r \in Requests, DropFromIndex(r) PROVE TypeOK'
  BY <1>22 DEF DropFromIndex, TypeOK, store
<1>23. ASSUME NEW r \in Requests, Crash(r) PROVE TypeOK'
  BY <1>23 DEF Crash, TypeOK, store
<1>24. CASE UNCHANGED vars
  BY <1>24 DEF vars, TypeOK
<1> QED
  BY <1>1, <1>2, <1>3, <1>4, <1>5, <1>6, <1>7, <1>8, <1>9, <1>10, <1>11, <1>12,
     <1>13, <1>14, <1>15, <1>16, <1>17, <1>18, <1>19, <1>20, <1>21, <1>22,
     <1>23, <1>24 DEF Next, Serve

\* Every variable keeps its type, whatever the requests and failures: what the
\* code reads from redis and keeps in its locals is always a mapping, a step, a
\* result of the kinds the other theorems name.
THEOREM TypeCorrect == Spec => []TypeOK
<1>1. Init => TypeOK
  BY TypeInit
<1>2. TypeOK /\ [Next]_vars => TypeOK'
  BY TypeStep
<1> QED
  BY <1>1, <1>2, PTL DEF Spec

-----------------------------------------------------------------------------
(* The inductive invariant.  Control says which requests reach which steps *)
(* and what their loop has done so far; the other conjuncts relate a       *)
(* request's copy of the map, before it is saved, to what the properties   *)
(* say of the map in redis.                                                *)

DeleteOps     == {"deletePreset", "deletePresetMap"}
CreateSteps   == {"lookupLocal", "saveLocal", "lookupSummary", "createConfigs",
                  "recheckSummary", "saveSummary"}
RemoveSteps   == {"removeLocal", "readSummary", "removeAudio", "removeVideo",
                  "removeSummary"}
ProviderSteps == CreateSteps \cup RemoveSteps
StoreSteps    == {"checkFree", "checkExists", "resolve", "save"}

ControlOf(r) ==
  /\ pc[r] \in {"get", "loop"} => call[r].op \in {"newPreset", "deletePreset"}
  /\ pc[r] \in CreateSteps \cup {"resolve"} => call[r].op = "newPreset"
  /\ pc[r] \in RemoveSteps => call[r].op = "deletePreset"
  /\ pc[r] \in StoreSteps \cup {"addToIndex"} => call[r].op \in SaveOps
  /\ pc[r] \in {"drop", "dropFromIndex"} => call[r].op \in DeleteOps
  /\ pc[r] \in StoreSteps => Mapped(copy[r]) # {}
  /\ pc[r] = "get" => \A p \in Providers : result[r][p] = "none"
  /\ \A p \in todo[r] : result[r][p] = "none"
  /\ pc[r] \in ProviderSteps => at[r] \notin todo[r] /\ result[r][at[r]] = "none"
  /\ reply[r] = "ok" => pc[r] = "done"

Control == \A r \in Requests : ControlOf(r)

CopySourced ==
  \A r \in Requests : \A p \in Mapped(copy[r]) : MappedFor(Name(r), p)

CopyReported ==
  \A r \in Requests : call[r].op \in SaveOps => Reported(r) \subseteq Mapped(copy[r])

SavedStays ==
  \A r \in Requests :
    (/\ pc[r] = "addToIndex" \/ reply[r] = "ok"
     /\ call[r].op \in SaveOps /\ r \notin overtaken)
    => Reported(r) \subseteq Mapped(presetMap[Name(r)])

IInv == /\ TypeOK
        /\ Control
        /\ CopySourced /\ MappedByARequest
        /\ CopyReported /\ SavedStays

-----------------------------------------------------------------------------

LEMMA ControlInit == Init => Control
<1> SUFFICES ASSUME Init, NEW r \in Requests PROVE ControlOf(r)
  BY DEF Control
<1>1. call[r] \in Calls /\ call[r] \in Call
  BY ProvisioningAssumption DEF Init, ProvisioningAssumption
<1>2. call[r].op \in {"newPresetMap", "updatePresetMap"} => Mapped(copy[r]) # {}
  BY <1>1, ProvisioningAssumption DEF Init, ProvisioningAssumption
<1> QED
  BY <1>1, <1>2 DEF Init, ControlOf, FirstStep, Call, Ops, CreateSteps, RemoveSteps,
     ProviderSteps, StoreSteps, DeleteOps, SaveOps

LEMMA ControlStep ==
  ASSUME TypeOK, Control, NEW r \in Requests, Serve(r), NEW q \in Requests
  PROVE  ControlOf(q)'
<1> USE DEF ControlOf, CreateSteps, RemoveSteps, ProviderSteps, StoreSteps,
            DeleteOps, SaveOps, Step, Answer, Report, store, TypeOK
<1> ControlOf(q) /\ ControlOf(r)
  BY DEF Control
<1>1. CASE NewPresetGet(r)
  <2>1. CASE q # r
    <3>1. /\ pc'[q] = pc[q] /\ copy'[q] = copy[q] /\ todo'[q] = todo[q]
          /\ result'[q] = result[q] /\ reply'[q] = reply[q] /\ call' = call /\ at' = at
      BY <1>1, <2>1 DEF NewPresetGet
    <3> QED
      BY <3>1 DEF Mapped
  <2>2. CASE q = r
    <3>1. \A p \in todo'[r] : result'[r][p] = "none"
      <4>1. CASE Exists(Name(r)) /\ pc'[r] = "loop"
        BY <1>1, <4>1, CallType DEF NewPresetGet, Mapped
      <4>2. CASE ~Exists(Name(r)) /\ pc'[r] = "loop"
        BY <1>1, <4>2, CallType DEF NewPresetGet
      <4>3. CASE pc'[r] # "loop"
        BY <1>1, <4>3 DEF NewPresetGet
      <4> QED
        BY <4>1, <4>2, <4>3
    <3> QED
      BY <1>1, <2>2, <3>1 DEF NewPresetGet
  <2> QED
    BY <2>1, <2>2
<1>2. CASE DeletePresetGet(r)
  <2>1. CASE q # r
    BY <1>2, <2>1 DEF DeletePresetGet
  <2>2. CASE q = r
    <3>1. todo'[r] \subseteq Providers /\ result' = result
      BY <1>2 DEF DeletePresetGet, Mapped
    <3> QED
      BY <1>2, <2>2, <3>1 DEF DeletePresetGet
  <2> QED
    BY <2>1, <2>2
<1>3. CASE VisitProvider(r)
  BY <1>3 DEF VisitProvider, ProviderStep
<1>4. CASE EndLoop(r)
  BY <1>4 DEF EndLoop
<1>5. CASE LookupLocal(r)
  BY <1>5 DEF LookupLocal
<1>6. CASE SaveLocal(r)
  BY <1>6 DEF SaveLocal, MapProvider, Mapped
<1>7. CASE LookupSummary(r)
  BY <1>7 DEF LookupSummary, MapProvider, Mapped
<1>8. CASE CreateConfigs(r)
  BY <1>8 DEF CreateConfigs
<1>9. CASE RecheckSummary(r)
  BY <1>9 DEF RecheckSummary, MapProvider, Mapped
<1>10. CASE SaveSummary(r)
  BY <1>10 DEF SaveSummary, MapProvider, Mapped
<1>11. CASE RemoveLocal(r)
  BY <1>11 DEF RemoveLocal
<1>12. CASE ReadSummary(r)
  BY <1>12 DEF ReadSummary
<1>13. CASE RemoveAudio(r)
  BY <1>13 DEF RemoveAudio, RemoveObject
<1>14. CASE RemoveVideo(r)
  BY <1>14 DEF RemoveVideo, RemoveObject
<1>15. CASE RemoveSummary(r)
  BY <1>15 DEF RemoveSummary
<1>16. CASE CheckFree(r)
  BY <1>16 DEF CheckFree
<1>17. CASE Resolve(r)
  <2>1. CASE q # r
    BY <1>17, <2>1 DEF Resolve, Mapped
  <2>2. CASE q = r
    <3>1. Mapped(copy[r]) \subseteq Mapped(copy'[r])
      BY <1>17, MergeMapped DEF Resolve
    <3> QED
      BY <1>17, <2>2, <3>1 DEF Resolve
  <2> QED
    BY <2>1, <2>2
<1>18. CASE CheckExists(r)
  BY <1>18 DEF CheckExists
<1>19. CASE Save(r)
  BY <1>19 DEF Save, SaveFailed
<1>20. CASE AddToIndex(r)
  BY <1>20 DEF AddToIndex, SaveFailed
<1>21. CASE Drop(r)
  BY <1>21 DEF Drop
<1>22. CASE DropFromIndex(r)
  BY <1>22 DEF DropFromIndex
<1>23. CASE Crash(r)
  BY <1>23 DEF Crash
<1> QED
  BY <1>1, <1>2, <1>3, <1>4, <1>5, <1>6, <1>7, <1>8, <1>9, <1>10, <1>11, <1>12,
     <1>13, <1>14, <1>15, <1>16, <1>17, <1>18, <1>19, <1>20, <1>21, <1>22,
     <1>23 DEF Serve

LEMMA CallStays ==
  ASSUME NEW r \in Requests, Serve(r)
  PROVE  call' = call
  BY DEF Serve, RemoveObject,
         NewPresetGet, DeletePresetGet, VisitProvider, EndLoop, LookupLocal,
         SaveLocal, LookupSummary, CreateConfigs, RecheckSummary, SaveSummary,
         RemoveLocal, ReadSummary, RemoveAudio, RemoveVideo, RemoveSummary,
         CheckFree, Resolve, CheckExists, Save, AddToIndex, Drop, DropFromIndex,
         Crash

\* What a request reported of a provider stays reported.
LEMMA ReportStays ==
  ASSUME TypeOK, Control, NEW r \in Requests, Serve(r),
         NEW q \in Requests, NEW p \in Providers, result[q][p] # "none"
  PROVE  result'[q][p] = result[q][p]
<1> ControlOf(r)
  BY DEF Control
<1>1. CASE result' = result
  BY <1>1
<1>2. CASE NewPresetGet(r)
  BY <1>2 DEF NewPresetGet, ControlOf, TypeOK, Step, Answer
<1>3. CASE VisitProvider(r)
  <2>1. PICK v \in todo[r] : \/ result' = result
                             \/ result' = [result EXCEPT ![r][v] = "error"]
    BY <1>3 DEF VisitProvider
  <2>2. result[r][v] = "none" /\ v \in Providers
    BY DEF ControlOf, TypeOK
  <2>3. q # r \/ p # v
    BY <2>2
  <2>4. CASE result' = [result EXCEPT ![r][v] = "error"]
    BY <2>2, <2>3, <2>4 DEF TypeOK
  <2> QED
    BY <2>1, <2>4
<1>4. CASE \E from \in ProviderSteps, res \in Results : Report(r, from, res)
  BY <1>4 DEF Report, ControlOf, Step, TypeOK
<1> QED
  BY <1>1, <1>2, <1>3, <1>4 DEF Serve, RemoveObject, Results, ProviderSteps, CreateSteps, RemoveSteps,
         NewPresetGet, DeletePresetGet, VisitProvider, EndLoop, LookupLocal,
         SaveLocal, LookupSummary, CreateConfigs, RecheckSummary, SaveSummary,
         RemoveLocal, ReadSummary, RemoveAudio, RemoveVideo, RemoveSummary,
         CheckFree, Resolve, CheckExists, Save, AddToIndex, Drop, DropFromIndex,
         Crash

LEMMA SourceStays ==
  ASSUME TypeOK, Control, NEW r \in Requests, Serve(r),
         NEW n \in Names, NEW p \in Providers, MappedFor(n, p)
  PROVE  MappedFor(n, p)'
  BY CallStays, ReportStays DEF MappedFor, Name

\* What a request's copy of the map gains it read from redis or just created.
LEMMA CopyGains ==
  ASSUME TypeOK, Control, NEW r \in Requests, Serve(r),
         NEW q \in Requests, NEW p \in Mapped(copy'[q])
  PROVE  \/ p \in Mapped(copy[q])
         \/ p \in Mapped(presetMap[Name(q)])
         \/ call[q].op = "newPreset" /\ result'[q][p] = "ok"
<1> ControlOf(r)
  BY DEF Control
<1>1. CASE copy' = copy
  BY <1>1 DEF Mapped
<1>2. CASE NewPresetGet(r) \/ DeletePresetGet(r)
  BY <1>2 DEF NewPresetGet, DeletePresetGet, Mapped, TypeOK
<1>3. CASE Resolve(r)
  <2>1. \/ copy' = copy
        \/ copy' = [copy EXCEPT ![r] = Merge(copy[r], presetMap[Name(r)])]
    BY <1>3 DEF Resolve
  <2>2. CASE copy' = copy
    BY <2>2
  <2>3. CASE copy' = [copy EXCEPT ![r] = Merge(copy[r], presetMap[Name(r)])]
    <3>1. q # r => copy'[q] = copy[q]
      BY <2>3 DEF TypeOK
    <3>2. copy'[r] = Merge(copy[r], presetMap[Name(r)])
      BY <2>3 DEF TypeOK
    <3> QED
      BY <3>1, <3>2, MergeMapped
  <2> QED
    BY <2>1, <2>2, <2>3
<1>4. CASE /\ \E id \in Ids : MapProvider(r, id)
           /\ \E from \in CreateSteps : Report(r, from, "ok")
  BY <1>4 DEF MapProvider, Report, Step, ControlOf, Mapped, TypeOK, Mapping
<1> QED
  BY <1>1, <1>2, <1>3, <1>4, CallType DEF Serve, RemoveObject, CreateSteps, Ids,
         NewPresetGet, DeletePresetGet, VisitProvider, EndLoop, LookupLocal,
         SaveLocal, LookupSummary, CreateConfigs, RecheckSummary, SaveSummary,
         RemoveLocal, ReadSummary, RemoveAudio, RemoveVideo, RemoveSummary,
         CheckFree, Resolve, CheckExists, Save, AddToIndex, Drop, DropFromIndex,
         Crash

\* What the map in redis gains comes from the copy a request saves, and only a
\* delete takes anything from it.
LEMMA SaveOrErase ==
  ASSUME TypeOK, NEW r \in Requests, Serve(r)
  PROVE  \/ UNCHANGED <<presetMap, overtaken>>
         \/ pc[r] = "save" /\ Saved(r) /\ UNCHANGED overtaken
         \/ pc[r] = "drop" /\ Erased(r)
  BY DEF Serve, RemoveObject, store, Step, Answer,
         NewPresetGet, DeletePresetGet, VisitProvider, EndLoop, LookupLocal,
         SaveLocal, LookupSummary, CreateConfigs, RecheckSummary, SaveSummary,
         RemoveLocal, ReadSummary, RemoveAudio, RemoveVideo, RemoveSummary,
         CheckFree, Resolve, CheckExists, Save, AddToIndex, Drop, DropFromIndex,
         Crash

-----------------------------------------------------------------------------

LEMMA SourcedStep ==
  ASSUME TypeOK, Control, CopySourced, MappedByARequest,
         NEW r \in Requests, Serve(r)
  PROVE  CopySourced' /\ MappedByARequest'
<1> USE CallType
<1>1. ASSUME NEW q \in Requests, NEW p \in Mapped(copy'[q])
      PROVE  MappedFor(Name(q), p)'
  <2>1. p \in Providers
    BY DEF Mapped
  <2>2. CASE p \in Mapped(copy[q]) \/ p \in Mapped(presetMap[Name(q)])
    <3>1. Name(q) \in Names /\ MappedFor(Name(q), p)
      BY <2>2 DEF CopySourced, MappedByARequest
    <3> QED
      BY <2>1, <3>1, SourceStays, CallStays DEF Name
  <2>3. CASE call[q].op = "newPreset" /\ result'[q][p] = "ok"
    BY <2>3, CallStays DEF MappedFor, Name
  <2> QED
    BY <2>2, <2>3, CopyGains
<1>2. ASSUME NEW n \in Names, NEW p \in Mapped(presetMap'[n])
      PROVE  MappedFor(n, p)'
  <2>1. p \in Providers
    BY DEF Mapped
  <2>2. \/ p \in Mapped(presetMap[n])
        \/ n = Name(r) /\ p \in Mapped(copy[r])
    <3>1. CASE presetMap' = presetMap
      BY <3>1
    <3>2. CASE Saved(r)
      BY <3>2, MergeMapped DEF Saved, TypeOK
    <3>3. CASE Erased(r)
      BY <3>3 DEF Erased, Unmapped, Mapped, TypeOK
    <3> QED
      BY <3>1, <3>2, <3>3, SaveOrErase
  <2> QED
    BY <2>1, <2>2, SourceStays DEF CopySourced, MappedByARequest
<1> QED
  BY <1>1, <1>2, CallStays DEF CopySourced, MappedByARequest, Mapped, Name

\* After its first read a request forgets no provider it has mapped.
LEMMA CopyKeeps ==
  ASSUME TypeOK, Control, NEW r \in Requests, Serve(r), NEW q \in Requests,
         pc[q] # "get", NEW p \in Mapped(copy[q])
  PROVE  p \in Mapped(copy'[q])
<1> p \in Providers /\ copy[q][p] # None
  BY DEF Mapped
<1>1. CASE copy'[q] = copy[q]
  BY <1>1
<1>2. CASE copy' = [copy EXCEPT ![r] = Merge(@, presetMap[Name(r)])] /\ q = r
  <2>1. copy'[r] = Merge(copy[r], presetMap[Name(r)])
    BY <1>2 DEF TypeOK
  <2> QED
    BY <1>2, <2>1, MergeMapped
<1>3. CASE \E id \in Ids : MapProvider(r, id)
  BY <1>3, ProvisioningAssumption
  DEF MapProvider, Mapped, TypeOK, Mapping, ProvisioningAssumption
<1>4. CASE q # r
  BY <1>4 DEF Serve, RemoveObject, MapProvider, TypeOK,
     NewPresetGet, DeletePresetGet, VisitProvider, EndLoop, LookupLocal,
     SaveLocal, LookupSummary, CreateConfigs, RecheckSummary, SaveSummary,
     RemoveLocal, ReadSummary, RemoveAudio, RemoveVideo, RemoveSummary,
     CheckFree, Resolve, CheckExists, Save, AddToIndex, Drop, DropFromIndex,
     Crash
<1>5. CASE q = r
  BY <1>1, <1>2, <1>3, <1>5, CallType DEF Serve, RemoveObject, Ids, Step, Answer,
     NewPresetGet, DeletePresetGet, VisitProvider, EndLoop, LookupLocal,
     SaveLocal, LookupSummary, CreateConfigs, RecheckSummary, SaveSummary,
     RemoveLocal, ReadSummary, RemoveAudio, RemoveVideo, RemoveSummary,
     CheckFree, Resolve, CheckExists, Save, AddToIndex, Drop, DropFromIndex,
     Crash
<1> QED
  BY <1>4, <1>5

\* A newPreset reports a provider as holding the preset only with a map entry.
LEMMA ReportGains ==
  ASSUME TypeOK, Control, NEW r \in Requests, Serve(r), NEW q \in Requests,
         call[q].op = "newPreset",
         NEW p \in Providers, result'[q][p] \in {"kept", "ok"}
  PROVE  \/ result[q][p] \in {"kept", "ok"} /\ pc[q] # "get"
         \/ p \in Mapped(copy'[q])
<1> ControlOf(r) /\ ControlOf(q)
  BY DEF Control
<1>1. CASE result'[q][p] = result[q][p]
  BY <1>1 DEF ControlOf
<1>2. CASE NewPresetGet(r)
  BY <1>2 DEF NewPresetGet, Mapped, TypeOK, ControlOf
<1>3. CASE VisitProvider(r)
  BY <1>1, <1>3 DEF VisitProvider, TypeOK
<1>4. CASE /\ \E id \in Ids : MapProvider(r, id)
           /\ \E from \in CreateSteps : Report(r, from, "ok")
  BY <1>1, <1>4, ProvisioningAssumption
  DEF MapProvider, Report, Mapped, TypeOK, Mapping, ProvisioningAssumption
<1>5. CASE \E from \in ProviderSteps : Report(r, from, "error")
  BY <1>1, <1>5 DEF Report, TypeOK
<1>6. CASE \E from \in RemoveSteps : Report(r, from, "ok")
  BY <1>1, <1>6 DEF Report, TypeOK, ControlOf, RemoveSteps, Step
<1> QED
  BY <1>1, <1>2, <1>3, <1>4, <1>5, <1>6, CallType
  DEF Serve, RemoveObject, Ids, CreateSteps, RemoveSteps, ProviderSteps,
     NewPresetGet, DeletePresetGet, VisitProvider, EndLoop, LookupLocal,
     SaveLocal, LookupSummary, CreateConfigs, RecheckSummary, SaveSummary,
     RemoveLocal, ReadSummary, RemoveAudio, RemoveVideo, RemoveSummary,
     CheckFree, Resolve, CheckExists, Save, AddToIndex, Drop, DropFromIndex,
     Crash

LEMMA CopyReportedStep ==
  ASSUME TypeOK, Control, CopyReported, NEW r \in Requests, Serve(r)
  PROVE  CopyReported'
<1> SUFFICES ASSUME NEW q \in Requests, call[q].op \in SaveOps,
                    NEW p \in Reported(q)'
             PROVE  p \in Mapped(copy'[q])
  BY CallStays DEF CopyReported, Mapped
<1> ControlOf(q)
  BY DEF Control
<1>1. CASE call[q].op = "newPreset"
  <2>1. p \in Providers /\ result'[q][p] \in {"kept", "ok"}
    BY <1>1, CallStays DEF Reported
  <2>2. CASE result[q][p] \in {"kept", "ok"} /\ pc[q] # "get"
    <3>1. p \in Reported(q)
      BY <1>1, <2>1, <2>2 DEF Reported
    <3> QED
      BY <2>2, <3>1, CopyKeeps DEF CopyReported
  <2> QED
    BY <1>1, <2>1, <2>2, ReportGains
<1>2. CASE call[q].op # "newPreset"
  <2>1. p \in Reported(q)
    BY <1>2, CallStays DEF Reported, Mapped
  <2>2. pc[q] # "get"
    BY <1>2 DEF ControlOf, SaveOps
  <2> QED
    BY <2>1, <2>2, CopyKeeps DEF CopyReported
<1> QED
  BY <1>1, <1>2

\* A request that has saved its map, and is not just doing so, had saved it.
LEMMA SavedBefore ==
  ASSUME TypeOK, Control, NEW r \in Requests, Serve(r), NEW q \in Requests,
         call[q].op \in SaveOps, ~(Save(r) /\ q = r),
         pc'[q] = "addToIndex" \/ reply'[q] = "ok"
  PROVE  /\ pc[q] = "addToIndex" \/ reply[q] = "ok"
         /\ pc[q] = "addToIndex" \/ pc[q] = "done"
<1> ControlOf(q) /\ ControlOf(r)
  BY DEF Control
<1>1. CASE pc'[q] = pc[q] /\ reply'[q] = reply[q]
  BY <1>1 DEF ControlOf
<1>2. CASE \E from \in Steps, to \in Steps \ {"addToIndex"} :
             Step(r, from, to) /\ UNCHANGED reply
  BY <1>1, <1>2 DEF Step, TypeOK, ControlOf
<1>3. CASE \E from \in Steps, a \in Replies \ {"ok"} : Answer(r, from, a)
  BY <1>1, <1>3 DEF Answer, Step, TypeOK
<1>4. CASE AddToIndex(r)
  BY <1>1, <1>4 DEF AddToIndex, Answer, Step, TypeOK
<1>5. CASE DropFromIndex(r)
  BY <1>1, <1>5 DEF DropFromIndex, Answer, Step, TypeOK, ControlOf, SaveOps, DeleteOps
<1>6. CASE Crash(r)
  BY <1>1, <1>6 DEF Crash, TypeOK, ControlOf
<1>7. CASE q # r
  BY <1>1, <1>7 DEF Serve, RemoveObject, Report, Step, Answer, TypeOK,
     NewPresetGet, DeletePresetGet, VisitProvider, EndLoop, LookupLocal,
     SaveLocal, LookupSummary, CreateConfigs, RecheckSummary, SaveSummary,
     RemoveLocal, ReadSummary, RemoveAudio, RemoveVideo, RemoveSummary,
     CheckFree, Resolve, CheckExists, Save, AddToIndex, Drop, DropFromIndex,
     Crash
<1>8. CASE q = r /\ ~Save(r) /\ ~AddToIndex(r) /\ ~DropFromIndex(r) /\ ~Crash(r)
  <2>1. \/ UNCHANGED <<pc, reply>>
        \/ \E from \in Steps, to \in Steps \ {"addToIndex"} :
              Step(r, from, to) /\ UNCHANGED reply
        \/ \E from \in Steps, a \in Replies \ {"ok"} : Answer(r, from, a)
    BY <1>8 DEF Serve, RemoveObject, Report, Steps, Replies, ProviderStep,
       NewPresetGet, DeletePresetGet, VisitProvider, EndLoop, LookupLocal,
       SaveLocal, LookupSummary, CreateConfigs, RecheckSummary, SaveSummary,
       RemoveLocal, ReadSummary, RemoveAudio, RemoveVideo, RemoveSummary,
       CheckFree, Resolve, CheckExists, Drop
  <2> QED
    BY <1>1, <1>2, <1>3, <2>1
<1> QED
  BY <1>4, <1>5, <1>6, <1>7, <1>8

LEMMA ReportedBefore ==
  ASSUME TypeOK, Control, NEW r \in Requests, Serve(r), NEW q \in Requests,
         pc[q] \in {"addToIndex", "done"}
  PROVE  result'[q] = result[q]
<1>1. CASE result' = result
  BY <1>1
<1>2. CASE pc[r] \notin {"addToIndex", "done"}
  BY <1>2 DEF Serve, RemoveObject, Report, TypeOK,
     NewPresetGet, DeletePresetGet, VisitProvider, EndLoop, LookupLocal,
     SaveLocal, LookupSummary, CreateConfigs, RecheckSummary, SaveSummary,
     RemoveLocal, ReadSummary, RemoveAudio, RemoveVideo, RemoveSummary,
     CheckFree, Resolve, CheckExists, Save, AddToIndex, Drop, DropFromIndex,
     Crash
<1> QED
  BY <1>1, <1>2 DEF Serve, RemoveObject, Report, Step,
     NewPresetGet, DeletePresetGet, VisitProvider, EndLoop, LookupLocal,
     SaveLocal, LookupSummary, CreateConfigs, RecheckSummary, SaveSummary,
     RemoveLocal, ReadSummary, RemoveAudio, RemoveVideo, RemoveSummary,
     CheckFree, Resolve, CheckExists, Save, AddToIndex, Drop, DropFromIndex,
     Crash

LEMMA SavedStaysStep ==
  ASSUME TypeOK, Control, CopyReported, SavedStays, NEW r \in Requests, Serve(r)
  PROVE  SavedStays'
<1> SUFFICES ASSUME NEW q \in Requests,
                    (pc[q] = "addToIndex" \/ reply[q] = "ok")',
                    call[q].op \in SaveOps, q \notin overtaken',
                    NEW p \in Reported(q)'
             PROVE  p \in Mapped(presetMap'[Name(q)])
  BY CallStays DEF SavedStays, Mapped, Name
<1> ControlOf(q) /\ ControlOf(r)
  BY DEF Control
<1> USE CallType
<1>1. CASE Save(r) /\ q = r
  <2>1. p \in Mapped(copy[q])
    BY <1>1, CallStays DEF Save, CopyReported, Reported, Mapped
  <2>2. CASE Saved(r)
    BY <1>1, <2>1, <2>2, MergeMapped DEF Saved, TypeOK
  <2>3. CASE ~Saved(r)
    BY <1>1, <2>3 DEF Save, Answer, Step, SaveFailed, TypeOK, ControlOf
  <2> QED
    BY <2>2, <2>3
<1>2. CASE ~(Save(r) /\ q = r)
  <2>1. /\ pc[q] = "addToIndex" \/ pc[q] = "done"
        /\ pc[q] = "addToIndex" \/ reply[q] = "ok"
    BY <1>2, SavedBefore
  <2>2. p \in Reported(q) /\ q \notin overtaken
    <3>1. q \notin overtaken
      BY SaveOrErase DEF Erased
    <3> QED
      BY <2>1, <3>1, ReportedBefore, CallStays DEF Reported, Mapped
  <2>3. p \in Mapped(presetMap[Name(q)])
    BY <2>1, <2>2 DEF SavedStays
  <2>4. CASE Saved(r)
    BY <2>3, <2>4, MergeMapped DEF Saved, TypeOK
  <2>5. CASE Erased(r)
    BY <2>1, <2>3, <2>5 DEF Erased, HaveSaved, Mapped, TypeOK
  <2> QED
    BY <2>3, <2>4, <2>5, SaveOrErase
<1> QED
  BY <1>1, <1>2

-----------------------------------------------------------------------------

LEMMA IInvInit == Init => IInv
<1> SUFFICES ASSUME Init PROVE IInv
  OBVIOUS
<1>1. TypeOK /\ Control
  BY TypeInit, ControlInit
<1>2. \A n \in Names : Mapped(presetMap[n]) = {}
  BY DEF Init, Mapped, Unmapped
<1>3. ASSUME NEW r \in Requests
      PROVE  Mapped(copy[r]) = IF call[r].op \in {"newPresetMap", "updatePresetMap"}
                               THEN Mapped(call[r].mapping) ELSE {}
  BY DEF Init, Mapped, Unmapped
<1>4. CopySourced
  BY <1>3 DEF CopySourced, MappedFor, Mapped
<1>5. MappedByARequest
  BY <1>2 DEF MappedByARequest
<1>6. CopyReported
  <2>1. \A r \in Requests : call[r].op = "newPreset" => Reported(r) = {}
    BY DEF Init, Reported
  <2> QED
    BY <1>3, <2>1 DEF CopyReported, Reported, SaveOps
<1>7. SavedStays
  <2>1. ASSUME NEW r \in Requests PROVE pc[r] # "addToIndex" /\ reply[r] # "ok"
    <3>1. call[r].op \in Ops
      BY <1>1, CallType
    <3>2. pc[r] = FirstStep[call[r].op] /\ reply[r] = "none"
      BY DEF Init
    <3> QED
      BY <3>1, <3>2 DEF FirstStep, Ops
  <2> QED
    BY <2>1 DEF SavedStays
<1> QED
  BY <1>1, <1>4, <1>5, <1>6, <1>7 DEF IInv

LEMMA IInvStep == IInv /\ [Next]_vars => IInv'
<1>1. ASSUME IInv, NEW r \in Requests, Serve(r) PROVE IInv'
  <2>1. TypeOK'
    BY <1>1, TypeStep DEF IInv, Next
  <2>2. Control'
    BY <1>1, ControlStep DEF IInv, Control
  <2> QED
    BY <1>1, <2>1, <2>2, SourcedStep, CopyReportedStep, SavedStaysStep DEF IInv
<1>2. ASSUME IInv, UNCHANGED vars PROVE IInv'
  <2>1. TypeOK'
    BY <1>2, TypeStep DEF IInv
  <2>2. Control' /\ CopySourced' /\ MappedByARequest' /\ CopyReported' /\ SavedStays'
    BY <1>2 DEF IInv, vars, Control, ControlOf, CopySourced, MappedByARequest,
       CopyReported, SavedStays, MappedFor, Mapped, Reported, Name
  <2> QED
    BY <2>1, <2>2 DEF IInv
<1> QED
  BY <1>1, <1>2 DEF Next

THEOREM Inductive == Spec => []IInv
  BY IInvInit, IInvStep, PTL DEF Spec

\* A preset map never gets an entry out of nothing: copies of the map that
\* requests hold across the interleaved steps of savePresetMap, merges of two
\* such copies (service.go:144-160) and saves that come late only ever carry
\* providers that a request for that name mapped.
THEOREM MappedByARequestHolds == Spec => []MappedByARequest
<1>1. IInv => MappedByARequest
  BY DEF IInv
<1> QED
  BY <1>1, Inductive, PTL

\* A client told 200 loses no provider to a concurrent save, for any number of
\* requests, names, providers and any mix of failures.
THEOREM AcknowledgedStaysHolds == Spec => []AcknowledgedStays
<1>1. IInv => AcknowledgedStays
  BY DEF IInv, SavedStays, AcknowledgedStays
<1> QED
  BY <1>1, Inductive, PTL
-----------------------------------------------------------------------------
(* The objects bitmovin holds.  A request's audio and video configuration  *)
(* are named by at most one summary, under the request's name, once it has *)
(* made them all; a deletePreset takes what a summary named.               *)

LocalSteps    == {"lookupLocal", "saveLocal", "removeLocal"}
TakingSteps   == {"removeAudio", "removeVideo", "removeSummary"}
BitmovinSteps == {"lookupSummary", "createConfigs", "recheckSummary", "saveSummary",
                  "readSummary"} \cup TakingSteps

\* Both configurations of c exist.
Whole(c) == {<<c, "audio">>, <<c, "video">>} \subseteq objects

\* c is through with bitmovin.
Past(c) == result[c][Bitmovin] # "none"

\* What is known of a request's visit to bitmovin at each of its steps.
VisitOf(r) ==
  /\ pc[r] \in BitmovinSteps => at[r] = Bitmovin
  /\ pc[r] \in LocalSteps => at[r] # Bitmovin
  /\ pc[r] \in {"recheckSummary", "saveSummary"} => Whole(r)
  /\ config[r] # None =>
       /\ call[r].op = "deletePreset" /\ Bitmovin \notin todo[r]
       /\ pc[r] \notin {"get", "readSummary"}
       /\ Past(config[r])
  /\ pc[r] \in TakingSteps => config[r] # None /\ copy[r][Bitmovin] = Name(config[r])

Named ==
  \A n \in Names : summary[n] # None => Name(summary[n]) = n /\ Past(summary[n])

\* r deleted the audio configuration that its summary named.
Taken(r) ==
  /\ config[r] # None
  /\ pc[r] \in {"removeVideo", "removeSummary"} \/ result[r][Bitmovin] = "ok"

TakenOnce ==
  \A r \in Requests : Taken(r) =>
    /\ <<config[r], "audio">> \notin objects
    /\ \A q \in Requests : Taken(q) /\ config[q] = config[r] => q = r

BitmovinInv == (\A r \in Requests : VisitOf(r)) /\ Named /\ SummaryIntact /\ TakenOnce

-----------------------------------------------------------------------------

LEMMA BitmovinInit == Init => BitmovinInv
<1> SUFFICES ASSUME Init PROVE BitmovinInv
  OBVIOUS
<1>1. /\ \A n \in Names : summary[n] = None
      /\ \A r \in Requests : config[r] = None
  BY DEF Init
<1>2. ASSUME NEW r \in Requests PROVE VisitOf(r)
  <2>1. call[r].op \in Ops /\ pc[r] = FirstStep[call[r].op]
    BY TypeInit, CallType DEF Init
  <2>2. pc[r] \in {"get", "checkFree", "checkExists", "drop"}
    BY <2>1 DEF FirstStep, Ops
  <2> QED
    BY <1>1, <2>2 DEF VisitOf, BitmovinSteps, LocalSteps, TakingSteps
<1> QED
  BY <1>1, <1>2 DEF BitmovinInv, Named, SummaryIntact, TakenOnce, Taken

LEMMA BitmovinType == Bitmovin \in Providers
BY DEF Providers

\* A step of request r touches no local variable of another request.
LEMMA OthersLocals ==
  ASSUME TypeOK, NEW r \in Requests, Serve(r), NEW q \in Requests, q # r
  PROVE  /\ pc'[q] = pc[q] /\ at'[q] = at[q] /\ config'[q] = config[q]
         /\ copy'[q] = copy[q] /\ todo'[q] = todo[q] /\ result'[q] = result[q]
  BY DEF Serve, RemoveObject, MapProvider, Report, Step, Answer, TypeOK,
     NewPresetGet, DeletePresetGet, VisitProvider, EndLoop, LookupLocal,
     SaveLocal, LookupSummary, CreateConfigs, RecheckSummary, SaveSummary,
     RemoveLocal, ReadSummary, RemoveAudio, RemoveVideo, RemoveSummary,
     CheckFree, Resolve, CheckExists, Save, AddToIndex, Drop, DropFromIndex,
     Crash

\* Only a request at bitmovin's createConfigs makes objects, and only its own; a
\* request whose configurations a summary names is past that.
LEMMA PastStays ==
  ASSUME TypeOK, Control, NEW r \in Requests, Serve(r), NEW c \in Requests, Past(c)
  PROVE  Past(c)' /\ result'[c][Bitmovin] = result[c][Bitmovin]
BY ReportStays, BitmovinType DEF Past

\* A request that is at bitmovin is not past it.
LEMMA AtBitmovin ==
  ASSUME TypeOK, Control, NEW r \in Requests, VisitOf(r), pc[r] \in BitmovinSteps
  PROVE  at[r] = Bitmovin /\ ~Past(r) /\ Bitmovin \notin todo[r]
<1>1. at[r] = Bitmovin
  BY DEF VisitOf
<1>2. pc[r] \in ProviderSteps
  BY DEF BitmovinSteps, TakingSteps, ProviderSteps, CreateSteps, RemoveSteps
<1> QED
  BY <1>1, <1>2 DEF Control, ControlOf, Past

\* What the other requests know of bitmovin stays true while no configuration
\* of theirs goes away.
LEMMA OthersVisit ==
  ASSUME TypeOK, Control, BitmovinInv, NEW r \in Requests, Serve(r),
         NEW q \in Requests, q # r, pc[q] \in {"recheckSummary", "saveSummary"} => Whole(q)'
  PROVE  VisitOf(q)'
<1>1. /\ pc'[q] = pc[q] /\ at'[q] = at[q] /\ config'[q] = config[q]
      /\ copy'[q] = copy[q] /\ todo'[q] = todo[q] /\ call' = call
  BY OthersLocals, CallStays
<1>2. ASSUME config[q] # None PROVE Past(config[q])'
  <2>1. PICK c \in Requests : c = config[q]
    BY <1>2 DEF TypeOK
  <2>2. Past(c)
    BY <1>2, <2>1 DEF BitmovinInv, VisitOf
  <2>3. Past(c)'
    BY <2>2, PastStays
  <2> QED
    BY <1>1, <2>1, <2>3 DEF Past
<1> QED
  BY <1>1, <1>2 DEF BitmovinInv, VisitOf, Name

\* What a summary names stays past its visit, and goes on having the name.
LEMMA NamedStays ==
  ASSUME TypeOK, Control, Named, NEW r \in Requests, Serve(r),
         NEW n \in Names, summary'[n] = summary[n], summary[n] # None
  PROVE  Name(summary[n])' = n /\ Past(summary[n])'
<1>1. PICK c \in Requests : c = summary[n]
  BY DEF TypeOK
<1>2. Name(c) = n /\ Past(c)
  BY <1>1 DEF Named
<1>3. Name(c)' = n /\ Past(c)'
  BY <1>2, PastStays, CallStays DEF Name
<1> QED
  BY <1>1, <1>3 DEF Name, Past

\* A configuration that is being deleted stays so until its deleter reports ok.
LEMMA DeletingStays ==
  ASSUME TypeOK, Control, NEW r \in Requests, Serve(r), NEW c \in Requests, DeletingConfig(c),
         config[r] = c => config'[r] = c /\ (result'[r][Bitmovin] = "ok" =>
                                             result[r][Bitmovin] = "ok")
  PROVE  DeletingConfig(c)'
<1>1. PICK q \in Requests : config[q] = c /\ result[q][Bitmovin] # "ok"
  BY DEF DeletingConfig
<1>2. config'[q] = c /\ result'[q][Bitmovin] # "ok"
  BY <1>1, OthersLocals
<1> QED
  BY <1>2 DEF DeletingConfig

\* The steps that leave the summaries, the objects and the claims on them alone.
LEMMA QuietStep ==
  ASSUME TypeOK, Control, BitmovinInv, NEW r \in Requests, Serve(r),
         UNCHANGED <<summary, objects, config>>, VisitOf(r)',
         Taken(r)' => Taken(r),
         config[r] # None /\ result'[r][Bitmovin] = "ok" => result[r][Bitmovin] = "ok"
  PROVE  BitmovinInv'
<1>1. ASSUME NEW q \in Requests PROVE VisitOf(q)'
  <2>1. pc[q] \in {"recheckSummary", "saveSummary"} => Whole(q)'
    BY DEF BitmovinInv, VisitOf, Whole
  <2> QED
    BY <2>1, OthersVisit
<1>2. Named'
  BY NamedStays DEF BitmovinInv, Named
<1>3. SummaryIntact'
  <2> SUFFICES ASSUME NEW n \in Names, summary[n] # None
               PROVE  Whole(summary[n]) \/ DeletingConfig(summary[n])'
    BY DEF SummaryIntact, Whole
  <2>1. PICK c \in Requests : c = summary[n]
    BY DEF TypeOK
  <2>2. Whole(c) \/ DeletingConfig(c)
    BY <2>1 DEF BitmovinInv, SummaryIntact, Whole
  <2>3. DeletingConfig(c) => DeletingConfig(c)'
    BY DeletingStays, ProvisioningAssumption
  <2> QED
    BY <2>1, <2>2, <2>3 DEF Whole, DeletingConfig
<1>4. TakenOnce'
  <2>1. \A q \in Requests : Taken(q)' => Taken(q)
    BY OthersLocals DEF Taken
  <2> QED
    BY <2>1 DEF BitmovinInv, TakenOnce
<1> QED
  BY <1>1, <1>2, <1>3, <1>4 DEF BitmovinInv

\* The steps that neither make, read nor remove anything at bitmovin.
AsideSteps(r) ==
  \/ NewPresetGet(r) \/ DeletePresetGet(r) \/ VisitProvider(r) \/ EndLoop(r)
  \/ LookupLocal(r) \/ SaveLocal(r) \/ LookupSummary(r) \/ RecheckSummary(r)
  \/ RemoveLocal(r)
  \/ CheckFree(r) \/ Resolve(r) \/ CheckExists(r) \/ Save(r) \/ AddToIndex(r)
  \/ Drop(r) \/ DropFromIndex(r) \/ Crash(r)

\* They move the request along its loop, where what it has taken stays taken.
LEMMA AsideKeeps ==
  ASSUME TypeOK, Control, BitmovinInv, NEW r \in Requests, AsideSteps(r)
  PROVE  BitmovinInv'
<1> USE DEF Step, Answer, Report, store
<1> VisitOf(r) /\ ControlOf(r) /\ Serve(r) /\ call' = call
  BY CallStays DEF BitmovinInv, Control, AsideSteps, Serve
<1>1. UNCHANGED <<summary, objects, config>>
  BY DEF AsideSteps, NewPresetGet, DeletePresetGet, VisitProvider, EndLoop, LookupLocal,
     SaveLocal, LookupSummary, RecheckSummary, RemoveLocal, CheckFree, Resolve, CheckExists,
     Save, AddToIndex, Drop, DropFromIndex, Crash
<1>2. ASSUME config[r] # None PROVE Past(config[r])'
  <2>1. PICK c \in Requests : c = config[r]
    BY <1>2 DEF TypeOK
  <2>2. Past(c)'
    BY <1>2, <2>1, PastStays DEF VisitOf
  <2> QED
    BY <1>1, <2>1, <2>2 DEF Past
<1>3. CASE VisitProvider(r)
  <2>1. PICK p \in todo[r] :
          /\ todo'[r] = todo[r] \ {p} /\ UNCHANGED copy
          /\ \/ pc'[r] = ProviderStep(call[r].op, p) /\ at'[r] = p /\ result' = result
             \/ pc' = pc /\ result' = [result EXCEPT ![r][p] = "error"]
    BY <1>3 DEF VisitProvider, TypeOK
  <2>2. pc[r] = "loop" /\ p \in Providers
    BY <1>3 DEF VisitProvider, TypeOK
  <2>3. config[r] # None => p # Bitmovin
    BY DEF VisitOf
  <2>4. result'[r][Bitmovin] = "ok" => result[r][Bitmovin] = "ok"
    BY <2>1, <2>2, BitmovinType DEF TypeOK
  <2>5. pc'[r] \in {"loop", "lookupSummary", "lookupLocal", "readSummary", "removeLocal"}
    BY <2>1, <2>2 DEF ProviderStep
  <2>6. /\ pc'[r] \in {"lookupSummary", "readSummary"} => at'[r] = Bitmovin /\ p = Bitmovin
        /\ pc'[r] \in {"lookupLocal", "removeLocal"} => at'[r] # Bitmovin
    BY <2>1, <2>2 DEF ProviderStep
  <2>7. VisitOf(r)'
    BY <1>1, <1>2, <2>1, <2>2, <2>3, <2>5, <2>6
    DEF VisitOf, BitmovinSteps, LocalSteps, TakingSteps
  <2>8. Taken(r)' => Taken(r)
    BY <1>1, <2>4, <2>5 DEF Taken
  <2> QED
    BY <1>1, <2>4, <2>7, <2>8, QuietStep
<1>4. CASE LookupSummary(r) \/ RecheckSummary(r)
  <2>1. /\ pc[r] \in BitmovinSteps /\ call[r].op = "newPreset" /\ config[r] = None
        /\ UNCHANGED <<at, todo>>
    BY <1>4 DEF LookupSummary, RecheckSummary, BitmovinSteps, TakingSteps, ControlOf, CreateSteps,
                VisitOf
  <2>2. /\ pc'[r] \in {"loop", "createConfigs", "saveSummary"}
        /\ pc'[r] = "saveSummary" => pc[r] = "recheckSummary"
    BY <1>4 DEF LookupSummary, RecheckSummary, TypeOK
  <2>3. at'[r] = Bitmovin
    BY <2>1, AtBitmovin
  <2>4. Whole(r)' <=> Whole(r)
    BY <1>1 DEF Whole
  <2>5. VisitOf(r)'
    BY <1>1, <2>1, <2>2, <2>3, <2>4 DEF VisitOf, BitmovinSteps, LocalSteps, TakingSteps
  <2>6. ~Taken(r)'
    BY <1>1, <2>1 DEF Taken
  <2> QED
    BY <1>1, <2>1, <2>5, <2>6, QuietStep
<1>5. CASE LookupLocal(r) \/ SaveLocal(r) \/ RemoveLocal(r)
  <2>1. pc[r] \in LocalSteps /\ pc'[r] \in {"loop", "saveLocal"} /\ UNCHANGED <<at, todo>>
    BY <1>5 DEF LookupLocal, SaveLocal, RemoveLocal, LocalSteps, TypeOK
  <2>2. at[r] # Bitmovin
    BY <2>1 DEF VisitOf
  <2>3. result'[r][Bitmovin] = result[r][Bitmovin]
    BY <1>5, <2>2, BitmovinType DEF LookupLocal, SaveLocal, RemoveLocal, TypeOK
  <2>4. VisitOf(r)'
    BY <1>1, <1>2, <2>1, <2>2 DEF VisitOf, BitmovinSteps, LocalSteps, TakingSteps
  <2>5. Taken(r)' => Taken(r)
    BY <1>1, <2>1, <2>3 DEF Taken
  <2> QED
    BY <1>1, <2>3, <2>4, <2>5, QuietStep
<1>6. CASE NewPresetGet(r) \/ DeletePresetGet(r)
  <2>1. pc[r] = "get" /\ pc'[r] \in {"loop", "done"} /\ UNCHANGED at
    BY <1>6 DEF NewPresetGet, DeletePresetGet, TypeOK
  <2>2. config[r] = None
    BY <2>1 DEF VisitOf
  <2>3. VisitOf(r)' /\ ~Taken(r)'
    BY <1>1, <2>1, <2>2 DEF VisitOf, BitmovinSteps, LocalSteps, TakingSteps, Taken
  <2> QED
    BY <1>1, <2>2, <2>3, QuietStep
<1>7. CASE EndLoop(r) \/ CheckFree(r) \/ Resolve(r) \/ CheckExists(r) \/ Save(r)
           \/ AddToIndex(r) \/ Drop(r) \/ DropFromIndex(r) \/ Crash(r)
  <2>1. /\ pc'[r] \notin BitmovinSteps \cup LocalSteps \cup {"get"}
        /\ UNCHANGED <<todo, result>>
    BY <1>7 DEF EndLoop, CheckFree, Resolve, CheckExists, Save, AddToIndex, Drop, DropFromIndex,
                Crash, TypeOK, BitmovinSteps, LocalSteps, TakingSteps
  <2>2. VisitOf(r)'
    BY <1>1, <1>2, <2>1 DEF VisitOf, BitmovinSteps, TakingSteps
  <2>3. Taken(r)' => Taken(r)
    BY <1>1, <2>1 DEF Taken, BitmovinSteps, TakingSteps
  <2> QED
    BY <1>1, <2>1, <2>2, <2>3, QuietStep
<1> QED
  BY <1>3, <1>4, <1>5, <1>6, <1>7 DEF AsideSteps

\* Making configurations: the objects are the request's own, and no summary
\* names them yet.
LEMMA CreateConfigsStep ==
  ASSUME TypeOK, Control, BitmovinInv, NEW r \in Requests, CreateConfigs(r)
  PROVE  BitmovinInv'
<1> Serve(r) /\ VisitOf(r) /\ ControlOf(r) /\ call' = call
  BY CallStays DEF Serve, BitmovinInv, Control
<1>1. /\ pc[r] = "createConfigs" /\ UNCHANGED <<summary, config, at, todo, copy>>
      /\ objects \subseteq objects' /\ objects' \subseteq objects \cup ({r} \X ObjectKinds)
      /\ \/ pc'[r] = "recheckSummary" /\ Whole(r)' /\ UNCHANGED result
         \/ pc'[r] = "loop" /\ result' = [result EXCEPT ![r][at[r]] = "error"]
  BY DEF CreateConfigs, Step, Report, TypeOK, ObjectKinds, Whole
<1>2. at[r] = Bitmovin /\ ~Past(r) /\ Bitmovin \notin todo[r]
  BY <1>1, AtBitmovin DEF BitmovinSteps
<1>3. call[r].op = "newPreset" /\ config[r] = None
  BY <1>1 DEF ControlOf, CreateSteps, VisitOf
<1>4. ASSUME NEW q \in Requests PROVE VisitOf(q)'
  <2>1. CASE q = r
    BY <1>1, <1>2, <1>3, <2>1 DEF VisitOf, BitmovinSteps, LocalSteps, TakingSteps
  <2>2. CASE q # r
    <3>1. Whole(q) => Whole(q)'
      BY <1>1 DEF Whole
    <3> QED
      BY <2>2, <3>1, OthersVisit DEF BitmovinInv, VisitOf
  <2> QED
    BY <2>1, <2>2
<1>5. Named'
  BY <1>1, NamedStays DEF BitmovinInv, Named
<1>6. SummaryIntact'
  <2> SUFFICES ASSUME NEW n \in Names, summary[n] # None
               PROVE  Whole(summary[n])' \/ DeletingConfig(summary[n])'
    BY <1>1 DEF SummaryIntact, Whole
  <2>1. PICK c \in Requests : c = summary[n]
    BY DEF TypeOK
  <2>2. Whole(c) \/ DeletingConfig(c)
    BY <2>1 DEF BitmovinInv, SummaryIntact, Whole
  <2>3. Whole(c)' \/ DeletingConfig(c)'
    BY <1>1, <1>3, <2>2, DeletingStays, ProvisioningAssumption DEF Whole
  <2> QED
    BY <1>1, <2>1, <2>3 DEF Whole, DeletingConfig
<1>7. TakenOnce'
  <2>1. ASSUME NEW q \in Requests, Taken(q)' PROVE Taken(q) /\ <<config[q], "audio">> \notin objects'
    <3>1. Taken(q)
      BY <1>1, <1>3, <2>1, OthersLocals DEF Taken
    <3>2. <<config[q], "audio">> \notin objects
      BY <3>1 DEF BitmovinInv, TakenOnce
    <3>3. config[q] # r
      BY <1>2, <3>1 DEF BitmovinInv, VisitOf, Taken
    <3> QED
      BY <1>1, <3>1, <3>2, <3>3
  <2> QED
    BY <1>1, <2>1 DEF BitmovinInv, TakenOnce
<1> QED
  BY <1>4, <1>5, <1>6, <1>7 DEF BitmovinInv

\* Saving the summary: its objects are all there, and whatever another summary
\* of the name named is forgotten.
LEMMA SaveSummaryStep ==
  ASSUME TypeOK, Control, BitmovinInv, NEW r \in Requests, SaveSummary(r)
  PROVE  BitmovinInv'
<1> Serve(r) /\ VisitOf(r) /\ ControlOf(r) /\ call' = call /\ Name(r) \in Names
  BY CallStays, CallType DEF Serve, BitmovinInv, Control
<1>1. /\ pc[r] = "saveSummary" /\ UNCHANGED <<objects, config, at, todo>>
      /\ pc'[r] = "loop" /\ result'[r][at[r]] # "none"
      /\ summary' = summary \/ summary' = [summary EXCEPT ![Name(r)] = r]
  BY DEF SaveSummary, Step, Report, TypeOK
<1>2. at[r] = Bitmovin /\ ~Past(r) /\ Bitmovin \notin todo[r] /\ Whole(r) /\ Past(r)'
  BY <1>1, AtBitmovin DEF BitmovinSteps, VisitOf, Past
<1>3. call[r].op = "newPreset" /\ config[r] = None
  BY <1>1 DEF ControlOf, CreateSteps, VisitOf
<1>4. ASSUME NEW q \in Requests PROVE VisitOf(q)'
  <2>1. CASE q = r
    BY <1>1, <1>3, <2>1 DEF VisitOf, BitmovinSteps, LocalSteps, TakingSteps
  <2>2. CASE q # r
    BY <1>1, <2>2, OthersVisit DEF BitmovinInv, VisitOf, Whole
  <2> QED
    BY <2>1, <2>2
<1>5. ASSUME NEW n \in Names, summary'[n] # summary[n] PROVE n = Name(r) /\ summary'[n] = r
  BY <1>1, <1>5 DEF TypeOK
<1>6. Named'
  <2> SUFFICES ASSUME NEW n \in Names, summary'[n] # None
               PROVE  Name(summary[n])' = n /\ Past(summary[n])'
    BY DEF Named
  <2>1. CASE summary'[n] = summary[n]
    BY <2>1, NamedStays DEF BitmovinInv, Past
  <2>2. CASE summary'[n] # summary[n]
    BY <1>2, <1>5, <2>2 DEF Name, Past
  <2> QED
    BY <2>1, <2>2
<1>7. SummaryIntact'
  <2> SUFFICES ASSUME NEW n \in Names, summary'[n] # None
               PROVE  Whole(summary[n])' \/ DeletingConfig(summary[n])'
    BY DEF SummaryIntact, Whole
  <2>1. CASE summary'[n] = summary[n]
    <3>1. PICK c \in Requests : c = summary[n]
      BY <2>1 DEF TypeOK
    <3>2. Whole(c) \/ DeletingConfig(c)
      BY <2>1, <3>1 DEF BitmovinInv, SummaryIntact, Whole
    <3>3. Whole(c)' \/ DeletingConfig(c)'
      BY <1>1, <1>3, <3>2, DeletingStays, ProvisioningAssumption DEF Whole
    <3> QED
      BY <2>1, <3>1, <3>3 DEF Whole, DeletingConfig
  <2>2. CASE summary'[n] # summary[n]
    BY <1>1, <1>2, <1>5, <2>2 DEF Whole
  <2> QED
    BY <2>1, <2>2
<1>8. TakenOnce'
  <2>1. ASSUME NEW q \in Requests, Taken(q)' PROVE Taken(q)
    BY <1>1, <1>3, <2>1, OthersLocals DEF Taken
  <2> QED
    BY <1>1, <2>1 DEF BitmovinInv, TakenOnce
<1> QED
  BY <1>4, <1>6, <1>7, <1>8 DEF BitmovinInv

\* Reading the summary: the configurations it names are claimed, not yet taken.
LEMMA ReadSummaryStep ==
  ASSUME TypeOK, Control, BitmovinInv, NEW r \in Requests, ReadSummary(r)
  PROVE  BitmovinInv'
<1> Serve(r) /\ VisitOf(r) /\ ControlOf(r) /\ call' = call
  BY CallStays DEF Serve, BitmovinInv, Control
<1>1. pc[r] = "readSummary" /\ UNCHANGED <<summary, objects, at, todo, copy>>
  BY DEF ReadSummary, Step, Report, TypeOK, store
<1>2. at[r] = Bitmovin /\ ~Past(r) /\ Bitmovin \notin todo[r] /\ config[r] = None
  BY <1>1, AtBitmovin DEF BitmovinSteps, VisitOf
<1>3. call[r].op = "deletePreset"
  BY <1>1 DEF ControlOf, RemoveSteps
<1>4. \/ pc'[r] = "loop" /\ config' = config
      \/ /\ pc'[r] = "removeAudio" /\ result' = result
         /\ copy[r][Bitmovin] \in Names /\ summary[copy[r][Bitmovin]] # None
         /\ config'[r] = summary[copy[r][Bitmovin]]
  BY <1>2 DEF ReadSummary, Step, Report, TypeOK
<1>5. result'[r][Bitmovin] # "ok"
  BY <1>2, BitmovinType DEF Past, ReadSummary, Report, TypeOK
<1>6. VisitOf(r)'
  <2>1. CASE pc'[r] = "loop" /\ config' = config
    BY <1>1, <1>2, <2>1 DEF VisitOf, BitmovinSteps, LocalSteps, TakingSteps
  <2>2. CASE /\ pc'[r] = "removeAudio" /\ result' = result
             /\ copy[r][Bitmovin] \in Names /\ summary[copy[r][Bitmovin]] # None
             /\ config'[r] = summary[copy[r][Bitmovin]]
    <3>1. Name(config'[r]) = copy[r][Bitmovin] /\ Past(config'[r])
      BY <2>2 DEF BitmovinInv, Named
    <3>2. Name(config[r])' = copy[r][Bitmovin] /\ Past(config[r])'
      BY <2>2, <3>1 DEF Name, Past
    <3> QED
      BY <1>1, <1>2, <1>3, <2>2, <3>2 DEF VisitOf, BitmovinSteps, LocalSteps, TakingSteps
  <2> QED
    BY <1>4, <2>1, <2>2
<1>7. ASSUME NEW q \in Requests PROVE VisitOf(q)'
  BY <1>1, <1>6, OthersVisit DEF BitmovinInv, VisitOf, Whole
<1>8. Named'
  BY <1>1, NamedStays DEF BitmovinInv, Named
<1>9. SummaryIntact'
  <2> SUFFICES ASSUME NEW n \in Names, summary[n] # None
               PROVE  Whole(summary[n])' \/ DeletingConfig(summary[n])'
    BY <1>1 DEF SummaryIntact, Whole
  <2>1. PICK c \in Requests : c = summary[n]
    BY DEF TypeOK
  <2>2. Whole(c) \/ DeletingConfig(c)
    BY <2>1 DEF BitmovinInv, SummaryIntact, Whole
  <2>3. Whole(c)' \/ DeletingConfig(c)'
    BY <1>1, <1>2, <2>2, DeletingStays, ProvisioningAssumption DEF Whole
  <2> QED
    BY <1>1, <2>1, <2>3 DEF Whole, DeletingConfig
<1>10. TakenOnce'
  <2>1. ASSUME NEW q \in Requests, Taken(q)' PROVE q # r /\ Taken(q) /\ config'[q] = config[q]
    <3>1. ~Taken(r)'
      BY <1>4, <1>5 DEF Taken
    <3> QED
      BY <2>1, <3>1, OthersLocals DEF Taken
  <2> QED
    BY <1>1, <2>1 DEF BitmovinInv, TakenOnce
<1> QED
  BY <1>7, <1>8, <1>9, <1>10 DEF BitmovinInv

\* A delete of one of the claimed configurations: the first of several requests
\* to delete the audio configuration takes it, the others end with an error.
LEMMA RemoveObjectStep ==
  ASSUME TypeOK, Control, BitmovinInv, NEW r \in Requests, RemoveAudio(r) \/ RemoveVideo(r)
  PROVE  BitmovinInv'
<1> Serve(r) /\ VisitOf(r) /\ ControlOf(r) /\ call' = call
  BY CallStays DEF Serve, BitmovinInv, Control
<1>1. /\ pc[r] \in {"removeAudio", "removeVideo"}
      /\ UNCHANGED <<summary, config, at, todo, copy>>
      /\ objects' \subseteq objects
      /\ objects \ ({config[r]} \X ObjectKinds) \subseteq objects'
      /\ \/ /\ pc'[r] = IF pc[r] = "removeAudio" THEN "removeVideo" ELSE "removeSummary"
            /\ UNCHANGED result
            /\ pc[r] = "removeAudio" =>
                 <<config[r], "audio">> \in objects /\ <<config[r], "audio">> \notin objects'
         \/ pc'[r] = "loop" /\ result' = [result EXCEPT ![r][at[r]] = "error"]
  BY DEF RemoveAudio, RemoveVideo, RemoveObject, Step, Report, TypeOK, ObjectKinds
<1>2. at[r] = Bitmovin /\ ~Past(r) /\ Bitmovin \notin todo[r]
  BY <1>1, AtBitmovin DEF BitmovinSteps, TakingSteps
<1>3. /\ call[r].op = "deletePreset" /\ config[r] # None /\ config[r] \in Requests
      /\ copy[r][Bitmovin] = Name(config[r])
  BY <1>1 DEF ControlOf, RemoveSteps, VisitOf, TakingSteps, TypeOK
<1>4. PICK d \in Requests : d = config[r]
  BY <1>3
<1>5. Past(d) /\ Past(d)'
  BY <1>3, <1>4, PastStays DEF VisitOf
<1>6. result'[r][Bitmovin] # "ok" /\ result[r][Bitmovin] # "ok"
  BY <1>1, <1>2, BitmovinType DEF Past, TypeOK
<1>7. VisitOf(r)'
  <2>1. Past(config[r])' /\ Name(config[r])' = Name(config[r])
    BY <1>1, <1>4, <1>5 DEF Past, Name
  <2> QED
    BY <1>1, <1>2, <1>3, <2>1 DEF VisitOf, BitmovinSteps, LocalSteps, TakingSteps
<1>8. ASSUME NEW q \in Requests PROVE VisitOf(q)'
  <2>1. ASSUME q # r, pc[q] \in {"recheckSummary", "saveSummary"} PROVE Whole(q)'
    <3>1. Whole(q) /\ ~Past(q)
      BY <2>1, AtBitmovin DEF BitmovinInv, VisitOf, BitmovinSteps
    <3>2. q # config[r]
      BY <1>4, <1>5, <3>1
    <3> QED
      BY <1>1, <3>1, <3>2 DEF Whole
  <2> QED
    BY <1>7, <2>1, OthersVisit
<1>9. Named'
  BY <1>1, NamedStays DEF BitmovinInv, Named
<1>10. SummaryIntact'
  <2> SUFFICES ASSUME NEW n \in Names, summary[n] # None
               PROVE  Whole(summary[n])' \/ DeletingConfig(summary[n])'
    BY <1>1 DEF SummaryIntact, Whole
  <2>1. PICK c \in Requests : c = summary[n]
    BY DEF TypeOK
  <2>2. Whole(c) \/ DeletingConfig(c)
    BY <2>1 DEF BitmovinInv, SummaryIntact, Whole
  <2>3. CASE c = d
    BY <1>1, <1>4, <1>6, <2>1, <2>3 DEF DeletingConfig
  <2>4. CASE c # d
    <3>1. Whole(c) => Whole(c)'
      BY <1>1, <1>4, <2>4 DEF Whole
    <3>2. DeletingConfig(c) => DeletingConfig(c)'
      BY <1>4, <2>4, DeletingStays
    <3> QED
      BY <1>1, <2>1, <2>2, <3>1, <3>2 DEF Whole, DeletingConfig
  <2> QED
    BY <2>3, <2>4
<1>11. TakenOnce'
  <2>1. ASSUME NEW q \in Requests, q # r PROVE Taken(q)' <=> Taken(q)
    BY <2>1, OthersLocals DEF Taken
  <2>2. Taken(r)' => \/ Taken(r)
                     \/ <<config[r], "audio">> \in objects /\ <<config[r], "audio">> \notin objects'
    BY <1>1, <1>3, <1>6 DEF Taken
  <2>3. ASSUME NEW q \in Requests, Taken(q)', NEW p \in Requests, Taken(p)', config[p] = config[q]
        PROVE  p = q
    BY <2>1, <2>2, <2>3 DEF BitmovinInv, TakenOnce
  <2>4. ASSUME NEW q \in Requests, Taken(q)' PROVE <<config[q], "audio">> \notin objects'
    BY <1>1, <2>1, <2>2, <2>4 DEF BitmovinInv, TakenOnce
  <2> QED
    BY <1>1, <2>3, <2>4 DEF TakenOnce
<1> QED
  BY <1>8, <1>9, <1>10, <1>11 DEF BitmovinInv

\* Deleting the summary: its name is the only one that named the configurations,
\* so the request may answer that they are gone.
LEMMA RemoveSummaryStep ==
  ASSUME TypeOK, Control, BitmovinInv, NEW r \in Requests, RemoveSummary(r)
  PROVE  BitmovinInv'
<1> Serve(r) /\ VisitOf(r) /\ ControlOf(r) /\ call' = call
  BY CallStays DEF Serve, BitmovinInv, Control
<1>1. at[r] = Bitmovin /\ ~Past(r) /\ Bitmovin \notin todo[r] /\ pc[r] = "removeSummary"
  BY AtBitmovin DEF BitmovinSteps, TakingSteps, RemoveSummary
<1>2. /\ call[r].op = "deletePreset" /\ config[r] # None /\ config[r] \in Requests
      /\ copy[r][Bitmovin] = Name(config[r])
  BY <1>1 DEF ControlOf, RemoveSteps, VisitOf, TakingSteps, TypeOK
<1>3. PICK d \in Requests : d = config[r]
  BY <1>2
<1>4. Past(d) /\ Past(d)' /\ Name(d) \in Names
  BY <1>2, <1>3, PastStays, CallType DEF VisitOf
<1>5. /\ UNCHANGED <<objects, config, at, todo, copy>> /\ pc'[r] = "loop"
      /\ \A n \in Names : summary'[n] = summary[n] \/ summary'[n] = None
      /\ result'[r][Bitmovin] = "ok" => summary'[Name(d)] = None
  BY <1>1, <1>2, <1>3, <1>4, BitmovinType DEF RemoveSummary, Step, Report, TypeOK
<1>6. VisitOf(r)'
  <2>1. Past(config[r])'
    BY <1>3, <1>4, <1>5 DEF Past
  <2> QED
    BY <1>1, <1>2, <1>5, <2>1 DEF VisitOf, BitmovinSteps, LocalSteps, TakingSteps
<1>7. ASSUME NEW q \in Requests PROVE VisitOf(q)'
  BY <1>5, <1>6, OthersVisit DEF BitmovinInv, VisitOf, Whole
<1>8. Named'
  BY <1>5, NamedStays DEF BitmovinInv, Named
<1>9. SummaryIntact'
  <2> SUFFICES ASSUME NEW n \in Names, summary'[n] # None
               PROVE  Whole(summary[n])' \/ DeletingConfig(summary[n])'
    BY DEF SummaryIntact, Whole
  <2>1. summary'[n] = summary[n]
    BY <1>5
  <2>2. PICK c \in Requests : c = summary[n]
    BY <2>1 DEF TypeOK
  <2>3. Whole(c) \/ DeletingConfig(c)
    BY <2>1, <2>2 DEF BitmovinInv, SummaryIntact, Whole
  <2>4. c = d => result'[r][Bitmovin] # "ok"
    BY <1>5, <2>1, <2>2 DEF BitmovinInv, Named
  <2>5. DeletingConfig(c) => DeletingConfig(c)'
    BY <1>3, <1>5, <2>4, DeletingStays
  <2> QED
    BY <1>5, <2>1, <2>2, <2>3, <2>5 DEF Whole, DeletingConfig
<1>10. TakenOnce'
  <2>1. ASSUME NEW q \in Requests, Taken(q)' PROVE Taken(q)
    <3>1. Taken(r)
      BY <1>1, <1>2 DEF Taken
    <3> QED
      BY <2>1, <3>1, OthersLocals DEF Taken
  <2> QED
    BY <1>5, <2>1 DEF BitmovinInv, TakenOnce
<1> QED
  BY <1>7, <1>8, <1>9, <1>10 DEF BitmovinInv

\* The invariant of the objects bitmovin holds and the summaries that name them.
THEOREM BitmovinInductive == Spec => []BitmovinInv
<1>1. Init => BitmovinInv
  BY BitmovinInit
<1>2. IInv /\ BitmovinInv /\ [Next]_vars => BitmovinInv'
  <2> SUFFICES ASSUME TypeOK, Control, BitmovinInv, [Next]_vars PROVE BitmovinInv'
    BY DEF IInv
  <2>1. ASSUME NEW r \in Requests, Serve(r) PROVE BitmovinInv'
    <3>1. CASE AsideSteps(r)
      BY <3>1, AsideKeeps
    <3>2. CASE CreateConfigs(r) \/ SaveSummary(r) \/ ReadSummary(r)
      BY <3>2, CreateConfigsStep, SaveSummaryStep, ReadSummaryStep
    <3>3. CASE RemoveAudio(r) \/ RemoveVideo(r) \/ RemoveSummary(r)
      BY <3>3, RemoveObjectStep, RemoveSummaryStep
    <3> QED
      BY <2>1, <3>1, <3>2, <3>3 DEF Serve, AsideSteps
  <2>2. CASE UNCHANGED vars
    BY <2>2 DEF vars, BitmovinInv, VisitOf, Named, SummaryIntact, DeletingConfig, TakenOnce, Taken,
                Whole, Past, Name
  <2> QED
    BY <2>1, <2>2 DEF Next
<1> QED
  BY <1>1, <1>2, Inductive, PTL DEF Spec

\* A summary names configurations that exist, or that a deletePreset took and did
\* not report as removed: for any number of requests racing on any names, and any
\* failures and crashes.
THEOREM SummaryIntactHolds == Spec => []SummaryIntact
<1>1. BitmovinInv => SummaryIntact
  BY DEF BitmovinInv
<1> QED
  BY <1>1, BitmovinInductive, PTL

\* Of any number of deletePresets that race for the configurations of one request
\* at most one reports that it removed them.
THEOREM RemovedOnceHolds == Spec => []RemovedOnce
<1>1. BitmovinInv => RemovedOnce
  BY DEF BitmovinInv, TakenOnce, Taken, RemovedOnce
<1> QED
  BY <1>1, BitmovinInductive, PTL
=============================================================================
