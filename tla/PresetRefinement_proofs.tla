----------------------- MODULE PresetRefinement_proofs -----------------------
(* The preset endpoints implement the abstract catalogue: each step of a   *)
(* request maps to a step of PresetCatalog or changes nothing there.       *)
EXTENDS PresetProvisioning_proofs

\* The steps from which, and to which, a request moves without an effect.
OpenSteps == Steps \ {"addToIndex", "dropFromIndex", "done", "crashed"}

\* The phase of a request is a function of its step and its reply.
LEMMA OtherPhasesStay ==
  ASSUME TypeOK, NEW r \in Requests, Serve(r), NEW q \in Requests, q # r
  PROVE  PhaseOf(q)' = PhaseOf(q)
<1>1. pc'[q] = pc[q] /\ reply'[q] = reply[q]
  BY DEF Serve, RemoveObject, Report, Step, Answer, TypeOK, NewPresetGet,
     DeletePresetGet, VisitProvider, EndLoop, LookupLocal, SaveLocal,
     LookupSummary, CreateConfigs, RecheckSummary, SaveSummary, RemoveLocal,
     ReadSummary, RemoveAudio, RemoveVideo, RemoveSummary, CheckFree, Resolve,
     CheckExists, Save, AddToIndex, Drop, DropFromIndex, Crash
<1> QED
  BY <1>1 DEF PhaseOf

\* How the phase of the request that takes a step changes.
PhaseMoves(r) ==
  \/ PhaseOf(r)' = PhaseOf(r)
  \/ PhaseOf(r) \in {"open", "recorded", "erased"} /\ PhaseOf(r)' = "refused"
  \/ PhaseOf(r) \in {"recorded", "erased"} /\ PhaseOf(r)' = "acknowledged"

LEMMA MovingOn ==
  ASSUME TypeOK, NEW r \in Requests, NEW from \in OpenSteps, NEW to \in OpenSteps,
         Step(r, from, to)
  PROVE  PhaseOf(r) = "open" /\ PhaseOf(r)' = "open"
  BY DEF OpenSteps, Step, PhaseOf, TypeOK

LEMMA Refusing ==
  ASSUME TypeOK, NEW r \in Requests, NEW from \in OpenSteps,
         NEW a \in Replies \ {"ok"}, Answer(r, from, a)
  PROVE  PhaseOf(r) = "open" /\ PhaseOf(r)' = "refused"
<1>1. pc[r] = from /\ pc'[r] = "done" /\ reply'[r] = a
  BY DEF Answer, Step, TypeOK
<1> QED
  BY <1>1 DEF OpenSteps, PhaseOf

LEMMA QuietSteps ==
  ASSUME TypeOK, NEW r \in Requests, Serve(r), ~Save(r), ~Drop(r)
  PROVE  UNCHANGED presetMap /\ PhaseMoves(r)
<1>1. UNCHANGED presetMap
  BY SaveOrErase DEF Serve, RemoveObject, Report, Step, Answer, store, NewPresetGet,
     DeletePresetGet, VisitProvider, EndLoop, LookupLocal, SaveLocal,
     LookupSummary, CreateConfigs, RecheckSummary, SaveSummary, RemoveLocal,
     ReadSummary, RemoveAudio, RemoveVideo, RemoveSummary, CheckFree, Resolve,
     CheckExists, AddToIndex, DropFromIndex, Crash
<1>2. CASE AddToIndex(r)
  BY <1>2 DEF AddToIndex, SaveFailed, Answer, Step, PhaseOf, PhaseMoves, TypeOK
<1>3. CASE DropFromIndex(r)
  BY <1>3 DEF DropFromIndex, Answer, Step, PhaseOf, PhaseMoves, TypeOK
<1>4. CASE Crash(r)
  <2>1. pc[r] \notin {"done", "crashed"} /\ pc'[r] = "crashed"
    BY <1>4 DEF Crash, TypeOK
  <2> QED
    BY <1>1, <2>1 DEF PhaseOf, PhaseMoves
<1>5. CASE ~AddToIndex(r) /\ ~DropFromIndex(r) /\ ~Crash(r)
  <2>1. \/ UNCHANGED <<pc, reply>>
        \/ \E from \in OpenSteps, to \in OpenSteps : Step(r, from, to)
        \/ \E from \in OpenSteps, a \in Replies \ {"ok"} : Answer(r, from, a)
    BY <1>5 DEF Serve, RemoveObject, Report, Steps, OpenSteps, Replies, ProviderStep,
       NewPresetGet, DeletePresetGet, VisitProvider, EndLoop, LookupLocal,
       SaveLocal, LookupSummary, CreateConfigs, RecheckSummary, SaveSummary,
       RemoveLocal, ReadSummary, RemoveAudio, RemoveVideo, RemoveSummary,
       CheckFree, Resolve, CheckExists
  <2>2. CASE UNCHANGED <<pc, reply>>
    BY <1>1, <2>2 DEF PhaseOf, PhaseMoves
  <2> QED
    BY <1>1, <2>1, <2>2, MovingOn, Refusing DEF PhaseMoves
<1> QED
  BY <1>1, <1>2, <1>3, <1>4, <1>5

-----------------------------------------------------------------------------

LEMMA SaveRecords ==
  ASSUME TypeOK, Control, NEW r \in Requests, Save(r)
  PROVE  /\ PhaseOf(r) = "open" /\ PhaseOf(r)' \in {"recorded", "refused"}
         /\ Mapped(copy[r]) # {}
         /\ \/ Saved(r)
            \/ UNCHANGED presetMap /\ PhaseOf(r)' = "refused"
<1>1. pc[r] = "save" /\ Mapped(copy[r]) # {}
  BY DEF Save, Step, Answer, Control, ControlOf, StoreSteps
<1>2. \/ Saved(r) /\ pc'[r] = "addToIndex"
      \/ (Saved(r) \/ UNCHANGED presetMap) /\ pc'[r] = "done" /\ reply'[r] # "ok"
  BY DEF Save, Step, Answer, SaveFailed, TypeOK
<1> QED
  BY <1>1, <1>2 DEF PhaseOf

LEMMA DropErases ==
  ASSUME TypeOK, NEW r \in Requests, Drop(r)
  PROVE  /\ PhaseOf(r) = "open" /\ PhaseOf(r)' \in {"erased", "refused"}
         /\ \/ Exists(Name(r)) /\ Erased(r)
            \/ /\ (~Exists(Name(r)) /\ Erased(r)) \/ UNCHANGED presetMap
               /\ PhaseOf(r)' = "refused"
<1>1. pc[r] = "drop"
  BY DEF Drop, Step, Answer
<1>2. \/ Exists(Name(r)) /\ Erased(r) /\ pc'[r] = "dropFromIndex"
      \/ (Erased(r) \/ UNCHANGED presetMap) /\ pc'[r] = "done" /\ reply'[r] # "ok"
  BY DEF Drop, Step, Answer, TypeOK
<1> QED
  BY <1>1, <1>2 DEF PhaseOf

LEMMA CatalogStep ==
  ASSUME IInv, NEW r \in Requests, Serve(r)
  PROVE  [Catalog!CatalogNext]_(Catalog!catalogVars)
<1> DEFINE cat == [n \in Names |-> Mapped(presetMap[n])]
           phase == [q \in Requests |-> PhaseOf(q)]
<1> TypeOK /\ Control
  BY DEF IInv
<1>1. phase' = [phase EXCEPT ![r] = PhaseOf(r)']
  BY OtherPhasesStay
<1>2. Name(r) \in Names
  BY CallType
<1>3. CASE ~Save(r) /\ ~Drop(r)
  <2>1. cat' = cat /\ PhaseMoves(r)
    BY <1>3, QuietSteps
  <2>2. CASE PhaseOf(r)' = PhaseOf(r)
    BY <1>1, <2>1, <2>2 DEF Catalog!catalogVars
  <2>3. CASE PhaseOf(r) \in {"open", "recorded", "erased"} /\ PhaseOf(r)' = "refused"
    BY <1>1, <2>1, <2>3 DEF Catalog!CatalogNext, Catalog!Refuse
  <2>4. CASE PhaseOf(r) \in {"recorded", "erased"} /\ PhaseOf(r)' = "acknowledged"
    BY <1>1, <2>1, <2>4 DEF Catalog!CatalogNext, Catalog!Acknowledge
  <2> QED
    BY <2>1, <2>2, <2>3, <2>4 DEF PhaseMoves
<1>4. CASE Save(r)
  <2>1. CASE Saved(r)
    <3>1. cat' = [cat EXCEPT ![Name(r)] = @ \cup Mapped(copy[r])]
      BY <1>2, <2>1, MergeMapped DEF Saved, TypeOK
    <3>2. Mapped(copy[r]) \in SUBSET Providers
      BY DEF Mapped
    <3>3. Catalog!Record(r, Name(r), Mapped(copy[r]))
      BY <1>1, <1>4, <3>1, SaveRecords DEF Catalog!Record
    <3> QED
      BY <1>2, <3>2, <3>3 DEF Catalog!CatalogNext
  <2>2. CASE ~Saved(r)
    <3>1. PhaseOf(r) = "open" /\ PhaseOf(r)' = "refused" /\ UNCHANGED presetMap
      BY <1>4, <2>2, SaveRecords
    <3> QED
      BY <1>1, <3>1 DEF Catalog!CatalogNext, Catalog!Refuse
  <2> QED
    BY <2>1, <2>2
<1>5. CASE Drop(r)
  <2>1. CASE Exists(Name(r)) /\ Erased(r)
    <3>1. cat' = [cat EXCEPT ![Name(r)] = {}]
      BY <1>2, <2>1 DEF Erased, TypeOK, Mapped, Unmapped
    <3>2. cat[Name(r)] # {}
      BY <1>2, <2>1 DEF Exists
    <3>3. Catalog!Erase(r, Name(r))
      BY <1>1, <1>5, <3>1, <3>2, DropErases DEF Catalog!Erase
    <3> QED
      BY <1>2, <3>3 DEF Catalog!CatalogNext
  <2>2. CASE ~(Exists(Name(r)) /\ Erased(r))
    <3>1. PhaseOf(r) = "open" /\ PhaseOf(r)' = "refused"
      BY <1>5, <2>2, DropErases
    <3>2. ASSUME ~Exists(Name(r)), Erased(r) PROVE cat' = cat
      <4>1. Mapped(Unmapped) = {}
        BY DEF Mapped, Unmapped
      <4>2. \A n \in Names : Mapped(presetMap'[n]) = Mapped(presetMap[n])
        BY <1>2, <3>2, <4>1 DEF Erased, Exists, TypeOK
      <4> QED
        BY <4>2 DEF Mapped
    <3>3. cat' = cat
      BY <1>5, <2>2, <3>2, DropErases
    <3> QED
      BY <1>1, <3>1, <3>3 DEF Catalog!CatalogNext, Catalog!Refuse
  <2> QED
    BY <2>1, <2>2
<1> QED
  BY <1>3, <1>4, <1>5

LEMMA CatalogInitial == Init => Catalog!CatalogInit
<1> SUFFICES ASSUME Init PROVE Catalog!CatalogInit
  OBVIOUS
<1>1. \A n \in Names : Mapped(presetMap[n]) = {}
  BY DEF Init, Mapped, Unmapped
<1>2. ASSUME NEW r \in Requests PROVE PhaseOf(r) = "open"
  <2>1. call[r].op \in Ops
    BY TypeInit, CallType
  <2>2. pc[r] = FirstStep[call[r].op]
    BY DEF Init
  <2>3. pc[r] \notin {"addToIndex", "dropFromIndex", "done", "crashed"}
    BY <2>1, <2>2 DEF FirstStep, Ops
  <2> QED
    BY <2>3 DEF PhaseOf
<1> QED
  BY <1>1, <1>2 DEF Catalog!CatalogInit

\* The endpoints implement the catalogue promised to clients: with any number
\* of requests interleaving their redis commands, a request takes effect at one
\* command or not at all, never removes providers but with the whole name, and
\* a 200 that claims an effect is told only after it.
THEOREM Refinement == Spec => CatalogImplemented
<1>1. ASSUME IInv, [Next]_vars PROVE [Catalog!CatalogNext]_(Catalog!catalogVars)
  <2>1. CASE UNCHANGED vars
    BY <2>1 DEF vars, Catalog!catalogVars, PhaseOf, Mapped
  <2> QED
    BY <1>1, <2>1, CatalogStep DEF Next
<1> QED
  BY <1>1, Inductive, CatalogInitial, PTL DEF Spec, CatalogImplemented, Catalog!CatalogSpec
=============================================================================
