------------------------ MODULE JobLifecycle_proofs ------------------------
(* Proofs about JobLifecycle, for any number of requests, whatever fails. *)
EXTENDS JobLifecycle, TLAPS

-----------------------------------------------------------------------------
(* The inductive invariant *)

\* The record and the list entry of a create, its id at the provider, and how
\* far they have come at each of its steps.
CreateInv(c) ==
  /\ pc[c] \in {"presets", "transcode", "saveJob", "addToSet", "done", "crashed"}
  /\ jobID[c] \in {None, Zero, c} /\ record[c] \in {None, jobID[c]}
  /\ c \notin Unread => jobID[c] # Zero
  /\ jobID[c] = c => state[c] # "none"
  /\ pc[c] \in {"presets", "transcode"} => jobID[c] = None /\ state[c] = "none"
  /\ pc[c] = "saveJob" => jobID[c] # None
  /\ pc[c] = "addToSet" => record[c] # None
  /\ reply[c] = "ok" => c \in listed
  /\ c \in listed => record[c] # None

\* The end of a job that a request was told is still the job's.
UseInv(u) ==
  /\ pc[u] \in {"load", "status", "cancel", "statusAgain", "done", "crashed"}
  /\ jobID[u] \in {None, Zero, call[u].job}
  /\ told[u] \in Final =>
       state[call[u].job] \in Ended /\ told[u] = StatusOf[state[call[u].job]]

JInv ==
  /\ TypeOK
  /\ \A c \in Creates : CreateInv(c)
  /\ \A u \in Uses : UseInv(u)

-----------------------------------------------------------------------------
(* Types *)

LEMMA InitType == Init => TypeOK
BY LifecycleAssumption, StatesAssumption
   DEF Init, TypeOK, Requests, ProviderIds, Steps, Replies, Statuses

LEMMA CreateType ==
  ASSUME TypeOK, NEW c \in Creates, Create(c)
  PROVE  TypeOK'
<1> USE LifecycleAssumption DEF Requests, ProviderIds, Steps, Replies, Live, Ended, store, provider
<1>1. CASE Presets(c)
  BY <1>1 DEF TypeOK, Presets, Answer, Step
<1>2. CASE Transcode(c)
  BY <1>2 DEF TypeOK, Transcode, Answer, Step
<1>3. CASE SaveJob(c)
  BY <1>3 DEF TypeOK, SaveJob, Recorded, Answer, Step
<1>4. CASE AddToSet(c)
  BY <1>4 DEF TypeOK, AddToSet, Answer, Step
<1>5. QED
  BY <1>1, <1>2, <1>3, <1>4 DEF Create

\* What a provider says of a job is a status.
LEMMA StatusType ==
  ASSUME NEW s \in Live \cup Ended
  PROVE  /\ StatusOf[s] \in Statuses
         /\ StatusOf[s] \in Final => s \in Ended
BY DEF Live, Ended, StatusOf, Statuses, Final

\* What a cancel does to the states of jobs: it stops one that runs, or none.
LEMMA CancelEffect ==
  ASSUME NEW u \in Uses, CancelJob(u)
  PROVE  \/ state' = state
         \/ \E s \in {"stopping", "canceled"} :
              /\ jobID[u] \in Creates /\ state[jobID[u]] \in Live
              /\ state' = [state EXCEPT ![jobID[u]] = s]
BY DEF CancelJob, Known, Stopped

LEMMA UseType ==
  ASSUME TypeOK, NEW u \in Uses, Use(u)
  PROVE  TypeOK'
<1> USE LifecycleAssumption DEF Requests, ProviderIds, Steps, Replies, store, provider
<1>0. Known(u) => state[jobID[u]] \in Live \cup Ended
  BY DEF Known, TypeOK
<1>1. CASE Load(u)
  BY <1>1 DEF TypeOK, Load, Answer, Step, Call
<1>2. CASE AskStatus(u)
  BY <1>0, <1>2, StatusType DEF TypeOK, AskStatus, StatusFails, Tell, Answer, Step
<1>3. CASE CancelJob(u)
  <2>1. state' \in [Creates -> {"none"} \cup Live \cup Ended]
    BY <1>3, CancelEffect DEF TypeOK, Live, Ended
  <2>2. pc' \in [Requests -> Steps] /\ reply' \in [Requests -> Replies]
    BY <1>3 DEF TypeOK, CancelJob, Answer, Step
  <2>3. QED
    BY <1>3, <2>1, <2>2 DEF TypeOK, CancelJob
<1>4. CASE AskAgain(u)
  BY <1>0, <1>4, StatusType DEF TypeOK, AskAgain, StatusFails, Tell, Answer, Step
<1>5. QED
  BY <1>1, <1>2, <1>3, <1>4 DEF Use

LEMMA OtherType ==
  ASSUME TypeOK, \/ \E c \in Creates : Advance(c) \/ Forget(c)
                 \/ \E r \in Requests : Crash(r)
  PROVE  TypeOK'
<1>1. CASE \E c \in Creates : Advance(c)
  BY <1>1 DEF TypeOK, Advance, Onward, Live, Ended, store
<1>2. CASE \E c \in Creates : Forget(c)
  BY <1>2 DEF TypeOK, Forget, store
<1>3. CASE \E r \in Requests : Crash(r)
  BY <1>3 DEF TypeOK, Crash, store, provider, Steps
<1>4. QED
  BY <1>1, <1>2, <1>3

LEMMA StepType == TypeOK /\ [Next]_vars => TypeOK'
<1> SUFFICES ASSUME TypeOK, [Next]_vars PROVE TypeOK'
  OBVIOUS
<1>1. CASE Next
  BY <1>1, CreateType, UseType, OtherType DEF Next
<1>2. CASE UNCHANGED vars
  BY <1>2 DEF vars, TypeOK
<1>3. QED
  BY <1>1, <1>2

\* Every variable keeps its type, for any requests and whatever fails.
THEOREM TypeCorrect == Spec => []TypeOK
BY InitType, StepType, PTL DEF Spec

-----------------------------------------------------------------------------
(* The invariant *)

LEMMA InitJInv == Init => JInv
<1> SUFFICES ASSUME Init PROVE JInv
  OBVIOUS
<1> USE LifecycleAssumption DEF Requests
<1>1. \A c \in Creates : CreateInv(c)
  BY DEF Init, CreateInv
<1>2. \A u \in Uses : UseInv(u)
  BY DEF Init, UseInv, Final
<1>3. QED
  BY <1>1, <1>2, InitType DEF JInv

\* A create keeps what holds of it, and touches no other create.
LEMMA CreateKeepsCreates ==
  ASSUME JInv, NEW c \in Creates, Create(c), NEW d \in Creates
  PROVE  CreateInv(d)'
<1> USE LifecycleAssumption DEF Requests, store, provider
<1>0. CreateInv(c) /\ CreateInv(d) /\ TypeOK
  BY DEF JInv
<1>1. CASE Presets(c)
  BY <1>0, <1>1 DEF TypeOK, CreateInv, Presets, Answer, Step
<1>2. CASE Transcode(c)
  BY <1>0, <1>2 DEF TypeOK, CreateInv, Transcode, Answer, Step
<1>3. CASE SaveJob(c)
  BY <1>0, <1>3 DEF TypeOK, CreateInv, SaveJob, Recorded, Answer, Step
<1>4. CASE AddToSet(c)
  BY <1>0, <1>4 DEF TypeOK, CreateInv, AddToSet, Answer, Step
<1>5. QED
  BY <1>1, <1>2, <1>3, <1>4 DEF Create

\* A create touches no use, and starts no job that has ended.
LEMMA CreateKeepsUses ==
  ASSUME JInv, NEW c \in Creates, Create(c), NEW u \in Uses
  PROVE  UseInv(u)'
<1> USE LifecycleAssumption DEF Requests, store, provider
<1>0. CreateInv(c) /\ UseInv(u) /\ TypeOK
  BY DEF JInv
<1>1. UNCHANGED <<pc[u], jobID[u], call, told>>
  BY <1>0 DEF TypeOK, Create, Presets, Transcode, SaveJob, AddToSet, Answer, Step
<1>2. state' = state \/ (pc[c] = "transcode" /\ \A d \in Creates \ {c} : state'[d] = state[d])
  BY <1>0 DEF TypeOK, Create, Presets, Transcode, SaveJob, AddToSet, Answer, Step
<1>3. QED
  BY <1>0, <1>1, <1>2 DEF UseInv, CreateInv, TypeOK, Call, Ended

\* A use touches no create but for the state of a job, which stays a job.
LEMMA UseKeepsCreates ==
  ASSUME JInv, NEW u \in Uses, Use(u), NEW c \in Creates
  PROVE  CreateInv(c)'
<1> USE LifecycleAssumption DEF Requests, store, provider
<1>0. CreateInv(c) /\ TypeOK
  BY DEF JInv
<1>1. UNCHANGED <<pc[c], jobID[c], record, listed, reply[c]>>
  BY <1>0 DEF TypeOK, Use, Load, AskStatus, CancelJob, AskAgain, StatusFails, Tell, Answer, Step
<1>2. state' = state \/ (state[c] # "none" /\ state'[c] # "none") \/ state'[c] = state[c]
  <2>1. CASE CancelJob(u)
    BY <1>0, <2>1, CancelEffect DEF TypeOK, Live
  <2>2. CASE ~CancelJob(u)
    BY <2>2 DEF Use, Load, AskStatus, AskAgain
  <2>3. QED
    BY <2>1, <2>2
<1>3. QED
  BY <1>0, <1>1, <1>2 DEF CreateInv

\* A use loads the id of its job, asks for that job alone, tells what it is
\* told, and stops no job that has ended.
LEMMA UseKeepsUses ==
  ASSUME JInv, NEW u \in Uses, Use(u), NEW v \in Uses
  PROVE  UseInv(v)'
<1> USE LifecycleAssumption DEF Requests, store, provider
<1>0. UseInv(u) /\ UseInv(v) /\ TypeOK /\ CreateInv(call[u].job)
  BY DEF JInv, TypeOK, Call
<1>1. call[u].job \in Creates /\ call[v].job \in Creates
  BY <1>0 DEF TypeOK, Call
<1>2. Known(u) => /\ jobID[u] = call[u].job
                  /\ state[jobID[u]] \in Live \cup Ended
  BY <1>0, <1>1 DEF Known, UseInv, TypeOK
<1>3. CASE Load(u)
  BY <1>0, <1>1, <1>3 DEF TypeOK, UseInv, CreateInv, Load, Answer, Step
<1>4. CASE AskStatus(u)
  BY <1>0, <1>1, <1>2, <1>4, StatusType DEF TypeOK, UseInv, AskStatus, StatusFails, Tell, Answer, Step
<1>5. CASE CancelJob(u)
  <2>1. told' = told /\ call' = call /\ jobID' = jobID
    BY <1>5 DEF CancelJob
  <2>2. pc'[v] \in {pc[v], "statusAgain", "done"}
    BY <1>0, <1>5 DEF TypeOK, CancelJob, Answer, Step
  <2>3. state[call[v].job] \in Ended => state'[call[v].job] = state[call[v].job]
    BY <1>0, <1>1, <1>5, CancelEffect DEF TypeOK, Live, Ended
  <2>4. QED
    BY <1>0, <2>1, <2>2, <2>3 DEF UseInv
<1>6. CASE AskAgain(u)
  BY <1>0, <1>1, <1>2, <1>6, StatusType DEF TypeOK, UseInv, AskAgain, StatusFails, Tell, Answer, Step
<1>7. QED
  BY <1>3, <1>4, <1>5, <1>6 DEF Use

\* A job that has ended stays as it is, and no job is undone.
LEMMA OtherKeeps ==
  ASSUME JInv, \/ \E c \in Creates : Advance(c) \/ Forget(c)
               \/ \E r \in Requests : Crash(r)
  PROVE  /\ \A c \in Creates : CreateInv(c)'
         /\ \A u \in Uses : UseInv(u)'
<1> USE LifecycleAssumption DEF Requests, store, provider
<1>0. TypeOK /\ (\A c \in Creates : CreateInv(c)) /\ \A u \in Uses : UseInv(u) /\ call[u].job \in Creates
  BY DEF JInv, TypeOK, Call
<1>1. ASSUME NEW c \in Creates, Advance(c)
      PROVE  \A d \in Creates : /\ state[d] = "none" <=> state'[d] = "none"
                                /\ state[d] \in Ended => state'[d] = state[d]
  BY <1>0, <1>1 DEF TypeOK, Advance, Onward, Live, Ended
<1>2. CASE \E c \in Creates : Advance(c)
  <2>1. PICK c \in Creates : Advance(c)
    BY <1>2
  <2>2. UNCHANGED <<store, pc, call, jobID, reply, told>>
    BY <2>1 DEF Advance
  <2>3. \A d \in Creates : CreateInv(d)'
    BY <1>0, <1>1, <2>1, <2>2 DEF CreateInv
  <2>4. \A u \in Uses : UseInv(u)'
    BY <1>0, <1>1, <2>1, <2>2 DEF UseInv
  <2>5. QED
    BY <2>3, <2>4
<1>3. CASE \E c \in Creates : Forget(c)
  BY <1>0, <1>3 DEF Forget, CreateInv, UseInv
<1>4. CASE \E r \in Requests : Crash(r)
  BY <1>0, <1>4 DEF TypeOK, Crash, CreateInv, UseInv
<1>5. QED
  BY <1>2, <1>3, <1>4

LEMMA StepJInv == JInv /\ [Next]_vars => JInv'
<1> SUFFICES ASSUME JInv, [Next]_vars PROVE JInv'
  OBVIOUS
<1>1. TypeOK'
  BY StepType DEF JInv
<1>2. (\A c \in Creates : CreateInv(c)') /\ \A u \in Uses : UseInv(u)'
  <2>1. CASE \E c \in Creates : Create(c)
    BY <2>1, CreateKeepsCreates, CreateKeepsUses
  <2>2. CASE \E u \in Uses : Use(u)
    BY <2>2, UseKeepsCreates, UseKeepsUses
  <2>3. CASE \/ \E c \in Creates : Advance(c) \/ Forget(c)
             \/ \E r \in Requests : Crash(r)
    BY <2>3, OtherKeeps
  <2>4. CASE UNCHANGED vars
    BY <2>4 DEF JInv, CreateInv, UseInv, vars
  <2>5. QED
    BY <2>1, <2>2, <2>3, <2>4 DEF Next
<1>3. QED
  BY <1>1, <1>2 DEF JInv

\* The invariant holds in every reachable state.
THEOREM Inductive == Spec => []JInv
BY InitJInv, StepJInv, PTL DEF Spec

-----------------------------------------------------------------------------
(* The safety properties *)

\* Every client that was given a job id has an entry in the list and, where the
\* provider's Transcode looks at the answer's status, a job and a record of it.
THEOREM AcknowledgedJobsHolds == Spec => []AcknowledgedJobs
<1>1. JInv => AcknowledgedJobs
  BY LifecycleAssumption DEF JInv, CreateInv, AcknowledgedJobs, Requests
<1>2. QED
  BY <1>1, Inductive, PTL

\* Every job in the list can be loaded, whatever failed or died on the way.
THEOREM ListedLoadsHolds == Spec => []ListedLoads
<1>1. JInv => ListedLoads
  BY DEF JInv, CreateInv, ListedLoads, TypeOK
<1>2. QED
  BY <1>1, Inductive, PTL

\* No two clients are told different ends of one job.
THEOREM OneEndHolds == Spec => []OneEnd
<1>1. JInv => OneEnd
  BY DEF JInv, UseInv, OneEnd
<1>2. QED
  BY <1>1, Inductive, PTL

\* Where the provider's Transcode looks at the answer's status, every record
\* names a job that the provider has started, whatever fails.
THEOREM RecordNamesJobHolds == Spec => []RecordNamesJob
<1>1. JInv => RecordNamesJob
  BY LifecycleAssumption DEF JInv, CreateInv, RecordNamesJob, LeadsToJob, Requests
<1>2. QED
  BY <1>1, Inductive, PTL

-----------------------------------------------------------------------------
(* The provider's interface *)

\* The id that a request holds is one that a create was given.
HeldInv == \A u \in Uses : jobID[u] = call[u].job => jobID[call[u].job] = call[u].job

LEMMA InitHeld == Init => HeldInv
BY LifecycleAssumption DEF Init, HeldInv, Call, Requests

LEMMA StepHeld == JInv /\ HeldInv /\ [Next]_vars => HeldInv'
<1> SUFFICES ASSUME JInv, HeldInv, [Next]_vars, NEW u \in Uses, (jobID[u] = call[u].job)'
    PROVE  (jobID[call[u].job] = call[u].job)'
  BY DEF HeldInv
<1> USE LifecycleAssumption DEF Requests, store, provider
<1>0. TypeOK /\ UseInv(u) /\ call[u].job \in Creates /\ CreateInv(call[u].job) /\ call' = call
  BY DEF JInv, TypeOK, Call, Next, Create, Presets, Transcode, SaveJob, AddToSet, Use, Load,
     AskStatus, CancelJob, AskAgain, Advance, Forget, Crash, vars
<1>1. jobID[call[u].job] = call[u].job => jobID'[call[u].job] = call[u].job
  BY <1>0 DEF TypeOK, CreateInv, Next, Create, Presets, Transcode, SaveJob, AddToSet, Answer, Step,
     Use, Load, AskStatus, CancelJob, AskAgain, Advance, Forget, Crash, vars
<1>2. CASE jobID'[u] = jobID[u]
  BY <1>0, <1>1, <1>2 DEF HeldInv
<1>3. CASE jobID'[u] # jobID[u]
  <2>1. jobID'[u] = record[call[u].job]
    BY <1>0, <1>3 DEF TypeOK, Next, Create, Presets, Transcode, SaveJob, AddToSet,
       Use, Load, AskStatus, CancelJob, AskAgain, Advance, Forget, Crash, vars
  <2>2. record[call[u].job] = jobID[call[u].job]
    BY <1>0, <2>1 DEF CreateInv
  <2>3. QED
    BY <1>0, <1>1, <2>1, <2>2
<1>4. QED
  BY <1>2, <1>3

\* What request u was told of the job of c.
ToldOf(c, u) == IF call[u].job = c THEN told[u] ELSE "none"

LEMMA JobStutters ==
  ASSUME NEW c \in Creates, NEW u \in Uses,
         state'[c] = state[c], AnswerTo(c)' = AnswerTo(c), ToldOf(c, u)' = ToldOf(c, u)
  PROVE  UNCHANGED Job(c, u)!jobVars
BY DEF Job!jobVars, ToldOf

\* A create answers once, and starts its own job only.
LEMMA CreateUses ==
  ASSUME JInv, NEW d \in Creates, Create(d), NEW c \in Creates, NEW u \in Uses
  PROVE  [Job(c, u)!JobNext]_(Job(c, u)!jobVars)
<1> USE LifecycleAssumption DEF Requests, store, provider
<1>0. TypeOK /\ CreateInv(c)
  BY DEF JInv
<1>1. UNCHANGED <<call, told>> /\ ToldOf(c, u)' = ToldOf(c, u)
  BY DEF Create, Presets, Transcode, SaveJob, AddToSet, ToldOf, Answer
<1>2. CASE Transcode(d) /\ c = d
  <2>1. AnswerTo(c) = "none" /\ state[c] = "none"
    BY <1>0, <1>2 DEF CreateInv, AnswerTo, Transcode, Answer, Step
  <2>2. \/ AnswerTo(c)' = "ok" /\ state'[c] = "queued"
        \/ AnswerTo(c)' = "error" /\ state'[c] \in {"none", "queued"}
    BY <1>0, <1>2, <2>1 DEF TypeOK, CreateInv, AnswerTo, Transcode, Answer, Step
  <2>3. QED
    BY <1>1, <2>1, <2>2 DEF Job!JobNext, Job!Start, Job!Fail, ToldOf
<1>3. CASE Presets(d) /\ c = d
  <2>1. AnswerTo(c) = "none" /\ state[c] = "none" /\ state' = state
    BY <1>0, <1>3 DEF CreateInv, AnswerTo, Presets, Answer, Step
  <2>2. AnswerTo(c)' \in {"none", "error"}
    BY <1>0, <1>3 DEF TypeOK, CreateInv, AnswerTo, Presets, Answer, Step
  <2>3. QED
    BY <1>1, <2>1, <2>2 DEF Job!JobNext, Job!Fail, Job!jobVars, ToldOf
<1>4. CASE c # d \/ SaveJob(d) \/ AddToSet(d)
  <2>1. state'[c] = state[c] /\ AnswerTo(c)' = AnswerTo(c)
    BY <1>0, <1>4 DEF TypeOK, AnswerTo, Create, Presets, Transcode, SaveJob, AddToSet, Answer, Step
  <2>2. QED
    BY <1>1, <2>1, JobStutters
<1>5. QED
  BY <1>2, <1>3, <1>4 DEF Create

\* A request asks for, and stops, a job only whose create was acknowledged.
LEMMA UseUses ==
  ASSUME JInv, HeldInv, NEW v \in Uses, Use(v), NEW c \in Creates, NEW u \in Uses
  PROVE  [Job(c, u)!JobNext]_(Job(c, u)!jobVars)
<1> USE LifecycleAssumption DEF Requests, store, provider
<1>0. TypeOK /\ CreateInv(c) /\ UseInv(v) /\ call[v].job \in Creates
  BY DEF JInv, TypeOK, Call
<1>1. AnswerTo(c)' = AnswerTo(c) /\ UNCHANGED call
  BY <1>0 DEF TypeOK, AnswerTo, Use, Load, AskStatus, CancelJob, AskAgain, StatusFails, Tell, Answer, Step
<1>2. ASSUME Known(v)
      PROVE  /\ jobID[v] = call[v].job
             /\ call[v].job = c => AnswerTo(c) = "ok"
  BY <1>0, <1>2 DEF Known, UseInv, HeldInv, AnswerTo, CreateInv
<1>3. CASE CancelJob(v)
  <2>1. ToldOf(c, u)' = ToldOf(c, u)
    BY <1>1, <1>3 DEF CancelJob, ToldOf
  <2>2. CASE state'[c] = state[c]
    BY <1>1, <2>1, <2>2, JobStutters
  <2>3. CASE state'[c] # state[c]
    <3>1. Known(v) /\ jobID[v] = c /\ state[c] \in Live /\ state'[c] \in Stopped
      BY <1>0, <1>3, <2>3 DEF TypeOK, CancelJob, Stopped
    <3>2. AnswerTo(c) = "ok"
      BY <1>2, <3>1
    <3>3. QED
      BY <1>1, <2>1, <3>1, <3>2 DEF Job!JobNext, Job!Stop, Job!Live, Job!Stopped, Live, Stopped, ToldOf
  <2>4. QED
    BY <2>2, <2>3
<1>4. CASE ~CancelJob(v)
  <2>1. state' = state
    BY <1>4 DEF Use, Load, AskStatus, AskAgain
  <2>2. CASE told' = told
    BY <1>1, <2>1, <2>2, JobStutters DEF ToldOf
  <2>3. CASE told' # told
    <3>1. Known(v) /\ told' = [told EXCEPT ![v] = StatusOf[state[jobID[v]]]]
      BY <1>4, <2>3 DEF Use, Load, AskStatus, AskAgain, StatusFails, Tell
    <3>2. CASE u # v \/ call[v].job # c
      <4>1. ToldOf(c, u)' = ToldOf(c, u)
        BY <1>0, <1>1, <3>1, <3>2 DEF TypeOK, ToldOf
      <4>2. QED
        BY <1>1, <2>1, <4>1, JobStutters
    <3>3. CASE u = v /\ call[v].job = c
      <4>1. AnswerTo(c) = "ok" /\ ToldOf(c, u)' = StatusOf[state[c]]
        BY <1>0, <1>1, <1>2, <3>1, <3>3 DEF TypeOK, ToldOf
      <4>2. QED
        BY <1>1, <2>1, <4>1 DEF Job!JobNext, Job!Tell, Job!StatusOf, StatusOf, ToldOf
    <3>4. QED
      BY <3>2, <3>3
  <2>4. QED
    BY <2>2, <2>3
<1>5. QED
  BY <1>3, <1>4

\* The provider's own steps, and a crash, are none of a request's.
LEMMA OtherUses ==
  ASSUME JInv, NEW c \in Creates, NEW u \in Uses,
         \/ \E d \in Creates : Advance(d) \/ Forget(d)
         \/ \E r \in Requests : Crash(r)
  PROVE  [Job(c, u)!JobNext]_(Job(c, u)!jobVars)
<1> USE LifecycleAssumption DEF Requests, store, provider
<1>0. TypeOK /\ CreateInv(c)
  BY DEF JInv
<1>1. UNCHANGED <<call, told, jobID>> /\ ToldOf(c, u)' = ToldOf(c, u)
  BY DEF Advance, Forget, Crash, ToldOf
<1>2. ASSUME NEW d \in Creates, Advance(d)
      PROVE  [Job(c, u)!JobNext]_(Job(c, u)!jobVars)
  <2>1. AnswerTo(c)' = AnswerTo(c)
    BY <1>2 DEF Advance, AnswerTo
  <2>2. CASE c = d
    <3>1. state[c] \in Live /\ state'[c] \in Onward[state[c]]
      BY <1>0, <1>2, <2>2 DEF TypeOK, Advance
    <3>2. QED
      BY <1>1, <2>1, <3>1
         DEF Job!JobNext, Job!Advance, Job!Live, Job!Onward, Job!Ended, Live, Onward, Ended, ToldOf
  <2>3. CASE c # d
    <3>1. state'[c] = state[c]
      BY <1>0, <1>2, <2>3 DEF TypeOK, Advance
    <3>2. QED
      BY <1>1, <2>1, <3>1, JobStutters
  <2>4. QED
    BY <2>2, <2>3
<1>3. CASE \E d \in Creates : Forget(d)
  BY <1>1, <1>3, JobStutters DEF Forget, AnswerTo
<1>4. ASSUME NEW r \in Requests, Crash(r)
      PROVE  [Job(c, u)!JobNext]_(Job(c, u)!jobVars)
  <2>1. state' = state
    BY <1>4 DEF Crash
  <2>2. CASE r = c /\ pc[c] \in {"presets", "transcode"}
    <3>1. AnswerTo(c) = "none" /\ state[c] = "none" /\ AnswerTo(c)' = "error"
      BY <1>0, <1>1, <1>4, <2>2 DEF TypeOK, CreateInv, Crash, AnswerTo
    <3>2. QED
      BY <1>1, <2>1, <3>1 DEF Job!JobNext, Job!Fail, ToldOf
  <2>3. CASE ~(r = c /\ pc[c] \in {"presets", "transcode"})
    <3>1. AnswerTo(c)' = AnswerTo(c)
      BY <1>0, <1>1, <1>4, <2>3 DEF TypeOK, Crash, AnswerTo
    <3>2. QED
      BY <1>1, <2>1, <3>1, JobStutters
  <2>4. QED
    BY <2>2, <2>3
<1>5. QED
  BY <1>2, <1>3, <1>4

LEMMA PromiseStep ==
  JInv /\ HeldInv /\ [Next]_vars =>
    \A c \in Creates, u \in Uses : [Job(c, u)!JobNext]_(Job(c, u)!jobVars)
<1> SUFFICES ASSUME JInv, HeldInv, [Next]_vars, NEW c \in Creates, NEW u \in Uses
    PROVE [Job(c, u)!JobNext]_(Job(c, u)!jobVars)
  OBVIOUS
<1>1. CASE UNCHANGED vars
  BY <1>1, JobStutters DEF vars, AnswerTo, ToldOf
<1>2. QED
  BY <1>1, CreateUses, UseUses, OtherUses DEF Next

\* Of a provider the service asks what the interface lets it, for any number of
\* jobs and requests, whatever fails: it calls Transcode once for a job, asks
\* about and cancels only jobs it was given, and passes on the status it gets.
THEOREM PromiseUsedHolds == Spec => PromiseUsed
<1>1. Init => \A c \in Creates, u \in Uses : Job(c, u)!JobInit
  BY LifecycleAssumption DEF Init, Job!JobInit, AnswerTo, Requests
<1>2. JInv /\ HeldInv /\ [Next]_vars =>
        [\A c \in Creates, u \in Uses : [Job(c, u)!JobNext]_(Job(c, u)!jobVars)]_vars
  BY PromiseStep
<1>3. Spec => []HeldInv
  BY InitHeld, StepHeld, Inductive, PTL DEF Spec
<1>4. QED
  BY <1>1, <1>2, <1>3, Inductive, PTL DEF Spec, PromiseUsed
=============================================================================
