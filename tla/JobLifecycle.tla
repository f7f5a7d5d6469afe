---------------------------- MODULE JobLifecycle ----------------------------
(***************************************************************************)
(* The job endpoints, the job records in redis, and the provider that runs *)
(* the jobs.  Each request runs in its own goroutine: an action is one     *)
(* redis command or one provider call of one request, or a step of the     *)
(* provider.                                                               *)
(*                                                                         *)
(* A POST /jobs makes a fresh random job id, so a create request stands    *)
(* for the job id it makes, and for the id the provider gives the job it   *)
(* starts for it.                                                          *)
(***************************************************************************)
EXTENDS ProviderStates, FiniteSets

CONSTANTS
  Creates,      \* the POST /jobs requests, and the ids of their jobs
  Uses,         \* the requests for the status of a job, or for its cancellation
  Faults,       \* the failures that may happen, a subset of FaultKinds
  Unread,       \* the creates at a provider whose Transcode does not look at the
                \* status of the answer: flock's decodes a refusal to job number 0
  Zero,         \* the provider job id "0"
  None          \* no record

Requests == Creates \cup Uses
ProviderIds == Creates \cup {Zero}
FaultKinds == {"redis", "provider", "crash"}

ASSUME LifecycleAssumption ==
  /\ Creates \cap Uses = {}
  /\ Faults \subseteq FaultKinds
  /\ Unread \subseteq Creates
  /\ Zero \notin Requests /\ None \notin Requests /\ Zero # None

VARIABLES
  \* redis and the provider
  record,     \* job:<id>: the provider job id it holds, or None
  listed,     \* the sorted set "jobs"
  state,      \* what became of the job the provider started for a create
  forgotten,  \* the jobs the provider has deleted since
  \* the goroutine of each request
  pc,         \* its next step
  call,       \* what a use asks for
  jobID,      \* the provider job id it holds
  reply,      \* the answer sent to the client
  told        \* the status in that answer

vars == <<record, listed, state, forgotten, pc, call, jobID, reply, told>>
store == <<record, listed>>
provider == <<state, forgotten>>

Steps == {"presets", "transcode", "saveJob", "addToSet",
          "load", "status", "cancel", "statusAgain", "done", "crashed"}

Replies == {"none", "ok", "invalid", "notFound", "gone", "error"}

Call == [op : {"getJob", "cancelJob"}, job : Creates]

TypeOK ==
  /\ record \in [Creates -> ProviderIds \cup {None}]
  /\ listed \in SUBSET Creates
  /\ state \in [Creates -> {"none"} \cup Live \cup Ended]
  /\ forgotten \in SUBSET Creates
  /\ pc \in [Requests -> Steps]
  /\ call \in [Uses -> Call]
  /\ jobID \in [Requests -> ProviderIds \cup {None}]
  /\ reply \in [Requests -> Replies]
  /\ told \in [Requests -> Statuses]

Init ==
  /\ record = [c \in Creates |-> None]
  /\ listed = {}
  /\ state = [c \in Creates |-> "none"]
  /\ forgotten = {}
  /\ pc = [r \in Requests |-> IF r \in Creates THEN "presets" ELSE "load"]
  /\ call \in [Uses -> Call]
  /\ jobID = [r \in Requests |-> None]
  /\ reply = [r \in Requests |-> "none"]
  /\ told = [r \in Requests |-> "none"]

-----------------------------------------------------------------------------
RedisMayFail    == "redis" \in Faults
ProviderMayFail == "provider" \in Faults

Step(r, from, to) == pc[r] = from /\ pc' = [pc EXCEPT ![r] = to]

\* Every answer but a status.
Answer(r, from, a) ==
  /\ Step(r, from, "done")
  /\ reply' = [reply EXCEPT ![r] = a]

-----------------------------------------------------------------------------
(* newTranscodeJob *)

\* The preset map of each output, then a random id.
Presets(c) ==
  /\ \/ Step(c, "presets", "transcode") /\ UNCHANGED reply
     \/ Answer(c, "presets", "invalid")      \* no such preset map
     \/ RedisMayFail /\ Answer(c, "presets", "error")
  /\ UNCHANGED <<store, provider, call, jobID, told>>

\* Seeded fault: an error of the provider is dropped.
TranscodeUnchecked(c) ==
  /\ Step(c, "transcode", "saveJob")
  /\ \/ /\ state' = [state EXCEPT ![c] = "queued"]
        /\ jobID' = [jobID EXCEPT ![c] = c]
     \/ /\ ProviderMayFail
        /\ jobID' = [jobID EXCEPT ![c] = Zero]
        /\ UNCHANGED state
  /\ UNCHANGED <<store, forgotten, call, reply, told>>

\* Seeded fault: a call that failed is made again.
TranscodeAgain(c) ==
  /\ \/ /\ Step(c, "transcode", "saveJob")
        /\ jobID' = [jobID EXCEPT ![c] = c]
     \/ /\ ProviderMayFail /\ pc[c] = "transcode"
        /\ UNCHANGED <<pc, jobID>>
  /\ state' = [state EXCEPT ![c] = "queued"]
  /\ UNCHANGED <<store, forgotten, call, reply, told>>

\* The provider looks the presets up by the name of the map.
Transcode(c) ==
  /\ \/ /\ Step(c, "transcode", "saveJob")
        /\ state' = [state EXCEPT ![c] = "queued"]
        /\ jobID' = [jobID EXCEPT ![c] = c]
        /\ UNCHANGED reply
     \/ /\ Answer(c, "transcode", "error")     \* one that it does not have
        /\ UNCHANGED <<state, jobID>>
     \/ /\ ProviderMayFail
        /\ Answer(c, "transcode", "error")
        /\ state' \in {state, [state EXCEPT ![c] = "queued"]}
        /\ UNCHANGED jobID
     \/ /\ c \in Unread
        /\ Step(c, "transcode", "saveJob")
        /\ jobID' = [jobID EXCEPT ![c] = Zero]
        /\ UNCHANGED <<state, reply>>
  /\ UNCHANGED <<store, forgotten, call, told>>

Recorded(c) == record' = [record EXCEPT ![c] = jobID[c]]

\* Seeded fault: the error of HMSET is dropped.
SaveJobUnchecked(c) ==
  /\ Step(c, "saveJob", "addToSet")
  /\ Recorded(c) \/ (RedisMayFail /\ UNCHANGED record)
  /\ UNCHANGED <<listed, provider, call, jobID, reply, told>>

\* HMSET.
SaveJob(c) ==
  /\ \/ /\ Step(c, "saveJob", "addToSet")
        /\ Recorded(c)
        /\ UNCHANGED reply
     \/ /\ RedisMayFail
        /\ Answer(c, "saveJob", "error")
        /\ Recorded(c) \/ UNCHANGED record
  /\ UNCHANGED <<listed, provider, call, jobID, told>>

\* ZADD NX.
AddToSet(c) ==
  /\ \/ /\ Answer(c, "addToSet", "ok")
        /\ listed' = listed \cup {c}
     \/ /\ RedisMayFail
        /\ Answer(c, "addToSet", "error")
        /\ listed' \in {listed, listed \cup {c}}
  /\ UNCHANGED <<record, provider, call, jobID, told>>

-----------------------------------------------------------------------------
(* getTranscodeJob and cancelTranscodeJob *)

Load(u) ==
  /\ \/ /\ record[call[u].job] # None
        /\ Step(u, "load", "status")
        /\ jobID' = [jobID EXCEPT ![u] = record[call[u].job]]
        /\ UNCHANGED reply
     \/ /\ record[call[u].job] = None
        /\ Answer(u, "load", "notFound")
        /\ UNCHANGED jobID
     \/ /\ RedisMayFail
        /\ Answer(u, "load", "error")
        /\ UNCHANGED jobID
  /\ UNCHANGED <<store, provider, call, told>>

\* The provider has the job with the id that request u holds.
Known(u) == jobID[u] \in Creates \ forgotten /\ state[jobID[u]] # "none"

\* A status is the answer of the request.
Tell(u, from, status) ==
  /\ Answer(u, from, "ok")
  /\ told' = [told EXCEPT ![u] = status]

\* JobStatus fails; no provider's error says that the job is not there.
StatusFails(u, from) ==
  /\ Known(u) => ProviderMayFail
  /\ Answer(u, from, "error")
  /\ UNCHANGED told

AskStatus(u) ==
  /\ \/ /\ Known(u) /\ call[u].op = "getJob"
        /\ Tell(u, "status", StatusOf[state[jobID[u]]])
     \/ /\ Known(u) /\ call[u].op = "cancelJob"
        /\ Step(u, "status", "cancel")
        /\ UNCHANGED <<reply, told>>
     \/ StatusFails(u, "status")
  /\ UNCHANGED <<store, provider, call, jobID>>

\* Stopping a job may take the provider a while; a job that has ended is
\* refused or left alone.
CancelJob(u) ==
  /\ \/ /\ Known(u) /\ state[jobID[u]] \in Live
        /\ Step(u, "cancel", "statusAgain")
        /\ \E s \in Stopped : state' = [state EXCEPT ![jobID[u]] = s]
        /\ UNCHANGED reply
     \/ /\ Known(u) /\ state[jobID[u]] \in Ended
        /\ Step(u, "cancel", "statusAgain")
        /\ UNCHANGED <<state, reply>>
     \/ /\ Known(u) => state[jobID[u]] \in Ended
        /\ Answer(u, "cancel", "error")
        /\ UNCHANGED state
     \/ /\ ProviderMayFail /\ Known(u)
        /\ Answer(u, "cancel", "error")
        /\ \/ UNCHANGED state
           \/ /\ state[jobID[u]] \in Live
              /\ state' = [state EXCEPT ![jobID[u]] = "stopping"]
  /\ UNCHANGED <<store, forgotten, call, jobID, told>>

\* Seeded fault: a cancel that succeeded is answered without asking again.
AssumeCanceled(u) ==
  /\ Tell(u, "statusAgain", "canceled")
  /\ UNCHANGED <<store, provider, call, jobID>>

AskAgain(u) ==
  /\ \/ /\ Known(u)
        /\ Tell(u, "statusAgain", StatusOf[state[jobID[u]]])
     \/ StatusFails(u, "statusAgain")
  /\ UNCHANGED <<store, provider, call, jobID>>

-----------------------------------------------------------------------------
(* The provider, and failures of the service *)

Advance(c) ==
  /\ state[c] \in Live
  /\ \E s \in Onward[state[c]] : state' = [state EXCEPT ![c] = s]
  /\ UNCHANGED <<store, forgotten, pc, call, jobID, reply, told>>

\* Providers keep ended jobs for a limited time.
Forget(c) ==
  /\ state[c] \in Ended /\ c \notin forgotten
  /\ forgotten' = forgotten \cup {c}
  /\ UNCHANGED <<store, state, pc, call, jobID, reply, told>>

Crash(r) ==
  /\ "crash" \in Faults
  /\ pc[r] \notin {"done", "crashed"}
  /\ pc' = [pc EXCEPT ![r] = "crashed"]
  /\ UNCHANGED <<store, provider, call, jobID, reply, told>>

Create(c) == Presets(c) \/ Transcode(c) \/ SaveJob(c) \/ AddToSet(c)
Use(u)    == Load(u) \/ AskStatus(u) \/ CancelJob(u) \/ AskAgain(u)

Next ==
  \/ \E c \in Creates : Create(c) \/ Advance(c) \/ Forget(c)
  \/ \E u \in Uses : Use(u)
  \/ \E r \in Requests : Crash(r)

Spec == Init /\ [][Next]_vars

-----------------------------------------------------------------------------
(* Properties that hold *)

\* A client that was given a job id has a job: the provider started one for
\* this request and no other, the record leads to it and the list shows it
\* (transcode.go:83-98, job.go:29-35).  Where a refusal is not read, the record
\* may be of job 0.
AcknowledgedJobs ==
  \A c \in Creates : reply[c] = "ok" =>
    /\ c \in listed
    /\ c \notin Unread => state[c] # "none" /\ record[c] = c

\* Whatever fails or dies between HMSET and ZADD, each job in the list can be
\* loaded (job.go:30-34).
ListedLoads == \A c \in listed : record[c] # None

\* Two clients are never told different ends of one job, with cancels racing
\* the job's completion and each other (transcode.go:190-212).
OneEnd ==
  \A u, v \in Uses :
    call[u].job = call[v].job /\ told[u] \in Final /\ told[v] \in Final
      => told[u] = told[v]

\* The record of c leads to a job that the provider has started.
LeadsToJob(c) == record[c] \in Creates /\ state[record[c]] # "none"

\* Whatever fails, a record names a job that the provider has started, where
\* refusals are read: a record is all that a status or a cancel has to go by.
RecordNamesJob == \A c \in Creates \ Unread : record[c] # None => LeadsToJob(c)

\* What Transcode has answered the create of c.
AnswerTo(c) ==
  IF pc[c] \in {"presets", "transcode"} THEN "none" ELSE IF jobID[c] = c THEN "ok" ELSE "error"

Job(c, u) == INSTANCE ProviderJob
  WITH state <- state[c], answer <- AnswerTo(c), told <- IF call[u].job = c THEN told[u] ELSE "none"

\* Of a provider the service asks only what the interface promises: for each
\* job and each request about it, with any number of others under way.
PromiseUsed ==
  /\ \A c \in Creates, u \in Uses : Job(c, u)!JobInit
  /\ [][\A c \in Creates, u \in Uses : [Job(c, u)!JobNext]_(Job(c, u)!jobVars)]_vars

-----------------------------------------------------------------------------
(* What a doc of the repository says and the code does not keep *)

\* types.go:27, the providerJobID of any record is the "id of the job on the
\* provider".
ProviderJobIDOfJob == \A c \in Creates : record[c] # None => LeadsToJob(c)
=============================================================================
