------------------------- MODULE ProviderJob_proofs -------------------------
(* What follows from the promise of a provider, whichever it is. *)
EXTENDS ProviderJob, TLAPS

\* A job that is acknowledged exists, and a status that was told is of a job
\* that was acknowledged.
JobInv ==
  /\ state \in {"none"} \cup Live \cup Ended /\ told \in Statuses
  /\ answer \in {"none", "ok", "error"}
  /\ answer = "ok" => state # "none"
  /\ told # "none" => answer = "ok"
  /\ EndTold

LEMMA StatusType ==
  ASSUME NEW s \in Live \cup Ended
  PROVE  /\ StatusOf[s] \in Statuses
         /\ StatusOf[s] \in Final => s \in Ended
BY DEF Live, Ended, StatusOf, Statuses, Final

LEMMA InitJob == JobInit => JobInv
BY DEF JobInit, JobInv, EndTold, Final, Statuses

LEMMA StepJob == JobInv /\ [JobNext]_jobVars => JobInv'
<1> SUFFICES ASSUME JobInv, [JobNext]_jobVars PROVE JobInv'
  OBVIOUS
<1> USE DEF JobInv
<1>1. CASE Start \/ Fail
  BY <1>1 DEF Start, Fail, EndTold, Live, Ended, Final
<1>2. CASE Advance
  BY <1>2 DEF Advance, EndTold, Live, Ended, Onward
<1>3. CASE Stop
  BY <1>3 DEF Stop, EndTold, Live, Ended, Stopped
<1>4. CASE Ask
  BY <1>4 DEF Ask, EndTold, Final, Statuses
<1>5. CASE Tell
  BY <1>5, StatusType DEF Tell, EndTold
<1>6. CASE UNCHANGED jobVars
  BY <1>6 DEF jobVars, EndTold
<1>7. QED
  BY <1>1, <1>2, <1>3, <1>4, <1>5, <1>6 DEF JobNext

LEMMA Kept == JobSpec => []JobInv
BY InitJob, StepJob, PTL DEF JobSpec

\* Whatever a provider that keeps the promise does, an end that a client was
\* told stays the end of its job.
THEOREM EndToldHolds == JobSpec => []EndTold
<1>1. JobInv => EndTold
  BY DEF JobInv
<1>2. QED
  BY <1>1, Kept, PTL

\* No step of such a provider changes a job that has ended.
THEOREM EndsOnceHolds == JobSpec => EndsOnce
<1>1. [JobNext]_jobVars => [(state \in Ended) => (state' = state)]_jobVars
  BY DEF JobNext, jobVars, Start, Fail, Advance, Stop, Ask, Tell, Live, Ended
<1>2. QED
  BY <1>1, PTL DEF JobSpec, EndsOnce
=============================================================================
