---------------------------- MODULE ProviderJob ----------------------------
(***************************************************************************)
(* One job at a provider: what TranscodingProvider promises the service    *)
(* (provider/provider.go).  Transcode answers ok only if it has started    *)
(* the job, and its error does not say that it has not; only a job that    *)
(* was acknowledged is cancelled or asked about; and a status is true when *)
(* it is told.  JobLifecycle uses the providers in this way, and the       *)
(* modules of the providers implement it.                                  *)
(***************************************************************************)
EXTENDS ProviderStates

VARIABLES
  state,    \* none until there is a job, then Live or Ended
  answer,   \* what Transcode has returned: none, ok or error
  told      \* the last status told to a client, none while it is asked for

jobVars == <<state, answer, told>>

JobInit == state = "none" /\ answer = "none" /\ told = "none"

Start ==
  /\ answer = "none" /\ state = "none"
  /\ answer' = "ok" /\ state' = "queued"
  /\ UNCHANGED told

\* The reply to a call that started the job may be lost.
Fail ==
  /\ answer = "none" /\ state = "none"
  /\ answer' = "error" /\ state' \in {"none", "queued"}
  /\ UNCHANGED told

Advance ==
  /\ state \in Live /\ state' \in Onward[state]
  /\ UNCHANGED <<answer, told>>

Stop ==
  /\ answer = "ok" /\ state \in Live /\ state' \in Stopped
  /\ UNCHANGED <<answer, told>>

Ask ==
  /\ answer = "ok" /\ told' = "none"
  /\ UNCHANGED <<state, answer>>

Tell ==
  /\ answer = "ok" /\ told' = StatusOf[state]
  /\ UNCHANGED <<state, answer>>

JobNext == Start \/ Fail \/ Advance \/ Stop \/ Ask \/ Tell

JobSpec == JobInit /\ [][JobNext]_jobVars

-----------------------------------------------------------------------------
(* What follows from the promise *)

\* An end that a client was told is the end of the job, then and ever after.
EndTold == told \in Final => state \in Ended /\ told = StatusOf[state]

\* A job ends once.
EndsOnce == [][(state \in Ended) => (state' = state)]_jobVars
=============================================================================
