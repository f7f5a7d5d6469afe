--------------------------- MODULE ProviderStates ---------------------------
(* What becomes of a job at any provider, as the service can tell, and the *)
(* status that JobStatus makes of it (provider/provider.go).               *)
CONSTANT
  Canceled   \* the status a provider's JobStatus gives a canceled job: hybrik's
             \* has no case for it and leaves the status empty

ASSUME StatesAssumption == Canceled \in {"canceled", "empty"}

Live  == {"queued", "running", "stopping"}
Ended == {"complete", "error", "canceled"}

Final == {"finished", "failed", "canceled"}

Statuses == {"none", "queued", "started", Canceled} \cup Final

\* Where a provider may take a job, and where a cancel may.
Onward ==
  [queued |-> {"running", "complete", "error"}, running |-> {"complete", "error"}, stopping |-> Ended]

Stopped == {"stopping", "canceled"}

\* Seeded fault: no case for a job that is being stopped.
StatusOfSomeStates ==
  [queued |-> "queued", running |-> "started", stopping |-> "unknown",
   complete |-> "finished", error |-> "failed", canceled |-> Canceled]

\* JobStatus of a provider's state of a job, as each provider maps it.
StatusOf == [queued |-> "queued", running |-> "started", stopping |-> "started",
             complete |-> "finished", error |-> "failed", canceled |-> Canceled]
=============================================================================
