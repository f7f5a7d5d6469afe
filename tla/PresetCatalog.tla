--------------------------- MODULE PresetCatalog ---------------------------
(***************************************************************************)
(* What the preset endpoints promise about the catalogue of preset maps,   *)
(* with no redis command, provider call or failure in sight: a name maps   *)
(* to the set of providers that hold the preset; a request changes the     *)
(* catalogue at most once, in one step, and is acknowledged only if it     *)
(* did.  PresetProvisioning implements this specification.                 *)
(***************************************************************************)
EXTENDS FiniteSets

CONSTANTS
  Requests,   \* the requests clients send, each at most once
  Names,      \* preset names
  Providers   \* transcoding providers

VARIABLES
  catalog,    \* catalog[n]: the providers mapped under n; {} when n is free
  phase       \* phase[r]: what request r has done so far

catalogVars == <<catalog, phase>>

CatalogInit ==
  /\ catalog = [n \in Names |-> {}]
  /\ phase = [r \in Requests |-> "open"]

\* Providers are recorded under a name; those recorded before stay recorded.
\* The step may be refused and take effect all the same.
Record(r, n, S) ==
  /\ phase[r] = "open"
  /\ S # {}
  /\ catalog' = [catalog EXCEPT ![n] = @ \cup S]
  /\ \E after \in {"recorded", "refused"} : phase' = [phase EXCEPT ![r] = after]

\* A name is freed, all its providers at once.
Erase(r, n) ==
  /\ phase[r] = "open"
  /\ catalog[n] # {}
  /\ catalog' = [catalog EXCEPT ![n] = {}]
  /\ \E after \in {"erased", "refused"} : phase' = [phase EXCEPT ![r] = after]

\* Only a request that took effect is acknowledged.
Acknowledge(r) ==
  /\ phase[r] \in {"recorded", "erased"}
  /\ phase' = [phase EXCEPT ![r] = "acknowledged"]
  /\ UNCHANGED catalog

\* A request may fail before or after it took effect: an error reply says
\* nothing about the catalogue.
Refuse(r) ==
  /\ phase[r] \in {"open", "recorded", "erased"}
  /\ phase' = [phase EXCEPT ![r] = "refused"]
  /\ UNCHANGED catalog

CatalogNext ==
  \E r \in Requests :
    \/ \E n \in Names : \/ \E S \in SUBSET Providers : Record(r, n, S)
                        \/ Erase(r, n)
    \/ Acknowledge(r)
    \/ Refuse(r)

CatalogSpec == CatalogInit /\ [][CatalogNext]_catalogVars
=============================================================================
