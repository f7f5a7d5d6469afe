---------------------------- MODULE EncodingCall ----------------------------
(***************************************************************************)
(* What a call of Transcode promises about the encoding it asks bitmovin   *)
(* for: the encoding is put together part by part, it runs only when it    *)
(* has every part, nothing is added to it afterwards, and the caller is    *)
(* told ok only if it runs.  BitmovinTranscode implements this.            *)
(***************************************************************************)
CONSTANT Parts      \* what the job asks for: its outputs

VARIABLES
  encoding,         \* none, created or running, in bitmovin
  parts,            \* the parts it has
  answer            \* what the caller was told: none, ok or error

callVars == <<encoding, parts, answer>>

CallInit == encoding = "none" /\ parts = {} /\ answer = "none"

Create ==
  /\ encoding = "none" /\ answer = "none"
  /\ encoding' = "created"
  /\ answer' \in {"none", "error"}  \* a reply of the API may be lost
  /\ UNCHANGED parts

\* Parts may still be added to an encoding its caller has given up.
Add(p) ==
  /\ encoding = "created"
  /\ parts' = parts \cup {p}
  /\ UNCHANGED <<encoding, answer>>

Run ==
  /\ encoding = "created" /\ answer = "none" /\ parts = Parts
  /\ encoding' = "running"
  /\ answer' \in {"ok", "error"}
  /\ UNCHANGED parts

Reject ==
  /\ answer = "none"
  /\ answer' = "error"
  /\ UNCHANGED <<encoding, parts>>

CallNext == Create \/ (\E p \in Parts : Add(p)) \/ Run \/ Reject

CallSpec == CallInit /\ [][CallNext]_callVars
=============================================================================
