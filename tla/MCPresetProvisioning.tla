------------------------ MODULE MCPresetProvisioning ------------------------
(* Instances of PresetProvisioning for TLC. *)
EXTENDS PresetProvisioning, TLC

CONSTANTS n1, n2, local1, local2  \* names and local providers

Ask(op, n, ps)  == [op |-> op, name |-> n, providers |-> ps, mapping |-> Unmapped]
Body(op, n, m)  == [op |-> op, name |-> n, providers |-> {}, mapping |-> m @@ Unmapped]

\* The preset endpoints on one name, as clients of POST and DELETE /presets and
\* of /presetmaps use them.
AllCalls ==
  {Ask("newPreset", n1, {local1, Bitmovin}),
   Ask("deletePreset", n1, {}),
   Body("newPresetMap", n1, local1 :> n1),
   Body("updatePresetMap", n1, local1 :> n1),
   Ask("deletePresetMap", n1, {})}

\* Two names whose maps may name each other's presets.
AliasCalls ==
  {Ask("newPreset", n1, {Bitmovin}),
   Body("newPresetMap", n2, (Bitmovin :> n1) @@ (local1 :> n2)),
   Body("updatePresetMap", n1, local1 :> NoId),
   Ask("deletePreset", n1, {}), Ask("deletePreset", n2, {})}

MapCalls ==
  {Body("newPresetMap", n1, local1 :> n1), Ask("deletePresetMap", n1, {})}

Symmetry == Permutations(Requests)
=============================================================================
