-------------------------- MODULE MCBitmovinStatus --------------------------
(* Instances of BitmovinStatus for TLC.  The three outputs are one of each *)
(* kind of preset: sound only, picture only, both.                         *)
EXTENDS BitmovinStatus

EachKind == {"sound", "picture", "both"}
Sounding == {"sound", "both"}
Showing  == {"picture", "both"}

\* No splice, one range (never concatenated), and several.
UpToThree == 0 .. 3

Containers(sound, picture, both) ==
  [o \in EachKind |-> CASE o = "sound" -> sound [] o = "picture" -> picture
                        [] OTHER -> both]

\* Two pages of one container; files beside a playlist, in both forms; an HEVC
\* playlist without a manifest; a container nobody serves.
SomeJobs ==
  {Containers("mp4", "mp4", "mp4"), Containers("mov", "webm", "m3u8"),
   Containers("m3u8", "cmafhls", "m3u8"), Containers("cmafhls", "mp4", "mp4"),
   Containers("unknown", "m3u8", "mp4")}
=============================================================================
