--------------------------- MODULE HybrikElements ---------------------------
(* How the hybrik provider turns a preset into a target of a transcode      *)
(* element (provider/hybrik/preset_mapping.go, hdr.go, rate_control.go,     *)
(* mxf.go): a target is built from the preset and then changed by the       *)
(* modifiers that the preset calls for, one after the other.                *)
EXTENDS Integers

CONSTANT Refused  \* the result of a conversion that returns an error

\* A preset has a container, a picture ("none", "ok", or "bad" if a number or
\* a unit does not parse), a sound alike, a codec and profile, a rate control
\* mode, a bitrate in kb, and flags; `from` is the container of its source.
IsPreset(p) ==
  /\ DOMAIN p = {"container", "picture", "sound", "codec", "profile", "rate", "kb", "twoPass",
                 "hdr10", "dovi", "from"}
  /\ {p.picture, p.sound} \subseteq {"none", "ok", "bad"}
  /\ {p.hdr10, p.dovi, p.twoPass} \subseteq BOOLEAN
  /\ p.kb \in Nat
  /\ p.hdr10 \/ p.dovi => p.picture # "none"

OutputFormats == {"mp4", "hls", "webm", "mov"}

ContainerKind(p) == IF p.container = "m3u8" THEN "hls" ELSE p.container

StorageProvider(scheme) ==
  CASE scheme = "s3" -> "s3"
    [] scheme = "gs" -> "gs"
    [] scheme \in {"http", "https"} -> "http"
    [] OTHER -> Refused

SupportsSegmentedRendering(provider) == provider # "http"

NoVideo ==
  [codec |-> "none", profile |-> "none", mode |-> "none", kb |-> 0,
   minKb |-> 0, maxKb |-> 0, chroma |-> "none", hdr10 |-> "none"]

VideoTarget(p) ==
  IF p.picture = "none" THEN NoVideo
  ELSE [codec |-> p.codec,
        profile |-> IF p.codec = "vp8" THEN "none" ELSE p.profile,
        mode |-> p.rate, kb |-> p.kb, minKb |-> 0, maxKb |-> 0,
        chroma |-> "yuv420p", hdr10 |-> "none"]

PercentTarget(kb, percent) == (kb * (100 + percent)) \div 100

\* Seeded fault: the minimum lies above the rate, its sign is dropped.
RateControlAbove(t, p) ==
  IF p.rate \notin {"vbr", "cbr"} THEN Refused
  ELSE [t EXCEPT
          !.video.mode = p.rate,
          !.video.minKb = IF p.rate = "vbr" THEN PercentTarget(t.video.kb, 10) ELSE @,
          !.video.maxKb = IF p.rate = "vbr" THEN PercentTarget(t.video.kb, 10) ELSE @]

RateControl(t, p) ==
  IF p.rate \notin {"vbr", "cbr"} THEN Refused
  ELSE [t EXCEPT
          !.video.mode = p.rate,
          !.video.minKb = IF p.rate = "vbr" THEN PercentTarget(t.video.kb, -10) ELSE @,
          !.video.maxKb = IF p.rate = "vbr" THEN PercentTarget(t.video.kb, 10) ELSE @]

HDRType(p) ==
  CASE p.hdr10 -> "hdr10"
    [] p.dovi /\ ~p.hdr10 -> "dolbyVision"
    [] OTHER -> "none"

\* h265 has to be main10, which is also what an empty profile becomes.
HDRProfile(v) == IF v.codec = "h265" /\ v.profile = "none" THEN "main10" ELSE v.profile

HDRMetadata(t, p) ==
  IF t.video.codec = "h265" /\ t.video.profile \notin {"none", "main10"} THEN Refused
  ELSE LET hdr == [t EXCEPT !.video.profile = HDRProfile(t.video),
                            !.video.chroma = "yuv420p10le"]
       IN IF HDRType(p) = "hdr10"
          THEN [hdr EXCEPT !.video.hdr10 = "media"]
          ELSE [hdr EXCEPT !.container = "elementary"]

MXFSource(t, p) ==
  [t EXCEPT !.passes = IF HDRType(p) # "none" THEN 2 ELSE @,
            !.video.hdr10 = IF p.hdr10 THEN "source_metadata" ELSE @]

\* Seeded fault: the modifier of mxf sources runs before that of HDR.
ModifiedMXFFirst(t, p) ==
  LET rated == IF p.rate # "none" /\ p.picture # "none" THEN RateControl(t, p) ELSE t
      mxf   == IF rated # Refused /\ p.from = "mxf" THEN MXFSource(rated, p) ELSE rated
  IN IF mxf # Refused /\ HDRType(p) # "none" THEN HDRMetadata(mxf, p) ELSE mxf

Modified(t, p) ==
  LET rated == IF p.rate # "none" /\ p.picture # "none" THEN RateControl(t, p) ELSE t
      hdr   == IF rated # Refused /\ HDRType(p) # "none" THEN HDRMetadata(rated, p) ELSE rated
  IN IF hdr # Refused /\ p.from = "mxf" THEN MXFSource(hdr, p) ELSE hdr

Target(p, file) ==
  IF \/ ContainerKind(p) \notin OutputFormats
     \/ "bad" \in {p.picture, p.sound}
  THEN Refused
  ELSE Modified([file |-> file, container |-> ContainerKind(p),
                 passes |-> IF p.twoPass THEN 2 ELSE 1,
                 video |-> VideoTarget(p), audio |-> p.sound = "ok"], p)

\* The legacy Dolby Vision element takes the sound from the source.
WithoutAudio(p) == [p EXCEPT !.sound = "none"]
=============================================================================
