-------------------------- MODULE MediaConvertOutput --------------------------
(* How the mediaconvert provider turns a preset into an output of a job     *)
(* (provider/mediaconvert/preset_mapping.go and a file for each codec).     *)
EXTENDS PresetHash, Integers, Sequences

CONSTANTS
  Number,   \* the texts that parse as numbers, and their values
  Refused,  \* the result of a call that returns an error
  None

Parses(text) == text \in DOMAIN Number
Atoi(text)   == IF Parses(text) THEN Number[text] ELSE 0

Containers ==
  [mxf |-> "MXF", m3u8 |-> "M3U8", cmaf |-> "CMFC", mp4 |-> "MP4", mov |-> "MOV", webm |-> "WEBM"]

-----------------------------------------------------------------------------
(* Video *)

Levels == {"none", "1", "1.0", "2", "2.0", "2.1", "3", "3.0", "3.1", "4", "4.0", "4.1",
           "5", "5.0", "5.1", "5.2", "6", "6.0", "6.1", "6.2"}

RateControl(rate) ==
  CASE rate = "vbr" -> "VBR" [] rate \in {"none", "cbr"} -> "CBR" [] rate = "qvbr" -> "QVBR"
    [] OTHER -> Refused

GopUnit(unit) ==
  CASE unit \in {"none", "frames"} -> "FRAMES" [] unit = "seconds" -> "SECONDS" [] OTHER -> Refused

Settings(p, codec, unit, rate, profile) ==
  IF ~Parses(p.bitrate) \/ ~Parses(p.gop) \/ Refused \in {unit, rate, profile} THEN Refused
  ELSE [codec |-> codec, bitrate |-> Number[p.bitrate], gop |-> Number[p.gop],
        unit |-> unit, rate |-> rate, profile |-> profile,
        passes |-> IF p.twoPass /\ codec \in {"H264", "H265"} THEN 2 ELSE 1]

H264Profile(profile) ==
  CASE profile = "baseline" -> "BASELINE" [] profile = "main" -> "MAIN"
    [] profile \in {"none", "high"} -> "HIGH" [] OTHER -> Refused

H264(p) == Settings(p, "H264", GopUnit(p.unit), RateControl(p.rate), H264Profile(p.profile))

H265(p) ==
  IF p.level \notin Levels THEN Refused
  ELSE Settings(p, "H265", GopUnit(p.unit), RateControl(p.rate),
                IF p.hdr10 THEN "MAIN10_MAIN" ELSE "MAIN_MAIN")

\* vp8 and av1 have one rate control mode and count their gops in frames.
InFrames(unit) == IF unit \in {"none", "frames"} THEN "FRAMES" ELSE Refused

VP8(p) == Settings(p, "VP8", InFrames(p.unit), "VBR", "none")
AV1(p) == Settings(p, "AV1", InFrames(p.unit), "QVBR", "none")

\* mpeg2XDCAM.generate: the defaults and what of the preset is not empty.
XDCAM(p) ==
  IF p.profile \notin {"none", "hd422"} THEN Refused
  ELSE [codec |-> "MPEG2",
        bitrate |-> IF p.bitrate = "none" THEN 50000000 ELSE Atoi(p.bitrate),
        gop |-> IF p.gop = "none" THEN 60 ELSE Atoi(p.gop),
        unit |-> "FRAMES", rate |-> IF p.rate = "none" THEN "CBR" ELSE p.rate,
        profile |-> "PROFILE_422", passes |-> 1]

CodecSettings(p) ==
  CASE p.codec = "xdcam" -> XDCAM(p)
    [] p.codec = "h264" -> H264(p)
    [] p.codec = "h265" -> H265(p)
    [] p.codec = "vp8" -> VP8(p)
    [] p.codec = "av1" -> AV1(p)
    [] OTHER -> Refused

\* A text that has all five pairs of numbers.
DisplayParses(display) == display = "complete"

Preprocessors(p) ==
  IF p.hdr10 /\ p.display # "none" /\ ~DisplayParses(p.display) THEN Refused
  ELSE [hdr10 |-> p.hdr10, burnin |-> p.overlays = "burnin"]

Deinterlacer(interlace, scan) ==
  CASE interlace = "interlaced" \/ scan = "progressive" -> None
    [] interlace # "interlaced" /\ scan = "interlaced" -> "standard"
    [] OTHER -> "adaptive"

RoundEven(i, by) == IF i % 2 # 0 THEN i + by ELSE i

\* Seeded fault: the width is rounded up like the offset.
CropUp(p, src) ==
  IF ZeroStruct(p, "crop") \/ src.width <= 0 \/ src.height <= 0 THEN None
  ELSE [x |-> RoundEven(p.left, 1), width |-> RoundEven(src.width - p.left - p.right, 1),
        y |-> RoundEven(p.top, 1), height |-> RoundEven(src.height - p.top - p.bottom, 1)]

Crop(p, src) ==
  IF ZeroStruct(p, "crop") \/ src.width <= 0 \/ src.height <= 0 THEN None
  ELSE [x |-> RoundEven(p.left, 1), width |-> RoundEven(src.width - p.left - p.right, -1),
        y |-> RoundEven(p.top, 1), height |-> RoundEven(src.height - p.top - p.bottom, -1)]

\* The deferred function of an xdcam preset writes through VideoPreprocessors,
\* which is nil when the settings or the preprocessors are refused.
VideoFrom(p, src) ==
  LET settings == CodecSettings(p)  pre == Preprocessors(p)
  IN CASE p.width # "none" /\ ~Parses(p.width) -> Refused
       [] (p.width = "none" \/ Parses(p.width)) /\ Refused \in {settings, pre} ->
            (IF p.codec = "xdcam" THEN Panic ELSE Refused)
       [] OTHER ->
            [settings |-> settings, pre |-> pre, crop |-> Crop(p, src),
             deinterlacer |-> IF p.codec = "xdcam" THEN None ELSE Deinterlacer(p.interlace, src.scan)]

-----------------------------------------------------------------------------
(* Audio *)

Clamp(level) == CASE level < -1 -> -1 [] level > 10 -> 10 [] OTHER -> level

\* The quality of vorbis for a bitrate in kb/s.
VBRLevel(kb) ==
  Clamp(CASE kb = 0 -> 4
          [] kb # 0 /\ kb <= 128 -> (kb \div 16) - 4
          [] kb > 128 /\ kb <= 256 -> kb \div 32
          [] kb > 256 -> (kb \div 64) + 4)

AudioCodecs == {"pcm", "aac", "opus", "vorbis"}

\* gains[k] is what channel k of the source contributes, in dB.
AudioFrom(p) ==
  IF p.acodec \notin AudioCodecs \/ (p.acodec # "pcm" /\ ~Parses(p.abitrate)) THEN Refused
  ELSE [codec |-> p.acodec, channels |-> 2, gains |-> <<>>, normalize |-> p.normalize,
        bitrate |-> IF p.acodec \in {"aac", "opus"} THEN Number[p.abitrate] ELSE 0,
        quality |-> IF p.acodec = "vorbis" THEN VBRLevel(Number[p.abitrate] \div 1000) ELSE 0]

\* Seeded fault: each track is muted but for its first channel.
AudioSplitFirst(a) ==
  IF a.codec # "pcm" THEN <<a>>
  ELSE [i \in 1 .. a.channels |->
          [a EXCEPT !.channels = 1, !.normalize = FALSE,
                    !.gains = [k \in 1 .. a.channels |-> IF k = 1 THEN 0 ELSE -60]]]

\* One track for each channel, in which the others are muted.
AudioSplit(a) ==
  IF a.codec # "pcm" THEN <<a>>
  ELSE [i \in 1 .. a.channels |->
          [a EXCEPT !.channels = 1, !.normalize = FALSE,
                    !.gains = [k \in 1 .. a.channels |-> IF k = i THEN 0 ELSE -60]]]

AudioTracks(p) ==
  LET a == AudioFrom(p)
  IN CASE ~HasAudio(p) -> <<>>
       [] HasAudio(p) /\ a = Refused -> Refused
       [] OTHER -> IF p.discrete THEN AudioSplit(a) ELSE <<a>>

OutputFrom(p, src) ==
  LET video == IF HasVideo(p) THEN VideoFrom(p, src) ELSE None
      audio == AudioTracks(p)
  IN CASE p.container \notin DOMAIN Containers -> Refused
       [] p.container \in DOMAIN Containers /\ video \in {Refused, Panic} -> video
       [] p.container \in DOMAIN Containers /\ video \notin {Refused, Panic} /\ audio = Refused -> Refused
       [] OTHER -> [container |-> Containers[p.container], video |-> video, audio |-> audio]
=============================================================================
