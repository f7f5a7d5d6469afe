----------------------- MODULE MCMediaConvertTranscode -----------------------
(* Instances of MediaConvertTranscode for TLC. *)
EXTENDS MediaConvertTranscode, TLC

CONSTANTS r1, r2, n1, n2

MCNumber == ("0" :> 0) @@ ("60" :> 60) @@ ("300000" :> 300000)

Nothing ==
  [f \in DOMAIN Fields |-> Zero(Fields[f].kind)] @@ [overlays |-> "nil"]

Movie ==
  [Nothing EXCEPT !.container = "mp4", !.codec = "h264", !.bitrate = "300000", !.gop = "60",
                  !.acodec = "aac", !.abitrate = "300000"]

Sound == [Nothing EXCEPT !.container = "mov", !.acodec = "pcm", !.discrete = TRUE, !.normalize = TRUE]

HDR == [Movie EXCEPT !.codec = "h265", !.hdr10 = TRUE, !.level = "5.1", !.rate = "vbr",
                     !.twoPass = TRUE, !.container = "cmaf"]

Broadcast == [Nothing EXCEPT !.container = "mxf", !.codec = "xdcam", !.interlace = "interlaced",
                         !.gop = "60", !.acodec = "pcm"]

MCPresets ==
  {Movie, Sound, HDR, Broadcast,
   [Movie EXCEPT !.container = "m3u8", !.profile = "main", !.interlace = "progressive"],
   [Movie EXCEPT !.codec = "vp8", !.container = "webm", !.acodec = "vorbis", !.unit = "frames"],
   [Movie EXCEPT !.codec = "av1", !.acodec = "opus", !.width = "60"],
   [Movie EXCEPT !.left = 1, !.right = 2],
   [Movie EXCEPT !.left = 1, !.top = 1, !.bottom = 1, !.unit = "seconds"],
   [HDR EXCEPT !.display = "complete"],
   [HDR EXCEPT !.display = "broken"],
   [HDR EXCEPT !.rate = "crf"],
   [Broadcast EXCEPT !.profile = "main"],
   [Broadcast EXCEPT !.hdr10 = TRUE, !.display = "broken"],
   [Movie EXCEPT !.overlays = "burnin"],
   [Movie EXCEPT !.width = "wide"],
   [Movie EXCEPT !.container = "avi"],
   [Sound EXCEPT !.acodec = "mp3"]}

OneEach == r1 :> n1 @@ r2 :> n2
Same    == r1 :> n1 @@ r2 :> n1

\* Every margin of the picture's width that is rounded or not.
Crops == {[Movie EXCEPT !.left = l, !.right = r] : l, r \in 0 .. 3}

MCAskable == {r1 :> a @@ r2 :> b : a \in MCPresets \cup Crops, b \in {Movie, Sound, HDR, Broadcast}}

File(d, s, e) == [dir |-> d, stem |-> s, extension |-> e]
Out(n, f)     == [preset |-> n, file |-> f]

Source(w, scan) == [width |-> w, height |-> 6, scan |-> scan]
Sources == {Source(8, "progressive"), Source(7, "interlaced"), Source(0, "unknown")}

A == File("none", "a", "mp4")
B == File("low", "b", "none")
C == File("low", "c", "m4v")

MCJobs ==
  {[outputs |-> os, source |-> s] :
     os \in {<<Out(n1, A), Out(n2, B), Out(n1, C)>>, <<Out(n2, A), Out(n2, C), Out(n1, B), Out(n2, B)>>},
     s \in Sources}

\* Two requests for different presets of one name, and a job of it.
TwoAskable == {r1 :> a @@ r2 :> b : a, b \in {Movie, HDR}}
OneJob     == {[outputs |-> <<Out(n1, A)>>, source |-> s] : s \in Sources}
=============================================================================
