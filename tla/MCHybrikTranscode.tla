-------------------------- MODULE MCHybrikTranscode --------------------------
(* Instances of HybrikTranscode for TLC. *)
EXTENDS HybrikTranscode, TLC

CONSTANTS f1, f2  \* file names

Plain ==
  [container |-> "mp4", picture |-> "ok", sound |-> "ok", codec |-> "h264", profile |-> "none",
   rate |-> "none", kb |-> 3001, twoPass |-> FALSE, hdr10 |-> FALSE, dovi |-> FALSE, from |-> "mp4"]

HDR  == [Plain EXCEPT !.codec = "h265", !.hdr10 = TRUE, !.rate = "vbr", !.from = "mxf"]
DoVi == [Plain EXCEPT !.codec = "h265", !.dovi = TRUE]

MCPresets ==
  [vbr |-> [Plain EXCEPT !.rate = "vbr", !.container = "m3u8"],
   hdr |-> HDR,
   sound |-> [Plain EXCEPT !.picture = "none", !.codec = "none", !.rate = "cbr", !.twoPass = TRUE],
   dovi |-> DoVi,
   both |-> [DoVi EXCEPT !.hdr10 = TRUE, !.profile = "main10"],
   bad |-> [Plain EXCEPT !.rate = "crf"],
   main |-> [HDR EXCEPT !.profile = "main"],
   vp8 |-> [Plain EXCEPT !.codec = "vp8", !.container = "webm", !.picture = "bad"]]

Outputs(names) == [preset : names, file : {f1, f2}]
First(names)   == [preset : names, file : {f1}]

Job(outputs, protocol, source, segmented) ==
  [outputs |-> outputs, protocol |-> protocol, source |-> source,
   locations |-> {source, "s3"}, segmented |-> segmented]

\* Three outputs of two presets, so that one replaces another.
Many == {Job(<<a, b, c>>, p, "s3", s) :
          a \in First({"vbr", "hdr"}), b, c \in Outputs({"vbr", "hdr"}),
          p \in {"none", "hls"}, s \in BOOLEAN}

DoViMany == {Job(<<a, b, c>>, "dash", "gs", FALSE) :
              a \in First({"dovi", "both"}), b, c \in Outputs({"dovi", "both"})}

\* Every pair of presets, those included that cannot be converted or mixed.
Odd == {Job(<<a, b>>, "none", "https", TRUE) :
         a \in First(DOMAIN MCPresets), b \in Outputs(DOMAIN MCPresets)}

NoScheme == {Job(<<a>>, "none", "ftp", FALSE) : a \in First({"vbr"})}

MCJobs == Many \cup DoViMany \cup Odd \cup NoScheme
=============================================================================
