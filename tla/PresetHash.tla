------------------------------ MODULE PresetHash ------------------------------
(* A local preset as the redis hash it is saved to and loaded from          *)
(* (db/redis/storage/redis.go, over the tags of db/types.go).               *)
EXTENDS Naturals

CONSTANT Panic  \* the result of a call that panics

\* The empty string is "none" here. A field has a kind, whether it is marked
\* omitempty, and the struct it lies in.
Text(of)   == [kind |-> "text", omit |-> TRUE, of |-> of]
Flag(of)   == [kind |-> "flag", omit |-> FALSE, of |-> of]
Amount(of) == [kind |-> "amount", omit |-> TRUE, of |-> of]

Fields ==
  [container |-> Text("preset"), rate |-> Text("preset"), twoPass |-> Flag("preset"),
   codec |-> Text("video"), profile |-> Text("video"), level |-> Text("video"),
   width |-> Text("video"), bitrate |-> Text("video"), gop |-> Text("video"),
   unit |-> Text("video"), interlace |-> Text("video"),
   hdr10 |-> Flag("hdr10"), display |-> Text("hdr10"),
   left |-> Amount("crop"), right |-> Amount("crop"), top |-> Amount("crop"), bottom |-> Amount("crop"),
   acodec |-> Text("audio"), abitrate |-> Text("audio"),
   normalize |-> [Flag("audio") EXCEPT !.omit = TRUE],
   discrete |-> [Flag("audio") EXCEPT !.omit = TRUE]]

Margins == {"left", "right", "top", "bottom"}

\* What the types of its fields make of a preset; margins are what is cut off.
IsPreset(p) ==
  /\ p = [f \in DOMAIN Fields \cup {"overlays"} |-> p[f]]
  /\ \A f \in DOMAIN Fields : /\ Fields[f].kind = "flag" => p[f] \in BOOLEAN
                              /\ Fields[f].kind = "amount" => p[f] \in Nat

OmittedIfZero == {"hdr10", "crop"}  \* structs marked omitempty

Zero(kind) == CASE kind = "text" -> "none" [] kind = "flag" -> FALSE [] kind = "amount" -> 0

IsZero(p, f)     == p[f] = Zero(Fields[f].kind)
ZeroStruct(p, s) == \A f \in DOMAIN Fields : Fields[f].of = s => IsZero(p, f)

\* preset.Video and preset.Audio against their zero values.
HasVideo(p) ==
  p.overlays # "nil" \/ \E s \in {"video", "hdr10", "crop"} : ~ZeroStruct(p, s)
HasAudio(p) == ~ZeroStruct(p, "audio")

\* A number is written in decimal digits, a flag as a word: neither is empty,
\* so that omitempty leaves out only an empty text.
Written(kind, x) ==
  CASE kind = "text" -> x
    [] kind = "flag" -> (IF x THEN "true" ELSE "false")
    [] kind = "amount" -> [digits |-> x]

Parsed(kind, text) ==
  CASE kind = "text" -> text
    [] kind = "flag" -> text = "true"
    [] kind = "amount" -> text.digits

\* Seeded fault: a struct marked omitempty is left out whatever it holds.
OmittedStruct(p, f) ==
  \/ Fields[f].of \in OmittedIfZero
  \/ Fields[f].kind = "text" /\ Fields[f].omit /\ p[f] = "none"

Omitted(p, f) ==
  \/ Fields[f].of \in OmittedIfZero /\ ZeroStruct(p, Fields[f].of)
  \/ Fields[f].kind = "text" /\ Fields[f].omit /\ p[f] = "none"

\* Overlays is a pointer to a struct marked omitempty that holds a slice: the
\* comparison with its zero value panics.
FieldMap(p) ==
  IF p.overlays # "nil" THEN Panic
  ELSE [f \in {g \in DOMAIN Fields : ~Omitted(p, g)} |-> Written(Fields[f].kind, p[f])]

\* Load starts from the zero preset, in which Overlays is nil and stays it.
Load(hash) ==
  [f \in DOMAIN Fields \cup {"overlays"} |->
     IF f = "overlays" THEN "nil"
     ELSE IF f \in DOMAIN hash THEN Parsed(Fields[f].kind, hash[f])
     ELSE Zero(Fields[f].kind)]

\* HMSET sets the fields it is given and leaves the others.
HMSet(hash, fields) ==
  [f \in DOMAIN hash \cup DOMAIN fields |-> IF f \in DOMAIN fields THEN fields[f] ELSE hash[f]]
=============================================================================
