-------------------------- MODULE CloudContractMC ---------------------------
(* CloudContract for TLC: a conforming body that departs from the default  *)
(* in at most two of its fields, with every audio_setting of the matrix;   *)
(* "aigc_watermark" and "channel" are keys that the code does not know.    *)
EXTENDS CloudContract, TLC

Plain == [model |-> "music-3.0", prompt |-> "text", lyrics |-> "text"]

SomeValues(f) == CASE f = "model"          -> {"other", Null}
                   [] f \in Texts          -> {"empty", "long", Junk}
                   [] f \in Flags          -> {"truthy", "falsy"}
                   [] f \in Covers         -> {"id", Null}
                   [] f = "output_format"  -> {"hex", "url", "other", Null}
                   [] f = "seed"           -> {0, 7, -1, Junk, Null}
                   [] f = "max_new_tokens" -> {0, 1, 9000, 9001, Junk}
                   [] f = "aigc_watermark" -> {"truthy"}

(* The objects, and the same with the key set to each of the values.       *)
Also(objects, key, values) == objects \cup {Put(o, key, v) : o \in objects, v \in values}

Objects == Also(Also(Also(Also({Empty}, "format", FORMAT_ENUM \cup {"other", Null}),
                          "sample_rate", {16000, 44100, 48000, Null}),
                     "bitrate", {64000, 256000, 48000, Null}),
                "channel", {1})

Fields == {"model", "output_format", "seed", "max_new_tokens", "aigc_watermark"}
            \cup Flags \cup Covers \cup Texts

Departing(bodies) == bodies \cup UNION {
  {Drop(b, f) : b \in bodies} \cup {Put(b, f, v) : b \in bodies, v \in SomeValues(f)} : f \in Fields}

WithSettings(bodies) == Also(bodies, "audio_setting", {Null, Junk} \cup Objects)

(* No bit rate, none but the audio's, and the headers' on top of it. *)
TestReadings == {Null, 0, 311}

TestBodies == {Null, Junk} \cup Departing(Departing({Plain}))
                \cup WithSettings(Departing({Plain}))
=============================================================================
