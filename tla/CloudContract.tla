--------------------------- MODULE CloudContract ----------------------------
(***************************************************************************)
(* What becomes of one cloud request's fields: the checks and the          *)
(* translation of api/compat/minimax.py, the transcode matrix of           *)
(* api/transcode/ffmpeg.py, the body the engine is sent, the sidecar the   *)
(* runner writes and the GET that reads the delivery settings back from    *)
(* it (api/app/routes/music.py).  How requests share the engine and the    *)
(* delivery slots is CloudEdge's.                                          *)
(*                                                                         *)
(* A JSON object is a function whose domain is the keys that are present;  *)
(* the fields of audio_setting are in an object of their own.  Values are  *)
(* told apart as far as a check tells them apart.                          *)
(***************************************************************************)
EXTENDS Integers, Sequences

CONSTANTS Bodies,    \* what a client may send
          Ceilings,  \* values of translate's hex_ceiling_bytes
          Readings,  \* what ffprobe says of a bit rate: how far the container's is
                     \* off the audio's, Null when it gives none
          Null,      \* JSON null
          Junk       \* a value of a type the field at hand does not have

ASSUME NullAssumption == Null # Junk
ASSUME CeilingsAssumption == Ceilings \subseteq Nat

VARIABLES body,      \* what the client sends, repaired as it is refused
          ceiling,
          stage,     \* "sent", "refused", "queued", "stored" or "answered"
          named,     \* the field the last refusal named, Null for none
          repaired,  \* what the client has put right so far
          job,       \* the LocalRequest of an accepted body
          engineGot, \* the body of the engine call
          sidecar,   \* the request object of sidecar.json
          info,      \* extra_info of the answer
          delivered, \* the audio of the answer, or behind its link
          fetched    \* what the last GET of the result was answered

vars == <<body, ceiling, stage, named, repaired, job, engineGot, sidecar,
          info, delivered, fetched>>

Empty == [key \in {} |-> Null]

(* Mapping.get. *)
Get(obj, key, default) == IF key \in DOMAIN obj THEN obj[key] ELSE default

Put(obj, key, value) == [k \in DOMAIN obj \cup {key} |-> IF k = key THEN value ELSE obj[k]]

Drop(obj, key) == [k \in DOMAIN obj \ {key} |-> obj[k]]
-----------------------------------------------------------------------------
Flags == {"stream", "lyrics_optimizer", "is_instrumental"}
Covers == {"cover_feature_id", "audio_url", "audio_base64"}
Texts == {"prompt", "lyrics"}
SettingFields == {"format", "sample_rate", "bitrate"}

FORMAT_ENUM == {"mp3", "wav", "pcm"}
SAMPLE_RATE_ENUM == {16000, 24000, 32000, 44100}
BITRATE_ENUM == {32000, 64000, 128000, 256000}

Native == [sample_rate |-> 32000, channels |-> 2]

(* resolve_transcode begins: null and an absent object are an empty one.   *)
Given(setting) == IF setting = Null THEN Empty ELSE setting

(* Slip: an explicit null is no bitrate. *)
BitrateMeantForMp3(s) == IF Get(s, "format", "wav") = "mp3"
                         THEN Get(s, "bitrate", 128000) \in BITRATE_ENUM
                         ELSE Get(s, "bitrate", Null) = Null

(* For wav and pcm the key alone is refused, for mp3 the value counts.     *)
BitrateOk(s) == IF Get(s, "format", "wav") = "mp3"
                THEN Get(s, "bitrate", 128000) \in BITRATE_ENUM
                ELSE "bitrate" \notin DOMAIN s

SettingFaults(setting) ==
  IF setting = Junk THEN {"audio_setting"}
  ELSE LET s == Given(setting)
       IN {f \in SettingFields :
             CASE f = "format"      -> Get(s, f, "wav") \notin FORMAT_ENUM
               [] f = "sample_rate" -> Get(s, f, Native.sample_rate) \notin SAMPLE_RATE_ENUM
               [] f = "bitrate"     -> ~BitrateOk(s)}

(* The TranscodePlan of settings without faults. *)
Plan(setting) ==
  LET s == Given(setting)
      fmt == Get(s, "format", "wav")
  IN [container   |-> fmt,
      sample_rate |-> Get(s, "sample_rate", Native.sample_rate),
      channels    |-> Native.channels,
      bitrate     |-> IF fmt = "mp3" THEN Get(s, "bitrate", 128000) ELSE Null]
-----------------------------------------------------------------------------
(* translate. *)

Setting(b) == Get(b, "audio_setting", Null)

(* What is wrong with a body, each fault by the field its refusal names:   *)
(* flags that must be falsy, covers that must be absent, the other fields. *)
FlagFaults(b)  == {f \in Flags : Get(b, f, "falsy") # "falsy"}
CoverFaults(b) == {f \in Covers : f \in DOMAIN b}
ValueFaults(b) ==
  {f \in {"model"} : Get(b, f, Null) # "music-3.0"}
    \cup {f \in Texts : Get(b, f, Null) # "text"}
    \cup {f \in {"output_format"} : Get(b, f, "hex") \notin {"hex", "url"}}
    \cup {f \in {"seed"} : Get(b, f, 0) \notin Nat}
    \cup {f \in {"max_new_tokens"} : Get(b, f, 9000) \notin 1 .. 9000}

Faults(b) == FlagFaults(b) \cup CoverFaults(b) \cup ValueFaults(b)
               \cup SettingFaults(Setting(b))

(* The order of the checks. *)
Order == <<"model", "stream", "lyrics_optimizer", "is_instrumental",
           "cover_feature_id", "audio_url", "audio_base64", "prompt", "lyrics",
           "output_format", "seed", "max_new_tokens",
           "audio_setting", "format", "sample_rate", "bitrate">>

ASSUME NamesAssumption == \A i \in DOMAIN Order : Order[i] # Null

First(faults) == Order[CHOOSE i \in DOMAIN Order :
                         /\ Order[i] \in faults
                         /\ \A k \in 1 .. i - 1 : Order[k] \notin faults]

(* estimate_hex_bytes: two characters a byte, 25 frames a second; every    *)
(* rate of the two enums divides evenly.                                   *)
HexBytes(tokens, plan) == IF plan.container = "mp3"
                          THEN 2 * tokens * (plan.bitrate \div (8 * 25))
                          ELSE 2 * tokens * (plan.sample_rate \div 25) * plan.channels * 2

TooLarge(b, limit) ==
  /\ Get(b, "output_format", "hex") = "hex"
  /\ HexBytes(Get(b, "max_new_tokens", 9000), Plan(Setting(b))) > limit

Accepts(b, limit) == b \notin {Null, Junk} /\ Faults(b) = {} /\ ~TooLarge(b, limit)

(* Slip: an unsuitable bitrate is put down to the format. *)
NamedBlamingFormat(b) == IF b \in {Null, Junk} THEN Null
                         ELSE IF Faults(b) = {} THEN "output_format"
                         ELSE IF First(Faults(b)) = "bitrate" THEN "format"
                         ELSE First(Faults(b))

(* The field a CompatError carries: none for what is no JSON object, the   *)
(* first faulty one, and the delivery of what would be too large.          *)
Named(b) == IF b \in {Null, Junk} THEN Null
            ELSE IF Faults(b) = {} THEN "output_format"
            ELSE First(Faults(b))

RecordedFields == {"model", "output_format", "seed", "max_new_tokens", "audio_setting"}
                    \cup Texts \cup Flags

(* Slip: the body is recorded whole, with keys that no check knows. *)
RecordedWhole(b) == b

(* Slip: the effective settings are recorded, not the received ones. *)
RecordedEffective(b) == [f \in RecordedFields \cap DOMAIN b |->
  IF f = "audio_setting"
  THEN [format |-> Plan(b[f]).container, sample_rate |-> Plan(b[f]).sample_rate,
        bitrate |-> Plan(b[f]).bitrate]
  ELSE b[f]]

(* The envelope as received: the documented fields that are present.       *)
Recorded(b) == [f \in RecordedFields \cap DOMAIN b |-> b[f]]

LocalRequest(b) == [input          |-> Get(b, "lyrics", Null),
                    instructions   |-> Get(b, "prompt", Null),
                    seed           |-> Get(b, "seed", 0),
                    max_new_tokens |-> Get(b, "max_new_tokens", 9000),
                    output_format  |-> Get(b, "output_format", "hex"),
                    plan           |-> Plan(Setting(b)),
                    cloud          |-> Recorded(b)]
-----------------------------------------------------------------------------
(* The other ends: the engine call, the sidecar, the transcoded file.      *)

(* build_body, with the fields a request decides. *)
BuildBody(local) == [input |-> local.input, instructions |-> local.instructions,
                     seed |-> local.seed, max_new_tokens |-> local.max_new_tokens,
                     response_format |-> "wav", stream |-> FALSE]

(* The request object of build_sidecar. *)
BuildSidecar(local) == [seed |-> local.seed, max_new_tokens |-> local.max_new_tokens,
                        translated |-> BuildBody(local), cloud |-> local.cloud]

(* The bit rate libmp3lame makes of the one it is asked for: below 32 kHz  *)
(* its layer III ends at 160 kbps.                                         *)
EncoderRate(sample_rate, bitrate) ==
  IF sample_rate < 32000 /\ bitrate > 160000 THEN 160000 ELSE bitrate

(* Samples of 16 bits. *)
PcmRate(sample_rate, channels) == sample_rate * channels * 16

(* ffmpeg's file for _output_args(plan): headerless pcm does not say its   *)
(* own rate.                                                               *)
Transcoded(plan) ==
  [container   |-> plan.container,
   sample_rate |-> plan.sample_rate,
   bitrate     |-> IF plan.container = "mp3" THEN EncoderRate(plan.sample_rate, plan.bitrate)
                   ELSE PcmRate(plan.sample_rate, plan.channels),
   header      |-> IF plan.container = "pcm" THEN Null ELSE plan.sample_rate]

(* measure, and extra_info made of it: of a file with a header what        *)
(* ffprobe reads, whose bit rate is the container's.                       *)
Measure(file, plan, reading) ==
  LET rate == IF plan.container = "pcm" THEN plan.sample_rate ELSE file.header
  IN [music_sample_rate |-> rate,
      bitrate |-> IF plan.container = "pcm" \/ reading = Null
                  THEN PcmRate(rate, plan.channels) ELSE file.bitrate + reading]
-----------------------------------------------------------------------------
Init == /\ body \in Bodies
        /\ ceiling \in Ceilings
        /\ stage = "sent"
        /\ named = Null
        /\ repaired = {}
        /\ job = Null
        /\ engineGot = Null
        /\ sidecar = Null
        /\ info = Null
        /\ delivered = Null
        /\ fetched = Null

PostRefused == /\ stage = "sent"
               /\ ~Accepts(body, ceiling)
               /\ named' = Named(body)
               /\ stage' = "refused"
               /\ UNCHANGED <<body, ceiling, repaired, job, engineGot, sidecar,
                              info, delivered, fetched>>

PostSubmits == /\ stage = "sent"
               /\ Accepts(body, ceiling)
               /\ job' = LocalRequest(body)
               /\ stage' = "queued"
               /\ UNCHANGED <<body, ceiling, named, repaired, engineGot, sidecar,
                              info, delivered, fetched>>

(* The runner: one engine call, and its artifact. *)
Generates == /\ stage = "queued"
             /\ engineGot' = BuildBody(job)
             /\ sidecar' = BuildSidecar(job)
             /\ stage' = "stored"
             /\ UNCHANGED <<body, ceiling, named, repaired, job, info, delivered, fetched>>

PostAnswers == /\ stage = "stored"
               /\ delivered' = Transcoded(job.plan)
               /\ \E reading \in Readings :
                    info' = Measure(Transcoded(job.plan), job.plan, reading)
               /\ stage' = "answered"
               /\ UNCHANGED <<body, ceiling, named, repaired, job, engineGot,
                              sidecar, fetched>>

LocalFailure == [code |-> 5000]

(* music_result, for the job of this request: it knows the sidecar only.   *)
GetAnswers == /\ stage \in {"stored", "answered"}
              /\ fetched' = LET setting == Setting(sidecar.cloud)
                            IN IF SettingFaults(setting) = {}
                               THEN Transcoded(Plan(setting)) ELSE LocalFailure
              /\ UNCHANGED <<body, ceiling, stage, named, repaired, job, engineGot,
                             sidecar, info, delivered>>
-----------------------------------------------------------------------------
(* A client that puts right what a refusal names, and nothing else; a body *)
(* whose answer would be too large it sends again as the message says,     *)
(* with url.                                                               *)

Amended(b, f, v) == IF f \in SettingFields
                    THEN Put(b, "audio_setting", Put(Given(Setting(b)), f, v))
                    ELSE Put(b, f, v)

Values(f) == CASE f = "model"          -> {"music-3.0"}
               [] f \in Texts          -> {"text"}
               [] f \in Flags          -> {"falsy"}
               [] f = "output_format"  -> {"hex", "url"}
               [] f = "seed"           -> {0, 7}
               [] f = "max_new_tokens" -> {1, 9000}
               [] f = "audio_setting"  -> {Null, Empty}
               [] f = "format"         -> FORMAT_ENUM
               [] f = "sample_rate"    -> {16000, 44100}

Repairs(b, f) ==
  IF Faults(b) = {} THEN {Put(b, "output_format", "url")}
  ELSE CASE f \in Covers  -> {Drop(b, f)}
         [] f = "bitrate" -> {Put(b, "audio_setting", Drop(Setting(b), "bitrate"))}
         [] OTHER         -> {Amended(b, f, v) : v \in Values(f)}

(* What a refusal is about: a faulty field, or the size of the answer.     *)
Complaint(b) == IF b \notin {Null, Junk} /\ Faults(b) = {} THEN "size" ELSE Named(b)

Repair == /\ stage = "refused"
          /\ named # Null
          /\ body' \in Repairs(body, named)
          /\ repaired' = repaired \cup {Complaint(body)}
          /\ stage' = "sent"
          /\ UNCHANGED <<ceiling, named, job, engineGot, sidecar, info, delivered, fetched>>

Next == PostRefused \/ PostSubmits \/ Generates \/ PostAnswers \/ GetAnswers \/ Repair

Spec == Init /\ [][Next]_vars
-----------------------------------------------------------------------------
(* The types of what is kept about the request on its way. *)
TypeOK == /\ stage \in {"sent", "refused", "queued", "stored", "answered"}
          /\ named \in {Null} \cup {Order[i] : i \in DOMAIN Order}
          /\ repaired \subseteq {"size"} \cup {Order[i] : i \in DOMAIN Order}
          /\ stage \in {"queued", "stored", "answered"} => Accepts(body, ceiling)
          /\ fetched # Null => stage \in {"stored", "answered"}

(* A refusal names a field whose repair helps: a client that puts right    *)
(* what it is told, field by field, never gets the same complaint again,   *)
(* so it is accepted after as many rounds as it has faulty fields, and one *)
(* more if the answer is then too large.  Only what is no JSON object is   *)
(* refused without a name.                                                 *)
RefusalsCanBeRepaired == stage = "refused" => /\ Complaint(body) \notin repaired
                                              /\ named = Null <=> body \in {Null, Junk}

(* The fields translate knows, and what is left of a body without others.  *)
Documented == RecordedFields \cup Covers

KnownSetting(setting) ==
  IF setting \in {Null, Junk} THEN setting
  ELSE [f \in DOMAIN setting \cap SettingFields |-> setting[f]]

Known(b) == [f \in DOMAIN b \cap Documented |->
               IF f = "audio_setting" THEN KnownSetting(b[f]) ELSE b[f]]

(* "Never silently defaulted" (INV-7), as far as it goes: of an accepted   *)
(* request every field translate knows, if it is present, has its effect   *)
(* on the engine call, on the delivered audio and on what is reported      *)
(* about it, or says what the default does.  A bit rate is the encoder's   *)
(* for the one that was asked for; what is reported of it is measured.     *)
TakesEffect(f, v) ==
  /\ f \notin Covers
  /\ f \in Flags => v = "falsy"
  /\ f = "prompt" => engineGot.instructions = v
  /\ f = "lyrics" => engineGot.input = v
  /\ f = "seed" => engineGot.seed = v
  /\ f = "max_new_tokens" => engineGot.max_new_tokens = v
  /\ f = "output_format" => job.output_format = v

SettingTakesEffect(f, v) ==
  /\ f = "format" => delivered.container = v
  /\ f = "sample_rate" => delivered.sample_rate = v /\ info.music_sample_rate = v
  /\ f = "bitrate" => /\ delivered.container = "mp3"
                      /\ delivered.bitrate = EncoderRate(delivered.sample_rate, v)

KnownFieldsTakeEffect == stage = "answered" =>
  /\ \A f \in DOMAIN body \cap Documented : TakesEffect(f, body[f])
  /\ LET s == Given(Setting(body))
     IN \A f \in DOMAIN s \cap SettingFields : SettingTakesEffect(f, s[f])

(* Any other key of the body or of its audio_setting is ignored: it makes  *)
(* no difference to the refusal or to the job, the engine call and the     *)
(* audio of either delivery, and is not recorded as a field of its own     *)
(* (tests/test_lifecycle_ingress.py: "discards unknown fields").           *)
UnknownFieldsAreInert ==
  LET known == Known(body)
      asKnown == LocalRequest(known)
  IN /\ stage = "refused" /\ body \notin {Null, Junk} =>
          ~Accepts(known, ceiling) /\ named = Named(known)
     /\ stage \in {"queued", "stored", "answered"} =>
          /\ Accepts(known, ceiling)
          /\ job = [asKnown EXCEPT !.cloud = job.cloud]
          /\ DOMAIN job.cloud = DOMAIN known
     /\ engineGot # Null => engineGot = BuildBody(asKnown)
     /\ \A audio \in {delivered, fetched} : audio # Null => audio = Transcoded(asKnown.plan)

(* The GET knows the sidecar only, and delivers what the POST planned:     *)
(* "so hex and url still agree".  Its 5000 for invalid recorded settings   *)
(* is never needed for what a POST has recorded.                           *)
LinkDeliversThePlan == /\ fetched # Null => fetched = Transcoded(job.plan)
                       /\ fetched # Null /\ delivered # Null => fetched = delivered
=============================================================================
