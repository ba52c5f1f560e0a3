------------------------ MODULE CloudContractProofs -------------------------
(***************************************************************************)
(* The fields of a request on their way, for any body a client may send    *)
(* and any ceiling of the answer's size.                                   *)
(***************************************************************************)
EXTENDS CloudContract, WellFoundedInduction, TLAPS

Accepted == stage \in {"queued", "stored", "answered"}
Stored == stage \in {"stored", "answered"}

(* What each stage has made of the body. *)
IInv == /\ stage \in {"sent", "refused", "queued", "stored", "answered"}
        /\ stage = "refused" => ~Accepts(body, ceiling) /\ named = Named(body)
        /\ Accepted => Accepts(body, ceiling) /\ job = LocalRequest(body)
        /\ Stored => engineGot = BuildBody(job) /\ sidecar = BuildSidecar(job)
        /\ fetched # Null => Stored /\ fetched = Transcoded(job.plan)
        /\ delivered # Null => delivered = Transcoded(job.plan)
        /\ delivered # Null => stage = "answered"
        /\ engineGot # Null => Stored
        /\ stage = "answered" => /\ delivered = Transcoded(job.plan)
                                 /\ \E r \in Readings : info = Measure(delivered, job.plan, r)

(* The sidecar keeps the audio settings as they were received: absent, or  *)
(* null, or an object.                                                     *)
LEMMA SettingIsKept == ASSUME NEW b PROVE Setting(Recorded(b)) = Setting(b)
BY DEF Setting, Recorded, Get, RecordedFields

(* What a body without faults is free of. *)
LEMMA NoFaults ==
  ASSUME NEW b, Faults(b) = {}
  PROVE  /\ SettingFaults(Setting(b)) = {}
         /\ \A f \in Flags : Get(b, f, "falsy") = "falsy"
         /\ \A f \in Covers : f \notin DOMAIN b
<1>1. FlagFaults(b) = {} /\ CoverFaults(b) = {} /\ SettingFaults(Setting(b)) = {}
  BY DEF Faults
<1>2. \A f \in Flags : Get(b, f, "falsy") = "falsy"
  BY <1>1 DEF FlagFaults
<1>3. \A f \in Covers : f \notin DOMAIN b
  BY <1>1 DEF CoverFaults
<1> QED
  BY <1>1, <1>2, <1>3

(* An accepted body's settings have no fault. *)
LEMMA NoSettingFaults ==
  ASSUME NEW b, NEW limit, Accepts(b, limit)
  PROVE  SettingFaults(Setting(b)) = {}
BY NoFaults DEF Accepts

LEMMA InitIInv == Init => IInv
BY DEF Init, IInv, Accepted, Stored

LEMMA InvStep == IInv /\ [Next]_vars => IInv'
<1> SUFFICES ASSUME IInv, [Next]_vars PROVE IInv'
  OBVIOUS
<1>1. CASE PostRefused
  BY <1>1 DEF PostRefused, IInv, Accepted, Stored
<1>2. CASE PostSubmits
  BY <1>2 DEF PostSubmits, IInv, Accepted, Stored
<1>3. CASE Generates
  BY <1>3 DEF Generates, IInv, Accepted, Stored
<1>4. CASE PostAnswers
  BY <1>4 DEF PostAnswers, IInv, Accepted, Stored
<1>5. CASE GetAnswers
  <2>1. /\ Accepted /\ Stored
        /\ UNCHANGED <<body, ceiling, stage, named, repaired, job, engineGot, sidecar, info, delivered>>
    BY <1>5 DEF GetAnswers, Accepted, Stored
  <2>2. sidecar.cloud = Recorded(body) /\ job.plan = Plan(Setting(body))
    BY <2>1 DEF IInv, LocalRequest, BuildSidecar
  <2>3. fetched' = Transcoded(job.plan)
    BY <1>5, <2>1, <2>2, SettingIsKept, NoSettingFaults DEF GetAnswers, IInv
  <2> QED
    BY <2>1, <2>3 DEF IInv, Accepted, Stored
<1>6. CASE Repair
  BY <1>6 DEF Repair, IInv, Accepted, Stored
<1>7. CASE UNCHANGED vars
  BY <1>7 DEF vars, IInv, Accepted, Stored
<1> QED
  BY <1>1, <1>2, <1>3, <1>4, <1>5, <1>6, <1>7 DEF Next

(* The invariant holds from the start and for ever. *)
LEMMA Invariance == Spec => []IInv
BY InitIInv, InvStep, PTL DEF Spec

(* GET /result knows the sidecar only and delivers what the POST planned,  *)
(* whatever the body was (music.py: music_result).                         *)
THEOREM LinkAgrees == Spec => []LinkDeliversThePlan
<1>1. IInv => LinkDeliversThePlan
  BY DEF IInv, LinkDeliversThePlan
<1> QED
  BY <1>1, Invariance, PTL

(* INV-7: every field of an accepted body that translate knows takes       *)
(* effect on the engine call, on the delivered audio and on what is        *)
(* reported about it.                                                      *)
THEOREM KnownTakeEffect == Spec => []KnownFieldsTakeEffect
<1>1. ASSUME IInv, stage = "answered" PROVE KnownFieldsTakeEffect
  <2> DEFINE s == Given(Setting(body))
             p == Plan(Setting(body))
  <2>1. /\ Accepts(body, ceiling)
        /\ job = LocalRequest(body)
        /\ engineGot = BuildBody(job)
        /\ delivered = Transcoded(job.plan)
        /\ \E r \in Readings : info = Measure(delivered, job.plan, r)
    BY <1>1 DEF IInv, Accepted, Stored
  <2>2. Faults(body) = {} /\ SettingFaults(Setting(body)) = {} /\ job.plan = p
    <3>1. Faults(body) = {} /\ SettingFaults(Setting(body)) = {}
      BY <2>1, NoSettingFaults DEF Accepts
    <3> QED
      BY <2>1, <3>1 DEF LocalRequest
  <2>3. ASSUME NEW f \in DOMAIN body \cap Documented PROVE TakesEffect(f, body[f])
    <3>1. CASE f \in Flags
      <4>1. body[f] = "falsy"
        BY <2>2, <2>3, <3>1, NoFaults DEF Get
      <4> QED
        BY <3>1, <4>1 DEF TakesEffect, Flags, Covers
    <3>2. f \notin Covers
      BY <2>2, <2>3, NoFaults
    <3>3. CASE f \notin Flags
      <4>1. \A d : Get(body, f, d) = body[f]
        BY <2>3 DEF Get
      <4> QED
        BY <2>1, <3>2, <3>3, <4>1 DEF TakesEffect, LocalRequest, BuildBody
    <3> QED
      BY <3>1, <3>3
  <2>4. ASSUME NEW f \in DOMAIN s \cap SettingFields PROVE SettingTakesEffect(f, s[f])
    <3>1. BitrateOk(s)
      BY <2>2 DEF SettingFaults, SettingFields
    <3>2. /\ p.container = Get(s, "format", "wav")
          /\ p.sample_rate = Get(s, "sample_rate", Native.sample_rate)
          /\ p.bitrate = IF p.container = "mp3" THEN Get(s, "bitrate", 128000) ELSE Null
      BY DEF Plan
    <3>3. /\ delivered.container = p.container
          /\ delivered.sample_rate = p.sample_rate
          /\ p.container = "mp3" => delivered.bitrate = EncoderRate(p.sample_rate, p.bitrate)
          /\ info.music_sample_rate = p.sample_rate
      BY <2>1, <2>2 DEF Transcoded, Measure
    <3> HIDE DEF s, p
    <3>4. CASE f = "format"
      BY <2>4, <3>2, <3>3, <3>4 DEF SettingTakesEffect, Get
    <3>5. CASE f = "sample_rate"
      BY <2>4, <3>2, <3>3, <3>5 DEF SettingTakesEffect, Get
    <3>6. CASE f = "bitrate"
      <4>1. p.container = "mp3"
        BY <2>4, <3>1, <3>2, <3>6 DEF BitrateOk
      <4>2. p.bitrate = s[f]
        BY <2>4, <3>2, <3>6, <4>1 DEF Get
      <4> QED
        BY <3>3, <3>6, <4>1, <4>2 DEF SettingTakesEffect
    <3> QED
      BY <2>4, <3>4, <3>5, <3>6 DEF SettingFields
  <2> QED
    BY <2>3, <2>4 DEF KnownFieldsTakeEffect
<1>2. IInv => KnownFieldsTakeEffect
  BY <1>1 DEF KnownFieldsTakeEffect
<1> QED
  BY <1>2, Invariance, PTL
-----------------------------------------------------------------------------
(* A nonempty set of numbers has a least one. *)
LEMMA Least ==
  ASSUME NEW T, T \subseteq Nat, T # {}
  PROVE  \E x \in T : \A y \in T : x <= y
<1>1. \E x \in T : \A y \in T : ~(<<y, x>> \in OpToRel(<, Nat))
  BY NatLessThanWellFounded, WFMin
<1>2. \A x \in T, y \in T : y < x => <<y, x>> \in OpToRel(<, Nat)
  BY DEF OpToRel
<1>3. PICK x \in T : \A y \in T : ~(y < x)
  BY <1>1, <1>2
<1> QED
  BY <1>3

(* What makes a field one of ValueFaults. *)
ModelFault(b, g) == g = "model" /\ Get(b, g, Null) # "music-3.0"
TextFault(b, g) == g \in Texts /\ Get(b, g, Null) # "text"
OutputFault(b, g) == g = "output_format" /\ Get(b, g, "hex") \notin {"hex", "url"}
SeedFault(b, g) == g = "seed" /\ Get(b, g, 0) \notin Nat
Tokens(b, g) == Get(b, g, 9000)
OutOfRange(n) == n \notin 1 .. 9000
TokensFault(b, g) == g = "max_new_tokens" /\ OutOfRange(Tokens(b, g))

ValueFault(b, g) == \/ ModelFault(b, g)
                    \/ TextFault(b, g)
                    \/ OutputFault(b, g)
                    \/ SeedFault(b, g)
                    \/ TokensFault(b, g)

LEMMA ValueFaultsAre == ASSUME NEW b, NEW g PROVE g \in ValueFaults(b) <=> ValueFault(b, g)
<1> DEFINE M == {f \in {"model"} : Get(b, f, Null) # "music-3.0"}
           T == {f \in Texts : Get(b, f, Null) # "text"}
           O == {f \in {"output_format"} : Get(b, f, "hex") \notin {"hex", "url"}}
           S == {f \in {"seed"} : Get(b, f, 0) \notin Nat}
           N == {f \in {"max_new_tokens"} : Get(b, f, 9000) \notin 1 .. 9000}
<1>1. g \in M <=> ModelFault(b, g)
  BY SMT DEF ModelFault
<1>2. g \in T <=> TextFault(b, g)
  BY SMT DEF TextFault
<1>3. g \in O <=> OutputFault(b, g)
  BY SMT DEF OutputFault
<1>4. g \in S <=> SeedFault(b, g)
  BY SMT DEF SeedFault
<1>5. g \in N <=> TokensFault(b, g)
  BY SMT DEF TokensFault, OutOfRange, Tokens
<1>6. ValueFaults(b) = M \cup T \cup O \cup S \cup N
  BY SMT DEF ValueFaults
<1> HIDE DEF M, T, O, S, N
<1> QED
  BY <1>1, <1>2, <1>3, <1>4, <1>5, <1>6, Zenon DEF ValueFault

(* The field of such a fault. *)
LEMMA FaultyValue ==
  ASSUME NEW b, NEW g, ValueFault(b, g)
  PROVE  g \in {"model", "prompt", "lyrics", "output_format", "seed", "max_new_tokens"}
  BY DEF ValueFault, ModelFault, TextFault, OutputFault, SeedFault, TokensFault, Texts

(* A field that both bodies have alike is at fault in both.                *)
LEMMA SameValueFault ==
  ASSUME NEW b, NEW c, NEW g, ValueFault(c, g),
         \A d : Get(c, g, d) = Get(b, g, d)
  PROVE  ValueFault(b, g)
<1>1. /\ ModelFault(c, g) => ModelFault(b, g)
      /\ TextFault(c, g) => TextFault(b, g)
  BY DEF ModelFault, TextFault
<1>2. OutputFault(c, g) => OutputFault(b, g)
  BY DEF OutputFault
<1>3. SeedFault(c, g) => SeedFault(b, g)
  BY SMT DEF SeedFault
<1>4. TokensFault(c, g) => TokensFault(b, g)
  <2>1. Tokens(c, g) = Tokens(b, g)
    BY SMT DEF Tokens
  <2> QED
    BY <2>1 DEF TokensFault
<1> QED
  BY <1>1, <1>2, <1>3, <1>4 DEF ValueFault

(* Every fault has its place in the order of the checks. *)
LEMMA Places ==
  /\ DOMAIN Order = 1 .. 16
  /\ \A b : Faults(b) \subseteq {Order[i] : i \in DOMAIN Order}
<1>1. DOMAIN Order = 1 .. 16
  BY DEF Order
<1>2. /\ Order[1] = "model" /\ Order[2] = "stream" /\ Order[3] = "lyrics_optimizer"
      /\ Order[4] = "is_instrumental" /\ Order[5] = "cover_feature_id"
      /\ Order[6] = "audio_url" /\ Order[7] = "audio_base64" /\ Order[8] = "prompt"
      /\ Order[9] = "lyrics" /\ Order[10] = "output_format" /\ Order[11] = "seed"
      /\ Order[12] = "max_new_tokens" /\ Order[13] = "audio_setting"
      /\ Order[14] = "format" /\ Order[15] = "sample_rate" /\ Order[16] = "bitrate"
  BY DEF Order
<1>3. \A i \in 1 .. 16 : Order[i] \in {Order[k] : k \in DOMAIN Order}
  BY <1>1
<1> DEFINE all == {Order[k] : k \in DOMAIN Order}
<1>4. /\ Flags \cup Covers \cup Texts \cup SettingFields \subseteq all
      /\ {"model", "output_format", "seed", "max_new_tokens", "audio_setting"} \subseteq all
  <2>1. \A i \in 1 .. 16 : Order[i] \in all
    BY <1>3
  <2> HIDE DEF all
  <2>2. /\ "model" \in all /\ "stream" \in all /\ "lyrics_optimizer" \in all
        /\ "is_instrumental" \in all /\ "cover_feature_id" \in all
        /\ "audio_url" \in all /\ "audio_base64" \in all /\ "prompt" \in all
        /\ "lyrics" \in all /\ "output_format" \in all /\ "seed" \in all
        /\ "max_new_tokens" \in all /\ "audio_setting" \in all
        /\ "format" \in all /\ "sample_rate" \in all /\ "bitrate" \in all
    BY <1>2, <2>1
  <2> QED
    BY <2>2 DEF Flags, Covers, Texts, SettingFields
<1> HIDE DEF all
<1>5. ASSUME NEW b PROVE Faults(b) \subseteq all
  <2>1. SettingFaults(Setting(b)) \subseteq all
    BY <1>4 DEF SettingFaults
  <2>2. FlagFaults(b) \subseteq all /\ CoverFaults(b) \subseteq all
    BY <1>4 DEF FlagFaults, CoverFaults
  <2>3. ASSUME NEW g \in ValueFaults(b) PROVE g \in all
    <3>1. g \in {"model", "prompt", "lyrics", "output_format", "seed", "max_new_tokens"}
      BY <2>3, ValueFaultsAre, FaultyValue
    <3> QED
      BY <1>4, <3>1 DEF Texts
  <2> QED
    BY <1>4, <2>1, <2>2, <2>3 DEF Faults
<1> QED
  BY <1>1, <1>5 DEF all

(* No two places are of the same field. *)
LEMMA PlacesDiffer == \A i, k \in DOMAIN Order : Order[i] = Order[k] => i = k
<1>1. /\ Order[1] = "model" /\ Order[2] = "stream" /\ Order[3] = "lyrics_optimizer"
      /\ Order[4] = "is_instrumental" /\ Order[5] = "cover_feature_id"
      /\ Order[6] = "audio_url" /\ Order[7] = "audio_base64" /\ Order[8] = "prompt"
      /\ Order[9] = "lyrics" /\ Order[10] = "output_format" /\ Order[11] = "seed"
      /\ Order[12] = "max_new_tokens" /\ Order[13] = "audio_setting"
      /\ Order[14] = "format" /\ Order[15] = "sample_rate" /\ Order[16] = "bitrate"
  BY DEF Order
<1> HIDE DEF Order
<1> QED
  BY <1>1, Places

(* First picks the fault whose check comes first. *)
LEMMA FirstIsLeast ==
  ASSUME NEW b, Faults(b) # {}
  PROVE  \E i \in DOMAIN Order :
           /\ First(Faults(b)) = Order[i]
           /\ Order[i] \in Faults(b)
           /\ \A k \in DOMAIN Order : Order[k] \in Faults(b) => i <= k
<1> DEFINE T == {i \in DOMAIN Order : Order[i] \in Faults(b)}
           P(i) == /\ Order[i] \in Faults(b)
                   /\ \A k \in 1 .. i - 1 : Order[k] \notin Faults(b)
           c == CHOOSE i \in DOMAIN Order : P(i)
<1>1. T \subseteq Nat /\ T # {} /\ T \subseteq 1 .. 16
  BY Places
<1>2. PICK x \in T : \A y \in T : x <= y
  BY <1>1, Least
<1>3. x \in DOMAIN Order /\ P(x)
  BY <1>1, <1>2, Places
<1>4. c \in DOMAIN Order /\ P(c)
  BY <1>3
<1>5. First(Faults(b)) = Order[c]
  BY DEF First
<1> HIDE DEF c
<1>6. \A k \in DOMAIN Order : Order[k] \in Faults(b) => c <= k
  BY <1>4, Places
<1> QED
  BY <1>4, <1>5, <1>6

(* A refusal of an object names a field. *)
LEMMA NamesAField ==
  ASSUME NEW b
  PROVE  /\ Named(b) \in {Null} \cup {Order[i] : i \in DOMAIN Order}
         /\ Named(b) = Null <=> b \in {Null, Junk}
<1>1. Order[10] = "output_format" /\ 10 \in DOMAIN Order
  BY Places DEF Order
<1>2. b \notin {Null, Junk} => Named(b) \in {Order[i] : i \in DOMAIN Order}
  BY <1>1, FirstIsLeast DEF Named
<1>3. b \in {Null, Junk} => Named(b) = Null
  BY DEF Named
<1> QED
  BY <1>2, <1>3, NamesAssumption

(* The stages of a request, with the fields that its refusals name.        *)
THEOREM TypeCorrect == Spec => []TypeOK
<1>1. Init => TypeOK
  BY DEF Init, TypeOK
<1>2. ASSUME IInv, TypeOK, [Next]_vars, IInv' PROVE TypeOK'
  <2> DEFINE fields == {Order[i] : i \in DOMAIN Order}
  <2>1. named \in {Null} \cup fields /\ repaired \subseteq {"size"} \cup fields
    BY <1>2 DEF TypeOK
  <2>2. Named(body) \in {Null} \cup fields
    BY NamesAField
  <2> HIDE DEF fields
  <2>3. /\ named' \in {named, Named(body)}
        /\ \/ repaired' = repaired
           \/ repaired' = repaired \cup {"size"}
           \/ /\ named # Null
              /\ repaired' = repaired \cup {named}
    <3>1. CASE PostRefused
      BY <3>1 DEF PostRefused
    <3>2. CASE Repair
      <4>1. named = Named(body)
        BY <1>2, <3>2 DEF Repair, IInv
      <4> QED
        BY <3>2, <4>1 DEF Repair, Complaint
    <3>3. CASE PostSubmits \/ Generates \/ PostAnswers \/ GetAnswers \/ UNCHANGED vars
      BY <3>3 DEF PostSubmits, Generates, PostAnswers, GetAnswers, vars
    <3> QED
      BY <1>2, <3>1, <3>2, <3>3 DEF Next
  <2>4. named' \in {Null} \cup fields /\ repaired' \subseteq {"size"} \cup fields
    BY <2>1, <2>2, <2>3
  <2> QED
    BY <1>2, <2>4 DEF IInv, TypeOK, Accepted, Stored, fields
<1> QED
  BY <1>1, <1>2, Invariance, PTL DEF Spec
-----------------------------------------------------------------------------
(* Null and Junk stand for values that are no JSON objects. *)
Object(v) == v = [key \in DOMAIN v |-> v[key]]

(* What the repairs are put together from: the key that is put or dropped, *)
(* and the others.                                                         *)
LEMMA GetPut ==
  ASSUME NEW b, NEW f, NEW v, NEW g, NEW d
  PROVE  Get(Put(b, f, v), g, d) = IF g = f THEN v ELSE Get(b, g, d)
BY DEF Put, Get

LEMMA GetDrop ==
  ASSUME NEW b, NEW f, NEW g, NEW d
  PROVE  Get(Drop(b, f), g, d) = IF g = f THEN d ELSE Get(b, g, d)
BY DEF Drop, Get

LEMMA PutObject ==
  ASSUME NEW b, NEW f, NEW v
  PROVE  DOMAIN Put(b, f, v) = DOMAIN b \cup {f} /\ Object(Put(b, f, v))
BY DEF Put, Object

LEMMA DropObject ==
  ASSUME NEW b, NEW f
  PROVE  DOMAIN Drop(b, f) = DOMAIN b \ {f} /\ Object(Drop(b, f))
BY DEF Drop, Object

(* The faults of settings that are null or an object, one by one.          *)
LEMMA SettingFaultsOf ==
  ASSUME NEW t, t # Junk
  PROVE  /\ SettingFaults(t) \subseteq SettingFields
         /\ "format" \in SettingFaults(t) <=> Get(Given(t), "format", "wav") \notin FORMAT_ENUM
         /\ "sample_rate" \in SettingFaults(t) <=>
              Get(Given(t), "sample_rate", Native.sample_rate) \notin SAMPLE_RATE_ENUM
         /\ "bitrate" \in SettingFaults(t) <=> ~BitrateOk(Given(t))
BY DEF SettingFaults, SettingFields

LEMMA SettingFaultsAre ==
  ASSUME NEW t
  PROVE  SettingFaults(t) \subseteq SettingFields \cup {"audio_setting"}
BY SettingFaultsOf DEF SettingFaults

(* Settings left out have none. *)
LEMMA EmptyHasNoFaults ==
  ASSUME NEW t \in {Null, Empty}, t # Junk PROVE SettingFaults(t) = {}
<1>1. Given(t) = Empty
  BY DEF Given
<1>2. \A g, d : Get(Empty, g, d) = d
  BY DEF Get, Empty
<1>3. BitrateOk(Given(t))
  BY <1>1, <1>2 DEF BitrateOk, Empty
<1> QED
  BY <1>1, <1>2, <1>3, SettingFaultsOf DEF SettingFields, FORMAT_ENUM, SAMPLE_RATE_ENUM, Native
(* What a client may do about each field. *)
LEMMA RepairsOf ==
  ASSUME NEW b, NEW f
  PROVE  /\ Faults(b) = {} => Repairs(b, f) = {Put(b, "output_format", "url")}
         /\ f \in Covers /\ Faults(b) # {} => Repairs(b, f) = {Drop(b, f)}
         /\ f = "bitrate" /\ Faults(b) # {} =>
              Repairs(b, f) = {Put(b, "audio_setting", Drop(Setting(b), "bitrate"))}
         /\ f \notin Covers /\ f # "bitrate" /\ Faults(b) # {} =>
              Repairs(b, f) = {Amended(b, f, v) : v \in Values(f)}
<1>1. "bitrate" \notin Covers
  BY DEF Covers
<1> QED
  BY <1>1 DEF Repairs

LEMMA ValuesOf ==
  ASSUME NEW f
  PROVE  /\ f = "model" => Values(f) = {"music-3.0"}
         /\ f \in Texts => Values(f) = {"text"}
         /\ f \in Flags => Values(f) = {"falsy"}
         /\ f = "output_format" => Values(f) = {"hex", "url"}
         /\ f = "seed" => Values(f) = {0, 7}
         /\ f = "max_new_tokens" => Values(f) = {1, 9000}
         /\ f = "audio_setting" => Values(f) = {Null, Empty}
         /\ f = "format" => Values(f) = FORMAT_ENUM
         /\ f = "sample_rate" => Values(f) = {16000, 44100}
BY DEF Values, Texts, Flags
PlainFields == Flags \cup Covers \cup Texts
                 \cup {"model", "output_format", "seed", "max_new_tokens"}

(* A repaired field that is no audio setting has a value that is accepted, *)
(* or is gone, and nothing else has changed.                               *)
LEMMA PlainRepair ==
  ASSUME NEW b, Faults(b) # {}, NEW f \in PlainFields, NEW c \in Repairs(b, f)
  PROVE  /\ Object(c)
         /\ DOMAIN c \ {f} = DOMAIN b \ {f}
         /\ \A g, d : g # f => Get(c, g, d) = Get(b, g, d)
         /\ f \in Covers => f \notin DOMAIN c
         /\ f \notin Covers => \E v \in Values(f) : \A d : Get(c, f, d) = v
<1>1. f \notin SettingFields /\ f # "bitrate"
  BY DEF PlainFields, SettingFields, Flags, Covers, Texts
<1>2. CASE f \in Covers
  <2>1. c = Drop(b, f)
    BY <1>2, RepairsOf
  <2>2. DOMAIN c = DOMAIN b \ {f}
    BY <2>1, DropObject
  <2>3. ASSUME NEW d PROVE Get(c, f, d) = d
    BY <2>1, GetDrop
  <2>5. ASSUME NEW d, NEW g, g # f PROVE Get(c, g, d) = Get(b, g, d)
    BY <2>1, <2>5, GetDrop
  <2>4. Object(c)
    BY <2>1, DropObject
  <2> QED
    BY <1>2, <2>2, <2>3, <2>4, <2>5
<1>3. CASE f \notin Covers
  <2>1. PICK v \in Values(f) : c = Put(b, f, v)
    BY <1>1, <1>3, RepairsOf DEF Amended
  <2>2. DOMAIN c = DOMAIN b \cup {f}
    BY <2>1, PutObject
  <2>3. ASSUME NEW d PROVE Get(c, f, d) = v
    BY <2>1, GetPut
  <2>5. ASSUME NEW d, NEW g, g # f PROVE Get(c, g, d) = Get(b, g, d)
    BY <2>1, <2>5, GetPut
  <2>4. Object(c)
    BY <2>1, PutObject
  <2> QED
    BY <1>3, <2>1, <2>2, <2>3, <2>4, <2>5
<1> QED
  BY <1>2, <1>3

(* Such a repair ends the fault of its own field and makes no other.       *)
LEMMA PlainRepairShrinks ==
  ASSUME NEW b, Faults(b) # {}, NEW f \in PlainFields, NEW c \in Repairs(b, f)
  PROVE  Faults(c) \subseteq Faults(b) \ {f}
<1>1. Setting(c) = Setting(b)
  BY PlainRepair DEF Setting, PlainFields, Flags, Covers, Texts
<1>2. FlagFaults(c) \subseteq FlagFaults(b) \ {f}
  <2>1. ASSUME f \in Flags PROVE Get(c, f, "falsy") = "falsy"
    BY <2>1, PlainRepair, ValuesOf DEF Flags, Covers
  <2>2. \A g : g # f => Get(c, g, "falsy") = Get(b, g, "falsy")
    BY PlainRepair
  <2> QED
    BY <2>1, <2>2 DEF FlagFaults
<1>3. CoverFaults(c) \subseteq CoverFaults(b) \ {f}
  BY PlainRepair DEF CoverFaults
<1>4. ValueFaults(c) \subseteq ValueFaults(b) \ {f}
  <2>1. \A g, d : g # f => Get(c, g, d) = Get(b, g, d)
    BY PlainRepair
  <2>2. ~ValueFault(c, f)
    <3>1. ASSUME f \in Texts \cup {"model", "output_format", "seed", "max_new_tokens"}
          PROVE  \E v \in Values(f) : \A d : Get(c, f, d) = v
      BY <3>1, PlainRepair DEF Texts, Covers
    <3>2. f = "model" => Get(c, f, Null) = "music-3.0"
      BY <3>1, ValuesOf
    <3>3. f \in Texts => Get(c, f, Null) = "text"
      BY <3>1, ValuesOf
    <3>4. f = "output_format" => Get(c, f, "hex") \in {"hex", "url"}
      BY <3>1, ValuesOf
    <3>5. f = "seed" => Get(c, f, 0) \in {0, 7}
      BY <3>1, ValuesOf
    <3>6. f = "max_new_tokens" => Get(c, f, 9000) \in {1, 9000}
      BY <3>1, ValuesOf
    <3>7. ~ModelFault(c, f) /\ ~TextFault(c, f)
      BY <3>2, <3>3 DEF ModelFault, TextFault
    <3>8. ~OutputFault(c, f)
      BY <3>4 DEF OutputFault
    <3>9. ~SeedFault(c, f)
      BY <3>5, SMT DEF SeedFault
    <3>10. ~TokensFault(c, f)
      BY <3>6, SMT DEF TokensFault, OutOfRange, Tokens
    <3> QED
      BY <3>7, <3>8, <3>9, <3>10, Zenon DEF ValueFault
  <2>3. ASSUME NEW g \in ValueFaults(c) PROVE g \in ValueFaults(b) \ {f}
    <3>1. ValueFault(c, g)
      BY <2>3, ValueFaultsAre
    <3>2. g # f
      BY <2>2, <3>1
    <3>3. \A d : Get(c, g, d) = Get(b, g, d)
      BY <2>1, <3>2
    <3>4. ValueFault(b, g)
      BY <3>1, <3>3, SameValueFault
    <3> QED
      BY <3>2, <3>4, ValueFaultsAre
  <2> QED
    BY <2>3
<1>5. f \notin SettingFaults(Setting(b))
  BY SettingFaultsAre DEF PlainFields, SettingFields, Flags, Covers, Texts
<1> QED
  BY <1>1, <1>2, <1>3, <1>4, <1>5 DEF Faults

(* A repair of the audio settings gives the body other ones.               *)
LEMMA SettingRepair ==
  ASSUME NEW b, Faults(b) # {}, NEW f \in SettingFields \cup {"audio_setting"},
         NEW c \in Repairs(b, f)
  PROVE  \E t : /\ c = Put(b, "audio_setting", t)
                /\ f = "audio_setting" => t \in {Null, Empty}
                /\ f = "bitrate" => t = Drop(Setting(b), "bitrate")
                /\ f \in {"format", "sample_rate"} =>
                     \E v \in Values(f) : t = Put(Given(Setting(b)), f, v)
<1>1. f \notin Covers
  BY DEF SettingFields, Covers
<1>2. CASE f = "audio_setting"
  <2>1. f \notin SettingFields
    BY <1>2 DEF SettingFields
  <2>2. PICK v \in Values(f) : c = Put(b, f, v)
    BY <1>1, <1>2, <2>1, RepairsOf DEF Amended
  <2>3. v \in {Null, Empty}
    BY <1>2, <2>2, ValuesOf
  <2> QED
    BY <1>2, <2>2, <2>3
<1>3. CASE f = "bitrate"
  BY <1>3, RepairsOf
<1>4. CASE f \in {"format", "sample_rate"}
  <2>1. f \in SettingFields
    BY <1>4 DEF SettingFields
  <2>2. PICK v \in Values(f) : c = Put(b, "audio_setting", Put(Given(Setting(b)), f, v))
    BY <1>1, <1>4, <2>1, RepairsOf DEF Amended
  <2> QED
    BY <1>4, <2>2
<1> QED
  BY <1>2, <1>3, <1>4 DEF SettingFields

(* Other settings are nobody else's fault. *)
LEMMA OtherFaultsStay ==
  ASSUME NEW b, NEW t
  PROVE  LET c == Put(b, "audio_setting", t)
         IN /\ Setting(c) = t
            /\ FlagFaults(c) = FlagFaults(b)
            /\ CoverFaults(c) = CoverFaults(b)
            /\ ValueFaults(c) = ValueFaults(b)
<1> DEFINE c == Put(b, "audio_setting", t)
<1>1. Setting(c) = t
  BY GetPut DEF Setting
<1>2. ASSUME NEW g, NEW d, g # "audio_setting" PROVE Get(c, g, d) = Get(b, g, d)
  BY <1>2, GetPut
<1>3. DOMAIN c = DOMAIN b \cup {"audio_setting"}
  BY PutObject
<1> HIDE DEF c
<1>4. FlagFaults(c) = FlagFaults(b)
  BY <1>2 DEF FlagFaults, Flags
<1>5. CoverFaults(c) = CoverFaults(b)
  BY <1>3 DEF CoverFaults, Covers
<1>6. ValueFaults(c) = ValueFaults(b)
  <2>1. ASSUME NEW g, ValueFault(c, g) \/ ValueFault(b, g)
        PROVE  \A d : Get(c, g, d) = Get(b, g, d)
    <3>1. g # "audio_setting"
      BY <2>1, FaultyValue
    <3> QED
      BY <1>2, <3>1
  <2>2. ASSUME NEW g PROVE ValueFault(c, g) <=> ValueFault(b, g)
    BY <2>1, SameValueFault
  <2>3. \A g : g \in ValueFaults(c) <=> g \in ValueFaults(b)
    BY <2>2, ValueFaultsAre
  <2> QED
    BY <2>3
<1> QED
  BY <1>1, <1>4, <1>5, <1>6 DEF c

(* A repair of format may make a bitrate unsuitable, which is checked      *)
(* after it; the other repairs of settings bring in no fault.              *)
LEMMA SettingRepairShrinks ==
  ASSUME ~Object(Junk), ~Object(Null),
         NEW b, NEW f \in SettingFields \cup {"audio_setting"},
         f \in SettingFaults(Setting(b)),
         NEW c \in Repairs(b, f)
  PROVE  SettingFaults(Setting(c)) \subseteq
           (SettingFaults(Setting(b)) \ {f}) \cup (IF f = "format" THEN {"bitrate"} ELSE {})
<1> DEFINE s == Given(Setting(b))
<1>0. Faults(b) # {}
  BY DEF Faults
<1>1. PICK t : /\ c = Put(b, "audio_setting", t)
               /\ f = "audio_setting" => t \in {Null, Empty}
               /\ f = "bitrate" => t = Drop(Setting(b), "bitrate")
               /\ f \in {"format", "sample_rate"} => \E v \in Values(f) : t = Put(s, f, v)
  BY <1>0, SettingRepair
<1>2. Setting(c) = t
  BY <1>1, OtherFaultsStay
<1>3. CASE f = "audio_setting"
  <2>1. t \in {Null, Empty} /\ t # Junk
    BY <1>1, <1>3, NullAssumption DEF Object, Empty
  <2> QED
    BY <1>2, <2>1, EmptyHasNoFaults
<1>4. ASSUME f \in SettingFields PROVE Setting(b) # Junk
  BY <1>4 DEF SettingFaults, SettingFields
<1>5. CASE f \in {"format", "sample_rate"}
  <2>1. PICK v \in Values(f) : t = Put(s, f, v)
    BY <1>1, <1>5
  <2>2. t # Junk /\ t # Null
    <3>1. Object(Put(s, f, v))
      BY PutObject
    <3> QED
      BY <2>1, <3>1
  <2>3. Given(t) = t
    BY <2>2 DEF Given
  <2>4. Setting(b) # Junk
    BY <1>4, <1>5 DEF SettingFields
  <2>5. ASSUME NEW g, NEW d PROVE Get(t, g, d) = IF g = f THEN v ELSE Get(s, g, d)
    BY <2>1, GetPut
  <2>6. DOMAIN t = DOMAIN s \cup {f}
    BY <2>1, PutObject
  <2> HIDE DEF s
  <2>7. CASE f = "format"
    <3>1. v \in FORMAT_ENUM
      BY <2>1, <2>7, ValuesOf
    <3>2. "format" \notin SettingFaults(t)
      BY <2>2, <2>3, <2>5, <2>7, <3>1, SettingFaultsOf
    <3>3. "sample_rate" \in SettingFaults(t) => "sample_rate" \in SettingFaults(Setting(b))
      BY <2>2, <2>3, <2>4, <2>5, <2>7, SettingFaultsOf DEF s
    <3>4. SettingFaults(t) \subseteq SettingFields
      BY <2>2, SettingFaultsOf
    <3> QED
      BY <1>2, <2>7, <3>2, <3>3, <3>4 DEF SettingFields
  <2>8. CASE f = "sample_rate"
    <3>1. v \in SAMPLE_RATE_ENUM
      BY <2>1, <2>8, ValuesOf DEF SAMPLE_RATE_ENUM
    <3>2. "sample_rate" \notin SettingFaults(t)
      BY <2>2, <2>3, <2>5, <2>8, <3>1, SettingFaultsOf
    <3>3. "format" \in SettingFaults(t) => "format" \in SettingFaults(Setting(b))
      BY <2>2, <2>3, <2>4, <2>5, <2>8, SettingFaultsOf DEF s
    <3>4. BitrateOk(t) <=> BitrateOk(s)
      BY <2>5, <2>6, <2>8 DEF BitrateOk
    <3>5. "bitrate" \in SettingFaults(t) => "bitrate" \in SettingFaults(Setting(b))
      BY <2>2, <2>3, <2>4, <3>4, SettingFaultsOf DEF s
    <3>6. SettingFaults(t) \subseteq SettingFields
      BY <2>2, SettingFaultsOf
    <3> QED
      BY <1>2, <2>8, <3>2, <3>3, <3>5, <3>6 DEF SettingFields
  <2> QED
    BY <1>5, <2>7, <2>8
<1>6. CASE f = "bitrate"
  <2>1. Setting(b) # Junk /\ ~BitrateOk(s)
    BY <1>4, <1>6, SettingFaultsOf DEF SettingFields
  <2>2. Setting(b) # Null
    <3>1. ~BitrateOk(Given(Null)) => FALSE
      BY NullAssumption, EmptyHasNoFaults, SettingFaultsOf
    <3> QED
      BY <2>1, <3>1
  <2>3. s = Setting(b)
    BY <2>2 DEF Given
  <2>4. t = Drop(s, "bitrate")
    BY <1>1, <1>6, <2>3
  <2>5. t # Junk /\ t # Null
    <3>1. Object(Drop(s, "bitrate"))
      BY DropObject
    <3> QED
      BY <2>4, <3>1
  <2>6. Given(t) = t
    BY <2>5 DEF Given
  <2>7. ASSUME NEW g, NEW d PROVE Get(t, g, d) = IF g = "bitrate" THEN d ELSE Get(s, g, d)
    BY <2>4, GetDrop
  <2>8. DOMAIN t = DOMAIN s \ {"bitrate"}
    BY <2>4, DropObject
  <2> HIDE DEF s
  <2>9. BitrateOk(t)
    BY <2>7, <2>8 DEF BitrateOk, BITRATE_ENUM
  <2>10. "bitrate" \notin SettingFaults(t)
    BY <2>5, <2>6, <2>9, SettingFaultsOf
  <2>11. /\ "format" \in SettingFaults(t) => "format" \in SettingFaults(Setting(b))
         /\ "sample_rate" \in SettingFaults(t) => "sample_rate" \in SettingFaults(Setting(b))
    BY <2>1, <2>5, <2>6, <2>7, SettingFaultsOf DEF s
  <2>12. SettingFaults(t) \subseteq SettingFields
    BY <2>5, SettingFaultsOf
  <2> QED
    BY <1>2, <1>6, <2>10, <2>11, <2>12 DEF SettingFields
<1> QED
  BY <1>3, <1>5, <1>6 DEF SettingFields

(* Putting right a faulty field ends its fault, and brings in at most one  *)
(* that is checked later.                                                  *)
LEMMA RepairShrinks ==
  ASSUME ~Object(Junk), ~Object(Null),
         NEW b, NEW f \in Faults(b), NEW c \in Repairs(b, f)
  PROVE  Faults(c) \subseteq (Faults(b) \ {f}) \cup (IF f = "format" THEN {"bitrate"} ELSE {})
<1>1. CASE f \in PlainFields
  <2>1. f # "format"
    BY <1>1 DEF PlainFields, Flags, Covers, Texts
  <2>2. Faults(c) \subseteq Faults(b) \ {f}
    BY <1>1, PlainRepairShrinks
  <2> QED
    BY <2>1, <2>2
<1>2. CASE f \notin PlainFields
  <2>1. f \notin FlagFaults(b) \cup CoverFaults(b) \cup ValueFaults(b)
    <3>1. f \notin FlagFaults(b) /\ f \notin CoverFaults(b)
      BY <1>2 DEF FlagFaults, CoverFaults, PlainFields
    <3>2. f \notin ValueFaults(b)
      BY <1>2, ValueFaultsAre, FaultyValue DEF PlainFields, Texts
    <3> QED
      BY <3>1, <3>2
  <2>2. f \in SettingFaults(Setting(b))
    BY <2>1 DEF Faults
  <2>3. f \in SettingFields \cup {"audio_setting"}
    BY <2>2, SettingFaultsAre
  <2>4. SettingFaults(Setting(c)) \subseteq
          (SettingFaults(Setting(b)) \ {f}) \cup (IF f = "format" THEN {"bitrate"} ELSE {})
    BY <2>2, <2>3, SettingRepairShrinks
  <2>5. PICK t : c = Put(b, "audio_setting", t)
    BY <2>3, SettingRepair
  <2>6. /\ FlagFaults(c) = FlagFaults(b)
        /\ CoverFaults(c) = CoverFaults(b)
        /\ ValueFaults(c) = ValueFaults(b)
    BY <2>5, OtherFaultsStay
  <2> QED
    BY <2>1, <2>4, <2>6 DEF Faults
<1> QED
  BY <1>1, <1>2

(* A link instead of hex, of a body without faults, is accepted whatever   *)
(* its size.                                                               *)
LEMMA LinkIsAccepted ==
  ASSUME ~Object(Junk), ~Object(Null), NEW b, NEW limit, Faults(b) = {}
  PROVE  Accepts(Put(b, "output_format", "url"), limit)
<1> DEFINE c == Put(b, "output_format", "url")
<1>1. \A g, d : Get(c, g, d) = IF g = "output_format" THEN "url" ELSE Get(b, g, d)
  BY GetPut
<1>2. DOMAIN c = DOMAIN b \cup {"output_format"} /\ Object(c)
  BY PutObject
<1> HIDE DEF c
<1>3. Setting(c) = Setting(b)
  BY <1>1 DEF Setting
<1>4. FlagFaults(c) = FlagFaults(b)
  BY <1>1 DEF FlagFaults, Flags
<1>5. CoverFaults(c) = CoverFaults(b)
  BY <1>2 DEF CoverFaults, Covers
<1>6. ASSUME NEW g \in ValueFaults(c) PROVE g \in ValueFaults(b)
  <2>1. ValueFault(c, g)
    BY <1>6, ValueFaultsAre
  <2>2. CASE g = "output_format"
    <3>1. OutputFault(c, g)
      BY <2>1, <2>2 DEF ValueFault, ModelFault, TextFault, SeedFault, TokensFault, Texts
    <3> QED
      BY <1>1, <2>2, <3>1 DEF OutputFault
  <2>3. CASE g # "output_format"
    BY <1>1, <2>1, <2>3, SameValueFault, ValueFaultsAre
  <2> QED
    BY <2>2, <2>3
<1>7. Faults(c) = {}
  BY <1>3, <1>4, <1>5, <1>6 DEF Faults
<1>8. ~TooLarge(c, limit)
  <2>1. Get(c, "output_format", "hex") # "hex"
    BY <1>1
  <2> QED
    BY <2>1 DEF TooLarge
<1>9. c # Null /\ c # Junk
  BY <1>2
<1>10. Accepts(c, limit)
  BY <1>7, <1>8, <1>9 DEF Accepts
<1> QED
  BY <1>10 DEF c

(* The repairs follow the order of the checks: whatever is still wrong is  *)
(* checked after all that has been repaired.  The one refusal without a    *)
(* faulty field, of an answer that would be too large, is met by asking    *)
(* for a link, and that is the last one.                                   *)
RepairInv ==
  /\ \A i, k \in DOMAIN Order : Order[i] \in repaired /\ Order[k] \in Faults(body) => i < k
  /\ "size" \in repaired => Accepts(body, ceiling)

LEMMA SizeIsNoField == \A i \in DOMAIN Order : Order[i] # "size"
<1>1. /\ Order[1] = "model" /\ Order[2] = "stream" /\ Order[3] = "lyrics_optimizer"
      /\ Order[4] = "is_instrumental" /\ Order[5] = "cover_feature_id"
      /\ Order[6] = "audio_url" /\ Order[7] = "audio_base64" /\ Order[8] = "prompt"
      /\ Order[9] = "lyrics" /\ Order[10] = "output_format" /\ Order[11] = "seed"
      /\ Order[12] = "max_new_tokens" /\ Order[13] = "audio_setting"
      /\ Order[14] = "format" /\ Order[15] = "sample_rate" /\ Order[16] = "bitrate"
  BY DEF Order
<1> HIDE DEF Order
<1> QED
  BY <1>1, Places

(* One round of refusal and repair keeps to that order. *)
LEMMA RepairStep ==
  ASSUME ~Object(Junk), ~Object(Null), IInv, RepairInv, Repair
  PROVE  RepairInv'
<1> DEFINE extra == IF named = "format" THEN {"bitrate"} ELSE {}
<1>1. /\ named = Named(body) /\ named # Null /\ ~Accepts(body, ceiling)
      /\ body' \in Repairs(body, named)
      /\ repaired' = repaired \cup {Complaint(body)}
      /\ ceiling' = ceiling
  BY DEF IInv, Repair
<1>2. body \notin {Null, Junk}
  BY <1>1, NamesAField
<1>3. CASE Faults(body) = {}
  <2>1. body' = Put(body, "output_format", "url")
    BY <1>1, <1>3, RepairsOf
  <2>2. Accepts(body', ceiling')
    BY <1>1, <1>3, <2>1, LinkIsAccepted
  <2> QED
    BY <2>2 DEF Accepts, RepairInv
<1>4. CASE Faults(body) # {}
  <2>1. named = First(Faults(body)) /\ Complaint(body) = named
    BY <1>1, <1>2, <1>4 DEF Named, Complaint
  <2>2. PICK n \in DOMAIN Order : /\ named = Order[n]
                                  /\ named \in Faults(body)
                                  /\ \A k \in DOMAIN Order : Order[k] \in Faults(body) => n <= k
    BY <1>4, <2>1, FirstIsLeast
  <2>3. Faults(body') \subseteq (Faults(body) \ {named}) \cup extra
    BY <1>1, <2>2, RepairShrinks
  <2>4. ASSUME NEW k \in DOMAIN Order, Order[k] \in Faults(body') PROVE n < k
    <3>1. CASE Order[k] \in Faults(body) \ {named}
      <4>1. n <= k /\ n # k
        BY <2>2, <3>1
      <4> QED
        BY <4>1, Places
    <3>2. CASE Order[k] \in extra
      <4>1. named = "format" /\ Order[k] = "bitrate"
        BY <3>2
      <4>2. Order[14] = "format" /\ Order[16] = "bitrate" /\ 14 \in DOMAIN Order /\ 16 \in DOMAIN Order
        BY Places DEF Order
      <4>3. n = 14 /\ k = 16
        BY <2>2, <2>4, <4>1, <4>2, PlacesDiffer
      <4> QED
        BY <4>3
    <3> QED
      BY <2>3, <2>4, <3>1, <3>2
  <2>5. ASSUME NEW i \in DOMAIN Order, NEW k \in DOMAIN Order,
               Order[i] \in repaired', Order[k] \in Faults(body')
        PROVE  i < k
    <3>1. n < k
      BY <2>4, <2>5
    <3>2. CASE Order[i] = named
      BY <2>2, <3>1, <3>2, PlacesDiffer
    <3>3. CASE Order[i] \in repaired
      <4>1. i < n
        BY <2>2, <3>3 DEF RepairInv
      <4> QED
        BY <3>1, <4>1, Places
    <3> QED
      BY <1>1, <2>1, <2>5, <3>2, <3>3
  <2>6. "size" \notin repaired'
    <3>1. "size" \notin repaired
      BY <1>1 DEF RepairInv
    <3>2. named # "size"
      BY <2>2, SizeIsNoField
    <3> QED
      BY <1>1, <2>1, <3>1, <3>2
  <2> QED
    BY <2>5, <2>6 DEF RepairInv
<1> QED
  BY <1>3, <1>4

LEMMA RepairInvHolds ==
  ASSUME ~Object(Junk), ~Object(Null)
  PROVE  Spec => []RepairInv
<1>1. Init => RepairInv
  BY DEF Init, RepairInv
<1>2. ASSUME IInv, RepairInv, [Next]_vars PROVE RepairInv'
  <2>1. CASE Repair
    BY <1>2, <2>1, RepairStep
  <2>2. CASE ~Repair
    <3>1. UNCHANGED <<body, ceiling, repaired>>
      BY <1>2, <2>2 DEF Next, PostRefused, PostSubmits, Generates, PostAnswers, GetAnswers, vars
    <3> QED
      BY <1>2, <3>1 DEF RepairInv
  <2> QED
    BY <2>1, <2>2
<1> QED
  BY <1>1, <1>2, Invariance, PTL DEF Spec

(* A client that does what each refusal asks for never gets the same       *)
(* complaint twice, whatever body it began with (compat/minimax.py:        *)
(* translate).                                                             *)
THEOREM RefusalsLeadOn ==
  ASSUME ~Object(Junk), ~Object(Null)
  PROVE  Spec => []RefusalsCanBeRepaired
<1>1. ASSUME IInv, TypeOK, RepairInv, stage = "refused"
      PROVE  Complaint(body) \notin repaired /\ (named = Null <=> body \in {Null, Junk})
  <2>1. named = Named(body) /\ ~Accepts(body, ceiling)
    BY <1>1 DEF IInv
  <2>2. named = Null <=> body \in {Null, Junk}
    BY <2>1, NamesAField
  <2>3. "size" \notin repaired
    BY <1>1, <2>1 DEF RepairInv
  <2>4. CASE body \in {Null, Junk}
    <3>1. Complaint(body) = Null
      BY <2>1, <2>2, <2>4 DEF Complaint
    <3> QED
      BY <1>1, <2>2, <2>3, <3>1, NamesAssumption DEF TypeOK
  <2>5. CASE body \notin {Null, Junk} /\ Faults(body) # {}
    <3>1. Complaint(body) = First(Faults(body))
      BY <2>5 DEF Named, Complaint
    <3>2. PICK n \in DOMAIN Order : Complaint(body) = Order[n] /\ Order[n] \in Faults(body)
      BY <2>5, <3>1, FirstIsLeast
    <3>3. Complaint(body) \in repaired => n < n
      BY <1>1, <3>2 DEF RepairInv
    <3> QED
      BY <2>2, <3>3, Places
  <2>6. CASE body \notin {Null, Junk} /\ Faults(body) = {}
    BY <2>2, <2>3, <2>6 DEF Complaint
  <2> QED
    BY <2>4, <2>5, <2>6
<1>2. IInv /\ TypeOK /\ RepairInv => RefusalsCanBeRepaired
  BY <1>1 DEF RefusalsCanBeRepaired
<1> QED
  BY <1>2, Invariance, TypeCorrect, RepairInvHolds, PTL
-----------------------------------------------------------------------------
(* What translate looks at is the same with and without the other keys.    *)
LEMMA KnownSettingSame ==
  ASSUME ~Object(Junk), ~Object(Null), NEW t
  PROVE  /\ SettingFaults(KnownSetting(t)) = SettingFaults(t)
         /\ Plan(KnownSetting(t)) = Plan(t)
<1> DEFINE u == KnownSetting(t)
           r == [f \in DOMAIN t \cap SettingFields |-> t[f]]
<1>1. CASE t \in {Null, Junk}
  BY <1>1 DEF KnownSetting
<1>2. CASE t \notin {Null, Junk}
  <2>1. u = r
    BY <1>2 DEF KnownSetting
  <2>2. DOMAIN u = DOMAIN t \cap SettingFields /\ Object(u)
    BY <2>1 DEF Object
  <2>3. u # Null /\ u # Junk
    BY <2>2
  <2>4. \A f \in SettingFields : \A d : Get(u, f, d) = Get(t, f, d)
    BY <2>1, <2>2 DEF Get
  <2>5. Given(u) = u /\ Given(t) = t
    BY <1>2, <2>3 DEF Given
  <2> HIDE DEF u, r
  <2>6. /\ Get(u, "format", "wav") = Get(t, "format", "wav")
        /\ Get(u, "sample_rate", Native.sample_rate) = Get(t, "sample_rate", Native.sample_rate)
        /\ Get(u, "bitrate", 128000) = Get(t, "bitrate", 128000)
        /\ "bitrate" \in DOMAIN u <=> "bitrate" \in DOMAIN t
    BY <2>2, <2>4 DEF SettingFields
  <2>7. BitrateOk(u) <=> BitrateOk(t)
    BY <2>6 DEF BitrateOk
  <2>8. SettingFaults(u) = SettingFaults(t)
    BY <1>2, <2>3, <2>5, <2>6, <2>7, SettingFaultsOf DEF SettingFields
  <2>9. Plan(u) = Plan(t)
    BY <2>5, <2>6 DEF Plan
  <2> QED
    BY <2>8, <2>9 DEF u
<1> QED
  BY <1>1, <1>2

LEMMA KnownSame ==
  ASSUME NEW b
  PROVE  /\ DOMAIN Known(b) = DOMAIN b \cap Documented
         /\ Object(Known(b))
         /\ Setting(Known(b)) = KnownSetting(Setting(b))
         /\ \A f \in Documented \ {"audio_setting"} : \A d : Get(Known(b), f, d) = Get(b, f, d)
<1>1. DOMAIN Known(b) = DOMAIN b \cap Documented /\ Object(Known(b))
  BY DEF Known, Object
<1>2. "audio_setting" \in Documented
  BY DEF Documented, RecordedFields
<1>3. KnownSetting(Null) = Null
  BY DEF KnownSetting
<1>4. Setting(Known(b)) = KnownSetting(Setting(b))
  BY <1>1, <1>2, <1>3 DEF Setting, Get, Known
<1>5. ASSUME NEW f \in Documented \ {"audio_setting"}, NEW d PROVE Get(Known(b), f, d) = Get(b, f, d)
  BY <1>1, <1>5 DEF Get, Known
<1> QED
  BY <1>1, <1>4, <1>5

(* The checks say the same of both bodies. *)
LEMMA SameVerdict ==
  ASSUME ~Object(Junk), ~Object(Null), NEW b, NEW limit, b \notin {Null, Junk}
  PROVE  /\ Faults(Known(b)) = Faults(b)
         /\ Accepts(Known(b), limit) <=> Accepts(b, limit)
         /\ Named(Known(b)) = Named(b)
<1> DEFINE c == Known(b)
<1>1. /\ DOMAIN c = DOMAIN b \cap Documented
      /\ Object(c)
      /\ Setting(c) = KnownSetting(Setting(b))
      /\ \A f \in Documented \ {"audio_setting"} : \A d : Get(c, f, d) = Get(b, f, d)
  BY KnownSame
<1> HIDE DEF c
<1>2. c # Null /\ c # Junk
  BY <1>1
<1>3. /\ Flags \cup Covers \subseteq Documented \ {"audio_setting"}
      /\ {"model", "prompt", "lyrics", "output_format", "seed", "max_new_tokens"}
           \subseteq Documented \ {"audio_setting"}
  BY DEF Documented, RecordedFields, Texts, Flags, Covers
<1>4. FlagFaults(c) = FlagFaults(b)
  BY <1>1, <1>3 DEF FlagFaults
<1>5. CoverFaults(c) = CoverFaults(b)
  BY <1>1, <1>3 DEF CoverFaults
<1>6. ValueFaults(c) = ValueFaults(b)
  <2>1. ASSUME NEW g, ValueFault(c, g) \/ ValueFault(b, g)
        PROVE  \A d : Get(c, g, d) = Get(b, g, d)
    BY <1>1, <1>3, <2>1, FaultyValue
  <2>2. ASSUME NEW g PROVE ValueFault(c, g) <=> ValueFault(b, g)
    BY <2>1, SameValueFault
  <2>3. \A g : g \in ValueFaults(c) <=> g \in ValueFaults(b)
    BY <2>2, ValueFaultsAre
  <2> QED
    BY <2>3
<1>7. SettingFaults(Setting(c)) = SettingFaults(Setting(b)) /\ Plan(Setting(c)) = Plan(Setting(b))
  BY <1>1, KnownSettingSame
<1>8. Faults(c) = Faults(b)
  BY <1>4, <1>5, <1>6, <1>7 DEF Faults
<1>9. TooLarge(c, limit) <=> TooLarge(b, limit)
  <2>1. /\ Get(c, "output_format", "hex") = Get(b, "output_format", "hex")
        /\ \A d : Get(c, "max_new_tokens", d) = Get(b, "max_new_tokens", d)
    BY <1>1, <1>3
  <2> QED
    BY <1>7, <2>1, SMT DEF TooLarge
<1>10. Accepts(c, limit) <=> Accepts(b, limit)
  BY <1>2, <1>8, <1>9 DEF Accepts
<1>11. Named(c) = Named(b)
  BY <1>2, <1>8 DEF Named
<1> QED
  BY <1>8, <1>10, <1>11 DEF c

(* The request made of both bodies is the same, but for what it records.   *)
LEMMA SameRequest ==
  ASSUME ~Object(Junk), ~Object(Null), NEW b, CoverFaults(b) = {}
  PROVE  LET r == LocalRequest(Known(b))
         IN /\ LocalRequest(b) = [r EXCEPT !.cloud = Recorded(b)]
            /\ LocalRequest(b).cloud = Recorded(b)
            /\ DOMAIN Recorded(b) = DOMAIN Known(b)
            /\ LocalRequest(b).plan = r.plan
            /\ BuildBody(LocalRequest(b)) = BuildBody(r)
<1> DEFINE r == LocalRequest(Known(b))
<1>1. {"prompt", "lyrics", "output_format", "seed", "max_new_tokens"}
         \subseteq Documented \ {"audio_setting"}
  BY DEF Documented, RecordedFields, Texts, Covers, Flags
<1>2. /\ Get(Known(b), "lyrics", Null) = Get(b, "lyrics", Null)
      /\ Get(Known(b), "prompt", Null) = Get(b, "prompt", Null)
      /\ Get(Known(b), "seed", 0) = Get(b, "seed", 0)
      /\ Get(Known(b), "output_format", "hex") = Get(b, "output_format", "hex")
      /\ \A d : Get(Known(b), "max_new_tokens", d) = Get(b, "max_new_tokens", d)
  BY <1>1, KnownSame
<1>3. Plan(Setting(Known(b))) = Plan(Setting(b))
  BY KnownSame, KnownSettingSame
<1>4. DOMAIN Recorded(b) = DOMAIN Known(b)
  <2>1. DOMAIN Recorded(b) = RecordedFields \cap DOMAIN b
    BY DEF Recorded
  <2>2. \A f \in Covers : f \notin DOMAIN b
    BY DEF CoverFaults
  <2> QED
    BY <2>1, <2>2, KnownSame DEF Documented
<1>5. LocalRequest(b) = [r EXCEPT !.cloud = Recorded(b)]
  BY <1>2, <1>3, SMT DEF LocalRequest
<1>6. LocalRequest(b).cloud = Recorded(b) /\ LocalRequest(b).plan = r.plan
  BY <1>3 DEF LocalRequest
<1>7. BuildBody(LocalRequest(b)) = BuildBody(r)
  <2>1. /\ LocalRequest(b).input = r.input
        /\ LocalRequest(b).instructions = r.instructions
        /\ LocalRequest(b).seed = r.seed
        /\ LocalRequest(b).max_new_tokens = r.max_new_tokens
    BY <1>2, SMT DEF LocalRequest
  <2> QED
    BY <2>1, Zenon DEF BuildBody
<1> QED
  BY <1>4, <1>5, <1>6, <1>7

(* Keys that translate does not know make no difference, whatever they are *)
(* and wherever in the body they stand, to any answer or to what is done   *)
(* for it.                                                                 *)
THEOREM UnknownInert ==
  ASSUME ~Object(Junk), ~Object(Null)
  PROVE  Spec => []UnknownFieldsAreInert
<1> DEFINE known == Known(body)
           asKnown == LocalRequest(known)
<1>1. ASSUME IInv, stage = "refused", body \notin {Null, Junk}
      PROVE  ~Accepts(known, ceiling) /\ named = Named(known)
  BY <1>1, SameVerdict DEF IInv
<1>2. ASSUME IInv, Accepted
      PROVE  /\ Accepts(known, ceiling)
             /\ job = [asKnown EXCEPT !.cloud = job.cloud]
             /\ DOMAIN job.cloud = DOMAIN known
             /\ job.plan = asKnown.plan
             /\ BuildBody(job) = BuildBody(asKnown)
  <2>1. Accepts(body, ceiling) /\ job = LocalRequest(body)
    BY <1>2 DEF IInv
  <2>2. body \notin {Null, Junk} /\ CoverFaults(body) = {}
    BY <2>1 DEF Accepts, Faults
  <2>3. Accepts(known, ceiling)
    BY <2>1, <2>2, SameVerdict
  <2> QED
    BY <2>1, <2>2, <2>3, SameRequest
<1>3. ASSUME IInv, engineGot # Null PROVE engineGot = BuildBody(asKnown)
  <2>1. Stored /\ Accepted /\ engineGot = BuildBody(job)
    BY <1>3 DEF IInv, Stored, Accepted
  <2> QED
    BY <1>2, <1>3, <2>1
<1>4. ASSUME IInv, NEW audio \in {delivered, fetched}, audio # Null
      PROVE  audio = Transcoded(asKnown.plan)
  <2>1. Accepted /\ audio = Transcoded(job.plan)
    BY <1>4 DEF IInv, Stored, Accepted
  <2> QED
    BY <1>2, <1>4, <2>1
<1>5. IInv => UnknownFieldsAreInert
  BY <1>1, <1>2, <1>3, <1>4 DEF UnknownFieldsAreInert, Accepted
<1> QED
  BY <1>5, Invariance, PTL
=============================================================================
