------------------------------ MODULE Accounts ------------------------------
(***************************************************************************)
(* The functions of the JNI bridge on an account of baresip: setters and   *)
(* getters for its settings, and the lists of codecs that go in and out as *)
(* texts, through buffers of a fixed size and integers of a fixed width.   *)
(* The setters of sipnat, mwi and the video codecs have no getters, that   *)
(* of sip_autoredirect does not say whether it succeeded, and some getters *)
(* are of what cannot be set: they are left out.                           *)
(*                                                                         *)
(* A text is "" or one of Texts; a null pointer is Null.  The text of a    *)
(* codec list is the list, of which only the length in characters matters. *)
(***************************************************************************)
EXTENDS Integers, Sequences

CONSTANTS
    Null,        \* a null pointer
    Texts,       \* the texts that the application passes, without ""
    Unknown,     \* those of them that baresip refuses as the uri of a server
    Names,       \* the text settings that the application uses
    Numbers,     \* and the integer settings
    Hosts,       \* the hosts of STUN and TURN servers
    Jints,       \* the integers that it passes
    Word,        \* the values of a uint32_t, 2^32
    Half,        \* the values of a uint16_t, 2^16
    Slots,       \* the outbound proxies that an account has room for
    Length,      \* per codec, the characters of its text
    CodecSize,   \* the size of the buffer for one codec
    ListSize,    \* the size of the buffer for a list of them
    Builds       \* the codecs that baresip may be built with, in its order

ASSUME WordAssumption ==
    /\ Half \in Nat /\ Word \in Nat /\ 0 < Word /\ Jints \subseteq Int
    /\ Slots \in Nat /\ 0 < Slots /\ Slots <= Half
    /\ \A i \in Jints : -Word <= 2 * i /\ 2 * i < Word
ASSUME NamesAssumption ==
    Names \subseteq {"display_name", "auth_user", "auth_pass", "mediaenc",
                     "medianat", "stun_user", "stun_pass"}
ASSUME NumbersAssumption ==
    Numbers \subseteq {"regint", "answermode", "rel100_mode", "dtmfmode"}
ASSUME TextsAssumption == Null \notin Texts /\ "" \notin Texts /\ Unknown \subseteq Texts

Field(name, ix) == [name |-> name, ix |-> ix]

Fields ==
    {Field(n, 0) : n \in Names \union Numbers \union {"stun_uri", "rtcp_mux"}}
      \union {Field("outbound", ix) : ix \in 0 .. Slots - 1}

StunUris ==
    [scheme : {"stun", "turn"}, host : Hosts, port : {0, 3478}, tcp : BOOLEAN]

ASSUME NullAssumption == Null \notin StunUris

VARIABLES
    available,  \* the codecs that baresip was built with
    stored,     \* the settings, as the account has them
    codecs,     \* its list of codecs
    asked,      \* the codecs that were asked for, <<>> for all there are
    last        \* the last call of a setter

vars == <<available, stored, codecs, asked, last>>

NoCall == [field |-> Field("", 0), ok |-> FALSE]

Init ==
    /\ available \in Builds
    /\ stored = [f \in Fields |-> CASE f.name \in Numbers -> 0
                                    [] f.name = "rtcp_mux" -> FALSE
                                    [] OTHER -> Null]
    /\ codecs = <<>> /\ asked = <<>>
    /\ last = NoCall
-----------------------------------------------------------------------------
(* Conversions.                                                            *)

FaultyPointer(text) == text

\* The setters of texts: an empty text is passed on as a null pointer.
Pointer(text) == IF text = "" THEN Null ELSE text

\* Their getters.
Text(pointer) == IF pointer = Null THEN "" ELSE pointer

\* Casts between jint and uint32_t, and to uint16_t.
Unsigned(i) == i % Word
Signed(u) == IF 2 * u < Word THEN u ELSE u - Word
Short(i) == i % Half

\* A uri, as one writes it: a port of 0 is none.
Written(uri) ==
    [scheme |-> uri.scheme, host |-> uri.host,
     rest |-> (IF uri.port = 0 THEN <<>> ELSE <<"port">>)
              \o (IF uri.tcp THEN <<"?transport=tcp">> ELSE <<>>)]

\* account_stun_uri, from the uri that baresip has decoded.
StunUri(uri) ==
    [scheme |-> uri.scheme, host |-> uri.host,
     rest |-> CASE uri.port # 0 /\ uri.tcp -> <<"port", "?transport=tcp">>
                [] uri.port # 0 /\ ~ uri.tcp -> <<"port">>
                [] uri.port = 0 /\ uri.tcp -> <<"?transport=tcp">>
                [] uri.port = 0 /\ ~ uri.tcp -> <<>>]
-----------------------------------------------------------------------------
(* Setters and getters.                                                    *)

Called(f, value, ok) == last' = [field |-> f, value |-> value, ok |-> ok]

\* baresip refuses a setting, or the account is 0: nothing changes.
Refused(f, value) ==
    /\ Called(f, value, FALSE)
    /\ UNCHANGED <<available, stored, codecs, asked>>

Keep(f, value, what) ==
    /\ Called(f, value, TRUE)
    /\ stored' = [stored EXCEPT ![f] = what]
    /\ UNCHANGED <<available, codecs, asked>>

\* account_set_display_name and the like
SetText(name, text) ==
    LET f == Field(name, 0)
    IN  Keep(f, text, Pointer(text)) \/ Refused(f, text)

\* account_set_outbound: the index is cast, and baresip looks at it.
SetOutbound(ix, text) ==
    LET f == Field("outbound", Short(ix))
    IN  IF f.ix < Slots /\ text \notin Unknown
           THEN Keep(f, text, Pointer(text))
           ELSE Refused(f, text)

\* account_set_stun_uri: baresip decodes the uri, and refuses what is none.
SetStunUri ==
    LET f == Field("stun_uri", 0)
    IN  \/ \E uri \in StunUris : Keep(f, Written(uri), uri)
        \/ Keep(f, "", Null)
        \/ \E text \in Unknown : Refused(f, text)

\* account_set_regint and those of the modes: baresip looks at the unsigned value.
SetNumber(name, i) ==
    LET f == Field(name, 0)
    IN  Keep(f, i, Unsigned(i)) \/ Refused(f, i)

SetRtcpMux(b) == Keep(Field("rtcp_mux", 0), b, b) \/ Refused(Field("rtcp_mux", 0), b)

FaultyGet(f) ==
    CASE f.name \in Numbers -> stored[f]
      [] f.name = "rtcp_mux" -> stored[f]
      [] f.name = "stun_uri" /\ stored[f] # Null -> StunUri(stored[f])
      [] OTHER -> Text(stored[f])

\* account_display_name and the other getters
Get(f) ==
    CASE f.name \in Numbers -> Signed(stored[f])
      [] f.name = "rtcp_mux" -> stored[f]
      [] f.name = "stun_uri" /\ stored[f] # Null -> StunUri(stored[f])
      [] OTHER -> Text(stored[f])
-----------------------------------------------------------------------------
(* Codecs.                                                                 *)

(* The characters that audio_codecs has written after i codecs, or -1 when *)
(* one did not fit: commas go in between, and one character ends the text. *)
Filled(list) ==
    LET filled[i \in 0 .. Len(list)] ==
            IF i = 0 THEN 0
            ELSE LET comma == IF i = 1 THEN 0 ELSE 1
                     all == filled[i - 1] + comma + Length[list[i]]
                 IN  IF filled[i - 1] = -1 \/ all >= ListSize THEN -1 ELSE all
    IN  filled

\* What fits is returned, without the rest.
FaultyAudioCodecs(list) ==
    SelectSeq(list, LAMBDA c : \E i \in 1 .. Len(list) : list[i] = c /\ Filled(list)[i] # -1)

\* audio_codecs (and video_codecs): a list that does not fit is no list.
AudioCodecs(list) == IF Filled(list)[Len(list)] = -1 THEN <<>> ELSE list

\* account_audio_codec(ix), for each ix of a codec
Codec(list) == [i \in DOMAIN list |-> IF Length[list[i]] < CodecSize THEN list[i] ELSE ""]

(* account_set_audio_codecs makes a new list of the codecs that baresip    *)
(* knows.  An account without a list of its own has that of baresip.       *)
SetAudioCodecs(list) ==
    /\ codecs' = list
    /\ last' = NoCall
    /\ UNCHANGED <<available, stored>>

\* initSipAccount passes what audio_codecs returns.
InitSipAccount == SetAudioCodecs(AudioCodecs(available)) /\ asked' = <<>>

\* The application asks for one codec.
ChooseCodec ==
    \E i \in DOMAIN available : SetAudioCodecs(<<available[i]>>) /\ asked' = <<available[i]>>

Offered == Codec(IF codecs = <<>> THEN available ELSE codecs)
-----------------------------------------------------------------------------
Next ==
    \/ \E text \in Texts \union {""} :
          \/ \E name \in Names : SetText(name, text)
          \/ \E ix \in 0 .. Slots : SetOutbound(ix, text)
    \/ SetStunUri
    \/ \E name \in Numbers, i \in Jints : SetNumber(name, i)
    \/ \E b \in BOOLEAN : SetRtcpMux(b)
    \/ InitSipAccount \/ ChooseCodec

Spec == Init /\ [][Next]_vars
-----------------------------------------------------------------------------
TypeOK ==
    /\ available \in Builds
    /\ \A f \in Fields :
          CASE f.name \in Numbers -> stored[f] \in 0 .. Word - 1
            [] f.name = "rtcp_mux" -> stored[f] \in BOOLEAN
            [] f.name = "stun_uri" -> stored[f] = Null \/ stored[f] \in StunUris
            [] OTHER -> stored[f] = Null \/ stored[f] \in Texts
    /\ DOMAIN stored = Fields

(* Setters and getters agree, through null pointers, casts, and the uri    *)
(* that baresip decodes and the bridge puts together again.                *)
Promise == INSTANCE Settings WITH settings <- [f \in Fields |-> Get(f)]

SettingsAreKept == Promise!Spec

(* The account is set up with all codecs of baresip, in its order, also    *)
(* when their text does not fit the buffer (initSipAccount, audio_codecs). *)
AskedIsOffered ==
    Offered = Codec(IF asked = <<>> THEN available ELSE asked)
=============================================================================
