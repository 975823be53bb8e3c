----------------------------- MODULE ConfigFile -----------------------------
(***************************************************************************)
(* The configuration file that Config.initialize writes before each start  *)
(* of baresip.  It is made from the lines that come with the application   *)
(* and from what the file said before.  A file is a sequence of lines, and *)
(* a line a variable with its value.                                       *)
(***************************************************************************)
EXTENDS Naturals, Sequences

CONSTANTS
    Words,        \* what the key or the value of a line may be: strings without blanks
    StaticLines,  \* the lines of the asset config.static
    AudioModules, \* the codecs that a first start loads, as a sequence
    Dns           \* SipManager.dnsServers, empty until a network is known

Line(key, value) == [key |-> key, value |-> value]

Lines == [key : Words, value : Words]

Texts == Seq(Lines)

NoFile == <<Line("no", "file")>>

EchoCanceller == <<"webrtc_aecm">>

\* The modules that Config.initialize chooses from.
Listed == AudioModules \o EchoCanceller

\* What the variables are set to when the file does not say.
Defaults ==
    [log_level |-> "2", auto_start |-> "no", call_volume |-> "0", opus_bitrate |-> "28000",
     opus_packet_loss |-> "1", audio_delay |-> "500", tone_country |-> "us"]

\* The variables that are kept if the file sets them.
Optional == {"sip_listen", "net_af", "sip_certificate", "sip_verify_server"}

ASSUME WordsAssumption ==
    /\ {"", "no", "yes", "file", "module", "webrtc_aecm", "dyn_dns", "dns_server",
        "sip_cafile", "ca_bundle"} \union DOMAIN Defaults \union Optional \subseteq Words
    /\ \A key \in DOMAIN Defaults : Defaults[key] \in Words
    /\ AudioModules \in Seq(Words) /\ Dns \in Seq(Words)

\* config.static sets none of the variables that follow it, and loads other modules.
ASSUME StaticAssumption ==
    /\ StaticLines \in Texts
    /\ \A i \in DOMAIN StaticLines :
          /\ StaticLines[i].key \notin
                DOMAIN Defaults \union Optional \union {"dyn_dns", "dns_server"}
          /\ \A j \in DOMAIN Listed : StaticLines[i] # Line("module", Listed[j])

ModuleLines(modules) == [i \in DOMAIN modules |-> Line("module", modules[i])]
-----------------------------------------------------------------------------
\* The lines of a text that are in S, in order.
Among(lines, S) ==
    LET Found[i \in 0 .. Len(lines)] ==
            IF i = 0 THEN <<>>
            ELSE IF lines[i] \in S THEN Append(Found[i - 1], lines[i]) ELSE Found[i - 1]
    IN  Found[Len(lines)]

(* previousVariables and previousVariable: the lines that set a variable,  *)
(* and the first of their values.                                          *)
Variables(lines, key) == Among(lines, [key : {key}, value : Words])

Value(lines, key) ==
    IF Variables(lines, key) = <<>> THEN "" ELSE Head(Variables(lines, key)).value

\* The line of a variable that is in every file, and of one that is kept if there.
Mandatory(previous, key) ==
    <<Line(key, IF Value(previous, key) # "" THEN Value(previous, key) ELSE Defaults[key])>>

Kept(previous, key) ==
    IF Value(previous, key) # "" THEN <<Line(key, Value(previous, key))>> ELSE <<>>

KeptModules(previous) ==
    Among(ModuleLines(Listed), {previous[i] : i \in DOMAIN previous})

(* The DNS servers are the file's own when dyn_dns says no, else those of  *)
(* the networks.                                                           *)
DnsLines(previous) ==
    IF Value(previous, "dyn_dns") = "no"
    THEN <<Line("dyn_dns", "no")>> \o Variables(previous, "dns_server")
    ELSE <<Line("dyn_dns", "yes")>> \o [i \in DOMAIN Dns |-> Line("dns_server", Dns[i])]

\* The text of a first start up to where the variables begin.
FirstLines == StaticLines \o ModuleLines(Listed)

(* The text that Config.initialize writes over a file.  At a first start   *)
(* the new text is its own previous one, so the modules are listed twice.  *)
Rewrite(file) ==
    LET head == IF file = NoFile THEN FirstLines ELSE StaticLines
        previous == IF file = NoFile THEN head ELSE file
    IN  head
          \o Mandatory(previous, "log_level") \o Mandatory(previous, "auto_start")
          \o Kept(previous, "sip_listen") \o Kept(previous, "net_af")
          \o Kept(previous, "sip_certificate") \o Kept(previous, "sip_verify_server")
          \o <<Line("sip_cafile", "ca_bundle")>>
          \o DnsLines(previous)
          \o Mandatory(previous, "call_volume")
          \o KeptModules(previous)
          \o Mandatory(previous, "opus_bitrate") \o Mandatory(previous, "opus_packet_loss")
          \o Mandatory(previous, "audio_delay") \o Mandatory(previous, "tone_country")
-----------------------------------------------------------------------------
(* What a file of the user means to the next starts: its codecs, its       *)
(* variables or their defaults, and its name servers.                      *)
Settings(file) ==
    [modules |-> {m \in {Listed[j] : j \in DOMAIN Listed} :
                     \E i \in DOMAIN file : file[i] = Line("module", m)},
     variables |-> [key \in DOMAIN Defaults |->
                       IF Value(file, key) # "" THEN Value(file, key) ELSE Defaults[key]],
     kept |-> [key \in Optional |-> Value(file, key)],
     servers |-> IF Value(file, "dyn_dns") = "no" THEN Variables(file, "dns_server")
                 ELSE <<Line("dns_server", "of the networks")>>]

(* To rewrite a text of texts gives another of them, with the settings of  *)
(* the first, or with the defaults where there was no file.                *)
KeepsSettings(texts) ==
    \A text \in texts :
        /\ Rewrite(text) \in texts \ {NoFile}
        /\ Settings(Rewrite(text)) = Settings(IF text = NoFile THEN FirstLines ELSE text)
=============================================================================
