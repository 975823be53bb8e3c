--------------------------- MODULE AccountsProofs ---------------------------
(***************************************************************************)
(* Proofs about Accounts, for any settings, texts, widths and lists of     *)
(* codecs: what a setter has stored is what its getter returns.            *)
(***************************************************************************)
EXTENDS Accounts, SequenceTheorems, TLAPS

\* A jint that was stored as a uint32_t comes out as itself.
LEMMA SignedUnsigned ==
    ASSUME NEW i \in Jints
    PROVE  /\ Unsigned(i) \in 0 .. Word - 1
           /\ Signed(Unsigned(i)) = i
<1>1. i \in Int /\ Word \in Nat /\ -Word <= 2 * i /\ 2 * i < Word
  BY WordAssumption
<1>2. CASE i >= 0
  <2>1. i % Word = i
    BY <1>1, <1>2
  <2> QED BY <2>1, <1>1, <1>2 DEF Unsigned, Signed
<1>3. CASE i < 0
  <2>1. i % Word = i + Word
    BY <1>1, <1>3
  <2> QED BY <2>1, <1>1, <1>3 DEF Unsigned, Signed
<1> QED BY <1>1, <1>2, <1>3

LEMMA BelowSlots ==
    ASSUME NEW n \in Nat, n < Slots
    PROVE  n \in 0 .. Slots - 1
<1>1. Slots \in Nat
  BY WordAssumption
<1> QED BY <1>1

\* The index of a text setting is 0, whatever it was cast from.
LEMMA ShortIsNat ==
    ASSUME NEW ix \in 0 .. Slots
    PROVE  Short(ix) \in Nat
BY WordAssumption DEF Short

\* The names of settings tell them apart.
LEMMA FieldNames ==
    /\ \A name \in Names : Field(name, 0) \in Fields /\ name \notin Numbers
                           /\ name \notin {"rtcp_mux", "stun_uri"}
    /\ \A name \in Numbers : Field(name, 0) \in Fields
                             /\ name \notin {"rtcp_mux", "stun_uri"}
    /\ {Field("stun_uri", 0), Field("rtcp_mux", 0)} \subseteq Fields
    /\ \A ix \in 0 .. Slots - 1 : Field("outbound", ix) \in Fields
    /\ {"stun_uri", "rtcp_mux", "outbound"} \intersect Numbers = {}
BY NamesAssumption, NumbersAssumption DEF Fields

-----------------------------------------------------------------------------
(* Types.                                                                  *)

StoredOK(f, x) ==
    CASE f.name \in Numbers -> x \in 0 .. Word - 1
      [] f.name = "rtcp_mux" -> x \in BOOLEAN
      [] f.name = "stun_uri" -> x = Null \/ x \in StunUris
      [] OTHER -> x = Null \/ x \in Texts

IInv ==
    /\ available \in Builds
    /\ \A f \in Fields : StoredOK(f, stored[f])
    /\ stored = [f \in Fields |-> stored[f]]

\* What a step does to the settings: nothing, or it keeps one of them, in a
\* form that its getter turns back into what was given.
KeepsOne ==
    \E f \in Fields :
        /\ last'.ok /\ last'.field = f
        /\ stored' = [stored EXCEPT ![f] = stored'[f]]
        /\ StoredOK(f, stored'[f])
        /\ Get(f)' = last'.value

KeepsNone == last'.ok = FALSE /\ stored' = stored

LEMMA RefusedKeepsNone ==
    ASSUME NEW f, NEW value, Refused(f, value)
    PROVE  KeepsNone /\ UNCHANGED available
BY DEF Refused, Called, KeepsNone

LEMMA KeepKeepsOne ==
    ASSUME IInv, NEW f \in Fields, NEW value, NEW what, Keep(f, value, what),
           StoredOK(f, what),
           stored'[f] = what => Get(f)' = value
    PROVE  KeepsOne /\ UNCHANGED available
<1>1. stored' = [stored EXCEPT ![f] = what] /\ last' = [field |-> f, value |-> value, ok |-> TRUE]
  BY DEF Keep, Called
<1>2. stored'[f] = what
  BY <1>1 DEF IInv
<1> QED BY <1>1, <1>2 DEF KeepsOne, Keep

\* Text settings: the empty text goes through a null pointer.
LEMMA TextsAreKept ==
    ASSUME IInv, NEW f \in Fields, f.name \notin Numbers, f.name \notin {"rtcp_mux", "stun_uri"},
           NEW text \in Texts \union {""}, Keep(f, text, Pointer(text))
    PROVE  KeepsOne /\ UNCHANGED available
<1>1. StoredOK(f, Pointer(text))
  BY DEF StoredOK, Pointer
<1>2. stored'[f] = Pointer(text) => Get(f)' = text
  BY TextsAssumption DEF Get, Text, Pointer
<1> QED BY <1>1, <1>2, KeepKeepsOne

\* The bridge puts a uri together as it was written.
LEMMA WrittenAgain ==
    ASSUME NEW uri \in StunUris
    PROVE  StunUri(uri) = Written(uri)
<1>1. <<>> \o <<>> = <<>> /\ <<"port">> \o <<>> = <<"port">>
  OBVIOUS
<1>2. <<>> \o <<"?transport=tcp">> = <<"?transport=tcp">>
  OBVIOUS
<1>3. <<"port">> \o <<"?transport=tcp">> = <<"port", "?transport=tcp">>
  <2> DEFINE S == {"port", "?transport=tcp"}
             s == <<"port">>
             t == <<"?transport=tcp">>
             u == <<"port", "?transport=tcp">>
  <2>1. s \in Seq(S) /\ t \in Seq(S) /\ u \in Seq(S)
    OBVIOUS
  <2>2. Len(s) = 1 /\ Len(t) = 1 /\ Len(u) = 2 /\ s[1] = u[1] /\ t[1] = u[2]
    OBVIOUS
  <2>3. s \o t \in Seq(S) /\ Len(s \o t) = 2
    BY <2>1, <2>2
  <2>4. (s \o t)[1] = u[1] /\ (s \o t)[2] = u[2]
    BY <2>1, <2>2
  <2> HIDE DEF S, s, t, u
  <2>5. s \o t = u
    <3>1. \A i \in 1 .. Len(s \o t) : (s \o t)[i] = u[i]
      BY <2>3, <2>4
    <3> QED BY <2>1, <2>2, <2>3, <3>1, SeqEqual
  <2> QED BY <2>5 DEF s, t, u
<1>4. uri.tcp \in BOOLEAN
  BY DEF StunUris
<1>5. CASE uri.port = 0 /\ uri.tcp
  BY <1>2, <1>5 DEF StunUri, Written
<1>6. CASE uri.port = 0 /\ ~ uri.tcp
  BY <1>1, <1>6 DEF StunUri, Written
<1>7. CASE uri.port # 0 /\ uri.tcp
  BY <1>3, <1>7 DEF StunUri, Written
<1>8. CASE uri.port # 0 /\ ~ uri.tcp
  BY <1>1, <1>8 DEF StunUri, Written
<1> QED BY <1>4, <1>5, <1>6, <1>7, <1>8

LEMMA StunUriIsKept ==
    ASSUME IInv, SetStunUri
    PROVE  (KeepsOne \/ KeepsNone) /\ UNCHANGED available
<1> DEFINE f == Field("stun_uri", 0)
<1>1. f \in Fields /\ f.name = "stun_uri" /\ f.name \notin Numbers
  BY FieldNames DEF Field
<1>2. CASE \E uri \in StunUris : Keep(f, Written(uri), uri)
  <2>1. PICK uri \in StunUris : Keep(f, Written(uri), uri)
    BY <1>2
  <2>2. StoredOK(f, uri)
    BY <1>1, <2>1 DEF StoredOK
  <2>3. StunUri(uri) = Written(uri)
    BY WrittenAgain
  <2>4. stored'[f] = uri => Get(f)' = Written(uri)
    BY <1>1, <2>3, NullAssumption DEF Get
  <2> QED BY <1>1, <2>1, <2>2, <2>4, KeepKeepsOne
<1>3. CASE Keep(f, "", Null)
  <2>1. StoredOK(f, Null)
    BY <1>1 DEF StoredOK
  <2>2. stored'[f] = Null => Get(f)' = ""
    BY <1>1 DEF Get, Text
  <2> QED BY <1>1, <1>3, <2>1, <2>2, KeepKeepsOne
<1>4. CASE \E text \in Unknown : Refused(f, text)
  BY <1>4, RefusedKeepsNone
<1> QED BY <1>2, <1>3, <1>4 DEF SetStunUri

LEMMA NumbersAreKept ==
    ASSUME IInv, NEW name \in Numbers, NEW i \in Jints, SetNumber(name, i)
    PROVE  (KeepsOne \/ KeepsNone) /\ UNCHANGED available
<1> DEFINE f == Field(name, 0)
<1>1. f \in Fields /\ f.name \in Numbers /\ f.name \notin {"rtcp_mux", "stun_uri"}
  BY FieldNames DEF Field
<1>2. CASE Keep(f, i, Unsigned(i))
  <2>1. StoredOK(f, Unsigned(i))
    BY <1>1, SignedUnsigned DEF StoredOK
  <2>2. stored'[f] = Unsigned(i) => Get(f)' = i
    BY <1>1, SignedUnsigned DEF Get
  <2> QED BY <1>1, <1>2, <2>1, <2>2, KeepKeepsOne
<1>3. CASE Refused(f, i)
  BY <1>3, RefusedKeepsNone
<1> QED BY <1>2, <1>3 DEF SetNumber

LEMMA RtcpMuxIsKept ==
    ASSUME IInv, NEW b \in BOOLEAN, SetRtcpMux(b)
    PROVE  (KeepsOne \/ KeepsNone) /\ UNCHANGED available
<1> DEFINE f == Field("rtcp_mux", 0)
<1>1. f \in Fields /\ f.name = "rtcp_mux" /\ f.name \notin Numbers
  BY FieldNames DEF Field
<1>2. CASE Keep(f, b, b)
  <2>1. StoredOK(f, b)
    BY <1>1 DEF StoredOK
  <2>2. stored'[f] = b => Get(f)' = b
    BY <1>1 DEF Get
  <2> QED BY <1>1, <1>2, <2>1, <2>2, KeepKeepsOne
<1>3. CASE Refused(f, b)
  BY <1>3, RefusedKeepsNone
<1> QED BY <1>2, <1>3 DEF SetRtcpMux

LEMMA EachStep ==
    ASSUME IInv, Next
    PROVE  (KeepsOne \/ KeepsNone) /\ UNCHANGED available
<1>1. CASE \E text \in Texts \union {""}, name \in Names : SetText(name, text)
  <2>1. PICK text \in Texts \union {""}, name \in Names : SetText(name, text)
    BY <1>1
  <2> DEFINE f == Field(name, 0)
  <2>2. f \in Fields /\ f.name \notin Numbers /\ f.name \notin {"rtcp_mux", "stun_uri"}
    BY FieldNames DEF Field
  <2>3. CASE Keep(f, text, Pointer(text))
    BY <2>2, <2>3, TextsAreKept
  <2>4. CASE Refused(f, text)
    BY <2>4, RefusedKeepsNone
  <2> QED BY <2>1, <2>3, <2>4 DEF SetText
<1>2. CASE \E text \in Texts \union {""}, ix \in 0 .. Slots : SetOutbound(ix, text)
  <2>1. PICK text \in Texts \union {""}, ix \in 0 .. Slots : SetOutbound(ix, text)
    BY <1>2
  <2> DEFINE f == Field("outbound", Short(ix))
  <2>2. CASE f.ix < Slots /\ text \notin Unknown
    <3>1. Short(ix) \in 0 .. Slots - 1
      <4>1. f.ix = Short(ix)
        BY DEF Field
      <4>2. Short(ix) < Slots
        BY <2>2, <4>1
      <4>3. Short(ix) \in Nat
        BY ShortIsNat
      <4> QED BY <4>2, <4>3, BelowSlots, Zenon
    <3>2. f \in Fields /\ f.name \notin Numbers /\ f.name \notin {"rtcp_mux", "stun_uri"}
      BY <3>1, FieldNames DEF Field
    <3>3. Keep(f, text, Pointer(text))
      BY <2>1, <2>2 DEF SetOutbound
    <3> QED BY <3>2, <3>3, TextsAreKept
  <2>3. CASE ~ (f.ix < Slots /\ text \notin Unknown)
    <3>1. Refused(f, text)
      BY <2>1, <2>3 DEF SetOutbound
    <3> QED BY <3>1, RefusedKeepsNone
  <2> QED BY <2>2, <2>3
<1>3. CASE SetStunUri
  BY <1>3, StunUriIsKept
<1>4. CASE \E name \in Numbers, i \in Jints : SetNumber(name, i)
  BY <1>4, NumbersAreKept
<1>5. CASE \E b \in BOOLEAN : SetRtcpMux(b)
  BY <1>5, RtcpMuxIsKept
<1>6. CASE InitSipAccount \/ ChooseCodec
  <2>1. \A list : SetAudioCodecs(list) => KeepsNone /\ UNCHANGED available
    <3>1. NoCall.ok = FALSE
      BY DEF NoCall
    <3> QED BY <3>1, Zenon DEF SetAudioCodecs, KeepsNone
  <2> QED BY <1>6, <2>1, Zenon DEF InitSipAccount, ChooseCodec
<1>7. \/ \E text \in Texts \union {""}, name \in Names : SetText(name, text)
      \/ \E text \in Texts \union {""}, ix \in 0 .. Slots : SetOutbound(ix, text)
      \/ SetStunUri \/ (\E name \in Numbers, i \in Jints : SetNumber(name, i))
      \/ (\E b \in BOOLEAN : SetRtcpMux(b)) \/ InitSipAccount \/ ChooseCodec
  BY Zenon DEF Next
<1> QED BY <1>1, <1>2, <1>3, <1>4, <1>5, <1>6, <1>7

LEMMA InitIInv == Init => IInv
<1> SUFFICES ASSUME Init PROVE IInv
  OBVIOUS
<1>1. ASSUME NEW f \in Fields PROVE StoredOK(f, stored[f])
  <2>1. stored[f] = CASE f.name \in Numbers -> 0
                      [] f.name = "rtcp_mux" -> FALSE
                      [] OTHER -> Null
    BY <1>1 DEF Init
  <2>2. CASE f.name \in Numbers
    <3>1. f.name \notin {"rtcp_mux", "stun_uri"}
      BY <2>2, FieldNames
    <3>2. stored[f] = 0
      BY <2>1, <2>2, <3>1
    <3> QED BY <2>2, <3>1, <3>2, WordAssumption DEF StoredOK
  <2>3. CASE f.name = "rtcp_mux"
    BY <2>1, <2>3, FieldNames DEF StoredOK
  <2>4. CASE f.name \notin Numbers \union {"rtcp_mux"}
    BY <2>1, <2>4 DEF StoredOK
  <2> QED BY <2>2, <2>3, <2>4
<1>2. stored = [f \in Fields |-> stored[f]]
  BY DEF Init
<1>3. available \in Builds
  BY DEF Init
<1> QED BY <1>1, <1>2, <1>3 DEF IInv

LEMMA NextIInv == IInv /\ [Next]_vars => IInv'
<1> SUFFICES ASSUME IInv, [Next]_vars PROVE IInv'
  OBVIOUS
<1>1. CASE KeepsOne /\ UNCHANGED available
  BY <1>1 DEF KeepsOne, IInv
<1>2. CASE (KeepsNone /\ UNCHANGED available) \/ UNCHANGED vars
  BY <1>2 DEF KeepsNone, IInv, vars
<1> QED BY <1>1, <1>2, EachStep

LEMMA IInvTypeOK == IInv => TypeOK
BY DEF IInv, TypeOK, StoredOK

(* Every variable keeps its type: the account never holds an empty text,   *)
(* and its numbers stay unsigned (account_set_display_name,                *)
(* account_set_regint).                                                    *)
THEOREM TypeCorrect == Spec => []TypeOK
<1>1. Init => IInv
  BY InitIInv
<1>2. IInv /\ [Next]_vars => IInv'
  BY NextIInv
<1>3. IInv => TypeOK
  BY IInvTypeOK
<1> QED BY <1>1, <1>2, <1>3, PTL DEF Spec

-----------------------------------------------------------------------------
(* Refinement.                                                             *)

\* A step of Next, and any other, is one that Settings allows.
LEMMA StepImplements ==
    IInv /\ [Next]_vars => [Promise!Next]_<<[f \in Fields |-> Get(f)], last>>
<1> SUFFICES ASSUME IInv, [Next]_vars
             PROVE  [Promise!Next]_<<[f \in Fields |-> Get(f)], last>>
  OBVIOUS
<1> DEFINE settings == [f \in Fields |-> Get(f)]
<1>1. CASE KeepsOne
  <2>1. PICK f \in Fields :
             /\ last'.ok /\ last'.field = f
             /\ stored' = [stored EXCEPT ![f] = stored'[f]]
             /\ Get(f)' = last'.value
    BY <1>1 DEF KeepsOne
  <2>2. \A g \in Fields : g # f => Get(g)' = Get(g)
    BY <2>1 DEF Get, IInv
  <2>3. settings' = [settings EXCEPT ![f] = last'.value]
    BY <2>1, <2>2
  <2> QED BY <2>1, <2>3 DEF Promise!Next
<1>2. CASE KeepsNone
  <2>1. \A g \in Fields : Get(g)' = Get(g)
    BY <1>2 DEF KeepsNone, Get
  <2>2. settings' = settings
    BY <2>1
  <2> QED BY <1>2, <2>2 DEF Promise!Next, KeepsNone
<1>3. CASE UNCHANGED vars
  <2>1. \A g \in Fields : Get(g)' = Get(g)
    BY <1>3 DEF vars, Get
  <2> QED BY <1>3, <2>1 DEF vars
<1> QED BY <1>1, <1>2, <1>3, EachStep

(* The setters and getters of the bridge implement module Settings: what   *)
(* was set successfully is what is returned, and nothing else changes      *)
(* (account_set_display_name to account_set_dtmfmode and their getters).   *)
THEOREM SettersAndGettersAgree == Spec => SettingsAreKept
<1>1. Init => IInv
  BY InitIInv
<1>2. IInv /\ [Next]_vars => IInv'
  BY NextIInv
<1>3. IInv /\ [Next]_vars => [Promise!Next]_<<[f \in Fields |-> Get(f)], last>>
  BY StepImplements
<1> QED BY <1>1, <1>2, <1>3, PTL DEF Spec, SettingsAreKept, Promise!Spec
-----------------------------------------------------------------------------
(* Codecs.                                                                 *)

CodecsInv == codecs = asked \/ (asked = <<>> /\ codecs = available)

LEMMA NextCodecsInv == CodecsInv /\ [Next]_vars => CodecsInv'
<1> SUFFICES ASSUME CodecsInv, [Next]_vars PROVE CodecsInv'
  OBVIOUS
<1>1. CASE UNCHANGED <<available, codecs, asked>>
  BY <1>1 DEF CodecsInv
<1>2. CASE InitSipAccount
  <2>1. AudioCodecs(available) \in {<<>>, available}
    BY Zenon DEF AudioCodecs
  <2>2. codecs' = AudioCodecs(available) /\ asked' = <<>> /\ available' = available
    BY <1>2 DEF InitSipAccount, SetAudioCodecs
  <2> QED BY <2>1, <2>2 DEF CodecsInv
<1>3. CASE ChooseCodec
  BY <1>3, Zenon DEF ChooseCodec, SetAudioCodecs, CodecsInv
<1>4. (\E f, value : Refused(f, value)) => UNCHANGED <<available, codecs, asked>>
  BY DEF Refused
<1>5. (\E f, value, what : Keep(f, value, what)) => UNCHANGED <<available, codecs, asked>>
  BY DEF Keep
<1>6. \/ \E f, value : Refused(f, value)
      \/ \E f, value, what : Keep(f, value, what)
      \/ InitSipAccount \/ ChooseCodec \/ UNCHANGED vars
  <2>1. \A name, text : SetText(name, text) => \E f : Refused(f, text) \/ Keep(f, text, Pointer(text))
    BY Zenon DEF SetText
  <2>2. \A ix, text : SetOutbound(ix, text) => \E f : Refused(f, text) \/ Keep(f, text, Pointer(text))
    BY Zenon DEF SetOutbound
  <2>3. SetStunUri => \E f, value, what : Refused(f, value) \/ Keep(f, value, what)
    BY Zenon DEF SetStunUri
  <2>4. \A name, i : SetNumber(name, i) => \E f : Refused(f, i) \/ Keep(f, i, Unsigned(i))
    BY Zenon DEF SetNumber
  <2>5. \A b : SetRtcpMux(b) => \E f : Refused(f, b) \/ Keep(f, b, b)
    BY Zenon DEF SetRtcpMux
  <2> QED BY <2>1, <2>2, <2>3, <2>4, <2>5, Zenon DEF Next
<1>7. CASE UNCHANGED vars
  BY <1>7, <1>1 DEF vars
<1> QED BY <1>1, <1>2, <1>3, <1>4, <1>5, <1>6, <1>7

(* An account offers the codecs that were asked for, and all that there    *)
(* are if none were or if their text does not fit (audio_codecs,           *)
(* account_set_audio_codecs, account_audio_codec).                         *)
THEOREM AskedCodecsAreOffered == Spec => []AskedIsOffered
<1>1. Init => CodecsInv
  BY DEF Init, CodecsInv
<1>2. CodecsInv /\ [Next]_vars => CodecsInv'
  BY NextCodecsInv
<1>3. CodecsInv => AskedIsOffered
  BY DEF CodecsInv, AskedIsOffered, Offered
<1> QED BY <1>1, <1>2, <1>3, PTL DEF Spec
=============================================================================
