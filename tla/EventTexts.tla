----------------------------- MODULE EventTexts -----------------------------
(***************************************************************************)
(* The texts in which ua_event_handler of baresip.c writes an event of     *)
(* baresip, and what SipManager.uaEvent reads out of them.  A text is the  *)
(* sequence of its parts between commas; a parameter of baresip (the uri   *)
(* of a peer, the reason of a failure) is a text too, of one part or, when *)
(* it contains commas, of several.  An event is a record: its kind, its    *)
(* parameter, the status code of the call, the direction of its audio, and *)
(* whether its text fits the buffer of 256 characters.                     *)
(***************************************************************************)
EXTENDS Integers, Sequences

NoText == <<>>

Directions == 0 .. 3  \* inactive, receive, send, both

UaEventRegStr(kind) ==
    CASE kind = "REGISTERING" -> "registering"
      [] kind \in {"REGISTER_OK", "FALLBACK_OK"} -> "registered"
      [] kind \in {"REGISTER_FAIL", "FALLBACK_FAIL"} -> "registering failed"
      [] kind = "UNREGISTERING" -> "unregistering"

FaultyTranslateErrorcode(code) ==
    CASE code \in {0, 404, 487} -> ""
      [] code = 486 -> "busy"
      [] OTHER -> "error"

\* The tone for the status code that ended a call; 0 is no code.
TranslateErrorcode(code) ==
    CASE code \in {0, 404, 487} -> ""
      [] code \in {486, 603} -> "busy"
      [] OTHER -> "error"

\* What is known of the encryption of the media, by the first character.
MencText(prm) ==
    CASE prm[1] = "0" -> <<"call secure">>
      [] prm[1] = "1" -> <<"call verify">> \o Tail(prm)
      [] prm[1] = "2" -> <<"call verified">> \o Tail(prm)
      [] OTHER -> <<"unknown menc event">>

(* The text of an event, before its length is looked at.  Of the offers    *)
(* and answers only an answer of ours and an offer of the peer have one,   *)
(* and of the events of modules only the dump of a sound file.             *)
Format(e) ==
    CASE e.kind = "CREATE" -> <<"create">>
      [] e.kind \in {"REGISTERING", "UNREGISTERING", "REGISTER_OK", "FALLBACK_OK"} ->
            <<UaEventRegStr(e.kind)>>
      [] e.kind \in {"REGISTER_FAIL", "FALLBACK_FAIL"} ->
            <<UaEventRegStr(e.kind)>> \o e.prm
      [] e.kind = "CALL_INCOMING" -> <<"call incoming">> \o e.prm
      [] e.kind = "CALL_OUTGOING" -> <<"call outgoing">>
      [] e.kind = "CALL_ANSWERED" -> <<"call answered">>
      [] e.kind = "CALL_REDIRECT" -> <<"call redirect">> \o Tail(e.prm)
      [] e.kind = "CALL_LOCAL_SDP" /\ e.prm # <<"offer">> -> <<"call answered">>
      [] e.kind = "CALL_RINGING" -> <<"call ringing">>
      [] e.kind = "CALL_PROGRESS" -> <<"call progress", e.dir>>
      [] e.kind = "CALL_ESTABLISHED" -> <<"call established">>
      [] e.kind = "CALL_REMOTE_SDP" /\ e.prm = <<"offer">> -> <<"call update", e.dir>>
      [] e.kind = "CALL_MENC" -> MencText(e.prm)
      [] e.kind = "CALL_TRANSFER" -> <<"call transfer">> \o e.prm
      [] e.kind = "CALL_TRANSFER_FAILED" -> <<"transfer failed">> \o e.prm
      [] e.kind = "CALL_CLOSED" ->
            <<"call closed">> \o e.prm \o <<TranslateErrorcode(e.code)>>
      [] e.kind = "MWI_NOTIFY" -> <<"mwi notify">> \o e.prm
      [] e.kind = "MODULE" /\ Len(e.prm) > 2 /\ e.prm[2] = "dump" ->
            <<"sndfile dump">> \o SubSeq(e.prm, 3, Len(e.prm))
      [] OTHER -> NoText

\* A text that does not fit is dropped.
EventText(e) == IF e.fits THEN Format(e) ELSE NoText

(* The texts of messages: an incoming one, unless the name of its sender   *)
(* does not fit, and the answer to one of ours, unless it is a failure.    *)
MessageText(e) == IF e.fits THEN <<"message">> \o e.prm ELSE NoText

ResponseText(e) == IF e.code # 0 THEN <<"response", e.code>> ELSE NoText

TextOf(e) ==
    CASE e.kind = "MESSAGE" -> MessageText(e)
      [] e.kind = "RESPONSE" -> ResponseText(e)
      [] OTHER -> EventText(e)

(* What uaEvent does on a text about a call, by its first part.  Of the    *)
(* others it only notes the call as the current one ("ignore").            *)
CallReaction(text) ==
    CASE text[1] = "call incoming" -> <<"ring in", text[Len(text)]>>
      [] text[1] = "call outgoing" -> <<"ring out">>
      [] text[1] = "call ringing" -> <<"ring back">>
      [] text[1] = "call progress" ->
            IF text[2] \in {1, 3} THEN <<"silence">> ELSE <<"ring back">>
      [] text[1] = "call update" /\ text[2] = 1 -> <<"paused">>
      [] text[1] = "call update" /\ text[2] = 3 -> <<"resuming">>
      [] text[1] = "call established" -> <<"up">>
      [] text[1] = "call closed" ->
            IF text[3] = "busy" THEN <<"hangup", "busy">> ELSE <<"hangup">>
      [] OTHER -> <<"ignore">>

\* And on one about an account.
AccountReaction(text) ==
    CASE text[1] \in {"registering", "unregistering"} -> <<"progress">>
      [] text[1] = "registered" -> <<"ok or none">>
      [] text[1] = "registering failed" -> <<"failed">>
      [] OTHER -> <<"ignore">>

AboutCall(e) ==
    e.kind \in {"CALL_INCOMING", "CALL_OUTGOING", "CALL_ANSWERED", "CALL_REDIRECT",
                "CALL_LOCAL_SDP", "CALL_RINGING", "CALL_PROGRESS", "CALL_ESTABLISHED",
                "CALL_REMOTE_SDP", "CALL_MENC", "CALL_TRANSFER", "CALL_TRANSFER_FAILED",
                "CALL_CLOSED"}

Reaction(e, text) == IF AboutCall(e) THEN CallReaction(text) ELSE AccountReaction(text)
=============================================================================
