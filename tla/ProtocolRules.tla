---------------------------- MODULE ProtocolRules ----------------------------
(***************************************************************************)
(* The message rules of apps/protocol: validate_message and                *)
(* validate_payload of validators.py.  A value of a payload is its class:  *)
(* the rules tell no more about it.                                        *)
(***************************************************************************)
EXTENDS Naturals

\* "positive" is an integer from 1 to 6, "large" one above, "huge" one of more
\* than 64 bits; "word" is a text that is also a PartnerState and an
\* EventEndReason, "halved" one with half of a surrogate pair; "items" is a list
\* of non-empty texts; "other" is of any type no rule asks for (null, a float).
Value == {"missing", "other", "bool", "negative", "zero", "positive", "large",
          "huge", "blank", "text", "word", "halved", "empty", "items", "object"}

\* _require_positive_int, _require_nonneg_int, the round_number checks,
\* _require_nonempty_str, _require and the optional fields.  A bool is no int.
Accepts(rule, x) ==
  CASE rule = "posint" -> x \in {"positive", "large", "huge"}
    [] rule = "nonneg" -> x \in {"zero", "positive", "large", "huge"}
    [] rule = "round"  -> x = "positive"
    [] rule = "text"   -> x \in {"text", "word", "halved"}
    [] rule = "word"   -> x = "word"
    [] rule = "bool"   -> x = "bool"
    [] rule = "items"  -> x = "items"
    [] rule = "text?"  -> x \in {"missing", "blank", "text", "word", "halved"}
    [] rule = "items?" -> x \in {"missing", "empty", "items"}
    [] rule = "object?" -> x \in {"missing", "object"}

\* Plausible bug: browsers may leave sdpMid out, so the client's rule does too.
ClientRulesLaxIce ==
  [hello      |-> [client_ts |-> "posint"],
   clock_sync |-> [client_ts |-> "posint"],
   ping       |-> [client_ts |-> "posint"],
   ready      |-> [round_number |-> "round"],
   offer      |-> [room_id |-> "text", sdp |-> "text"],
   answer     |-> [room_id |-> "text", sdp |-> "text"],
   ice        |-> [room_id |-> "text", candidate |-> "text",
                   sdp_mid |-> "text?", sdp_mline_index |-> "nonneg"]]

\* The _validate_client_ functions, then those of the server's messages.
ClientRules ==
  [hello      |-> [client_ts |-> "posint"],
   clock_sync |-> [client_ts |-> "posint"],
   ping       |-> [client_ts |-> "posint"],
   ready      |-> [round_number |-> "round"],
   offer      |-> [room_id |-> "text", sdp |-> "text"],
   answer     |-> [room_id |-> "text", sdp |-> "text"],
   ice        |-> [room_id |-> "text", candidate |-> "text",
                   sdp_mid |-> "text", sdp_mline_index |-> "nonneg"]]

\* supported_versions is a list of integers: here a list is a list.
AnswerRules ==
  [s_hello      |-> [participant_id |-> "text", server_ts |-> "posint",
                     client_ts_echo |-> "posint", event_id |-> "text",
                     supported_versions |-> "items", capacity |-> "object?"],
   s_clock_sync |-> [client_ts_echo |-> "posint", server_ts |-> "posint"],
   pong         |-> [client_ts_echo |-> "posint", server_ts |-> "posint"]]

RoundRules ==
  [pairing       |-> [round_number |-> "round", room_id |-> "text",
                      partner_id |-> "text", is_offerer |-> "bool",
                      round_start_ts |-> "posint", round_end_ts |-> "posint",
                      partner_display_name |-> "text?",
                      partner_tags |-> "items?"],
   round_start   |-> [round_number |-> "round", room_id |-> "text",
                      server_ts |-> "posint"],
   round_warning |-> [round_number |-> "round", server_ts |-> "posint",
                      remaining_seconds |-> "nonneg",
                      round_end_ts |-> "posint"],
   round_end     |-> [round_number |-> "round", server_ts |-> "posint"]]

OtherRules ==
  [partner_state    |-> [partner_id |-> "text", state |-> "word",
                         server_ts |-> "posint"],
   s_offer          |-> [room_id |-> "text", from_participant_id |-> "text",
                         sdp |-> "text"],
   s_answer         |-> [room_id |-> "text", from_participant_id |-> "text",
                         sdp |-> "text"],
   s_ice            |-> [room_id |-> "text", from_participant_id |-> "text",
                         candidate |-> "text", sdp_mid |-> "text",
                         sdp_mline_index |-> "nonneg"],
   turn_credentials |-> [urls |-> "items", username |-> "text",
                         credential |-> "text", ttl |-> "posint"],
   event_end        |-> [reason |-> "word", server_ts |-> "posint",
                         message |-> "text?"],
   error            |-> [code |-> "text", message |-> "text",
                         original_type |-> "text?", detail |-> "object?"]]

ClientTypes == DOMAIN ClientRules
ServerTypes == DOMAIN AnswerRules \cup DOMAIN RoundRules \cup DOMAIN OtherRules

RulesOf(t) ==
  CASE t \in ClientTypes -> ClientRules[t]
    [] t \in DOMAIN AnswerRules -> AnswerRules[t]
    [] t \in DOMAIN RoundRules -> RoundRules[t]
    [] t \in DOMAIN OtherRules -> OtherRules[t]

\* validate_payload; a field the payload lacks is "missing".
validate_payload(t, p) ==
  \A f \in DOMAIN RulesOf(t) :
    Accepts(RulesOf(t)[f], IF f \in DOMAIN p THEN p[f] ELSE "missing")

\* validate_message: the first check that fails gives the error code.  Version
\* 1 ("positive") is the only one supported.  On JSON that is nested too deeply
\* json.loads raises a RecursionError, which is no ValueError and escapes.
validate_message(m) ==
  CASE m.frame = "too_deep" -> "raises"
    [] m.frame = "not_json" -> "ERR_INVALID_JSON"
    [] m.frame = "not_object" -> "ERR_INVALID_MESSAGE"
    [] m.frame = "object" ->
         IF m.version \notin {"negative", "zero", "positive", "large", "huge"}
         THEN "ERR_INVALID_MESSAGE"
         ELSE IF m.version # "positive" THEN "ERR_VERSION_MISMATCH"
         ELSE IF m.type \in {"missing", "other"} THEN "ERR_INVALID_MESSAGE"
         ELSE IF m.type \notin ClientTypes \cup ServerTypes
         THEN "ERR_UNKNOWN_TYPE"
         ELSE IF ~m.enclosed \/ ~validate_payload(m.type, m.payload)
         THEN "ERR_INVALID_MESSAGE" ELSE "ok"
=============================================================================
