----------------------------- MODULE Validation -----------------------------
(***************************************************************************)
(* What becomes of the contents of an event on its way to valid_events or  *)
(* invalid_events, on each of the three paths: the API handler             *)
(* (event_handler.cpp, event_utils.hpp), the view mv_kafka_to_raw and the  *)
(* SELECT of DAG 01; then the views mv_raw_to_valid and mv_raw_to_invalid. *)
(* The other modules treat an event as a name; here it is its fields, and  *)
(* nothing fails: faults are the subject of the modules of the paths.      *)
(*                                                                         *)
(* A field is "" when it is absent or empty. A definition named X_Y is X   *)
(* with the defect Y: no action uses it; it is there to show that the      *)
(* properties tell X from it.                                              *)
(***************************************************************************)
EXTENDS Integers, FiniteSets, Sequences

CONSTANTS
  Batches,    \* bodies that clients other than the generator post: sequences of events
  Messages,   \* Kafka messages of other producers, events
  CsvRows,    \* rows of csv objects of other producers
  Produced    \* the ClickstreamEvents of the generator's run, a sequence

Sources == {"http", "kafka", "csv"}

AllowedEventTypes == {"click", "view", "purchase", "signup", "login", "logout"}

\* "PAGE_VIEW" stands for the spellings that normalize_event_type maps to an
\* allowed type, "scroll" for the types nobody allows.
EventTypes == AllowedEventTypes \cup {"", "PAGE_VIEW", "scroll"}

\* A JSON event or a row of a csv object. device_id is "none" if the key is absent,
\* which the API tells from an empty one; context is TRUE if ip and user_agent are
\* there; payload is JSON text of an object or an array, or other text; extra is
\* the key besides payload under which data may be found: props is none of the
\* API's allowed_keys, props_json is one.
Event == [user_id: {"", "text", "number"}, session_id: {"", "text"},
          event_type: EventTypes, type: EventTypes,
          page_url: {"", "text"}, url: {"", "text"},
          device_id: {"none", "", "text"}, device_type: {"", "text"},
          created_at: {"", "time", "garbage"},
          payload: {"", "json", "text"}, extra: {"", "props", "props_json"},
          context: BOOLEAN]

\* A row of raw_events: n is its place in what was sent on that path. device_id is
\* the one sent ("text"), the device_type in its place, or the API's default. The
\* columns that no path looks at (referrer, user_agent, ip) and those each path
\* fills for itself (event_id, received_time, raw_payload, the origin) are left out.
RawRow == [source: Sources, n: Nat \ {0},
           user_id: {"", "text", "number"}, session_id: {"", "text"},
           device_id: {"", "text", "device_type", "unknown"},
           event_type: EventTypes, page_url: {"", "text"},
           event_time: {"time", "now"},
           props_json: {"payload", "props", "props_json", "{}"}]

VARIABLES
  sent,      \* [Sources -> Seq(Event)]: what is sent on each path
  read,      \* [Sources -> Nat]: how much of it was taken
  handler,   \* the locals of handle_events
  reply,     \* its response
  raw, valid, \* the rows of raw_events and valid_events
  invalid    \* the rows of invalid_events, each with its error_message

tables == <<raw, valid, invalid>>
vars == <<sent, read, handler, reply, tables>>

NoReply == [status |-> 0, accepted |-> 0, details |-> 0]
Idle == [rows |-> <<>>, errors |-> <<>>]

-----------------------------------------------------------------------------
(* The generator (event.cpp, and the csv row of main.cpp). *)

\* makeRandomEvent: all fields but the referrer are filled. eventToJson makes the
\* device_id of the user_id.
MakeRandomEvent == [type: AllowedEventTypes]

\* What is sent are events, and what the generator makes are its events.
ASSUME InputsAssumption ==
  /\ \A b \in Batches : b \in Seq(Event)
  /\ Messages \subseteq Event /\ CsvRows \subseteq Event
  /\ Produced \in Seq(MakeRandomEvent)

EventToJson_NoAlias(e) ==
  [user_id |-> "text", session_id |-> "text", event_type |-> e.type, type |-> "",
   page_url |-> "text", url |-> "", device_id |-> "text", device_type |-> "text",
   created_at |-> "time", payload |-> "json", extra |-> "", context |-> TRUE]
EventToJson(e) ==
  [user_id |-> "text", session_id |-> "text", event_type |-> e.type, type |-> e.type,
   page_url |-> "text", url |-> "text", device_id |-> "text", device_type |-> "text",
   created_at |-> "time", payload |-> "json", extra |-> "", context |-> TRUE]

\* The row written to the csv file: its columns are event_type and url, and of the
\* device its type alone.
CsvRow(e) == [EventToJson(e) EXCEPT !.type = "", !.page_url = "", !.device_id = "none"]

GeneratorSends ==
  [s \in Sources |-> [i \in DOMAIN Produced |->
     IF s = "csv" THEN CsvRow(Produced[i]) ELSE EventToJson(Produced[i])]]

Only(source, events) == [s \in Sources |-> IF s = source THEN events ELSE <<>>]

Init ==
  /\ \/ sent = GeneratorSends
     \/ \E b \in Batches : sent = Only("http", b)
     \/ \E e \in Messages : sent = Only("kafka", <<e>>)
     \/ \E e \in CsvRows : sent = Only("csv", <<e>>)
  /\ read = [s \in Sources |-> 0]
  /\ handler = Idle /\ reply = NoReply
  /\ raw = {} /\ valid = {} /\ invalid = {}

-----------------------------------------------------------------------------
(* raw_events and the two views on it, which an insert runs. *)

ToValid(rows) ==
  { r \in rows : /\ r.user_id # "" /\ r.session_id # "" /\ r.page_url # ""
                 /\ r.event_type \in AllowedEventTypes }

ErrorMessage(r) ==
  { m \in {"missing_user_id", "missing_session_id", "missing_page_url", "bad_event_type"} :
      \/ m = "missing_user_id" /\ r.user_id = ""
      \/ m = "missing_session_id" /\ r.session_id = ""
      \/ m = "missing_page_url" /\ r.page_url = ""
      \/ m = "bad_event_type" /\ r.event_type \notin AllowedEventTypes }

ToInvalid_NoUrl(rows) ==
  { [row |-> r, error_message |-> ErrorMessage(r)] :
      r \in { s \in rows : ~ (/\ s.user_id # "" /\ s.session_id # ""
                              /\ s.event_type \in AllowedEventTypes) } }
ToInvalid(rows) ==
  { [row |-> r, error_message |-> ErrorMessage(r)] :
      r \in { s \in rows : ~ (/\ s.user_id # "" /\ s.session_id # "" /\ s.page_url # ""
                              /\ s.event_type \in AllowedEventTypes) } }

InsertRaw(rows) ==
  /\ raw' = raw \cup rows
  /\ valid' = valid \cup ToValid(rows)
  /\ invalid' = invalid \cup ToInvalid(rows)

-----------------------------------------------------------------------------
(* The API. *)

Or(value, fallback) == IF value = "" THEN fallback ELSE value

Normalize(t) == IF t = "PAGE_VIEW" THEN "view" ELSE t

ApiType(e) == Normalize(Or(e.event_type, e.type))
ApiUrl(e) == Or(e.page_url, e.url)

\* Why one event is refused, in the order of the checks, or "".
ApiError_NoRequired(e) ==
  CASE e.extra = "props" -> "unknown field"
    [] ApiType(e) \notin AllowedEventTypes -> "invalid event_type"
    [] e.payload = "" -> "missing payload"
    [] e.payload = "text" -> "payload no JSON"
    [] OTHER -> ""
ApiError(e) ==
  CASE e.extra = "props" -> "unknown field"
    [] ApiType(e) \notin AllowedEventTypes -> "invalid event_type"
    [] e.payload = "" -> "missing payload"
    [] e.payload = "text" -> "payload no JSON"
    [] \/ e.session_id = "" \/ e.created_at = "" \/ ApiUrl(e) = ""
       \/ e.device_type = "" \/ ~ e.context -> "missing required fields"
    [] OTHER -> ""

\* The row built for an accepted event; its event_time is still the text sent.
ApiRow(e, n) ==
  [source |-> "http", n |-> n, user_id |-> e.user_id, session_id |-> e.session_id,
   device_id |-> IF e.device_id = "none" THEN "unknown" ELSE e.device_id,
   event_type |-> ApiType(e), page_url |-> ApiUrl(e), event_time |-> e.created_at,
   props_json |-> "payload"]

\* What one turn of the loop adds to errors: behind an error only unknown fields
\* are still looked for.
ErrorsOf_OwnOnly(e, errors) ==
  IF ApiError(e) = "" THEN <<>> ELSE <<ApiError(e)>>
ErrorsOf(e, errors) ==
  IF errors # <<>> /\ ApiError(e) # "unknown field" THEN errors
  ELSE IF ApiError(e) = "" THEN errors
  ELSE Append(errors, ApiError(e))

\* One turn of the loop over the events of the body.
HandleEvent ==
  LET n == read["http"] + 1
      errors == ErrorsOf(sent["http"][n], handler.errors)
  IN  /\ reply = NoReply /\ n <= Len(sent["http"])
      /\ read' = [read EXCEPT !["http"] = n]
      /\ handler' = [rows |-> IF errors = <<>>
                              THEN Append(handler.rows, ApiRow(sent["http"][n], n))
                              ELSE handler.rows,
                     errors |-> errors]
      /\ UNCHANGED <<sent, reply, tables>>

AllHandled == reply = NoReply /\ sent["http"] # <<>> /\ read["http"] = Len(sent["http"])

Least(i, j) == IF i < j THEN i ELSE j

\* 400: nothing is inserted, and at most five errors are listed.
Refuse ==
  /\ AllHandled /\ handler.errors # <<>>
  /\ reply' = [status |-> 400, accepted |-> 0, details |-> Least(Len(handler.errors), 5)]
  /\ UNCHANGED <<sent, read, handler, tables>>

\* The inserts one by one: ClickHouse (date_time_input_format=best_effort) refuses
\* a row whose event_time it cannot read, and the loop ends there with a 502.
Inserted(rows) ==
  { k \in DOMAIN rows : \A j \in 1 .. k : rows[j].event_time # "garbage" }

InsertRows ==
  LET ok == Inserted(handler.rows)
  IN  /\ AllHandled /\ handler.errors = <<>>
      /\ InsertRaw({ handler.rows[k] : k \in ok })
      /\ reply' = [status |-> IF ok = DOMAIN handler.rows THEN 200 ELSE 502,
                   accepted |-> Cardinality(ok), details |-> 0]
      /\ UNCHANGED <<sent, read, handler>>

-----------------------------------------------------------------------------
(* Kafka and csv. *)

\* parseDateTime64BestEffortOrNull, or now64.
TimeOrNow_AsSent(created_at) == IF created_at = "" THEN "now" ELSE created_at
TimeOrNow(created_at) == IF created_at = "time" THEN "time" ELSE "now"

\* mv_kafka_to_raw. JSONExtractString yields '' for a number and is never NULL,
\* so the fallback to JSONExtractInt behind it is never taken; the key payload is
\* not read.
KafkaRow(e, n) ==
  [source |-> "kafka", n |-> n,
   user_id |-> IF e.user_id = "number" THEN "" ELSE e.user_id,
   session_id |-> e.session_id,
   device_id |-> IF e.device_id = "none" THEN "" ELSE e.device_id,
   event_type |-> e.type, page_url |-> e.url,
   event_time |-> TimeOrNow(e.created_at),
   props_json |-> Or(e.extra, "{}")]

KafkaToRaw ==
  LET n == read["kafka"] + 1
  IN  /\ n <= Len(sent["kafka"])
      /\ read' = [read EXCEPT !["kafka"] = n]
      /\ InsertRaw({KafkaRow(sent["kafka"][n], n)})
      /\ UNCHANGED <<sent, handler, reply>>

\* The SELECT of DAG 01: the columns as they are, and for want of a device_id the
\* device_type.
CsvToRawRow(e, n) ==
  [source |-> "csv", n |-> n, user_id |-> e.user_id, session_id |-> e.session_id,
   device_id |-> IF e.device_type = "" THEN "" ELSE "device_type",
   event_type |-> e.event_type, page_url |-> e.url,
   event_time |-> TimeOrNow(e.created_at),
   props_json |-> IF e.payload = "" THEN "{}" ELSE "payload"]

\* One INSERT SELECT for all rows of the object.
CsvObjectToRaw ==
  /\ read["csv"] < Len(sent["csv"])
  /\ read' = [read EXCEPT !["csv"] = Len(sent["csv"])]
  /\ InsertRaw({ CsvToRawRow(sent["csv"][n], n) : n \in DOMAIN sent["csv"] })
  /\ UNCHANGED <<sent, handler, reply>>

Next == HandleEvent \/ Refuse \/ InsertRows \/ KafkaToRaw \/ CsvObjectToRaw

Spec == Init /\ [][Next]_vars

-----------------------------------------------------------------------------
(* Properties. *)

\* The tables hold rows of raw_events, and no row that no event sent explains.
TypeOK ==
  /\ sent \in [Sources -> Seq(Event)]
  /\ \A s \in Sources : read[s] \in 0 .. Len(sent[s])
  /\ reply.status \in {0, 200, 400, 502} /\ reply.details \in 0 .. 5
  /\ raw \subseteq RawRow /\ valid \subseteq RawRow
  /\ \A r \in raw : r.n \in 1 .. read[r.source]

\* The condition is written three times, in the two views and in the message: each
\* row is in exactly one of valid_events and invalid_events, and an invalid row
\* names at least one reason.
OnePlace ==
  /\ \A r \in raw : (r \in valid) # (\E i \in invalid : i.row = r)
  /\ \A i \in invalid : i.row \in raw /\ i.error_message # {}

\* What the API has accepted the views accept too, but for the user_id, which the
\* API does not ask for.
StoredIsValid ==
  \A i \in invalid : i.row.source = "http" => i.error_message = {"missing_user_id"}

\* What a response tells: 400 exactly if one of the events alone would be refused,
\* whatever stands before it, and then nothing of the batch is stored; else the
\* first `accepted` events are stored and no other, and a 502 stands for the next
\* one, whose created_at ClickHouse does not read.
RepliesTell ==
  LET events == sent["http"]
      stored == { r.n : r \in { x \in raw : x.source = "http" } }
  IN  reply.status # 0 =>
        /\ (reply.status = 400) <=> \E i \in DOMAIN events : ApiError(events[i]) # ""
        /\ (reply.status = 400) <=> reply.details > 0
        /\ stored = 1 .. reply.accepted
        /\ reply.status = 400 => reply.accepted = 0
        /\ reply.status = 200 => reply.accepted = Len(events)
        /\ reply.status = 502 => events[reply.accepted + 1].created_at = "garbage"

\* An event of the generator is stored as valid on each path it was sent on, with
\* the same user, session, type, page and time. The rows differ where the paths do:
\* the payload arrives by http and csv only, the device_id by http and kafka only,
\* and the csv row has the device_type in its place.
SameOnEveryPath ==
  sent = GeneratorSends =>
    /\ \A s \in {"kafka", "csv"}, n \in DOMAIN Produced :
         n <= read[s] => \E r \in valid : r.source = s /\ r.n = n
    /\ reply.status \in {0, 200}
    /\ \A r \in raw : r.source # "kafka" <=> r.props_json = "payload"
    /\ \A r \in raw : r.device_id = IF r.source = "csv" THEN "device_type" ELSE "text"
    /\ \A r, q \in raw : r.n = q.n =>
         [r EXCEPT !.source = q.source, !.props_json = q.props_json,
                   !.device_id = q.device_id] = q
=============================================================================
