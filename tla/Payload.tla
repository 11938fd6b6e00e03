-------------------------------- MODULE Payload --------------------------------
(***************************************************************************)
(* From an event of a tracker to its row (payload.py): parse_payload and   *)
(* the steps it is made of, as operators on the row under construction.    *)
(*                                                                         *)
(* An event is a record of the payload's fields with its custom contexts   *)
(* and its unstructured event.  JSON scalars are strings; a JSON object is *)
(* a function on its keys.  What a step does to the row is modelled for    *)
(* the fields that more than one source can write, and those that collect  *)
(* what has no column.  row.raised says that a step has raised: nothing    *)
(* catches it, so the request fails and the row is never used.             *)
(*                                                                         *)
(* Validation against the Iglu schemas only logs, and is left out.         *)
(***************************************************************************)
EXTENDS Integers, Sequences, SequencesExt

Null == "null"
Empty == ""
Number == "5"              \* a JSON number
Uuids == {"uuid-1", "uuid-2", "uuid-3"}
ZeroUuid == "uuid-0"       \* DEFAULT_UUID
NoKeys == [k \in {} |-> Null]
NoJsonObject == [k \in {"not an object"} |-> Null]   \* any other value where an object is due

Truthy(value) == value \notin {Null, Empty}

\* data.get(key, default), and what is left after data.pop(key, None).
Get(data, key, default) == IF key \in DOMAIN data THEN data[key] ELSE default
Without(data, keys) == Restrict(data, DOMAIN data \ keys)

\* dict(old, **new) and old.update(new); old[key] = value
Merged(old, new) ==
  [k \in DOMAIN old \union DOMAIN new |-> IF k \in DOMAIN new THEN new[k] ELSE old[k]]
Put(old, key, value) == [k \in DOMAIN old \union {key} |-> IF k = key THEN value ELSE old[k]]

\* Not null: what a handler lets overwrite a field.
Given(data, key) == Get(data, key, Null) # Null

Or(data, key, old) == IF Given(data, key) THEN data[key] ELSE old

-----------------------------------------------------------------------------
(***************************************************************************)
(* Untrusted values.                                                       *)
(***************************************************************************)

\* _safe_uuid: text that is no UUID is replaced, a number raises.
SafeUuid(value) == IF value \in Uuids THEN value ELSE ZeroUuid
UuidRaises(value) == value = Number

\* _safe_datetime: whatever is no date is replaced.
SafeDatetime(value) == IF value = "date" THEN value ELSE "epoch"

\* _coalesce_dimension_value: blank or null keeps the old value.
IsText(value) == value \notin {Null, Empty, " ", Number}
Dimension(data, key, old) == IF IsText(Get(data, key, Null)) THEN data[key] ELSE old

\* What reading a text gives: nothing, no JSON, an object or an error.
TextForms == {"empty", "invalid", "ok", "raises"}

\* parse_base64 and find_available: the text that is not encoded wins over the
\* encoded one, also when it is no JSON object.
FindAvailable(unencoded, encoded) ==
  LET text == IF unencoded.form # "empty" THEN unencoded ELSE encoded IN
  IF text.form \in {"empty", "invalid"} THEN [form |-> "none"] ELSE text

\* parse_cookies: the device ids of the complete _sp_id cookies.
CookieDevices(cookies) == SelectSeq(cookies, LAMBDA id : id # "incomplete")

-----------------------------------------------------------------------------
(***************************************************************************)
(* The first row of an event: defaults, then the user agent, then the      *)
(* payload's fields (_build_initial_model).  The dicts among the defaults  *)
(* are copied, since the handlers below update them in place.              *)
(***************************************************************************)

BuildInitialModel(defaults, agent, event) ==
  [e |-> event.e, url |-> event.url, refr |-> event.refr, uid |-> event.uid,
   duid |-> event.duid, sid |-> Null, vid |-> 0, view_id |-> ZeroUuid,
   previous_session_id |-> ZeroUuid, first_event_id |-> ZeroUuid,
   first_event_time |-> "epoch", event_index |-> 0, storage_mechanism |-> Empty,
   app |-> NoKeys, res |-> event.res, vp |-> "0x0", ds |-> "0x0",
   agent |-> agent, os_family |-> "agent's", os_version_string |-> "agent's",
   device_brand |-> "agent's", device_model |-> "agent's",
   is_mobile |-> FALSE, is_touch_capable |-> FALSE, is_pc |-> FALSE,
   device_extra |-> NoKeys, browser_extra |-> NoKeys, geolocation |-> NoKeys,
   page_data |-> NoKeys, user_data |-> NoKeys,
   extra |-> defaults.extra, ue |-> defaults.ue, screen |-> defaults.screen,
   amp |-> defaults.amp,
   se_pr |-> event.se_pr, se_va |-> event.se_va, raised |-> FALSE]

\* Mutation of DefaultsAfter: the dicts are not copied for each event.
DefaultsShared(defaults, row) == [defaults EXCEPT !.ue = row.ue, !.extra = row.extra]

\* What the defaults are after the event.
DefaultsAfter(defaults, row) == defaults

-----------------------------------------------------------------------------
(***************************************************************************)
(* Contexts: one handler per schema (CONTEXT_HANDLERS).                    *)
(***************************************************************************)

WebPage(row, data) ==
  [row EXCEPT !.view_id = SafeUuid(Get(data, "id", Null)),
              !.raised = @ \/ UuidRaises(Get(data, "id", Null))]

MobileContext(row, data) ==
  [row EXCEPT !.device_brand = Or(data, "deviceManufacturer", @),
              !.device_model = Or(data, "deviceModel", @),
              !.os_family = Or(data, "osType", @),
              !.os_version_string = Or(data, "osVersion", @),
              !.is_mobile = TRUE,
              !.is_touch_capable = TRUE,
              !.device_extra =
                 Without(data, {"deviceManufacturer", "deviceModel", "osType", "osVersion"})]

MobileApplication(row, data) ==
  [row EXCEPT !.app = Merged(@, Restrict(data, {k \in {"version", "build"} \cap DOMAIN data :
                                                  data[k] \notin {Null, Number}}))]

ClientSession(row, data) ==
  LET uuid(key, old) == IF Truthy(Get(data, key, Null)) THEN SafeUuid(data[key]) ELSE old IN
  [row EXCEPT !.vid = IF Truthy(Get(data, "sessionIndex", Null)) THEN data["sessionIndex"] ELSE @,
              !.sid = uuid("sessionId", @),
              !.duid = uuid("userId", @),
              !.event_index = Get(data, "eventIndex", 0),
              !.first_event_time =
                 IF Given(data, "firstEventTimestamp")
                 THEN SafeDatetime(data["firstEventTimestamp"]) ELSE @,
              !.previous_session_id = uuid("previousSessionId", @),
              !.first_event_id = uuid("firstEventId", @),
              !.storage_mechanism = Get(data, "storageMechanism", Empty),
              !.raised = @ \/ \E key \in {"sessionId", "userId", "previousSessionId", "firstEventId"} :
                                UuidRaises(Get(data, key, Null))]

MobileScreen(row, data) ==
  [row EXCEPT !.url = Or(data, "name", @),
              !.view_id = IF Given(data, "id") THEN SafeUuid(data["id"]) ELSE @,
              !.screen = Merged(@, Without(data, {"name", "id"})),
              !.raised = @ \/ UuidRaises(Get(data, "id", Null))]

BrowserContext(row, data) ==
  LET rest == Without(data, {"resolution", "viewport", "documentSize"}) IN
  [row EXCEPT !.res = Dimension(data, "resolution", @),
              !.vp = Dimension(data, "viewport", @),
              !.ds = Dimension(data, "documentSize", @),
              !.browser_extra = IF rest = NoKeys THEN @ ELSE rest]

\* What a context without columns goes to, under its key.
ExtraKeys == [PerformanceTiming |-> "performance_timing", http_client_hints |-> "client_hints",
              cookies |-> "ga_cookies"]
UeKeys == [ad_data |-> "ad_data", screen_summary |-> "screen_summary",
           application_lifecycle |-> "app_lifecycle", referrer_details |-> "install_referrer",
           PerformanceNavigationTiming |-> "performance_navigation_timing",
           deep_link |-> "deep_link", deep_link_received |-> "deep_link_received",
           message_notification |-> "message_notification"]

AmpSchemas == {"amp_session", "amp_id", "amp_web_page"}

\* CONTEXT_HANDLERS, by schema; one without a handler is logged.
Handle(row, schema, data) ==
  CASE schema = "static_context"      -> [row EXCEPT !.extra = Merged(@, data)]
    [] schema \in DOMAIN ExtraKeys    -> [row EXCEPT !.extra = Put(@, ExtraKeys[schema], data)]
    [] schema \in DOMAIN UeKeys       -> [row EXCEPT !.ue = Put(@, UeKeys[schema], data)]
    [] schema = "web_page"            -> WebPage(row, data)
    [] schema \in AmpSchemas          -> [row EXCEPT !.amp = Merged(@, data)]
    [] schema = "page_data"           -> [row EXCEPT !.page_data = Merged(@, data)]
    [] schema = "user_data"           -> [row EXCEPT !.user_data = Merged(@, data)]
    [] schema = "screen_data"         -> [row EXCEPT !.screen = Merged(@, data)]
    [] schema = "mobile_context"      -> MobileContext(row, data)
    [] schema = "application"         -> MobileApplication(row, data)
    [] schema = "client_session"      -> ClientSession(row, data)
    [] schema = "screen"              -> MobileScreen(row, data)
    [] schema = "browser_context"     -> BrowserContext(row, data)
    [] schema = "geolocation_context" -> [row EXCEPT !.geolocation = data]
    [] OTHER                          -> row

\* A context that is no object, lacks a key or has no text as its schema is
\* skipped: its form is not "ok".
ParseContext(row, context) ==
  IF context.form = "ok" THEN Handle(row, context.schema, context.data) ELSE row

\* Contexts raise when they do not decode or their "data" is null.
ParseContexts(row, contexts) ==
  CASE contexts.form = "none" -> row
    [] contexts.form = "raises" -> [row EXCEPT !.raised = TRUE]
    [] contexts.form = "ok" -> FoldLeft(ParseContext, row, contexts.data)

\* parse_event: a struct-to-unstruct event becomes a structured one, another
\* goes to ue under its name.  One that does not decode, or has no schema,
\* name or data, raises.
ParseEvent(row, event) ==
  CASE event.form = "none" -> row
    [] event.form = "raises" -> [row EXCEPT !.raised = TRUE]
    [] event.form = "ok" /\ event.name = "u2s" ->
         [row EXCEPT !.e = "se",
                     !.se_pr = Get(event.data, "property", Empty),
                     !.se_va = Get(event.data, "value", Empty)]
    [] event.form = "ok" /\ event.name # "u2s" ->
         [row EXCEPT !.ue = Put(@, event.name, event.data)]

-----------------------------------------------------------------------------
(***************************************************************************)
(* The steps after the contexts and the event, in their order.             *)
(***************************************************************************)

PagePing(row, ping) ==
  IF ping = Null THEN row ELSE [row EXCEPT !.ue = Put(@, "page_ping", Put(NoKeys, "max_x", ping))]

ApplyAmpFields(row) ==
  LET domain == Get(row.amp, "domainUserid", Null)
      used == (IF "uid" \in DOMAIN row.amp THEN {"userId"} ELSE {})
              \union (IF Truthy(domain) THEN {"domainUserid"} ELSE {})
  IN [row EXCEPT !.uid = IF "uid" \in DOMAIN row.amp THEN Get(row.amp, "userId", Null) ELSE @,
                 !.e = IF @ = "ue" /\ "amp_page_ping" \in DOMAIN row.ue THEN "pp" ELSE @,
                 !.duid = IF Truthy(domain) THEN SafeUuid(domain) ELSE @,
                 !.amp = Without(@, used),
                 !.raised = \/ @
                            \/ "uid" \in DOMAIN row.amp /\ "userId" \notin DOMAIN row.amp
                            \/ UuidRaises(domain)]

\* The device of the page that linked here; the address is split outside the
\* try, so one that is no text or has a malformed host raises.
ApplyAmpLinker(row) ==
  [row EXCEPT !.amp = IF row.url = "linked page" THEN Put(@, "device_id", "uuid-3") ELSE @,
              !.raised = @ \/ row.url \in {Number, "malformed"}]

\* Mutation of ApplyCookieDuid: the cookie wins over the payload.
ApplyCookieDuidFirst(row, cookies) ==
  IF CookieDevices(cookies) # <<>>
  THEN [row EXCEPT !.duid = SafeUuid(Last(CookieDevices(cookies)))]
  ELSE row

ApplyCookieDuid(row, cookies) ==
  IF row.duid = Null /\ CookieDevices(cookies) # <<>>
  THEN [row EXCEPT !.duid = SafeUuid(Last(CookieDevices(cookies)))]
  ELSE row

\* A screen_view becomes a page view; the rest of it goes to screen.
ScreenView(row) ==
  LET view == row.ue["screen_view"]
      previous == Get(view, "previousName", Empty)
  IN [row EXCEPT !.e = "pv",
                 !.view_id = SafeUuid(Get(view, "id", Null)),
                 !.url = Get(view, "name", Null),
                 !.refr = IF previous = "Unknown" THEN Empty ELSE previous,
                 !.screen = Merged(@, Without(view, {"id", "name", "previousName"})),
                 !.ue = Without(@, {"screen_view"}),
                 !.raised = \/ @
                            \/ ~({"id", "name"} \subseteq DOMAIN view)
                            \/ UuidRaises(Get(view, "id", Null))]

ScreenName(row) ==
  IF "screen_name" \in DOMAIN row.screen
  THEN [row EXCEPT !.url = row.screen["screen_name"], !.screen = Without(@, {"screen_name"})]
  ELSE row

ApplyScreenView(row) ==
  ScreenName(IF "screen_view" \in DOMAIN row.ue THEN ScreenView(row) ELSE row)

\* se_pr is text: a JSON object is kept, other text is wrapped; what is given
\* as an object is not kept.
NormalizeSeProperty(row) ==
  [row EXCEPT !.se_pr =
     CASE @ \in {Null, Empty, "object"} -> NoKeys
       [] @ = "json object" -> Put(NoKeys, "key", "value")
       [] OTHER -> Put(NoKeys, "ex-property", @)]

NormalizeSeValue(row) ==
  CASE row.se_va \in {Null, Empty} -> [row EXCEPT !.se_va = "0.0"]
    [] row.se_va \in {Number, "numeric"} -> row
    [] OTHER -> [row EXCEPT !.se_pr = Put(@, "ex-value", row.se_va), !.se_va = "0.0"]

\* Hints that are no object raise: a static_context may hold anything.
ApplyClientHintsDevice(row) ==
  LET hints == Get(row.extra, "client_hints", NoKeys)
      hint == Get(hints, "isMobile", Null) IN
  CASE hints = NoJsonObject -> [row EXCEPT !.raised = TRUE]
    [] hints # NoJsonObject /\ hint = Null -> row
    [] hints # NoJsonObject /\ hint \in {"true", "false", Number} ->
         [row EXCEPT !.is_mobile = (hint # "false"), !.is_pc = (hint = "false")]
    [] OTHER -> [row EXCEPT !.raised = TRUE]

\* One step after the other on the row, which is worked out once per step.
Then(rows, Step(_)) == {Step(row) : row \in rows}

ParsePayload(defaults, agent, event, cookies) ==
  LET contexts == FindAvailable(event.co, event.cx)
      ue == FindAvailable(event.ue_pr, event.ue_px)
      initial == {BuildInitialModel(defaults, agent, event)}
      parsed == Then(Then(initial, LAMBDA row : ParseContexts(row, contexts)),
                     LAMBDA row : ParseEvent(row, ue))
      amp == Then(Then(Then(parsed, LAMBDA row : PagePing(row, event.ping)),
                       ApplyAmpFields), ApplyAmpLinker)
      viewed == Then(Then(amp, LAMBDA row : ApplyCookieDuid(row, cookies)), ApplyScreenView)
      normal == Then(Then(viewed, NormalizeSeProperty), NormalizeSeValue)
  IN CHOOSE row \in Then(normal, ApplyClientHintsDevice) : TRUE
=============================================================================
