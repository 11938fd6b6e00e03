-------------------------------- MODULE Intake --------------------------------
(***************************************************************************)
(* A tracker's request in the collector (tracker.py, processing.py): the   *)
(* body is validated, the user agent is looked up or parsed in a thread    *)
(* (UserAgentCache), every event becomes a row (Payload), the rows are     *)
(* inserted together and the request is answered.                          *)
(*                                                                         *)
(* Once the user agent is there, nothing is awaited until the insert, so   *)
(* that the rows of a request are made in one step.  The GET endpoint is a *)
(* body of one event.                                                      *)
(*                                                                         *)
(* Rows go to ClickHouse or, as one message, to RabbitMQ (ingest.mode).    *)
(* What fails in ClickHouse is assumed to have landed whole or not at all: *)
(* one block of one local table in one partition.  Rows of several         *)
(* partitions, or a Distributed table (tables.py:68, 103), give no such    *)
(* promise.                                                                *)
(***************************************************************************)
EXTENDS UserAgentCache, Payload

CONSTANTS
  NoBody,  \* the body of a request that is not sent
  Loads    \* the settings and what the requests send: [size, ingest, agentOf, body]

\* The texts of an event, and what reading them gives; contexts are a list.
Readable(event) ==
  /\ \A text \in {event.co, event.cx} :
       text.form \in TextForms /\ (text.form = "ok" => text.data \in Seq(Range(text.data)))
  /\ \A text \in {event.ue_pr, event.ue_px} : text.form \in TextForms

\* The events of a body are a list of such events.
ASSUME IntakeAssumption ==
  \A load \in Loads : \A r \in Requests :
    load.body[r] # NoBody =>
      LET events == load.body[r].events IN
      events \in Seq(Range(events)) /\ \A i \in DOMAIN events : Readable(events[i])

VARIABLES
  ingest,    \* ingest.mode: "direct" or "rabbitmq"
  body,      \* [events, cookies] of each request
  defaults,  \* _INSERT_MODEL_DEFAULTS, for the dicts that rows update in place
  stage,     \* "reading", "inserting" or "answered"
  rows,      \* the rows of each request
  stored,    \* the rows of each request that were inserted
  answer     \* the status of each answer, 0 before

intakeVars == <<ingest, body, defaults, stage, rows, stored, answer>>
vars == <<cacheVars, intakeVars>>

NoDefaults == [extra |-> NoKeys, ue |-> NoKeys, screen |-> NoKeys, amp |-> NoKeys]

Init ==
  /\ \E load \in Loads :
       /\ size = load.size /\ ingest = load.ingest
       /\ agentOf = load.agentOf /\ body = load.body
  /\ CacheInit
  /\ defaults = NoDefaults
  /\ stage = [r \in Requests |-> "reading"]
  /\ rows = [r \in Requests |-> <<>>]
  /\ stored = [r \in Requests |-> <<>>]
  /\ answer = [r \in Requests |-> 0]

-----------------------------------------------------------------------------

Valid(request) == \A i \in DOMAIN request.events : request.events[i].valid

Answer(r, status) ==
  /\ stage' = [stage EXCEPT ![r] = "answered"]
  /\ answer' = [answer EXCEPT ![r] = status]

\* PayloadModel refuses the whole body for one event.
Refuse(r) ==
  /\ pc[r] = "new" /\ stage[r] = "reading"
  /\ body[r] # NoBody
  /\ ~Valid(body[r])
  /\ Answer(r, 422)
  /\ UNCHANGED <<cacheVars, ingest, body, defaults, rows, stored>>

Receive(r) ==
  /\ body[r] # NoBody
  /\ Valid(body[r])
  /\ Ask(r)
  /\ UNCHANGED intakeVars

\* The threads, and the loop as it takes their results.
ParseAgent(r) == AgentStep(r) /\ UNCHANGED intakeVars

FailAgent(r) ==
  /\ pc[r] = "failed" /\ stage[r] = "reading"
  /\ Answer(r, 500)
  /\ UNCHANGED <<cacheVars, ingest, body, defaults, rows, stored>>

\* process_data's loop over the events, from the defaults it starts with.
Processed(r) ==
  LET process(done, event) ==
        LET row == ParsePayload(done.defaults, object[r], event, body[r].cookies)
        IN [defaults |-> DefaultsAfter(done.defaults, row), rows |-> Append(done.rows, row)]
  IN FoldLeft(process, [defaults |-> defaults, rows |-> <<>>], body[r].events)

Process(r) ==
  /\ pc[r] = "ready" /\ stage[r] = "reading"
  /\ \E done \in {Processed(r)} :
       /\ defaults' = done.defaults
       /\ IF \E i \in DOMAIN done.rows : done.rows[i].raised
          THEN /\ Answer(r, 500)
               /\ UNCHANGED rows
          ELSE /\ stage' = [stage EXCEPT ![r] = "inserting"]
               /\ rows' = [rows EXCEPT ![r] = done.rows]
               /\ UNCHANGED answer
  /\ UNCHANGED <<cacheVars, ingest, body, stored>>

\* Mutation of Insert: one call to the connector for each row.
InsertOneByOne(r) ==
  /\ stage[r] = "inserting"
  /\ IF Len(stored[r]) < Len(rows[r])
     THEN /\ stored' = [stored EXCEPT ![r] = Append(@, rows[r][Len(@) + 1])]
          /\ UNCHANGED <<stage, answer>>
     ELSE /\ Answer(r, 204)
          /\ UNCHANGED stored
  /\ UNCHANGED <<cacheVars, ingest, body, defaults, rows>>

\* insert_rows: one request to ClickHouse or one message for all rows; none
\* when there are no rows.
Insert(r) ==
  /\ stage[r] = "inserting"
  /\ stored' = [stored EXCEPT ![r] = rows[r]]
  /\ Answer(r, 204)
  /\ UNCHANGED <<cacheVars, ingest, body, defaults, rows>>

\* The insert raises; the rows, all of them, may be there all the same.
InsertFails(r) ==
  /\ stage[r] = "inserting"
  /\ rows[r] # <<>>
  /\ \E landed \in {<<>>, rows[r]} : stored' = [stored EXCEPT ![r] = landed]
  /\ Answer(r, 500)
  /\ UNCHANGED <<cacheVars, ingest, body, defaults, rows>>

Finish(r) == Process(r) \/ Insert(r) \/ InsertFails(r) \/ FailAgent(r)

Next == \E r \in Requests : Refuse(r) \/ Receive(r) \/ ParseAgent(r) \/ Finish(r)

Spec == Init /\ [][Next]_vars

\* Publishing waits for the broker's confirm, without a timeout; no rows are
\* not published.
AwaitsBroker(r) == stage[r] = "inserting" /\ ingest = "rabbitmq" /\ rows[r] # <<>>

\* The loop serves every connection, threads get to run, and a ClickHouse insert
\* ends with its client's timeout.  A broker need not confirm.
Fairness ==
  \A r \in Requests :
    /\ WF_vars(Refuse(r) \/ Receive(r))
    /\ WF_vars(ParseAgent(r))
    /\ WF_vars(~AwaitsBroker(r) /\ Finish(r))

FairSpec == Spec /\ Fairness

-----------------------------------------------------------------------------
(***************************************************************************)
(* What a row says, stated on the whole event instead of step by step.     *)
(***************************************************************************)

ContextsIn(event) ==
  LET contexts == FindAvailable(event.co, event.cx) IN
  IF contexts.form = "ok" THEN contexts.data ELSE <<>>

\* Where an event has a context that counts, and the last of them; sets of at
\* most one context, event or value say what may be missing.
PlacesIn(event, Counts(_)) ==
  {i \in DOMAIN ContextsIn(event) : ContextsIn(event)[i].form = "ok" /\ Counts(ContextsIn(event)[i])}

Latest(places) == {i \in places : \A j \in places : j <= i}

LastContext(event, Counts(_)) == {ContextsIn(event)[i] : i \in Latest(PlacesIn(event, Counts))}

UeIn(event) ==
  LET ue == FindAvailable(event.ue_pr, event.ue_px) IN IF ue.form = "ok" THEN {ue} ELSE {}

ScreenViewIn(event) == {ue.data : ue \in {u \in UeIn(event) : u.name = "screen_view"}}

\* The one value there is, or another.
Prefer(values, other) == IF values = {} THEN other ELSE CHOOSE value \in values : TRUE

\* The contexts that have a say in a column.
NamesAmpDevice(c) == c.schema \in AmpSchemas /\ "domainUserid" \in DOMAIN c.data
NamesUser(c) == c.schema = "client_session" /\ Truthy(Get(c.data, "userId", Null))
NamesScreen(c) == c.schema \in {"screen", "screen_data"} /\ "screen_name" \in DOMAIN c.data
TitlesScreen(c) == c.schema = "screen" /\ Given(c.data, "name")
Views(c) == c.schema = "web_page" \/ (c.schema = "screen" /\ Given(c.data, "id"))
OfMobile(c) == c.schema = "mobile_context"
NamesModel(c) == c.schema = "mobile_context" /\ Given(c.data, "deviceModel")
Measures(c) == c.schema = "browser_context" /\ IsText(Get(c.data, "resolution", Null))
GivesHints(c) ==
  \/ c.schema = "http_client_hints"
  \/ c.schema = "static_context" /\ "client_hints" \in DOMAIN c.data
HintsOf(c) == IF c.schema = "http_client_hints" THEN c.data ELSE c.data["client_hints"]

\* The device: AMP, the session, the payload, the cookie.
DeviceOf(event, cookies) ==
  LET amp == {c.data["domainUserid"] : c \in LastContext(event, NamesAmpDevice)}
      session == {SafeUuid(c.data["userId"]) : c \in LastContext(event, NamesUser)}
      devices == CookieDevices(cookies)
      cookie == IF devices = <<>> THEN Null ELSE SafeUuid(Last(devices))
  IN Prefer({SafeUuid(id) : id \in {d \in amp : Truthy(d)}},
            Prefer(session, IF event.duid # Null THEN event.duid ELSE cookie))

\* The address: the screen's name in the event and in a context, then the name
\* of the view and of the screen.
UrlOf(event) ==
  LET view == ScreenViewIn(event)
      viewed == {v["screen_name"] : v \in {v \in view : "screen_name" \in DOMAIN v}}
      named == {c.data["screen_name"] : c \in LastContext(event, NamesScreen)}
      titled == {c.data["name"] : c \in LastContext(event, TitlesScreen)}
  IN Prefer(viewed, Prefer(named, Prefer({v["name"] : v \in view}, Prefer(titled, event.url))))

ReferrerOf(event) ==
  LET previous == {Get(v, "previousName", Empty) : v \in ScreenViewIn(event)}
  IN Prefer({IF p = "Unknown" THEN Empty ELSE p : p \in previous}, event.refr)

ViewOf(event) ==
  Prefer({SafeUuid(v["id"]) : v \in ScreenViewIn(event)},
         Prefer({SafeUuid(Get(c.data, "id", Null)) : c \in LastContext(event, Views)}, ZeroUuid))

KindOf(event) ==
  LET names == {ue.name : ue \in UeIn(event)} IN
  CASE "screen_view" \in names -> "pv"
    [] "u2s" \in names -> "se"
    [] "amp_page_ping" \in names /\ event.e = "ue" -> "pp"
    [] OTHER -> event.e

MobileOf(event) ==
  LET hints == {Get(HintsOf(c), "isMobile", Null) : c \in LastContext(event, GivesHints)}
  IN Prefer({hint # "false" : hint \in hints \ {Null}},
            PlacesIn(event, OfMobile) # {})

SizeOf(event) == Prefer({c.data["resolution"] : c \in LastContext(event, Measures)}, event.res)

ModelOf(event) == Prefer({c.data["deviceModel"] : c \in LastContext(event, NamesModel)}, "agent's")

\* What the contexts write into extra and into ue.
ExtraKeysOf(c) ==
  IF c.schema = "static_context" THEN DOMAIN c.data
  ELSE IF c.schema \in DOMAIN ExtraKeys THEN {ExtraKeys[c.schema]} ELSE {}
UeKeysOf(c) == IF c.schema \in DOMAIN UeKeys THEN {UeKeys[c.schema]} ELSE {}

KeysFrom(event, KeysOf(_)) ==
  UNION {KeysOf(ContextsIn(event)[i]) : i \in PlacesIn(event, LAMBDA c : TRUE)}

RowSays(row, event, cookies) ==
  /\ row.duid = DeviceOf(event, cookies)
  /\ row.url = UrlOf(event)
  /\ row.refr = ReferrerOf(event)
  /\ row.view_id = ViewOf(event)
  /\ row.e = KindOf(event)
  /\ row.is_mobile = MobileOf(event)
  /\ row.res = SizeOf(event)
  /\ row.device_model = ModelOf(event)
  /\ DOMAIN row.extra = KeysFrom(event, ExtraKeysOf)
  /\ DOMAIN row.ue = KeysFrom(event, UeKeysOf)
                       \union ({ue.name : ue \in UeIn(event)} \ {"u2s", "screen_view"})
                       \union (IF event.ping = Null THEN {} ELSE {"page_ping"})

-----------------------------------------------------------------------------
(***************************************************************************)
(* Properties.                                                             *)
(***************************************************************************)

\* A stored row takes each field from the source that has precedence among the
\* payload, its contexts and event, the cookie and the user agent, in whatever
\* order the contexts come, and nothing from another event or request
\* (payload.py:609-632).
RowsFollowPrecedence ==
  \A r \in Requests : \A i \in DOMAIN stored[r] :
    /\ RowSays(stored[r][i], body[r].events[i], body[r].cookies)
    /\ agentOf[stored[r][i].agent] = agentOf[r]

\* A request that succeeds has stored a row for each of its events; one that
\* fails has stored all of them or none (processing.py:49-60, tracker.py:39-41).
AllOrNothing ==
  \A r \in Requests :
    /\ answer[r] = 204 => Len(stored[r]) = Len(body[r].events)
    /\ stored[r] # <<>> => Len(stored[r]) = Len(body[r].events)
    /\ answer[r] = 422 => stored[r] = <<>>

\* Every request is answered, whatever its user agent waits for and however
\* long the broker keeps others, or waits for ever for the confirm of its own
\* message (concurrency.py:31-39, rabbitmq.py:220-224).
RequestsAnswered ==
  \A r \in Requests : (body[r] # NoBody ~> answer[r] # 0) \/ <>[]AwaitsBroker(r)

\* The contexts and the event of it decode and have the keys they need.
Complete(event) ==
  /\ FindAvailable(event.co, event.cx).form # "raises"
  /\ FindAvailable(event.ue_pr, event.ue_px).form # "raises"
  /\ \A view \in ScreenViewIn(event) : {"id", "name"} \subseteq DOMAIN view
  /\ LET amp == KeysFrom(event, LAMBDA c : IF c.schema \in AmpSchemas THEN DOMAIN c.data ELSE {})
     IN "uid" \in amp => "userId" \in amp

\* payload.py:107-108 and 121-122: tracker payloads are untrusted, so a bad
\* value must not raise and abort the whole ingest.
BadValuesDoNotAbort ==
  \A r \in Requests :
    (pc[r] = "ready" /\ \A i \in DOMAIN body[r].events : Complete(body[r].events[i]))
      => ~(answer[r] = 500 /\ rows[r] = <<>>)
=============================================================================
