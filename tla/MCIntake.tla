------------------------------- MODULE MCIntake -------------------------------
(***************************************************************************)
(* Requests for model-checking Intake: plain ones that compete for the     *)
(* user-agent cache and the slots, and single ones with rich events.       *)
(***************************************************************************)
EXTENDS Intake

CONSTANTS r1, r2, r3, a1, a2

NoText == [form |-> "empty"]
Ok(data) == [form |-> "ok", data |-> data]
Context(schema, data) == [form |-> "ok", schema |-> schema, data |-> data]
Ue(name, data) == [form |-> "ok", name |-> name, data |-> data]

PageView ==
  [valid |-> TRUE, e |-> "pv", url |-> "page", refr |-> "referrer", uid |-> "user",
   duid |-> Null, res |-> "1x1", se_pr |-> Empty, se_va |-> Empty, ping |-> Null,
   co |-> NoText, cx |-> NoText, ue_pr |-> NoText, ue_px |-> NoText]

ContextsOf(schema, datas) == {Context(schema, data) : data \in datas}

\* What overrides the columns that the precedence is about.
Overrides ==
  ContextsOf("web_page", {"id" :> "uuid-1", "id" :> "no uuid", NoKeys})
  \union ContextsOf("client_session",
           {[userId |-> "uuid-1", sessionId |-> "uuid-2", sessionIndex |-> Number],
            [userId |-> "no uuid", firstEventTimestamp |-> "date"],
            [userId |-> Null, previousSessionId |-> "uuid-2", eventIndex |-> Number]})
  \union ContextsOf("screen", {[name |-> "screen", id |-> "uuid-2", type |-> "modal"],
                               [name |-> Null, screen_name |-> "named screen"],
                               [name |-> Empty, screen_name |-> Null]})
  \union ContextsOf("screen_data", {"screen_name" :> "named", "screen_name" :> Empty})
  \union ContextsOf("amp_id", {"domainUserid" :> "uuid-3", "domainUserid" :> Empty})
  \union ContextsOf("http_client_hints", {"isMobile" :> "true", "isMobile" :> "false", NoKeys})
  \union ContextsOf("mobile_context", {[deviceModel |-> "phone", carrier |-> "c"], "osType" :> "os"})
  \union ContextsOf("browser_context", {"resolution" :> "2x2", [resolution |-> " ", tabId |-> "t"]})

\* What is only collected, or skipped.
Collected ==
  ContextsOf("static_context", {"site" :> "s", "client_hints" :> ("isMobile" :> "false"),
                                "client_hints" :> NoJsonObject})
  \union ContextsOf("amp_session", {[uid |-> "u", userId |-> "amp user"]})
  \union {Context(schema, "key" :> "value") :
            schema \in {"PerformanceTiming", "cookies", "ad_data", "screen_summary",
                        "application", "page_data", "user_data", "geolocation_context", "unknown"}}
  \union {[form |-> "no object"]}

ScreenViews == {Ue("screen_view", [id |-> "uuid-3", name |-> "view", previousName |-> "before"]),
                Ue("screen_view", [id |-> "no uuid", name |-> "view", previousName |-> "Unknown"]),
                Ue("screen_view", [id |-> "uuid-3", name |-> "view", screen_name |-> "named view"])}
Events == ScreenViews \union
          {Ue("u2s", [property |-> "json object", value |-> "numeric"]),
           Ue("u2s", [property |-> "text", value |-> "text"]),
           Ue("amp_page_ping", "key" :> "value"), Ue("link_click", "key" :> "value"),
           [form |-> "invalid"]}

\* Pairs of contexts; one context with an event, a device and a kind; texts
\* that are not encoded before those that are.
RichEvents ==
  {[PageView EXCEPT !.cx = Ok(<<c, d>>), !.duid = "uuid-2"] :
     c \in Overrides, d \in Overrides \union Collected}
  \union {[PageView EXCEPT !.co = Ok(<<d, c>>), !.cx = Ok(<<d>>)] : c \in Overrides, d \in Collected}
  \union {[PageView EXCEPT !.co = Ok(<<c>>), !.ue_px = ue, !.e = e] :
            c \in Overrides \union Collected, ue \in Events, e \in {"ue", "pv"}}
  \union {[PageView EXCEPT !.url = url, !.ping = "10", !.e = "pp", !.ue_pr = ue, !.ue_px = NoText] :
            url \in {"page", "linked page"}, ue \in Events}

\* Batches of two, with events that are refused or raise.
BatchEvents ==
  {PageView,
   [PageView EXCEPT !.valid = FALSE],
   [PageView EXCEPT !.cx = [form |-> "raises"]],
   [PageView EXCEPT !.url = "malformed"],
   [PageView EXCEPT !.co = Ok(<<Context("static_context", "site" :> "s"),
                                Context("http_client_hints", "isMobile" :> "true")>>)],
   [PageView EXCEPT !.co = Ok(<<Context("ad_data", "key" :> "value")>>), !.ue_px = Ue("link_click", NoKeys)],
   [PageView EXCEPT !.url = "linked page", !.ue_pr = CHOOSE view \in ScreenViews : TRUE]}

Cookies == {<<>>, <<"uuid-1">>, <<"uuid-1", "incomplete">>, <<"incomplete", "uuid-2">>}

\* One request, of one agent.
Alone(events, cookies) ==
  [size |-> 1, ingest |-> "direct", agentOf |-> [r \in Requests |-> a1],
   body |-> [r \in Requests |-> IF r = r1 THEN [events |-> events, cookies |-> cookies] ELSE NoBody]]

MCLoads ==
  {[size |-> limit, ingest |-> mode, agentOf |-> agents,
    body |-> [r \in Requests |-> [events |-> <<PageView>>, cookies |-> <<>>]]] :
     limit \in Sizes, mode \in {"direct", "rabbitmq"}, agents \in [Requests -> Agents]}
  \union {Alone(<<event>>, <<"uuid-1">>) : event \in RichEvents}
  \union {Alone(<<e1, e2>>, cookies) : e1 \in BatchEvents, e2 \in BatchEvents, cookies \in Cookies}
  \union {[Alone(<<>>, <<>>) EXCEPT !.ingest = mode] : mode \in {"direct", "rabbitmq"}}

\* Numbers where a date and an id are due.
MCBadValues ==
  {Alone(<<[PageView EXCEPT !.co = Ok(<<Context("client_session", data)>>)]>>, <<>>) :
     data \in {[firstEventTimestamp |-> Number, userId |-> "no uuid"], "userId" :> Number}}
=============================================================================
