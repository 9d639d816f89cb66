--------------------------- MODULE GatewayRequest ---------------------------
(***************************************************************************)
(* One model request through the public gateway: the handlers of the       *)
(* Responses, Chat Completions, Messages and Images endpoints in           *)
(* control/src/lib.rs, the path through a provider plugin in plugins.rs    *)
(* and the authorization of each dispatch in model_execution.rs.           *)
(*                                                                         *)
(* A handler authorizes the API key, finds out whether the model belongs   *)
(* to a connection (the plugin path) or to accounts (the native path),     *)
(* plans the upstream request, reserves money, and dispatches it once, or  *)
(* once per image.  Every dispatch is authorized again from the database,  *)
(* since whatever the handler read may have been withdrawn meanwhile.      *)
(* The outcome is handed to durable settlement (module DurableSettlement), *)
(* and only then does the client get the end of its answer.  A streamed    *)
(* answer is forwarded by a task of its own.  A client that leaves takes   *)
(* its handler with it, but neither that task nor a settlement.            *)
(*                                                                         *)
(* How a runner answers is module RunnerDispatch's; here the answer is one *)
(* of the classes the handlers tell apart.                                 *)
(***************************************************************************)
EXTENDS Naturals

CONSTANTS MaxImages, MaxChanges

ASSUME GatewayAssumption == MaxImages \in Nat \ {0} /\ MaxChanges \in Nat

VARIABLES
  endpoint,     \* which handler runs
  streams,      \* the client wants the answer as a stream
  wanted,       \* how many images; 0 for text
  granted,      \* what the database says of key, license, access and routes
  changes,
  stage,        \* where the handler or its stream task is
  path,         \* "native" or "plugin"
  route,        \* the revision of the credential that the request was built with
  confirmed,    \* images that upstream delivered, as the handler counts them
  intent,       \* the outcome that is being settled
  settled,      \* the outcomes settled
  held,         \* the stream's terminal frame waits for the settlement
  client,       \* [here, got]: still connected, the last thing it received
  cleared,      \* history: what was granted when the last authorization began
  ran           \* history: what upstream can have done: maybe (it may have executed the
                \* request), images, whole (a complete answer), and errorStart (a stream
                \* was answered with a status after which the execution is unknown)

gatewayVars == <<endpoint, streams, wanted, granted, changes, stage, path, route, confirmed, intent,
                 settled, held, client, cleared, ran>>

Text == wanted = 0

Nothing == [kind |-> "none", count |-> 0]
Usage == [kind |-> "usage", count |-> 0]
ImageUsage(n) == [kind |-> "images", count |-> n]
Failure(unknown) == [kind |-> IF unknown THEN "unknown" ELSE "failure", count |-> 0]

\* The revision of the credential that the path uses, 0 if there is none.
RouteIn(g) == IF path = "plugin" THEN g.connection ELSE g.account

\* Chat Completions and Messages stream through a plugin only: the native path
\* buffers the answer and writes it as a stream at the end.
StreamsUpstream == streams /\ (endpoint = "responses" \/ path = "plugin")

GatewayInit ==
  /\ \/ endpoint \in {"responses", "chat", "messages"} /\ streams \in BOOLEAN /\ wanted = 0
     \/ endpoint \in {"generations", "edits"} /\ streams = FALSE /\ wanted \in 1 .. MaxImages
  /\ granted = [key |-> TRUE, license |-> TRUE, access |-> TRUE, plugin |-> TRUE,
                connection |-> 1, account |-> 1]
  /\ changes = 0 /\ stage = "arrived" /\ path = "native" /\ route = 0 /\ confirmed = 0
  /\ intent = Nothing /\ settled = {} /\ held = FALSE
  /\ client = [here |-> TRUE, got |-> "nothing"] /\ cleared = granted
  /\ ran = [maybe |-> FALSE, images |-> 0, whole |-> FALSE, errorStart |-> FALSE]

\* Administrators and refreshes change what was granted while the handler runs.
Withdraw ==
  /\ changes < MaxChanges /\ changes' = changes + 1
  /\ \/ \E what \in {"key", "license", "access", "plugin"} :
          granted[what] /\ granted' = [granted EXCEPT ![what] = FALSE]
     \/ \E what \in {"connection", "account"} : granted[what] > 0 /\
          \/ granted' = [granted EXCEPT ![what] = @ + 1]
          \/ granted' = [granted EXCEPT ![what] = 0]
  /\ UNCHANGED <<endpoint, streams, wanted, stage, path, route, confirmed, intent, settled, held,
                 client, cleared, ran>>

Moves(s) == stage' = s /\ UNCHANGED <<endpoint, streams, wanted, granted, changes, settled, held>>

\* An error that is returned before anything was reserved.
Refuse ==
  /\ stage' = "done" /\ client' = [client EXCEPT !.got = "error"]
  /\ UNCHANGED <<endpoint, streams, wanted, granted, changes, path, route, confirmed, intent,
                 settled, held, cleared, ran>>

Goes(s) == Moves(s) /\ UNCHANGED <<path, route, confirmed, intent, client, cleared, ran>>

GoesIf(ok, s) == IF ok THEN Goes(s) ELSE Refuse

----------------------------------------------------------------------------
(***************************************************************************)
(* Before the reservation.                                                 *)
(***************************************************************************)

AuthorizeConsumer == stage = "arrived" /\ GoesIf(granted.key /\ granted.license, "authorized")

\* A model with a connection is the plugin's; the route that is read here is the
\* one the request is built from.
FollowConnection ==
  /\ Moves("access")
  /\ IF granted.connection > 0
       THEN path' = "plugin" /\ route' = granted.connection
       ELSE UNCHANGED <<path, route>>
  /\ UNCHANGED <<confirmed, intent, client, cleared, ran>>

\* try_plugin_gateway: the name may also be a variant's, whose options the body
\* must not contradict.
FindRoute(ok) == stage = "authorized" /\ Text /\ IF ok THEN FollowConnection ELSE Refuse

\* try_plugin_image.
FindImageRoute == stage = "authorized" /\ ~Text /\ FollowConnection

AssertModelAccess == stage = "access" /\ GoesIf(granted.access, "plan")

\* The plans, which the native handlers begin before they look at the access.
\* Whether a body is valid, its model known and its options
\* consistent is decided from the body alone; nothing is changed.
PlanResponses(ok) ==
  stage = "plan" /\ path = "native" /\ endpoint = "responses" /\ GoesIf(ok, "reserve")

PlanChat(ok) ==
  stage = "plan" /\ path = "native" /\ endpoint = "chat" /\ GoesIf(ok, "reserve")

PlanMessages(ok) ==
  stage = "plan" /\ path = "native" /\ endpoint = "messages" /\ GoesIf(ok, "reserve")

PlanGeneration(ok) ==
  stage = "plan" /\ path = "native" /\ endpoint = "generations" /\ GoesIf(ok, "reserve")

PlanEdit(ok) ==
  stage = "plan" /\ path = "native" /\ endpoint = "edits" /\ GoesIf(ok, "reserve")

\* The plugin plans the request, if there is one, and the host checks the plan.
PlanPluginText(ok) ==
  stage = "plan" /\ path = "plugin" /\ Text /\ GoesIf(granted.plugin /\ ok, "reserve")

PlanPluginImages(ok) ==
  stage = "plan" /\ path = "plugin" /\ ~Text /\ GoesIf(granted.plugin /\ ok, "reserve")

Reserve(ok) ==
  stage = "reserve" /\ GoesIf(ok, IF path = "native" THEN "prepare" ELSE "authorize")

----------------------------------------------------------------------------
(***************************************************************************)
(* The end of an attempt.                                                  *)
(***************************************************************************)

\* What was reserved is settled with outcome o, after which the handler returns
\* its answer ("settle") or an error ("fail").
Settle(o, s) ==
  /\ intent' = o /\ Moves(s) /\ UNCHANGED <<path, route, client, cleared>>

UnknownAfter_Stage(why) ==
  why \in {"lost", "unavailable"}

\* stage_for_control_error, normalize_provider_status and the handlers: is the
\* failure recorded as one after which the execution is unknown?
\* A stream whose start is answered with an error status counts as not executed.
UnknownAfter(why) ==
  \/ path = "plugin" /\ ~Text
  \/ why \in {"lost", "garbled"}
  \/ why = "unavailable" /\ ~StreamsUpstream
  \/ why = "rejected" /\ ~StreamsUpstream /\ path = "plugin"

\* An image that fails after others were delivered ends the request, and those
\* that were delivered are paid for.
AttemptFails(why, n) ==
  /\ Settle(IF n > 0 THEN ImageUsage(n) ELSE Failure(UnknownAfter(why)), "fail")
  /\ confirmed' = n

\* An image was delivered and decoded.
ImageDelivered(n) ==
  /\ confirmed' = n
  /\ IF n = wanted
       THEN Settle(ImageUsage(n), "settle")
       ELSE Moves(IF path = "native" THEN "prepare" ELSE "authorize")
            /\ UNCHANGED <<path, route, intent, client, cleared>>

----------------------------------------------------------------------------
(***************************************************************************)
(* An attempt.                                                             *)
(***************************************************************************)

\* ModelExecution::prepare: key, license and access are checked again,
Prepare ==
  /\ stage = "prepare" /\ UNCHANGED ran
  /\ IF granted.key /\ granted.license /\ granted.access
       THEN Moves("lease") /\ UNCHANGED <<path, route, confirmed, intent, client, cleared>>
       ELSE AttemptFails("stale", confirmed)

\* and prepare_provider_request chooses an account and leases its credential.
PrepareProviderRequest ==
  /\ stage = "lease" /\ UNCHANGED ran
  /\ IF granted.account > 0
       THEN /\ route' = granted.account /\ Moves("authorize")
            /\ UNCHANGED <<path, confirmed, intent, client, cleared>>
       ELSE AttemptFails("stale", confirmed)

\* The attempts' authorize, in three steps: the route that the request was
\* built from is still the one in the database,
CheckRoute ==
  /\ stage = "authorize" /\ UNCHANGED ran
  /\ IF RouteIn(granted) = route
       THEN /\ cleared' = granted /\ Moves("subject")
            /\ UNCHANGED <<path, route, confirmed, intent, client>>
       ELSE AttemptFails("stale", confirmed)

\* the key and the license are still valid,
CheckSubject_Cached ==
  /\ stage = "subject" /\ UNCHANGED ran
  /\ Moves("admit") /\ UNCHANGED <<path, route, confirmed, intent, client, cleared>>

CheckSubject ==
  /\ stage = "subject" /\ UNCHANGED ran
  /\ IF granted.key /\ granted.license
       THEN Moves("admit") /\ UNCHANGED <<path, route, confirmed, intent, client, cleared>>
       ELSE AttemptFails("stale", confirmed)

\* and the member may still use the model.
AdmitAttempt ==
  /\ stage = "admit" /\ UNCHANGED ran
  /\ IF granted.access
       THEN Moves("sent") /\ UNCHANGED <<path, route, confirmed, intent, client, cleared>>
       ELSE AttemptFails("stale", confirmed)

\* The runner could not take it and another one is asked, with a new authorization.
NextRunner == stage = "sent" /\ Goes("authorize")

\* No answer: no runner took it, or it is not known what became of it.
NoAnswer(why) ==
  /\ stage = "sent" /\ AttemptFails(why, confirmed)
  /\ ran' = [ran EXCEPT !.maybe = @ \/ why = "lost"]

\* An answer with an error status: the request was rejected, or upstream broke
\* (a 5xx, after which normalize_status calls the execution unknown).
ErrorStatus(why) ==
  /\ stage = "sent" /\ AttemptFails(why, confirmed)
  /\ ran' = [ran EXCEPT !.maybe = @ \/ why = "unavailable",
                        !.errorStart = @ \/ (why = "unavailable" /\ StreamsUpstream)]

\* A complete answer that cannot be understood, or has no usage or image in it.
GarbledAnswer ==
  /\ stage = "sent" /\ ~StreamsUpstream /\ AttemptFails("garbled", confirmed)
  /\ ran' = [ran EXCEPT !.maybe = TRUE]

\* The whole answer of a text request, with its usage:
TextAnswer ==
  /\ stage = "sent" /\ Text /\ ~StreamsUpstream /\ Settle(Usage, "settle") /\ UNCHANGED confirmed
  /\ ran' = [ran EXCEPT !.maybe = TRUE, !.whole = TRUE]

\* of the Responses endpoint,
ResponsesAnswer == path = "native" /\ endpoint = "responses" /\ TextAnswer

\* of Chat Completions and Messages, which also validate the response,
CanonicalAnswer == path = "native" /\ endpoint # "responses" /\ TextAnswer

\* and through a plugin, which parses it and writes it in the public protocol.
PluginAnswer == path = "plugin" /\ TextAnswer

\* One image, in the answer of the image tool or of a plugin's provider.
OneImage ==
  /\ stage = "sent" /\ ~Text /\ ImageDelivered(confirmed + 1)
  /\ ran' = [ran EXCEPT !.maybe = TRUE, !.images = @ + 1]

ImageAnswer == path = "native" /\ OneImage

PluginImageAnswer == path = "plugin" /\ OneImage

\* A plugin's provider may answer with the address of the image: it counts as
\* delivered, and is fetched through a runner, for which only the key and the
\* license are checked again.
ImageAddress ==
  /\ stage = "sent" /\ ~Text /\ path = "plugin" /\ Moves("fetch") /\ confirmed' = confirmed + 1
  /\ ran' = [ran EXCEPT !.maybe = TRUE, !.images = @ + 1]
  /\ UNCHANGED <<path, route, intent, client, cleared>>

FetchAsset(ok) ==
  /\ stage = "fetch" /\ UNCHANGED ran
  /\ IF ok /\ granted.key /\ granted.license
       THEN ImageDelivered(confirmed)
       ELSE AttemptFails("stale", confirmed)

\* From here a task of its own forwards the stream, as start_openai_gateway_stream
\* and start_plugin_gateway_stream begin it.
StreamStarts ==
  /\ stage = "sent" /\ StreamsUpstream /\ Moves("streaming")
  /\ ran' = [ran EXCEPT !.maybe = TRUE]
  /\ UNCHANGED <<path, route, confirmed, intent, client, cleared>>

StartNativeStream == path = "native" /\ StreamStarts

StartPluginStream == path = "plugin" /\ StreamStarts

----------------------------------------------------------------------------
(***************************************************************************)
(* forward_openai_gateway_stream and forward_plugin_gateway_stream.        *)
(***************************************************************************)

StreamBreaks == Settle(Failure(TRUE), "fail") /\ UNCHANGED <<confirmed, ran>>

PassOn ==
  /\ client' = IF client.here THEN [client EXCEPT !.got = "frames"] ELSE client
  /\ Moves("streaming") /\ UNCHANGED <<path, route, confirmed, intent, cleared, ran>>

\* A frame that is not the last goes to the client, if it is still there; one
\* that comes after the terminal frame is held back with it.
ForwardFrame == stage = "streaming" /\ path = "native" /\ ~held /\ PassOn

\* A plugin's stream ends when the client is gone, and refuses a frame after the
\* terminal one.  The plugin may map the frame to another protocol.
ForwardPluginFrame ==
  /\ stage = "streaming" /\ path = "plugin"
  /\ IF held \/ ~client.here THEN StreamBreaks ELSE PassOn

HoldTerminalFrame ==
  /\ stage = "streaming" /\ ~held /\ held' = TRUE
  /\ UNCHANGED <<endpoint, streams, wanted, granted, changes, stage, path, route, confirmed, intent,
                 settled, client, cleared, ran>>

\* The runner is done: the usage is read from what was received,
StreamFinishes(usage) ==
  /\ stage = "streaming"
  /\ IF held /\ usage
       THEN Settle(Usage, "settle") /\ ran' = [ran EXCEPT !.whole = TRUE] /\ UNCHANGED confirmed
       ELSE StreamBreaks

\* by the reducer of the events,
NativeStreamFinishes(usage) == path = "native" /\ StreamFinishes(usage)

\* or by the plugin, from the last event with data.
PluginStreamFinishes(usage) == path = "plugin" /\ StreamFinishes(usage)

\* The runner failed, its events ended, came out of order or took too long, or an
\* event was not understood.
StreamFails == stage = "streaming" /\ StreamBreaks

----------------------------------------------------------------------------

\* durable_settlement::complete, which reports usage that it could not accept,
\* and what the client gets: the end of its answer only after the settlement.
FinishSettlement(ok) ==
  /\ stage \in {"settle", "fail"} /\ stage' = "done" /\ settled' = settled \cup {intent}
  /\ client' = IF client.here
                 THEN [client EXCEPT !.got = IF stage = "settle" /\ ok THEN "answer" ELSE "error"]
                 ELSE client
  /\ UNCHANGED <<endpoint, streams, wanted, granted, changes, path, route, confirmed, intent, held,
                 cleared, ran>>

Detached == stage \in {"streaming", "settle", "fail", "done"}

\* The client disconnects; the handler is dropped with all it holds.
ClientLeaves ==
  /\ client.here /\ stage # "done" /\ client' = [client EXCEPT !.here = FALSE]
  /\ stage' = IF Detached THEN stage ELSE "dropped"
  /\ UNCHANGED <<endpoint, streams, wanted, granted, changes, path, route, confirmed, intent,
                 settled, held, cleared, ran>>

Plan ==
  \E ok \in BOOLEAN :
    PlanResponses(ok) \/ PlanChat(ok) \/ PlanMessages(ok) \/ PlanGeneration(ok) \/ PlanEdit(ok)
      \/ PlanPluginText(ok) \/ PlanPluginImages(ok)

GatewayNext ==
  \/ Withdraw \/ ClientLeaves
  \/ AuthorizeConsumer \/ FindImageRoute \/ AssertModelAccess \/ Plan
  \/ \E ok \in BOOLEAN : FindRoute(ok) \/ Reserve(ok) \/ FetchAsset(ok) \/ FinishSettlement(ok)
  \/ Prepare \/ PrepareProviderRequest \/ CheckRoute \/ CheckSubject \/ AdmitAttempt \/ NextRunner
  \/ \E why \in {"no runner", "lost"} : NoAnswer(why)
  \/ \E why \in {"rejected", "unavailable"} : ErrorStatus(why)
  \/ GarbledAnswer \/ ResponsesAnswer \/ CanonicalAnswer \/ PluginAnswer
  \/ ImageAnswer \/ PluginImageAnswer \/ ImageAddress
  \/ StartNativeStream \/ StartPluginStream \/ HoldTerminalFrame \/ StreamFails
  \/ ForwardFrame \/ ForwardPluginFrame
  \/ \E usage \in BOOLEAN : NativeStreamFinishes(usage) \/ PluginStreamFinishes(usage)

GatewaySpec == GatewayInit /\ [][GatewayNext]_gatewayVars

----------------------------------------------------------------------------

\* One outcome is settled, and it says what upstream did: usage only for a whole
\* answer, as many images as upstream delivered although a later one failed or
\* could not be fetched, a failure without a question mark only if upstream
\* cannot have begun.  The code has one exception, which errorStart sets apart: a
\* stream that is answered with a 5xx is settled as a failure without a question
\* mark, although the provider's own classification and its test call the
\* execution unknown; an answer that is not streamed follows them.  A client that has its whole answer has paid for it; an
\* answer that upstream completed is not lost unless the handler was dropped.
ChargedAsExecuted ==
  /\ \A o \in settled :
       /\ o.kind = "usage" => ran.whole
       /\ o.kind = "images" => o.count = ran.images
       /\ o.kind = "failure" => (ran.maybe => ran.errorStart)
  /\ client.got = "answer" => settled = {IF Text THEN Usage ELSE ImageUsage(wanted)}
  /\ stage = "done" /\ (ran.whole \/ ran.images > 0) =>
       \E o \in settled : settled = {o} /\ o.kind \in {"usage", "images"}

\* A request leaves for upstream only with what was granted when its own
\* authorization began: key, license and access had not been withdrawn, and the
\* credential it carries had not been replaced, however long ago the handler
\* read them for the first time.
DispatchAuthorized ==
  stage = "sent" =>
    /\ cleared.key /\ cleared.license /\ cleared.access
    /\ RouteIn(cleared) = route
=============================================================================
