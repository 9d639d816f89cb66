-------------------------- MODULE ProtocolAdapters --------------------------
(***************************************************************************)
(* The translations between the public protocols and the Responses         *)
(* protocol that is spoken upstream: gateway/chat.rs, anthropic.rs,        *)
(* responses.rs, protocol.rs and execution_options.rs.                     *)
(*                                                                         *)
(* A conversation of Chat Completions or Messages becomes a list of input  *)
(* items and the instructions; the events of the answer are reduced to a   *)
(* response, which is written as one message or as a stream; the name of a *)
(* model may carry options, which are merged with those of the request,    *)
(* and is looked up in a catalog that the process keeps until it is told   *)
(* that the models have changed.                                           *)
(* A block of text, an image, a tool call or its result is known by its    *)
(* place in the conversation, a piece of generated text by its number.     *)
(***************************************************************************)
EXTENDS Naturals, Sequences, SequencesExt

CONSTANTS
  ModelOrder,      \* names of models, as sequences of their parts, as sort orders them
  Requested,       \* names that clients ask for
  Asker,           \* requests that resolve a name
  MaxMessages, MaxBlocks, MaxItems, MaxParts, MaxPieces, MaxModelChanges

\* A name comes before the names that it begins.
ASSUME OrderAssumption ==
  \A i, j \in DOMAIN ModelOrder : IsStrictPrefix(ModelOrder[i], ModelOrder[j]) => i < j

VARIABLES
  protocol,        \* "chat" or "messages"
  conversation,    \* its messages so far
  truth,           \* what upstream generated: its items
  output,          \* what the reducer made of the events
  final,           \* "open", or how the answer ended
  catalog,         \* [enabled, cached, owed, changes, stale]: the models in the database,
                   \* those in model_variants, invalidations due, and whether (history) a
                   \* change was not announced or overtook the reading of what is cached
  asker            \* [at, name, models, overtaken] of each request

requestVars == <<protocol, conversation>>
responseVars == <<truth, output, final>>
optionVars == <<catalog, asker>>

NoOption == "none given"

----------------------------------------------------------------------------
(***************************************************************************)
(* messages_to_responses, of chat.rs and of anthropic.rs.                  *)
(***************************************************************************)

\* The i-th message's blocks, each with its place.
Placed(i) == [j \in 1 .. Len(conversation[i].blocks) |->
                [kind |-> conversation[i].blocks[j], at |-> <<i, j>>]]

MessageItem(role, parts) == [type |-> "message", role |-> role, parts |-> parts]
SingleItem(type, block) == [type |-> type, role |-> "none", parts |-> <<block>>]

InMessage(block) == block.kind \in {"text", "image"}

\* A chat message is its content, as one item, and then its tool calls, which are
\* not looked at if a user sends them; a tool's answer is a message of its own.
ChatItems(i) ==
  LET role == conversation[i].role
      content == SelectSeq(Placed(i), InMessage)
      calls == SelectSeq(Placed(i), LAMBDA b : b.kind = "call") IN
  CASE role = "system" -> << >>
    [] role = "tool" -> <<SingleItem("result", Placed(i)[1])>>
    [] OTHER -> (IF content = << >> THEN << >> ELSE <<MessageItem(role, content)>>)
                  \o (IF role = "user" THEN << >>
                      ELSE [k \in 1 .. Len(calls) |-> SingleItem("call", calls[k])])

\* A message of the Messages protocol mixes them: what was collected is written
\* out before a call or a result, and at the end.
Flush(role, acc) ==
  IF acc.parts = << >> THEN acc
  ELSE [items |-> Append(acc.items, MessageItem(role, acc.parts)), parts |-> << >>]

AddBlock_Unflushed(role, acc, block) ==
  IF InMessage(block) THEN [acc EXCEPT !.parts = Append(@, block)]
  ELSE [acc EXCEPT !.items = Append(@, SingleItem(block.kind, block))]

AddBlock(role, acc, block) ==
  IF InMessage(block) THEN [acc EXCEPT !.parts = Append(@, block)]
  ELSE LET done == Flush(role, acc) IN
       [done EXCEPT !.items = Append(@, SingleItem(block.kind, block))]

MessagesItems(i) ==
  LET role == conversation[i].role IN
  IF role = "system" THEN << >>
  ELSE Flush(role, FoldLeft(LAMBDA acc, b : AddBlock(role, acc, b),
                            [items |-> << >>, parts |-> << >>], Placed(i))).items

\* What the converter accepts: who may say what.
MayHold(role) ==
  CASE role = "system" -> {"text"}
    [] role = "tool" -> {"result"}
    [] role = "assistant" -> {"text", "call"}
    [] role = "user" -> {"text", "image"} \cup {IF protocol = "messages" THEN "result" ELSE "call"}

Roles == {"system", "user", "assistant"} \cup (IF protocol = "chat" THEN {"tool"} ELSE {})

InputItems ==
  FlattenSeq([i \in 1 .. Len(conversation) |-> IF protocol = "chat" THEN ChatItems(i) ELSE MessagesItems(i)])

Instructions ==
  FlattenSeq([i \in 1 .. Len(conversation) |->
                IF conversation[i].role = "system" THEN Placed(i) ELSE << >>])

AddMessage(role, blocks) ==
  /\ Len(conversation) < MaxMessages
  /\ role \in Roles /\ \A j \in 1 .. Len(blocks) : blocks[j] \in MayHold(role)
  /\ role = "tool" => Len(blocks) = 1
  /\ conversation' = Append(conversation, [role |-> role, blocks |-> blocks])
  /\ UNCHANGED <<protocol, responseVars, optionVars>>

Blocks == UNION {[1 .. n -> {"text", "image", "call", "result"}] : n \in 1 .. MaxBlocks}

RequestNext ==
  \E role \in {"system", "user", "assistant", "tool"}, blocks \in Blocks : AddMessage(role, blocks)

----------------------------------------------------------------------------
(***************************************************************************)
(* ResponseEventReducer.  Upstream generates items, a message in parts and *)
(* a call as one, and announces what it likes to announce: the item when   *)
(* it begins or when it is done, a part of a message, each piece of text,  *)
(* or the text when it is done.                                            *)
(***************************************************************************)

EmptyItem(kind, named) ==
  [kind |-> kind, named |-> named, parts |-> IF kind = "call" THEN << << >> >> ELSE << >>]

\* push: what an event about item i does to what was collected so far.
OutputItemEvent(i, item) == [j \in DOMAIN output \cup {i} |-> IF j = i THEN item ELSE output[j]]

\* A message that was not announced is made up; so is a call, without a name.
Collected(i, kind) == IF i \in DOMAIN output THEN output[i] ELSE EmptyItem(kind, kind = "message")

\* resize_with_null: a null counts for no more than an empty part.
Resized(parts, p) == [k \in 1 .. Max({p, Len(parts)}) |-> IF k <= Len(parts) THEN parts[k] ELSE << >>]

WithPart(item, p, text) == [item EXCEPT !.parts = [Resized(@, p) EXCEPT ![p] = text]]

DeltaEvent(i, kind, p, piece) ==
  LET item == Collected(i, kind) IN
  OutputItemEvent(i, WithPart(item, p, Append(Resized(item.parts, p)[p], piece)))

\* The arguments of a call that nothing was collected of are dropped.
TextDoneEvent(i, kind, p, text) ==
  IF kind = "call" /\ i \notin DOMAIN output THEN output
  ELSE OutputItemEvent(i, WithPart(Collected(i, kind), p, text))

PartEvent(i, p, text) == OutputItemEvent(i, WithPart(Collected(i, "message"), p, text))

ResponseUnchanged == UNCHANGED <<requestVars, optionVars>>

\* A part: its text, how many of its pieces were sent, and whether it was sent whole.
NoPart == [text |-> << >>, sent |-> 0, whole |-> FALSE]
Told(part) == part.whole \/ part.sent = Len(part.text)
Texts(parts) == [p \in DOMAIN parts |-> parts[p].text]
Pieces(item) == FlattenSeq(Texts(item.parts))

ItemBegins(kind, announced) ==
  /\ final = "open" /\ Len(truth) < MaxItems
  /\ truth' = Append(truth, [kind |-> kind, parts |-> IF kind = "call" THEN <<NoPart>> ELSE << >>,
                             heard |-> announced, done |-> FALSE])
  /\ output' = IF announced THEN OutputItemEvent(Len(truth) + 1, EmptyItem(kind, TRUE)) ELSE output
  /\ ResponseUnchanged /\ UNCHANGED final

PartBegins(i, announced) ==
  LET item == truth[i]  p == Len(item.parts) + 1 IN
  /\ final = "open" /\ ~item.done /\ item.kind = "message" /\ p <= MaxParts
  /\ \A k \in DOMAIN item.parts : Told(item.parts[k])
  /\ truth' = [truth EXCEPT ![i].parts = Append(@, NoPart), ![i].heard = @ \/ announced]
  /\ output' = IF announced THEN PartEvent(i, p, << >>) ELSE output
  /\ ResponseUnchanged /\ UNCHANGED final

\* The next piece, numbered 0 if it leaves the arguments of a call no JSON; upstream
\* sends all of a part's pieces or none of them.
Generates(i, sent, sound) ==
  LET item == truth[i]  p == Len(item.parts)  part == item.parts[p]
      piece == <<i, IF sound THEN Len(Pieces(item)) + 1 ELSE 0>> IN
  /\ final = "open" /\ ~item.done /\ p > 0 /\ ~part.whole /\ Len(Pieces(item)) < MaxPieces
  /\ ~sound => item.kind = "call"
  /\ part.text # << >> => (sent <=> part.sent > 0)
  /\ truth' = [truth EXCEPT ![i].parts[p].text = Append(@, piece),
                            ![i].parts[p].sent = IF sent THEN @ + 1 ELSE @, ![i].heard = @ \/ sent]
  /\ output' = IF sent THEN DeltaEvent(i, item.kind, p, piece) ELSE output
  /\ ResponseUnchanged /\ UNCHANGED final

\* The text of a part, or the part, is done, which upstream may say late.
PartEnds(i, p, how) ==
  LET item == truth[i]  text == item.parts[p].text IN
  /\ final = "open" /\ ~item.done /\ ~item.parts[p].whole
  /\ how = "part" => item.kind = "message"
  /\ truth' = [truth EXCEPT ![i].parts[p].whole = TRUE, ![i].heard = @ \/ item.kind = "message"]
  /\ output' = IF how = "text" THEN TextDoneEvent(i, item.kind, p, text) ELSE PartEvent(i, p, text)
  /\ ResponseUnchanged /\ UNCHANGED final

\* An item is done: with the item itself, or with nothing if its parts are told.
ItemEnds(i, sent) ==
  LET item == truth[i] IN
  /\ final = "open" /\ ~item.done
  /\ ~sent => \A p \in DOMAIN item.parts : Told(item.parts[p])
  /\ truth' = [truth EXCEPT ![i].done = TRUE, ![i].heard = @ \/ sent]
  /\ output' = IF sent
                 THEN OutputItemEvent(i, [kind |-> item.kind, named |-> TRUE, parts |-> Texts(item.parts)])
                 ELSE output
  /\ ResponseUnchanged /\ UNCHANGED final

\* response.completed, with the output, with an empty one or without any, and the
\* events of a failure.
ResponseEnds(how) ==
  /\ final = "open" /\ truth # << >> /\ final' = how
  /\ how # "failed" => \A i \in DOMAIN truth : truth[i].done
  /\ ResponseUnchanged /\ UNCHANGED <<truth, output>>

ResponseNext ==
  \/ \E kind \in {"message", "call"}, announced \in BOOLEAN : ItemBegins(kind, announced)
  \/ \E i \in DOMAIN truth, sent \in BOOLEAN :
       \/ PartBegins(i, sent) \/ ItemEnds(i, sent)
       \/ \E sound \in BOOLEAN : Generates(i, sent, sound)
  \/ \E i \in DOMAIN truth : \E p \in DOMAIN truth[i].parts, how \in {"text", "part"} : PartEnds(i, p, how)
  \/ \E how \in {"with output", "empty", "bare", "failed"} : ResponseEnds(how)

\* finish: the output of the completed response, or else the items in the order
\* of their places.
Reduced ==
  IF final = "with output"
    THEN [i \in DOMAIN truth |->
            [kind |-> truth[i].kind, named |-> TRUE, parts |-> Texts(truth[i].parts)]]
  ELSE LET places == SetToSortSeq(DOMAIN output, <) IN [k \in DOMAIN places |-> output[places[k]]]

\* canonical_output refuses a call without a name, and a response without output.
Understood ==
  /\ final \in {"with output", "empty"} \/ (final = "bare" /\ DOMAIN output # {})
  /\ \A i \in DOMAIN Reduced : Reduced[i].named

\* The text of all the messages, and the arguments of the calls.
CanonicalText(items) ==
  FlattenSeq([i \in DOMAIN items |-> IF items[i].kind = "message" THEN FlattenSeq(items[i].parts) ELSE << >>])

CanonicalCalls(items) ==
  LET calls == SelectSeq(items, LAMBDA item : item.kind = "call") IN
  [k \in DOMAIN calls |-> calls[k].parts[1]]

\* The chunks of a chat stream: the role, the text and the calls if there are
\* any, and the reason for the end.
ChatChunks(text, calls) ==
  <<[role |-> TRUE]>>
    \o (IF text = << >> THEN << >> ELSE <<[content |-> text]>>)
    \o (IF calls = << >> THEN << >> ELSE <<[tools |-> calls]>>)
    \o <<[finish |-> IF calls = << >> THEN "stop" ELSE "tool_calls"]>>

\* The input of a tool_use is what the arguments parse to, or an object with nothing
\* in it.
ParsedArguments(arguments) ==
  IF arguments = << >> \/ \E k \in DOMAIN arguments : arguments[k][2] = 0 THEN << >> ELSE arguments

\* The content of a message, and its stream: each block begins, is given its
\* content, and ends.
MessageContent(text, calls) ==
  (IF text = << >> THEN << >> ELSE <<[type |-> "text", of |-> text]>>)
    \o [k \in DOMAIN calls |-> [type |-> "tool_use", of |-> ParsedArguments(calls[k])]]

MessageEvents(content) ==
  <<[type |-> "message_start"]>>
    \o FlattenSeq([k \in DOMAIN content |->
         <<[type |-> "block_start", index |-> k - 1, block |-> content[k].type],
           [type |-> "block_delta", index |-> k - 1, of |-> content[k].of],
           [type |-> "block_stop", index |-> k - 1]>>])
    \o <<[type |-> "message_delta",
          reason |-> IF \E k \in DOMAIN content : content[k].type = "tool_use"
                       THEN "tool_use" ELSE "end_turn"],
         [type |-> "message_stop"]>>

----------------------------------------------------------------------------
(***************************************************************************)
(* ModelVariantCatalog, resolve_gateway_model, apply_to_canonical and      *)
(* CodexUpstreamAdapter.  (insert_variant leaves out names that are too    *)
(* long to be asked for.)                                                  *)
(***************************************************************************)

Speeds == {"standard", "fast"}
Efforts == {"none", "low", "high"}

Suffix(options) ==
  (IF options.tier = NoOption THEN << >> ELSE <<options.tier>>)
    \o (IF options.effort = NoOption THEN << >> ELSE <<options.effort>>)

Variants == [tier : Speeds \cup {NoOption}, effort : Efforts \cup {NoOption}]

Named(base, options) == [base |-> base, options |-> options]

VariantsOf(base) ==
  [name \in {base \o Suffix(v) : v \in Variants} |->
     Named(base, CHOOSE v \in Variants : base \o Suffix(v) = name)]

\* from_base_models: each model has its own name; then each in its turn gives its
\* variants the names that are still free.
FromBaseModels ==
  [models \in SUBSET Range(ModelOrder) |->
     FoldLeft(LAMBDA entries, base : entries @@ VariantsOf(base),
              [name \in models |-> Named(name, [tier |-> NoOption, effort |-> NoOption])],
              SelectSeq(ModelOrder, LAMBDA model : model \in models))]

Resolves(models, name) == name \in DOMAIN FromBaseModels[models]

\* The requests that have read the models, and have not cached them.
Overtaken == [a \in Asker |-> [asker[a] EXCEPT !.overtaken = asker[a].at = "read"]]

\* What the database offers changes.  The model page and the synchronizations of
\* an account or a connection answer after they have invalidated the catalog; a
\* status of an account, a credential or a connection that changes, and a handler
\* that is dropped when it has committed, invalidate nothing.
ChangeModels(model, announced) ==
  LET models == (catalog.enabled \cup {model}) \ (catalog.enabled \cap {model}) IN
  /\ catalog.changes < MaxModelChanges
  /\ catalog' = [catalog EXCEPT !.enabled = models, !.changes = @ + 1,
                                !.owed = IF announced THEN @ + 1 ELSE @, !.stale = @ \/ ~announced]
  /\ asker' = IF announced THEN asker ELSE Overtaken
  /\ UNCHANGED <<requestVars, responseVars>>

\* invalidate_gateway_model_variants, which a request that has read does not notice.
InvalidateVariants ==
  /\ catalog.owed > 0
  /\ catalog' = [catalog EXCEPT !.owed = @ - 1, !.cached = {}, !.stale = FALSE]
  /\ asker' = Overtaken
  /\ UNCHANGED <<requestVars, responseVars>>

\* resolve_gateway_model: in the cached catalog,
AskModel(a, name) ==
  /\ asker[a].at = "idle"
  /\ asker' = [asker EXCEPT ![a].name = name, ![a].models = catalog.cached,
                            ![a].at = IF Resolves(catalog.cached, name) THEN "resolved" ELSE "missed"]
  /\ UNCHANGED <<requestVars, responseVars, catalog>>

\* or in the models of the database,
ReadModels(a) ==
  /\ asker[a].at = "missed"
  /\ asker' = [asker EXCEPT ![a].at = "read", ![a].models = catalog.enabled]
  /\ UNCHANGED <<requestVars, responseVars, catalog>>

\* which are cached if the name is found.
CacheModels(a) ==
  LET found == Resolves(asker[a].models, asker[a].name) IN
  /\ asker[a].at = "read"
  /\ asker' = [asker EXCEPT ![a].at = IF found THEN "resolved" ELSE "unknown", ![a].overtaken = FALSE]
  /\ catalog' = IF found
                  THEN [catalog EXCEPT !.cached = asker[a].models, !.stale = asker[a].overtaken]
                  ELSE catalog
  /\ UNCHANGED <<requestVars, responseVars>>

OptionsNext ==
  \/ InvalidateVariants
  \/ \E model \in Range(ModelOrder), announced \in BOOLEAN : ChangeModels(model, announced)
  \/ \E a \in Asker : ReadModels(a) \/ CacheModels(a) \/ \E name \in Requested : AskModel(a, name)

\* ProcessingTier::from_openai.
TierNamed(wire) ==
  CASE wire = "default" -> "standard"
    [] wire = "priority" -> "fast"
    [] OTHER -> wire

\* as_openai, and the name that the upstream transport has for the fast tier.
TierOnWire(tier) ==
  CASE tier = "standard" -> "default"
    [] tier = "fast" -> "priority"
    [] OTHER -> tier

Conflict == "conflict"

MergeOption(explicit, ofModel) ==
  IF explicit # NoOption /\ ofModel # NoOption /\ explicit # ofModel THEN Conflict
  ELSE IF explicit # NoOption THEN explicit
  ELSE ofModel

\* The options of a request for the variant that gives tier and effort itself.
Merged(variant, tier, effort) ==
  [tier |-> MergeOption(TierNamed(tier), variant.options.tier),
   effort |-> MergeOption(effort, variant.options.effort)]

Served(merged) == merged.tier # Conflict /\ merged.effort # Conflict

\* The tier that the request is priced with.
BilledTier(merged) == IF merged.tier = NoOption THEN "standard" ELSE merged.tier

AdapterInit ==
  /\ protocol \in {"chat", "messages"} /\ conversation = << >>
  /\ truth = << >> /\ output = << >> /\ final = "open"
  /\ \E models \in SUBSET Range(ModelOrder) :
       catalog = [enabled |-> models, cached |-> {}, owed |-> 0, changes |-> 0, stale |-> FALSE]
  /\ asker = [a \in Asker |-> [at |-> "idle", name |-> << >>, models |-> {}, overtaken |-> FALSE]]

adapterVars == <<requestVars, responseVars, optionVars>>

----------------------------------------------------------------------------

\* Every block of a conversation reaches upstream once and in its order, in an
\* item of its own kind and role; what the system says is kept apart, in order.
\* (Chat Completions lists the calls of a message after its content; the calls that
\* a user claims to have made are the one thing it accepts and drops.)
ConversationKept ==
  conversation # << >> =>
    LET calls(i) == IF conversation[i].role = "user" THEN << >>
                    ELSE SelectSeq(Placed(i), LAMBDA b : b.kind = "call")
        said(i) == IF protocol = "messages" THEN Placed(i)
                   ELSE SelectSeq(Placed(i), LAMBDA b : b.kind # "call") \o calls(i)
        spoken(system) == FlattenSeq([i \in DOMAIN conversation |->
                            IF (conversation[i].role = "system") = system THEN said(i) ELSE << >>]) IN
    /\ FlattenSeq([k \in DOMAIN InputItems |-> InputItems[k].parts]) = spoken(FALSE)
    /\ Instructions = spoken(TRUE)
    /\ \A k \in DOMAIN InputItems : InputItems[k].type = "message" =>
         \A n \in DOMAIN InputItems[k].parts :
           InputItems[k].role = conversation[InputItems[k].parts[n].at[1]].role

\* Whichever events upstream chose to send, and whether its last one repeats the
\* output: a response that is understood reaches a client that puts a stream
\* together, in either protocol, as it was generated, text and calls, in order.
\* Two things are lost, and no others: a call of which upstream sent at most the
\* finished arguments (heard is FALSE) is dropped as if it had not been made, and
\* arguments that are no JSON are an empty object in the Messages protocol.
AnswerKept ==
  Understood =>
    LET heard == IF final = "with output" THEN truth ELSE SelectSeq(truth, LAMBDA item : item.heard)
        generated == [i \in DOMAIN heard |-> [kind |-> heard[i].kind, parts |-> Texts(heard[i].parts)]]
        text == CanonicalText(generated)  calls == CanonicalCalls(generated)
        chunks == ChatChunks(CanonicalText(Reduced), CanonicalCalls(Reduced))
        given(field) == LET some == SelectSeq(chunks, LAMBDA c : field \in DOMAIN c) IN
                        FlattenSeq([k \in DOMAIN some |-> some[k][field]])
        events == MessageEvents(MessageContent(CanonicalText(Reduced), CanonicalCalls(Reduced)))
        opened(e) == CHOOSE k \in DOMAIN events : events[k].type = "block_start" /\ events[k].index = e.index
        blocks(kind) == LET deltas == SelectSeq(events, LAMBDA e :
                              e.type = "block_delta" /\ events[opened(e)].block = kind) IN
                        [k \in DOMAIN deltas |-> deltas[k].of] IN
    /\ given("content") = text /\ given("tools") = calls
    /\ FlattenSeq(blocks("text")) = text
    /\ blocks("tool_use") = [k \in DOMAIN calls |-> ParsedArguments(calls[k])]
    /\ (chunks[Len(chunks)].finish = "tool_calls") = (calls # << >>)
    /\ (events[Len(events) - 1].reason = "tool_use") = (calls # << >>)

\* In the catalog that a request has used, every name that a model has, alone or
\* with options, is found: as the model that has it, or as the shortest name it can
\* be made from.  An option that was asked for, in the name or in the request, is
\* the one that is sent upstream, and the request is priced for the tier that is
\* sent.
OptionsKept ==
  \A a \in Asker :
    LET models == asker[a].models  name == asker[a].name  variant == FromBaseModels[models][name]
        readings == {m \in models : \E v \in Variants : m \o Suffix(v) = name} IN
    /\ asker[a].at = "unknown" => readings = {}
    /\ asker[a].at = "resolved" =>
         /\ variant.base \o Suffix(variant.options) = name
         /\ IF name \in models THEN variant.base = name
            ELSE \A m \in readings : Len(variant.base) <= Len(m)
         /\ \A tier \in {NoOption, "auto", "default", "flex", "fast", "priority"},
               effort \in Efforts \cup {NoOption} :
              LET merged == Merged(variant, tier, effort)  sent == TierOnWire(merged.tier) IN
              Served(merged) =>
                /\ tier # NoOption => TierNamed(sent) = TierNamed(tier)
                /\ effort # NoOption => merged.effort = effort
                /\ variant.options.tier # NoOption => BilledTier(merged) = variant.options.tier
                /\ BilledTier(merged) = IF sent = NoOption THEN "standard" ELSE TierNamed(sent)

\* Once those who changed the models have their answer, the cached catalog is that
\* of the database, or none.  Two cases are set apart by stale, until the next
\* invalidation or reading: the change was not announced, or a request had read the
\* models before it and cached them after the invalidation.
CatalogCurrent ==
  catalog.owed = 0 /\ ~catalog.stale => catalog.cached \in {{}, catalog.enabled}

AdaptersFaithful == ConversationKept /\ AnswerKept /\ OptionsKept /\ CatalogCurrent
=============================================================================
