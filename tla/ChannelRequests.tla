--------------------------- MODULE ChannelRequests ---------------------------
(***************************************************************************)
(* The outbound path by its data: a request of the HTTP API (bearer token, *)
(* routes of messages), SenderService (usecase/messaging/send.go) and the  *)
(* capabilities it asks for, the row of the outbox and what the relay      *)
(* rebuilds from it, and the adapter of the channel with its one call to   *)
(* the provider.  OutboxRelay has the queue, SenderRegistry the senders.   *)
(***************************************************************************)
EXTENDS Integers, FiniteSets

CONSTANTS
  Asks,   \* requests of clients
  What,   \* what each asks for: [via, token, conversation, contact] and the
          \* fields of Asked; `extra` is the emoji or the new text of an action
  Times   \* moments, in seconds

\* A field that is absent or empty.
None == "none"

Channels == {"waba", "instagram", "messenger", "telegram_bot", "whatsmeow"}

VARIABLES
  clock,   \* the time
  answer,  \* of the API to each request
  row,     \* payload of the row of outbound_events each has led to, in a set
  given,   \* the OutboundRequest its adapter was called with, in a set
  outcome  \* of the last call of the adapter

requestVars == <<clock, answer, row, given, outcome>>

Outcomes == {"none", "refused", "failed", "sent"}

RequestTypeOK ==
  /\ clock \in Times
  /\ answer \in [Asks -> {"none", "unauthorized", "error", "ok"}]
  /\ \A a \in Asks : Cardinality(row[a]) <= 1 /\ Cardinality(given[a]) <= 1
  /\ outcome \in [Asks -> Outcomes]

RequestInit ==
  /\ clock \in Times
  /\ answer = [a \in Asks |-> "none"]
  /\ row = [a \in Asks |-> {}] /\ given = [a \in Asks |-> {}]
  /\ outcome = [a \in Asks |-> "none"]

-----------------------------------------------------------------------------
(* The API. *)

\* parseAndValidateJWT, after the three parts have been decoded.
ValidJWT(t) ==
  /\ t.alg = "HS256" /\ t.signed
  /\ t.tenant # None
  /\ t.exp # 0 /\ t.exp > clock
  /\ t.nbf <= clock + 60
  /\ t.iat <= clock + 300

\* BearerAuth, then withTenantTxMW: the tenant of the request, in a set.
BearerAuth(t) == IF t.scheme = "Bearer" /\ ValidJWT(t) THEN {t.tenant} ELSE {}

TenantOf(a) == BearerAuth(What[a].token)

Reply(a, s) == answer' = [answer EXCEPT ![a] = s]

Reject(a, s) == Reply(a, s) /\ UNCHANGED <<clock, row, given, outcome>>

\* No token, or one that is not valid now.
Unauthorized(a) ==
  answer[a] = "none" /\ TenantOf(a) = {} /\ Reject(a, "unauthorized")

-----------------------------------------------------------------------------
(* SenderService. *)

WABACapabilities == {"text", "media", "reactions", "delete", "templates", "mark_read"}

InstagramCapabilities == {"text", "media", "reactions", "story_reply"}

MessengerCapabilities ==
  {"text", "media", "reactions", "mark_read", "typing", "groups", "persistent_menu"}

TelegramCapabilities ==
  {"text", "media", "reactions", "edit", "delete", "typing", "presence", "groups",
   "inline_keyboard", "forum", "gifts", "newsletter"}

WhatsmeowCapabilities ==
  {"text", "media", "reactions", "edit", "delete", "mark_read", "typing", "presence",
   "groups", "calls", "disappearing", "blocklist"}

Capabilities ==
  [waba |-> WABACapabilities, instagram |-> InstagramCapabilities,
   messenger |-> MessengerCapabilities, telegram_bot |-> TelegramCapabilities,
   whatsmeow |-> WhatsmeowCapabilities]

requiredCapabilityForAction ==
  [reaction |-> "reactions", edit |-> "edit", revoke |-> "delete",
   mark_read |-> "mark_read", typing |-> "typing", presence |-> "presence"]

\* Mutant: an unknown capability is no obstacle on a channel that is known.
SupportsKnown(channel, action) == channel \in Channels

\* Resolver.Resolve and Supports.
Supports(channel, action) ==
  channel \in Channels /\ requiredCapabilityForAction[action] \in Capabilities[channel]

\* NewOutboxMessage and Enqueue: what the payload of a row keeps of a request.
Payload(a) ==
  [tenant |-> What[a].token.tenant, channel |-> What[a].channel,
   conversation |-> What[a].conversation, contact |-> What[a].contact]

Enqueue(a, payload) == row' = [row EXCEPT ![a] = {payload}]

\* postMessage and Send: the message is inserted, its row enqueued, or through
\* the fallback.
PostMessage(a) ==
  /\ answer[a] = "none" /\ What[a].via = "message" /\ TenantOf(a) # {}
  /\ None \notin {What[a].channel, What[a].conversation, What[a].contact, What[a].peer}
  /\ Enqueue(a, Payload(a)) /\ Reply(a, "ok")
  /\ UNCHANGED <<clock, given, outcome>>

\* ... both inserts of the row fail, or a field is missing.
PostMessageFails(a) ==
  answer[a] = "none" /\ What[a].via = "message" /\ TenantOf(a) # {} /\ Reject(a, "error")

\* The row of an action carries no conversation; if it cannot be inserted, a
\* line is logged.
EnqueueAction(a) ==
  Enqueue(a, [Payload(a) EXCEPT !.conversation = None]) \/ UNCHANGED row

CompleteAction(a) == None \notin {What[a].channel, What[a].peer}

\* SendAction, for the action of a route.
SendAction(a, action) ==
  /\ CompleteAction(a) /\ Supports(What[a].channel, action)
  /\ EnqueueAction(a) /\ Reply(a, "ok")
  /\ UNCHANGED <<clock, given, outcome>>

SendActionFails(a, action) ==
  ~(CompleteAction(a) /\ Supports(What[a].channel, action)) /\ Reject(a, "error")

ActionRoute(a, via, action) ==
  /\ answer[a] = "none" /\ What[a].via = via /\ TenantOf(a) # {}
  /\ SendAction(a, action) \/ SendActionFails(a, action)

\* POST /messages/{id}/reactions, PATCH and DELETE /messages/{id}.
PostReaction(a) == ActionRoute(a, "reaction", "reaction")
PatchMessage(a) == ActionRoute(a, "patch", "edit")
DeleteMessage(a) == ActionRoute(a, "delete", "revoke")

\* What each route has its service do.
ActionOf ==
  [message |-> None, reaction |-> "reaction", patch |-> "edit", delete |-> "revoke"]

-----------------------------------------------------------------------------
(* The relay. *)

\* The OutboundRequest a request stands for, as the route builds it.
Asked(a) ==
  [tenant |-> What[a].token.tenant, channel |-> What[a].channel, peer |-> What[a].peer,
   action |-> ActionOf[What[a].via], type |-> What[a].type, body |-> What[a].body,
   keys |-> What[a].keys, target |-> What[a].target, extra |-> What[a].extra]

\* ClaimNext reads type, body and metadata out of a payload that has none, and
\* process has the contact for a peer and no action.
Rebuilt(p) ==
  [tenant |-> p.tenant, channel |-> p.channel, peer |-> p.contact,
   action |-> None, type |-> None, body |-> None, keys |-> {}, target |-> None,
   extra |-> None]

-----------------------------------------------------------------------------
(* The adapters: what they refuse before any call. *)

Everywhere == {None, "text", "image", "video", "audio", "document", "sticker", "location"}

\* buildMessagePayload of waba, instagram and messenger, Send of the other two;
\* a whatsmeow that is not connected fails, see Succeeds.
WabaBuilds(q) ==
  \/ q.type \in Everywhere
  \/ q.type = "contact" /\ "contacts" \in q.keys
  \/ q.type = "template" /\ "template" \in q.keys

InstagramBuilds(q) ==
  q.type \in Everywhere \/ (q.type = "template" /\ "template" \in q.keys)

MessengerBuilds(q) ==
  q.type \in Everywhere \/ (q.type = "template" /\ "template" \in q.keys)

TelegramBuilds(q) == q.type \in Everywhere

WhatsmeowBuilds(q) == q.type \in Everywhere \ {"location"}

\* parseChatID: the peers of the instance that are numbers.
parseChatID(peer) == peer \in {"7", "8"}

Builds(q) ==
  CASE q.channel = "waba"         -> WabaBuilds(q)
    [] q.channel = "instagram"    -> InstagramBuilds(q)
    [] q.channel = "messenger"    -> MessengerBuilds(q)
    [] q.channel = "telegram_bot" -> parseChatID(q.peer) /\ TelegramBuilds(q)
    [] OTHER                      -> WhatsmeowBuilds(q)

\* doAction of each adapter: what it returns an error for, whatever the request.
WabaRefuses      == {"edit", "typing", "presence"}
InstagramRefuses == {"edit", "revoke", "typing", "presence"}
MessengerRefuses == {"edit", "revoke", "presence"}
TelegramRefuses  == {}
WhatsmeowRefuses == {}

RefusedActions ==
  [waba |-> WabaRefuses, instagram |-> InstagramRefuses, messenger |-> MessengerRefuses,
   telegram_bot |-> TelegramRefuses, whatsmeow |-> WhatsmeowRefuses]

\* ... and for want of a field.
Targeted ==
  [waba |-> {"reaction", "revoke", "mark_read"}, instagram |-> {"reaction"},
   messenger |-> {}, telegram_bot |-> {"reaction", "edit", "revoke"},
   whatsmeow |-> {"reaction", "edit", "revoke", "mark_read"}]

Performs(q) ==
  /\ q.action \notin RefusedActions[q.channel]
  /\ q.action \in Targeted[q.channel] => q.target # None
  /\ q.channel = "waba" /\ q.action = "reaction" => {q.extra, q.body} # {None}
  /\ q.channel = "telegram_bot" => parseChatID(q.peer)

\* Actions an adapter drops and reports as done.
Ignored == [waba |-> {}, instagram |-> {"mark_read"}, messenger |-> {"reaction"},
            telegram_bot |-> {}, whatsmeow |-> {}]

\* What a provider may say: nothing, a status that is not 2xx, or a 2xx with an
\* error, without an id or with one.
Says == {"nothing", "status", "error", "empty", "id"}

\* doJSON of the Graph API clients.
doJSON(say) == say \notin {"nothing", "status"}

\* SendMessage of waba and instagram needs an id, that of messenger does not;
\* a revocation or a mark of waba takes any 2xx.
WabaSendMessage(say)      == doJSON(say) /\ say = "id"
InstagramSendMessage(say) == doJSON(say) /\ say = "id"
MessengerSendMessage(say) == doJSON(say) /\ say # "error"
WabaOtherCall(say)        == doJSON(say)

Succeeds(q, say) ==
  CASE q.channel = "waba" /\ q.action \in {"revoke", "mark_read"} -> WabaOtherCall(say)
    [] q.channel = "waba"      -> WabaSendMessage(say)
    [] q.channel = "instagram" -> InstagramSendMessage(say)
    [] q.channel = "messenger" -> MessengerSendMessage(say)
    [] OTHER                   -> say \in {"empty", "id"}

\* Send of an adapter, by what its provider says.
AdapterSend(q, say) ==
  IF q.action = None
  THEN IF ~Builds(q) THEN "refused" ELSE IF Succeeds(q, say) THEN "sent" ELSE "failed"
  ELSE IF ~Performs(q) THEN "refused"
  ELSE IF q.action \in Ignored[q.channel] \/ Succeeds(q, say) THEN "sent" ELSE "failed"

\* The relay processes the row, again unless it was sent; without a sender the
\* adapter is not called.
Process(a) ==
  /\ outcome[a] # "sent"
  /\ \E p \in row[a] :
       /\ p.channel \in Channels
       /\ given' = [given EXCEPT ![a] = {Rebuilt(p)}]
       /\ \E say \in Says : outcome' = [outcome EXCEPT ![a] = AdapterSend(Rebuilt(p), say)]
  /\ UNCHANGED <<clock, answer, row>>

Pass == \E t \in Times : t > clock /\ clock' = t /\ UNCHANGED <<answer, row, given, outcome>>

RequestNext ==
  \/ \E a \in Asks : \/ Unauthorized(a)
                     \/ PostMessage(a) \/ PostMessageFails(a)
                     \/ PostReaction(a) \/ PatchMessage(a) \/ DeleteMessage(a)
                     \/ Process(a)
  \/ Pass

RequestSpec == RequestInit /\ [][RequestNext]_requestVars

-----------------------------------------------------------------------------
(* Properties. *)

\* An action that was accepted is none the adapter of its channel always refuses:
\* the capabilities SendAction asks for (send.go:134-143, capabilities.go) agree
\* with doAction of five adapters, and no row is left to die.
AcceptedIsSupported ==
  \A a \in Asks :
    answer[a] = "ok" /\ ActionOf[What[a].via] # None =>
      ActionOf[What[a].via] \notin RefusedActions[What[a].channel]

\* What an adapter is asked to do is what the client asked for (sender.go:7-8:
\* OutboundRequest has everything the adapter needs without fetching it from the
\* database again; :54-55: the relay rebuilds it from the row).
DeliveredIsAsked == \A a \in Asks : given[a] \subseteq {Asked(a)}
=============================================================================
