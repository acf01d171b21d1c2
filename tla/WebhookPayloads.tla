--------------------------- MODULE WebhookPayloads ---------------------------
(***************************************************************************)
(* What the webhook handlers make of one POST of a provider                *)
(* (adapter/webhook/meta, telegram and secrets): who is asked for, whether *)
(* the POST is authentic, which message of its payload is ingested, and    *)
(* the answer that ends or repeats the delivery.  InboundPipeline has what *)
(* happens to a message from Ingest on.                                    *)
(***************************************************************************)
EXTENDS Sequences, SequencesExt

CONSTANTS
  Posts,  \* deliveries of the providers
  Req,    \* what each carries: [to, path, large, token, garbled, body]
  Envs    \* what a start may read: [meta, telegram], see NewEnvMetaSecrets

\* A header that is absent, a Message that is nil, an empty string.
None == "none"

VARIABLES
  env,     \* the secrets this process has read
  wire,    \* what has become of each delivery
  asks,    \* tenant and channel an authentic request was resolved to
  stored,  \* messages Ingest has committed
  failed   \* messages Ingest has returned an error for

hookVars == <<env, wire, asks, stored, failed>>

Stages == {"due", "read", "ingest", "answer", "done"}

HookTypeOK ==
  /\ env \in Envs
  /\ wire \in [Posts -> Stages]
  /\ asks \in [Posts -> [tenant : STRING, channel : STRING]]
  /\ \A e \in stored \cup failed : DOMAIN e = {"tenant", "channel", "id"}

Nobody == [tenant |-> None, channel |-> None]

HookInit ==
  /\ env \in Envs
  /\ wire = [p \in Posts |-> "due"]
  /\ asks = [p \in Posts |-> Nobody]
  /\ stored = {} /\ failed = {}

Stage(p, s) == wire' = [wire EXCEPT ![p] = s]

-----------------------------------------------------------------------------
(* The secrets (EnvMetaSecrets, EnvTelegramSecrets). *)

\* The entries of MEZ_META_APP_SECRETS for an app: the first one names tenant
\* and channel.
ResolveChannel(app) == SelectSeq(env.meta, LAMBDA m : m.app = app)

\* The first entry for app, tenant and channel, in a set.
ResolveMetaSecret(app, tenant, channel) ==
  LET fit == SelectSeq(ResolveChannel(app),
                       LAMBDA m : m.tenant = tenant /\ m.channel = channel)
  IN  IF fit = <<>> THEN {} ELSE {Head(fit).secret}

ResolveTelegramSecret(tenant) ==
  IF tenant \in DOMAIN env.telegram THEN {env.telegram[tenant]} ELSE {}

\* The HMAC made with that secret; constant time is not modelled.
validMetaSignature(secret, token) == token # None /\ token = secret

\* An empty secret is never right.
validSecretToken(expected, got) == None \notin {expected, got} /\ got = expected

-----------------------------------------------------------------------------
(* The payloads. *)

\* Messages of one entry of a Meta payload, by the id they are given: those of
\* `messaging`, then those of `changes`.
MessagesOf(entry) ==
  LET direct  == SelectSeq(entry.messaging, LAMBDA m : m.mid # None)
      changes == SelectSeq(entry.changes,
                           LAMBDA c : c.field = "messages" /\ c.from # None)
  IN  [k \in DOMAIN direct |-> <<direct[k].mid>>]
        \o [k \in DOMAIN changes |-> <<changes[k].from, entry.time, changes[k].text>>]

\* Every message of a payload; an update of Telegram has one at most.
AllMessages(p) ==
  IF Req[p].to = "meta"
  THEN FlattenSeq([k \in DOMAIN Req[p].body |-> MessagesOf(Req[p].body[k])])
  ELSE [k \in DOMAIN Req[p].body |-> <<Req[p].body[k].chat, Req[p].body[k].message>>]

\* What is read of a payload is a list.
ASSUME PayloadAssumption == \A p \in Posts : AllMessages(p) \in Seq(ToSet(AllMessages(p)))

\* Mutant: only the first entry is looked at.
ToInboundEventOfEntry(p) ==
  LET first == IF Req[p].to = "meta" THEN MessagesOf(Req[p].body[1]) ELSE AllMessages(p)
  IN  IF first = <<>> THEN {} ELSE {Head(first)}

\* MetaPayload and TelegramUpdate: the first message, in a set.
ToInboundEvent(p) == IF AllMessages(p) = <<>> THEN {} ELSE {Head(AllMessages(p))}

EventOf(p, id) == [tenant |-> asks[p].tenant, channel |-> asks[p].channel, id |-> id]

-----------------------------------------------------------------------------
(* The handlers. *)

\* Whom an authentic request of p is for, in a set.
MetaAuthentic(p) ==
  LET app == Req[p].path
      fit == ResolveChannel(app)
  IN  {[tenant |-> m.tenant, channel |-> m.channel] :
         m \in {m \in (IF fit = <<>> THEN {} ELSE {Head(fit)}) :
                  \E s \in ResolveMetaSecret(app, m.tenant, m.channel) :
                    validMetaSignature(s, Req[p].token)}}

TelegramAuthentic(p) ==
  {[tenant |-> t, channel |-> "telegram_bot"] :
     t \in {t \in {Req[p].path} : \E s \in ResolveTelegramSecret(t) :
                                     validSecretToken(s, Req[p].token)}}

Authentic(p) == IF Req[p].to = "meta" THEN MetaAuthentic(p) ELSE TelegramAuthentic(p)

\* The provider posts p, again if it got no 2xx.
PostDelivery(p) ==
  /\ wire[p] = "due" /\ Stage(p, "read")
  /\ UNCHANGED <<env, asks, stored, failed>>

\* 404, 413, 400, 503 or 403.
RefuseDelivery(p) ==
  /\ wire[p] = "read"
  /\ Req[p].large \/ Req[p].garbled \/ Authentic(p) = {}
  /\ Stage(p, "due")
  /\ UNCHANGED <<env, asks, stored, failed>>

\* The payload is parsed: no message is 200 at once.
TakeDelivery(p) ==
  /\ wire[p] = "read" /\ ~Req[p].large /\ ~Req[p].garbled
  /\ \E a \in Authentic(p) : asks' = [asks EXCEPT ![p] = a]
  /\ Stage(p, IF ToInboundEvent(p) = {} THEN "answer" ELSE "ingest")
  /\ UNCHANGED <<env, stored, failed>>

\* The ingestor commits the event or fails, 200 either way.
IngestDelivery(p) ==
  /\ wire[p] = "ingest" /\ Stage(p, "answer")
  /\ \E id \in ToInboundEvent(p) :
       \/ stored' = stored \cup {EventOf(p, id)} /\ UNCHANGED failed
       \/ failed' = failed \cup {EventOf(p, id)} /\ UNCHANGED stored
  /\ UNCHANGED <<env, asks>>

\* The 200 reaches the provider, or is lost.
AnswerDelivery(p) ==
  /\ wire[p] = "answer"
  /\ \/ Stage(p, "done") /\ UNCHANGED asks
     \/ Stage(p, "due") /\ asks' = [asks EXCEPT ![p] = Nobody]
  /\ UNCHANGED <<env, stored, failed>>

\* A crash, and a start that may read other secrets.
RestartServer ==
  /\ env' \in Envs
  /\ wire' = [p \in Posts |-> IF wire[p] = "done" THEN "done" ELSE "due"]
  /\ asks' = [p \in Posts |-> IF wire[p] = "done" THEN asks[p] ELSE Nobody]
  /\ UNCHANGED <<stored, failed>>

HookNext ==
  \/ \E p \in Posts : \/ PostDelivery(p) \/ RefuseDelivery(p) \/ TakeDelivery(p)
                      \/ IngestDelivery(p) \/ AnswerDelivery(p)
  \/ RestartServer

HookSpec == HookInit /\ [][HookNext]_hookVars

-----------------------------------------------------------------------------
(* Properties. *)

\* A delivery ends with its first message stored, across refusals, lost answers
\* and restarts with other secrets, unless its ingest failed; what is behind
\* that message is all that is given up (handler.go:262).
ForgottenOnlyBehind ==
  \A p \in Posts : wire[p] = "done" =>
    \A k \in DOMAIN AllMessages(p) :
      EventOf(p, AllMessages(p)[k]) \in stored \cup failed \/ k > 1
=============================================================================
