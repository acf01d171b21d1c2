------------------------------ MODULE MCInbound ------------------------------
(***************************************************************************)
(* Instances of InboundPipeline and WebhookPayloads.  A behaviour moves    *)
(* one of three instances: the pipeline with two requests at a time, the   *)
(* pipeline with two reconcilers, or the payloads; their states add up and *)
(* are not multiplied.                                                     *)
(***************************************************************************)
EXTENDS InboundPipeline, WebhookPayloads

CONSTANTS e1, e2, r1, r2, w1, w2

\* Payloads with several messages, in one entry and in two, with none, of
\* either form; requests that are too large, garbled or signed by a stranger.
Text(mid) == [mid |-> mid]
Change(field, from, text) == [field |-> field, from |-> from, text |-> text]
Entry(ms, cs) == [time |-> "1", messaging |-> ms, changes |-> cs]
Update(ms) == [k \in DOMAIN ms |-> [chat |-> "chat", message |-> ms[k]]]

Delivery(to, path, token, body) ==
  [to |-> to, path |-> path, token |-> token, body |-> body,
   large |-> FALSE, garbled |-> FALSE]

Bodies ==
  [two      |-> <<Entry(<<Text(None), Text("m1"), Text("m2")>>, <<>>)>>,
   split    |-> <<Entry(<<Text(None)>>, <<Change("feed", "ann", "hi")>>),
                  Entry(<<>>, <<Change("messages", None, "hi"),
                                Change("messages", "ann", "hi")>>)>>]

SomeDeliveries ==
  [two      |-> Delivery("meta", "app", "secret", Bodies.two),
   split    |-> Delivery("meta", "app", "other", Bodies.split),
   update   |-> Delivery("telegram", "acme", "token", Update(<<"7">>)),
   edited   |-> Delivery("telegram", "acme", "token", Update(<<>>)),
   large    |-> [Delivery("meta", "app", "secret", Bodies.two) EXCEPT !.large = TRUE]]

Deliveries == DOMAIN SomeDeliveries

\* An app of two tenants; a bot whose token is known, empty or missing.
Registered(tenant, secret) ==
  [app |-> "app", tenant |-> tenant, channel |-> "waba", secret |-> secret]

SomeEnvs ==
  {[meta |-> <<Registered("acme", "secret"), Registered("zeta", "other")>>,
    telegram |-> [t \in {"acme"} |-> "token"]],
   [meta |-> <<Registered("zeta", "other"), Registered("acme", "secret")>>,
    telegram |-> [t \in {"acme"} |-> None]],
   [meta |-> <<>>, telegram |-> [t \in {} |-> None]]}

VARIABLE moves  \* the instance that moves

allVars == <<vars, hookVars, moves>>

\* Which requests and workers take part.
Asking == IF moves = "overlap" THEN Requests ELSE {r1}
Alive  == IF moves = "workers" THEN Workers ELSE {Main}

PipeMoves == moves \in {"overlap", "workers"} /\ UNCHANGED <<hookVars, moves>>
HookMoves == moves = "payloads" /\ UNCHANGED <<vars, moves>>

InboundInit ==
  /\ Init /\ HookInit /\ moves \in {"overlap", "workers", "payloads"}
  /\ moves # "payloads" => env.meta = <<>>

InboundNext ==
  \/ PipeMoves /\ \E r \in Asking : \/ Handle(r) \/ Refuse(r)
                                    \/ \E e \in Events : Post(e, r)
  \/ PipeMoves /\ Consume
  \/ PipeMoves /\ \E w \in Alive :
       Boot(w) \/ Tick(w) \/ Reconcile(w) \/ Stop(w) \/ Crash(w)
  \/ HookMoves /\ HookNext

\* The fairness of RetrySpec, for the requests and workers that take part.
InboundSpec ==
  /\ InboundInit /\ [][InboundNext]_allVars
  /\ \A r \in Requests : WF_allVars(PipeMoves /\ r \in Asking /\ Handle(r))
  /\ WF_allVars(PipeMoves /\ Consume)
  /\ \A w \in Workers :
       /\ WF_allVars(PipeMoves /\ w \in Alive /\ Boot(w))
       /\ WF_allVars(PipeMoves /\ w \in Alive /\ Tick(w))
       /\ WF_allVars(PipeMoves /\ w \in Alive /\ Reconcile(w))
  /\ \A e \in Events :
       SF_allVars(PipeMoves /\ \E r \in Asking : prov[e] = "waiting" /\ Post(e, r))
=============================================================================
