---------------------------- MODULE MCOperations ----------------------------
(***************************************************************************)
(* Instances of KeyRotation, SettingsCache, BackupJobs, SenderRegistry and *)
(* ChannelRequests.  They share no variable: a behaviour moves one of them *)
(* only, so that their states add up and are not multiplied.               *)
(***************************************************************************)
EXTENDS KeyRotation, SettingsCache, BackupJobs, SenderRegistry, ChannelRequests, TLC

CONSTANTS waba, telegram  \* the channels of one tenant

OneTenant == [c \in Creds |-> "tenant"]

\* A table of the tenant, and one of whatsmeow that no restore accepts.
TwoTables == <<"messages", "whatsapp_session_keys">>
Whatsmeow == {"whatsapp_session_keys"}
Accepted  == {"messages"}

\* Tokens that are good, run out, are not yet valid, or are made otherwise.
Token(exp, nbf, iat) ==
  [scheme |-> "Bearer", alg |-> "HS256", signed |-> TRUE, tenant |-> "acme",
   exp |-> exp, nbf |-> nbf, iat |-> iat]

SomeAsk(via, channel, token) ==
  [via |-> via, channel |-> channel, token |-> token, conversation |-> "c", contact |-> "8",
   peer |-> "7", type |-> None, body |-> None, keys |-> {}, target |-> "m", extra |-> "x"]

\* A message and actions on channels that have, lack and ignore the capability.
SomeAsks ==
  [card   |-> [SomeAsk("message", "telegram_bot", Token(1001, 0, 0)) EXCEPT
                 !.type = "contact", !.keys = {"contacts"}],
   smile  |-> SomeAsk("reaction", "messenger", Token(2000, 1050, 1300)),
   change |-> SomeAsk("patch", "waba", Token(2000, 1061, 0)),
   forget |-> SomeAsk("delete", "instagram", Token(2000, 0, 0))]

AskNames == DOMAIN SomeAsks

Same == Permutations(Creds) \cup Permutations(Readers) \cup Permutations(Clients)

VARIABLE moves  \* the component that moves

allVars == <<keyVars, settingsVars, backupVars, registryVars, requestVars, moves>>

Init ==
  /\ KeyInit /\ SettingsInit /\ BackupInit /\ RegistryInit /\ RequestInit
  /\ moves \in {"keys", "settings", "backup", "registry", "requests"}
  /\ moves # "requests" => \A t \in Times : clock <= t

Next ==
  \/ /\ moves = "keys" /\ KeyNext
     /\ UNCHANGED <<settingsVars, backupVars, registryVars, requestVars, moves>>
  \/ /\ moves = "settings" /\ SettingsNext
     /\ UNCHANGED <<keyVars, backupVars, registryVars, requestVars, moves>>
  \/ /\ moves = "backup" /\ BackupNext
     /\ UNCHANGED <<keyVars, settingsVars, registryVars, requestVars, moves>>
  \/ /\ moves = "registry" /\ RegistryNext
     /\ UNCHANGED <<keyVars, settingsVars, backupVars, requestVars, moves>>
  \/ /\ moves = "requests" /\ RequestNext
     /\ UNCHANGED <<keyVars, settingsVars, backupVars, registryVars, moves>>

Spec == Init /\ [][Next]_allVars

\* The variables of the five modules keep their types.
TypeOK == KeyTypeOK /\ SettingsTypeOK /\ BackupTypeOK /\ RegistryTypeOK /\ RequestTypeOK
=============================================================================
