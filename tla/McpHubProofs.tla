---------------------------- MODULE McpHubProofs ----------------------------
(* The registry and the credentials of the dynamic MCP hub, for every      *)
(* number of Gateways, calls, endpoints and OAuth configurations.          *)
EXTENDS McpHub, TLAPS

CallRecord == [at : Gateways \cup {None}, op : Ops, pc : Steps, target : Target \cup {None},
               tokens : Identities \cup {None}, fresh : BOOLEAN]

(* TypeOK in two parts: the shared state with its ghosts, and the calls.    *)
FilesTyped ==
    /\ registry \in Server \cup {None}
    /\ lock \in Calls \cup {None}
    /\ tokens \in Identities \cup {None}
    /\ legacy \in Urls \cup {None}
    /\ pending \in [Gateways -> Identities \cup {None}]
    /\ config \in Configurations \cup {None}
    /\ late \in BOOLEAN

CallsTyped == call \in [Calls -> CallRecord]

Locks == \A c \in Calls : lock = c <=> /\ call[c].pc \in {"deleting", "saving"}
                                       /\ call[c].op # "disconnect"

(* A call knows the target it works on, and which operations get where.    *)
CallsFollow ==
    \A c \in Calls :
        /\ call[c].pc # "idle" => call[c].target \in Target
        /\ call[c].pc = "deleting" => call[c].op \in {"remove", "setOAuth", "disconnect"}
        /\ call[c].pc = "saving" => call[c].op \in {"remove", "setOAuth"}
        /\ call[c].pc \in {"opening", "migrating", "redirected", "checking", "exchanging"}
           \/ call[c].op = "start" => call[c].pc = "idle" \/ call[c].target.oauth # None

(* A change under way has a server to change, which keeps its endpoint.    *)
ChangesServer ==
    \A c \in Calls : lock = c => registry # None /\ call[c].target.endpoint = registry.endpoint

(* Unless a late write happened, stored tokens belong to a server that has *)
(* an OAuth configuration, and a save that did not delete them keeps it.   *)
Owned ==
    ~late /\ tokens # None =>
        /\ registry # None /\ registry.oauth # None
        /\ tokens \in {Identity(TargetOf(registry)), Legacy(registry.endpoint.url)}
        /\ \A c \in Calls : call[c].pc = "saving" =>
              call[c].op = "setOAuth" /\ call[c].target.oauth = registry.oauth

OwnTokens(t) == {None, Identity(t), Legacy(t.endpoint.url)}

(* A call that no deletion and no save overtook, or the connection it no   *)
(* longer waits for, works on the server as it is, with tokens issued for  *)
(* that server unless a late write happened before.                        *)
Fresh ==
    \A c \in Calls :
        call[c].fresh /\ MayWrite(c) =>
            /\ registry # None /\ call[c].target = TargetOf(registry)
            /\ ~late => call[c].tokens \in OwnTokens(call[c].target)

IInv == TypeOK /\ CallsFollow /\ ChangesServer /\ LastChangeStands /\ Owned /\ Fresh

LEMMA TypeParts == TypeOK <=> FilesTyped /\ CallsTyped /\ Locks
  BY DEF TypeOK, FilesTyped, CallsTyped, Locks, CallRecord

LEMMA InitInvariant == ASSUME HubAssumption, Init PROVE IInv
<1>1. FilesTyped
  BY DEF Init, FilesTyped
<1>2. CallsTyped
  BY DEF Init, CallsTyped, CallRecord, Idle, Ops, Steps
<1>3. Locks
  BY DEF Init, Locks, Idle, HubAssumption
<1>4. CallsFollow /\ ChangesServer /\ LastChangeStands /\ Owned /\ Fresh
  BY DEF Init, CallsFollow, ChangesServer, LastChangeStands, Owned, Fresh, Idle,
     MayWrite, Configuration, HubAssumption
<1>5. QED
  BY <1>1, <1>2, <1>3, <1>4, TypeParts DEF IInv

-----------------------------------------------------------------------------
(* Types.                                                                  *)

(* What Running, To, Return and Aged make of a call.                       *)
LEMMA CallForms ==
    ASSUME CallsTyped, NEW c \in Calls
    PROVE  /\ Idle \in CallRecord /\ call[c] \in CallRecord
           /\ Aged(c) \in CallRecord
           /\ \A step \in Steps : [call[c] EXCEPT !.pc = step] \in CallRecord
           /\ \A g \in Gateways \cup {None}, op \in Ops, step \in Steps, t \in Target \cup {None} :
                 [at |-> g, op |-> op, pc |-> step, target |-> t,
                  tokens |-> None, fresh |-> TRUE] \in CallRecord
<1>1. call[c] \in CallRecord
  BY DEF CallsTyped
<1>2. Idle \in CallRecord
  BY DEF Idle, CallRecord, Ops, Steps
<1>3. \A step \in Steps : [call[c] EXCEPT !.pc = step] \in CallRecord
  BY <1>1 DEF CallRecord
<1>4. [call[c] EXCEPT !.fresh = FALSE] \in CallRecord
  BY <1>1 DEF CallRecord
<1>5. Aged(c) \in CallRecord
  BY <1>1, <1>4 DEF Aged
<1>6. \A g \in Gateways \cup {None}, op \in Ops, step \in Steps, t \in Target \cup {None} :
          [at |-> g, op |-> op, pc |-> step, target |-> t,
           tokens |-> None, fresh |-> TRUE] \in CallRecord
  BY DEF CallRecord
<1>7. QED
  BY <1>1, <1>2, <1>3, <1>5, <1>6

(* Ageing changes nothing but freshness.                                   *)
LEMMA AgedKeeps ==
    ASSUME CallsTyped, NEW c \in Calls
    PROVE  /\ Aged(c).pc = call[c].pc /\ Aged(c).op = call[c].op
           /\ Aged(c).target = call[c].target /\ Aged(c).tokens = call[c].tokens
           /\ Aged(c).fresh => call[c].fresh /\ ~MayWrite(c)
<1>1. call[c] \in CallRecord
  BY DEF CallsTyped
<1>2. CASE MayWrite(c)
  BY <1>1, <1>2 DEF Aged, CallRecord
<1>3. CASE ~MayWrite(c)
  BY <1>3 DEF Aged
<1>4. QED
  BY <1>2, <1>3

LEMMA TargetTyped ==
    ASSUME FilesTyped, registry # None
    PROVE  /\ registry \in Server /\ TargetOf(registry) \in Target
           /\ \A o \in OAuth \cup {None} : [TargetOf(registry) EXCEPT !.oauth = o] \in Target
BY DEF FilesTyped, Server, Target, TargetOf

LEMMA IdentityTyped ==
    ASSUME NEW t \in Target
    PROVE  Identity(t) \in Identities /\ Legacy(t.endpoint.url) \in Identities
<1>1. t.endpoint.url \in Urls
  BY DEF Target, Endpoint
<1>2. t.oauth # None => t.oauth.client \in Clients
  BY DEF Target, OAuth
<1>3. QED
  BY <1>1, <1>2 DEF Identity, Identities, Legacy

(* What a provider's snapshot and its writes make of a call.                *)
LEMMA ProviderForms ==
    ASSUME CallsTyped, NEW c \in Calls, Open(c) \/ ProviderWrites(c)
    PROVE  /\ \A d \in Calls \ {c} : call'[d] = call[d]
           /\ \/ Open(c) /\ call'[c] = Idle
              \/ /\ call'[c].op = call[c].op /\ call'[c].target = call[c].target
                 /\ call'[c].fresh = call[c].fresh
                 /\ \/ /\ Open(c) /\ call'[c].pc \in {"migrating", "working"}
                       /\ call'[c].tokens \in {tokens, Legacy(call[c].target.endpoint.url)}
                    \/ /\ ProviderWrites(c) /\ call'[c].pc = call[c].pc
                       /\ call'[c].tokens \in {call[c].tokens, None}
<1> USE DEF CallsTyped
<1>1. CASE Open(c)
  <2>2. \/ call' = [call EXCEPT ![c] = [call[c] EXCEPT !.pc = "migrating",
                              !.tokens = Legacy(call[c].target.endpoint.url)]]
        \/ call' = [call EXCEPT ![c] = [call[c] EXCEPT !.pc = "working", !.tokens = tokens]]
        \/ call' = [call EXCEPT ![c] = Idle]
    <3>1. CASE tokens = None /\ legacy = call[c].target.endpoint.url
      BY <1>1, <3>1 DEF Open
    <3>2. CASE ~(tokens = None /\ legacy = call[c].target.endpoint.url)
               /\ call[c].op = "status"
      BY <1>1, <3>2 DEF Open
    <3>3. CASE ~(tokens = None /\ legacy = call[c].target.endpoint.url)
               /\ call[c].op # "status"
      BY <1>1, <3>3 DEF Open
    <3>4. QED
      BY <3>1, <3>2, <3>3
  <2>3. call[c] \in CallRecord /\ \A d \in Calls \ {c} : call'[d] = call[d]
    BY <2>2
  <2>4. \/ call'[c] = [call[c] EXCEPT !.pc = "migrating",
                              !.tokens = Legacy(call[c].target.endpoint.url)]
        \/ call'[c] = [call[c] EXCEPT !.pc = "working", !.tokens = tokens]
        \/ call'[c] = Idle
    BY <2>2
  <2>5. QED
    BY <1>1, <2>3, <2>4 DEF CallRecord
<1>2. CASE ProviderWrites(c)
  <2>1. PICK t \in {call[c].tokens, None} : call' = [call EXCEPT ![c].tokens = t]
    BY <1>2 DEF ProviderWrites
  <2>2. call'[c] = [call[c] EXCEPT !.tokens = t] /\ \A d \in Calls \ {c} : call'[d] = call[d]
    BY <2>1
  <2>3. QED
    BY <1>2, <2>2 DEF CallRecord
<1>3. QED
  BY <1>1, <1>2

(* What the end of a connection, in time or not, makes of a call.           *)
LEMMA ReachForms ==
    ASSUME CallsTyped, NEW c \in Calls, Reach(c)
    PROVE  /\ call' = [call EXCEPT ![c] = call'[c]] /\ call'[c] \in CallRecord
           /\ call[c].pc = "working" /\ call'[c].pc = "recording"
           /\ call'[c].target = call[c].target
           /\ call'[c].op \in {"refresh", "call"}
              \/ /\ call'[c].op = "timedout" /\ call'[c].tokens = call[c].tokens
                 /\ call'[c].fresh = call[c].fresh
<1> USE DEF CallsTyped
<1>1. call[c] \in CallRecord /\ call[c].pc = "working"
  BY DEF Reach, At
<1>2. ASSUME NEW op \in {"refresh", "call"},
             Running(c, call[c].at, op, "recording", call[c].target)
      PROVE  /\ call' = [call EXCEPT ![c] = call'[c]] /\ call'[c] \in CallRecord
             /\ call'[c].pc = "recording" /\ call'[c].target = call[c].target
             /\ call'[c].op \in {"refresh", "call"}
  <2>1. [at |-> call[c].at, op |-> op, pc |-> "recording", target |-> call[c].target,
         tokens |-> None, fresh |-> TRUE] \in CallRecord
    BY <1>1 DEF CallRecord, Ops, Steps
  <2>2. QED
    BY <1>2, <2>1 DEF Running
<1>3. CASE call' = [call EXCEPT ![c].op = "timedout", ![c].pc = "recording"]
  <2>1. call' = [call EXCEPT ![c] = [call[c] EXCEPT !.op = "timedout", !.pc = "recording"]]
    BY <1>3
  <2>2. [call[c] EXCEPT !.op = "timedout", !.pc = "recording"] \in CallRecord
    BY <1>1 DEF CallRecord, Ops, Steps
  <2>3. QED
    BY <1>1, <2>1, <2>2 DEF CallRecord
<1>4. QED
  BY <1>1, <1>2, <1>3 DEF Reach

(* What the start and the check of a callback make of a call.               *)
LEMMA FlowForms ==
    ASSUME CallsTyped, CallsFollow, NEW c \in Calls, Redirect(c) \/ CheckCallback(c)
    PROVE  /\ call' = [call EXCEPT ![c] = call'[c]] /\ call'[c] \in CallRecord
           /\ \/ call'[c] = Idle
              \/ /\ call'[c].op = call[c].op /\ call'[c].target = call[c].target
                 /\ call'[c].fresh = call[c].fresh
                 /\ \/ /\ call[c].pc = "working" /\ call[c].op = "start"
                       /\ call'[c].pc = "redirected"
                    \/ /\ call[c].pc = "checking" /\ call'[c].pc = "exchanging"
                       /\ call'[c].tokens = Identity(call[c].target)
<1> USE DEF CallsTyped
<1>1. call[c] \in CallRecord
  OBVIOUS
<1>2. ASSUME NEW step \in Steps, NEW t \in Identities \cup {None},
             call' = [call EXCEPT ![c].pc = step, ![c].tokens = t]
      PROVE  /\ call' = [call EXCEPT ![c] = call'[c]] /\ call'[c] \in CallRecord
             /\ call'[c].op = call[c].op /\ call'[c].target = call[c].target
             /\ call'[c].fresh = call[c].fresh
             /\ call'[c].pc = step /\ call'[c].tokens = t
  <2>1. call' = [call EXCEPT ![c] = [call[c] EXCEPT !.pc = step, !.tokens = t]]
    BY <1>2
  <2>2. [call[c] EXCEPT !.pc = step, !.tokens = t] \in CallRecord
    BY <1>1 DEF CallRecord
  <2>3. QED
    BY <1>1, <2>1, <2>2 DEF CallRecord
<1>3. CASE Redirect(c)
  <2>1. call' = [call EXCEPT ![c].pc = "redirected", ![c].tokens = None]
    BY <1>3 DEF Redirect
  <2>2. QED
    BY <1>2, <1>3, <2>1 DEF Redirect, At, Steps
<1>4. CASE CheckCallback(c) /\ Return(c)
  BY <1>4, CallForms DEF Return
<1>5. CASE CheckCallback(c) /\ ~Return(c)
  <2>1. PICK flow \in {Identity(call[c].target)} :
            call' = [call EXCEPT ![c].pc = "exchanging", ![c].tokens = flow]
    BY <1>5 DEF CheckCallback
  <2>2. call[c].pc = "checking"
    BY <1>5 DEF CheckCallback, At
  <2>3. flow \in Identities
    BY <2>1, <2>2, IdentityTyped DEF CallsFollow
  <2>4. QED
    BY <1>2, <2>1, <2>2, <2>3 DEF Steps
<1>6. QED
  BY <1>3, <1>4, <1>5

LEMMA CallsTypedStep ==
    ASSUME HubAssumption, FilesTyped, CallsTyped, CallsFollow, [Next]_vars
    PROVE  CallsTyped'
<1> USE DEF CallsTyped
<1>1. ASSUME NEW c \in Calls, NEW r \in CallRecord, call' = [call EXCEPT ![c] = r]
      PROVE  CallsTyped'
  BY <1>1
<1>2. CASE Administer \/ UNCHANGED vars
  BY <1>2 DEF Administer, Add, SetEnabled, vars
<1>3. ASSUME NEW c \in Calls, NEW g \in Gateways, NEW op \in {"remove", "setOAuth"},
             NEW o \in OAuth \cup {None}, BeginReconfigure(c, g, op, o)
      PROVE  CallsTyped'
  BY <1>1, <1>3, CallForms, TargetTyped DEF BeginReconfigure, Running, Ops, Steps
<1>4. ASSUME NEW c \in Calls, NEW g \in Gateways, NEW op \in Ops \ {"remove", "setOAuth", "timedout"},
             Begin(c, g, op)
      PROVE  CallsTyped'
  <2>1. PICK step \in {"deleting", "checking", "recording", "working", "opening"} :
            Running(c, g, op, step, TargetOf(registry))
    BY <1>4 DEF Begin
  <2>2. QED
    BY <2>1, <1>1, <1>4, CallForms, TargetTyped DEF Begin, Running, Steps
<1>5. ASSUME NEW c \in Calls, Return(c) PROVE CallsTyped'
  BY <1>1, <1>5, CallForms DEF Return
<1>6. ASSUME NEW c \in Calls, NEW step \in Steps, To(c, step) PROVE CallsTyped'
  BY <1>1, <1>6, CallForms DEF To
<1>7. ASSUME NEW c \in Calls, Delete(c) \/ Save(c) PROVE CallsTyped'
  BY <1>7, CallForms DEF Delete, Save, Steps
<1>8. ASSUME NEW c \in Calls, Open(c) PROVE CallsTyped'
  <2>1. Legacy(call[c].target.endpoint.url) \in Identities /\ {"migrating", "working"} \subseteq Steps
    BY <1>8, IdentityTyped DEF Open, At, CallsFollow, Steps
  <2>2. \A step \in Steps, t \in Identities \cup {None} :
            [call[c] EXCEPT !.pc = step, !.tokens = t] \in CallRecord
    BY DEF CallRecord
  <2>3. CASE tokens = None /\ legacy = call[c].target.endpoint.url
    <3>1. call' = [call EXCEPT ![c] = [call[c] EXCEPT !.pc = "migrating",
                                                      !.tokens = Legacy(legacy)]]
      BY <1>8, <2>3 DEF Open
    <3>2. QED
      BY <3>1, <2>1, <2>2, <2>3, <1>1
  <2>4. CASE ~(tokens = None /\ legacy = call[c].target.endpoint.url) /\ call[c].op # "status"
    <3>1. call' = [call EXCEPT ![c] = [call[c] EXCEPT !.pc = "working", !.tokens = tokens]]
      BY <1>8, <2>4 DEF Open
    <3>2. QED
      BY <3>1, <2>1, <2>2, <1>1 DEF FilesTyped
  <2>5. CASE ~(tokens = None /\ legacy = call[c].target.endpoint.url) /\ call[c].op = "status"
    BY <1>1, <1>8, <2>5, CallForms DEF Open
  <2>6. QED
    BY <2>3, <2>4, <2>5
<1>9. ASSUME NEW c \in Calls, ProviderWrites(c) PROVE CallsTyped'
  <2>1. PICK t \in {call[c].tokens, None} : call' = [call EXCEPT ![c].tokens = t]
    BY <1>9 DEF ProviderWrites
  <2>2. t \in Identities \cup {None}
    BY DEF CallRecord
  <2>3. [call[c] EXCEPT !.tokens = t] \in CallRecord
    BY <2>2 DEF CallRecord
  <2>4. call' = [call EXCEPT ![c] = [call[c] EXCEPT !.tokens = t]]
    BY <2>1
  <2>5. QED
    BY <2>3, <2>4, <1>1
<1>10. ASSUME NEW c \in Calls, Reach(c) \/ Redirect(c) \/ CheckCallback(c) PROVE CallsTyped'
  <2>1. call' = [call EXCEPT ![c] = call'[c]] /\ call'[c] \in CallRecord
    BY <1>10, ReachForms, FlowForms
  <2>2. QED
    BY <2>1
<1>11. ASSUME NEW c \in Calls,
              \/ ReconfigureFails(c) \/ Migrate(c) \/ RecordHealth(c) \/ PersistRefresh(c)
              \/ MutationFails(c) \/ ConnectionEnds(c) \/ AwaitCallback(c) \/ Exchange(c)
       PROVE  CallsTyped'
  <2>1. Return(c) \/ \E step \in Steps : To(c, step)
    BY <1>11 DEF ReconfigureFails, Migrate, RecordHealth, PersistRefresh, MutationFails,
       ConnectionEnds, AwaitCallback, Exchange, AfterRecord, Steps
  <2>2. QED
    BY <2>1, <1>5, <1>6
<1>12. ASSUME NEW g \in Gateways, Die(g) PROVE CallsTyped'
  BY <1>12, CallForms DEF Die
<1>13. QED
  BY <1>2, <1>3, <1>4, <1>7, <1>8, <1>9, <1>10, <1>11, <1>12 DEF Next, Step

LEMMA FilesTypedStep ==
    ASSUME HubAssumption, FilesTyped, CallsTyped, CallsFollow, Locks, ChangesServer, [Next]_vars
    PROVE  FilesTyped'
<1> USE DEF FilesTyped
<1>1. \A n \in Endpoint, o \in OAuth \cup {None}, e \in BOOLEAN :
          NewServer(n, o, e) \in Server
  BY DEF NewServer, Server
<1>2. \A s \in Server \cup {None} : Configuration(s) \in Configurations \cup {None}
  BY DEF Configuration, Configurations, Server
<1>3. \A c \in Calls : call[c].tokens \in Identities \cup {None}
  BY DEF CallsTyped, CallRecord
<1>4. ASSUME NEW n \in Endpoint, NEW o \in OAuth \cup {None}, NEW e \in BOOLEAN, Add(n, o, e)
      PROVE  FilesTyped'
  BY <1>1, <1>2, <1>4 DEF Add
<1>5. ASSUME NEW e \in BOOLEAN, SetEnabled(e) PROVE FilesTyped'
  <2>1. registry' \in Server
    BY <1>5 DEF SetEnabled, Server
  <2>2. QED
    BY <2>1, <1>2, <1>5 DEF SetEnabled
<1>6. ASSUME NEW c \in Calls, NEW t \in Identities \cup {None}, Write(c, t)
      PROVE  tokens' \in Identities \cup {None} /\ late' \in BOOLEAN
  <2>1. late' = TRUE \/ late' = FALSE
    BY <1>6, Zenon DEF Write
  <2>2. QED
    BY <2>1, <1>6 DEF Write
<1>7. ASSUME NEW g \in Gateways, NEW t \in Identities \cup {None},
             pending' = [pending EXCEPT ![g] = t]
      PROVE  pending' \in [Gateways -> Identities \cup {None}]
  BY <1>7
<1>8. ASSUME NEW c \in Calls, NEW g \in Gateways, NEW op, NEW o,
             BeginReconfigure(c, g, op, o) \/ Begin(c, g, op)
      PROVE  FilesTyped'
  BY <1>7, <1>8 DEF BeginReconfigure, Begin, ClosePending
<1>9. ASSUME NEW c \in Calls, Delete(c) PROVE FilesTyped'
  BY <1>9 DEF Delete
<1>10. ASSUME NEW c \in Calls, Save(c) PROVE FilesTyped'
  <2>1. registry \in Server /\ call[c].target \in Target
    BY <1>10 DEF Save, At, CallsFollow, Locks, ChangesServer
  <2>2. [registry EXCEPT !.oauth = call[c].target.oauth] \in Server
    BY <2>1 DEF Server, Target
  <2>3. registry' \in Server \cup {None}
    BY <2>2, <1>10 DEF Save
  <2>4. QED
    BY <2>3, <1>2, <1>10 DEF Save, Release
<1>11. ASSUME NEW c \in Calls,
              RecordHealth(c) \/ PersistRefresh(c)
       PROVE  FilesTyped'
  <2>1. call[c].target \in Target
    BY <1>11 DEF RecordHealth, PersistRefresh, At, CallsFollow
  <2>2. CASE SameRefreshTarget(call[c].target, registry)
    <3>1. registry \in Server /\ call[c].target.endpoint \in Endpoint
      BY <2>1, <2>2 DEF SameRefreshTarget, Target
    <3>2. /\ [registry EXCEPT !.health = call[c].target.endpoint] \in Server
          /\ [registry EXCEPT !.tools = call[c].target.endpoint] \in Server
      BY <3>1 DEF Server
    <3>3. QED
      BY <3>2, <2>2, <1>11 DEF RecordHealth, PersistRefresh
  <2>3. CASE ~SameRefreshTarget(call[c].target, registry)
    BY <2>3, <1>11 DEF RecordHealth, PersistRefresh
  <2>4. QED
    BY <2>2, <2>3
<1>12. ASSUME NEW c \in Calls,
              \/ ReconfigureFails(c) \/ Open(c) \/ Reach(c) \/ MutationFails(c)
              \/ ConnectionEnds(c)
       PROVE  FilesTyped'
  BY <1>12 DEF ReconfigureFails, Release, Open, Reach, MutationFails, ConnectionEnds
<1>13. ASSUME NEW c \in Calls, Migrate(c) \/ Redirect(c) \/ ProviderWrites(c)
       PROVE  FilesTyped'
  <2>1. \E t \in Identities \cup {None} : Write(c, t)
    BY <1>3, <1>13 DEF Migrate, Redirect, ProviderWrites
  <2>2. legacy' \in Urls \cup {None} /\ UNCHANGED <<registry, lock, pending, config>>
    BY <1>13 DEF Migrate, Redirect, ProviderWrites
  <2>3. QED
    BY <2>1, <2>2, <1>6
<1>14. ASSUME NEW c \in Calls, AwaitCallback(c) \/ CheckCallback(c) \/ Exchange(c)
       PROVE  FilesTyped'
  <2>1. call[c].target \in Target
    BY <1>14 DEF AwaitCallback, CheckCallback, Exchange, At, CallsFollow
  <2>2. tokens' \in Identities \cup {None} /\ late' \in BOOLEAN
    BY <1>3, <1>6, <1>14 DEF AwaitCallback, CheckCallback, Exchange
  <2>3. pending' \in [Gateways -> Identities \cup {None}]
    BY <2>1, <1>14, IdentityTyped DEF AwaitCallback, CheckCallback, Exchange, ClosePending
  <2>4. UNCHANGED <<registry, lock, legacy, config>>
    BY <1>14 DEF AwaitCallback, CheckCallback, Exchange
  <2>5. QED
    BY <2>2, <2>3, <2>4
<1>15. ASSUME NEW g \in Gateways, Die(g) PROVE FilesTyped'
  BY <1>7, <1>15 DEF Die
<1>16. QED
  BY <1>4, <1>5, <1>8, <1>9, <1>10, <1>11, <1>12, <1>13, <1>14, <1>15
  DEF Next, Step, Administer, vars

-----------------------------------------------------------------------------
(* Calls and the lock.                                                     *)

LEMMA LocksStep ==
    ASSUME HubAssumption, FilesTyped, CallsTyped, CallsFollow, Locks, [Next]_vars
    PROVE  Locks'
<1> USE DEF CallsTyped
<1> DEFINE Locking(c) == call[c].pc \in {"deleting", "saving"} /\ call[c].op # "disconnect"
<1>1. ASSUME lock' = lock, \A d \in Calls : Locking(d)' <=> Locking(d) PROVE Locks'
  BY <1>1 DEF Locks
<1>2. CASE Administer \/ UNCHANGED vars
  BY <1>2, <1>1 DEF Administer, Add, SetEnabled, vars
<1>3. ASSUME NEW c \in Calls, NEW g \in Gateways, NEW op \in {"remove", "setOAuth"},
             NEW o \in OAuth \cup {None}, BeginReconfigure(c, g, op, o)
      PROVE  Locks'
  BY <1>3 DEF BeginReconfigure, Running, Locks, HubAssumption
<1>4. ASSUME NEW c \in Calls, NEW g \in Gateways, NEW op \in Ops \ {"remove", "setOAuth", "timedout"},
             Begin(c, g, op)
      PROVE  Locks'
  BY <1>1, <1>4 DEF Begin, Running, At
<1>5. ASSUME NEW c \in Calls, lock' = lock, ~Locking(c),
             Return(c) \/ \E step \in Steps \ {"deleting", "saving"} : To(c, step)
      PROVE  Locks'
  BY <1>5, <1>1 DEF Return, To, Idle, CallRecord
<1>6. ASSUME NEW c \in Calls, Delete(c) PROVE Locks'
  <2>1. lock' = lock
    BY <1>6 DEF Delete
  <2>2. \A d \in Calls : Locking(d)' <=> Locking(d)
    BY <1>6, AgedKeeps DEF Delete, At, Idle, CallRecord
  <2>3. QED
    BY <2>1, <2>2, <1>1
<1>7. ASSUME NEW c \in Calls, Save(c) PROVE Locks'
  <2>1. lock = c
    BY <1>7 DEF Save, At, CallsFollow, Locks
  <2>2. \A d \in Calls : Locking(d)' <=> Locking(d) /\ d # c
    BY <1>7, AgedKeeps DEF Save, Idle
  <2>3. QED
    BY <2>1, <2>2, <1>7 DEF Save, Release, Locks, HubAssumption
<1>8. ASSUME NEW c \in Calls, ReconfigureFails(c) PROVE Locks'
  <2>1. lock' = IF lock = c THEN None ELSE lock
    BY <1>8 DEF ReconfigureFails, Release
  <2>2. \A d \in Calls : Locking(d)' <=> Locking(d) /\ d # c
    BY <1>8 DEF ReconfigureFails, Return, Idle
  <2>3. QED
    BY <2>1, <2>2 DEF Locks, HubAssumption
<1>9. ASSUME NEW c \in Calls, Open(c) \/ ProviderWrites(c) PROVE Locks'
  <2>1. lock' = lock /\ (Open(c) => call[c].pc = "opening")
    BY <1>9 DEF Open, ProviderWrites, At
  <2>2. /\ \A d \in Calls \ {c} : call'[d] = call[d]
        /\ \/ Open(c) /\ call'[c].pc \in {"idle", "migrating", "working"}
           \/ call'[c].pc = call[c].pc /\ call'[c].op = call[c].op
    BY <1>9, ProviderForms DEF Idle
  <2>3. QED
    BY <2>1, <2>2, <1>1
<1>10. ASSUME NEW c \in Calls, Reach(c) \/ Redirect(c) \/ CheckCallback(c) PROVE Locks'
  <2>1. lock' = lock /\ call' = [call EXCEPT ![c] = call'[c]]
    BY <1>10, ReachForms, FlowForms DEF Reach, Redirect, CheckCallback
  <2>2. call[c].pc \in {"working", "checking"}
    BY <1>10 DEF Reach, Redirect, CheckCallback, At
  <2>3. call'[c].pc \in {"recording", "redirected", "exchanging", "idle"}
    BY <1>10, ReachForms, FlowForms DEF Idle
  <2>4. QED
    BY <2>1, <2>2, <2>3, <1>1
<1>11. ASSUME NEW c \in Calls,
              \/ Migrate(c) \/ RecordHealth(c) \/ PersistRefresh(c)
              \/ MutationFails(c) \/ ConnectionEnds(c) \/ AwaitCallback(c) \/ Exchange(c)
       PROVE  Locks'
  <2>1. Return(c) \/ \E step \in Steps \ {"deleting", "saving"} : To(c, step)
    BY <1>11 DEF Migrate, RecordHealth, PersistRefresh, MutationFails,
       ConnectionEnds, AwaitCallback, Exchange, AfterRecord, Steps
  <2>2. lock' = lock /\ ~Locking(c)
    BY <1>11 DEF Migrate, RecordHealth, PersistRefresh, MutationFails,
       ConnectionEnds, AwaitCallback, Exchange, At
  <2>3. QED
    BY <2>1, <2>2, <1>5
<1>12. ASSUME NEW g \in Gateways, Die(g) PROVE Locks'
  <2>1. \A d \in Calls : Locking(d)' <=> Locking(d) /\ call[d].at # g
    BY <1>12 DEF Die, Idle
  <2>2. QED
    BY <2>1, <1>12 DEF Die, Locks, FilesTyped, HubAssumption
<1>13. QED
  BY <1>2, <1>3, <1>4, <1>6, <1>7, <1>8, <1>9, <1>10, <1>11, <1>12 DEF Next, Step

LEMMA CallsFollowStep ==
    ASSUME HubAssumption, FilesTyped, CallsTyped, CallsFollow, [Next]_vars
    PROVE  CallsFollow'
<1> USE DEF CallsTyped
<1> DEFINE Follows(c) ==
        /\ call[c].pc # "idle" => call[c].target \in Target
        /\ call[c].pc = "deleting" => call[c].op \in {"remove", "setOAuth", "disconnect"}
        /\ call[c].pc = "saving" => call[c].op \in {"remove", "setOAuth"}
        /\ call[c].pc \in {"opening", "migrating", "redirected", "checking", "exchanging"}
           \/ call[c].op = "start" => call[c].pc = "idle" \/ call[c].target.oauth # None
<1>1. ASSUME \A d \in Calls : Follows(d)' PROVE CallsFollow'
  BY <1>1 DEF CallsFollow
<1>2. \A d \in Calls : call'[d] = call[d] => Follows(d)'
  BY DEF CallsFollow
<1>3. \A d \in Calls : call'[d] = Idle => Follows(d)'
  BY DEF Idle
<1>4. \A d \in Calls : call'[d] = Aged(d) => Follows(d)'
  BY AgedKeeps DEF CallsFollow
<1>5. CASE Administer \/ UNCHANGED vars
  BY <1>5, <1>1, <1>2 DEF Administer, Add, SetEnabled, vars
<1>6. ASSUME NEW c \in Calls, \A d \in Calls \ {c} : call'[d] = call[d], Follows(c)'
      PROVE  CallsFollow'
  BY <1>1, <1>2, <1>6
<1>7. ASSUME NEW c \in Calls, NEW g \in Gateways, NEW op \in {"remove", "setOAuth"},
             NEW o \in OAuth \cup {None}, BeginReconfigure(c, g, op, o)
      PROVE  CallsFollow'
  <2>1. call'[c].target \in Target /\ call'[c].op = op /\ call'[c].pc \in {"deleting", "saving"}
    BY <1>7, TargetTyped DEF BeginReconfigure, Running
  <2>2. QED
    BY <2>1, <1>6, <1>7 DEF BeginReconfigure, Running
<1>8. ASSUME NEW c \in Calls, NEW g \in Gateways, NEW op \in Ops \ {"remove", "setOAuth", "timedout"},
             Begin(c, g, op)
      PROVE  CallsFollow'
  <2>1. /\ call'[c].target = TargetOf(registry) /\ call'[c].op = op
        /\ call'[c].pc \in {"deleting", "checking", "recording", "working", "opening"}
        /\ call'[c].pc \in {"opening", "checking"} \/ op = "start" => registry.oauth # None
        /\ call'[c].pc = "deleting" => op = "disconnect"
        /\ \A d \in Calls \ {c} : call'[d] = call[d]
    BY <1>8 DEF Begin, Running, Ops
  <2>2. call'[c].target \in Target /\ call'[c].target.oauth = registry.oauth
    BY <2>1, <1>8, TargetTyped DEF Begin, TargetOf
  <2>3. QED
    BY <2>1, <2>2, <1>6
<1>9. ASSUME NEW c \in Calls, Delete(c) PROVE CallsFollow'
  <2>1. Follows(c)'
    BY <1>9 DEF Delete, At, CallsFollow, Idle, CallRecord, Ops
  <2>2. QED
    BY <2>1, <1>9, <1>4, <1>1 DEF Delete
<1>10. ASSUME NEW c \in Calls, Save(c) PROVE CallsFollow'
  BY <1>10, <1>1, <1>3, <1>4 DEF Save
<1>11. ASSUME NEW c \in Calls, Open(c) \/ ProviderWrites(c) PROVE CallsFollow'
  <2>1. /\ Open(c) => call[c].pc = "opening"
        /\ \A d \in Calls \ {c} : call'[d] = call[d]
    BY <1>11, ProviderForms DEF Open, At
  <2>2. \/ call'[c] = Idle
        \/ /\ call'[c].target = call[c].target /\ call'[c].op = call[c].op
           /\ \/ Open(c) /\ call'[c].pc \in {"migrating", "working"}
              \/ call'[c].pc = call[c].pc
    BY <1>11, ProviderForms
  <2>3. QED
    BY <2>1, <2>2, <1>3, <1>6 DEF CallsFollow
<1>12. ASSUME NEW c \in Calls, Reach(c) \/ Redirect(c) \/ CheckCallback(c)
       PROVE  CallsFollow'
  <2>1. \A d \in Calls \ {c} : call'[d] = call[d]
    BY <1>12, ReachForms, FlowForms
  <2>2. CASE Reach(c)
    <3>1. Follows(c)'
      BY <2>2, ReachForms DEF CallsFollow
    <3>2. QED
      BY <3>1, <2>1, <1>6
  <2>3. CASE Redirect(c) \/ CheckCallback(c)
    <3>1. Follows(c)'
      BY <2>3, FlowForms DEF CallsFollow, Idle
    <3>2. QED
      BY <3>1, <2>1, <1>6
  <2>4. QED
    BY <1>12, <2>2, <2>3
<1>13. ASSUME NEW c \in Calls,
              \/ ReconfigureFails(c) \/ Migrate(c) \/ RecordHealth(c) \/ PersistRefresh(c)
              \/ MutationFails(c) \/ ConnectionEnds(c) \/ AwaitCallback(c) \/ Exchange(c)
       PROVE  CallsFollow'
  <2>1. \/ Return(c)
        \/ call[c].pc # "idle" /\ (To(c, "working") \/ To(c, "persisting"))
    BY <1>13 DEF ReconfigureFails, Migrate, RecordHealth, PersistRefresh, MutationFails,
       ConnectionEnds, AwaitCallback, Exchange, AfterRecord, At
  <2>2. Follows(c)'
    BY <2>1 DEF Return, To, Idle, CallsFollow, CallRecord
  <2>3. QED
    BY <2>1, <2>2, <1>6 DEF Return, To
<1>14. ASSUME NEW g \in Gateways, Die(g) PROVE CallsFollow'
  BY <1>14, <1>1, <1>2, <1>3 DEF Die
<1>15. QED
  BY <1>5, <1>7, <1>8, <1>9, <1>10, <1>11, <1>12, <1>13, <1>14 DEF Next, Step

-----------------------------------------------------------------------------
(* What a step does to the entry and to the calls.                         *)

(* The entry stays, at its endpoint and with its OAuth configuration.       *)
SameServer ==
    /\ registry = None <=> registry' = None
    /\ registry # None => registry'.endpoint = registry.endpoint /\ registry'.oauth = registry.oauth

(* Call c is where it was or further on, on the same target.               *)
Kept(c) ==
    /\ call'[c].pc = "saving" => call[c].pc = "saving" /\ call'[c].op = call[c].op
    /\ call'[c].pc # "idle" \/ MayWrite(c)' => call'[c].target = call[c].target
    /\ MayWrite(c)' /\ call'[c].fresh =>
          MayWrite(c) /\ call[c].fresh /\ call'[c].tokens \in {call[c].tokens, None}

LEMMA KeptForms ==
    ASSUME CallsTyped, NEW c \in Calls,
           call'[c] = call[c] \/ call'[c] = Idle \/ call'[c] = Aged(c)
    PROVE  Kept(c)
<1>1. CASE call'[c] = call[c] \/ call'[c] = Idle
  BY <1>1 DEF Kept, Idle, MayWrite
<1>2. CASE call'[c] = Aged(c)
  BY <1>2, AgedKeeps DEF Kept, MayWrite
<1>3. QED
  BY <1>1, <1>2

(* A health record or a refresh writes discovery fields only, and only at  *)
(* the endpoint the server has.                                            *)
LEMMA Discovery ==
    ASSUME HubAssumption, FilesTyped, NEW c \in Calls, RecordHealth(c) \/ PersistRefresh(c)
    PROVE  /\ SameServer
           /\ registry # None => /\ registry' \in Server /\ registry'.enabled = registry.enabled
                                 /\ registry'.tools \in {registry.tools, registry.endpoint}
                                 /\ registry'.health \in {registry.health, registry.endpoint}
<1> DEFINE t == call[c].target
<1>1. CASE SameRefreshTarget(t, registry)
  <2>1. registry \in Server /\ t.endpoint = registry.endpoint
    BY <1>1 DEF SameRefreshTarget, FilesTyped, TargetOf
  <2>2. registry' \in {[registry EXCEPT !.health = registry.endpoint],
                       [registry EXCEPT !.tools = registry.endpoint]}
    BY <1>1, <2>1 DEF RecordHealth, PersistRefresh
  <2>3. registry' \in Server /\ registry'.endpoint = registry.endpoint /\ registry'.oauth = registry.oauth
        /\ registry'.enabled = registry.enabled
        /\ registry'.tools \in {registry.tools, registry.endpoint}
        /\ registry'.health \in {registry.health, registry.endpoint}
    BY <2>1, <2>2 DEF Server
  <2>4. QED
    BY <2>1, <2>3 DEF SameServer, HubAssumption
<1>2. CASE ~SameRefreshTarget(t, registry)
  <2>1. registry' = registry
    BY <1>2 DEF RecordHealth, PersistRefresh
  <2>2. QED
    BY <2>1 DEF SameServer, FilesTyped
<1>3. QED
  BY <1>1, <1>2

(* Only Add, SetEnabled and Save change the configuration of the server.    *)
LEMMA EntryKept ==
    ASSUME HubAssumption, FilesTyped, [Next]_vars
    PROVE  \/ SameServer
           \/ \E n \in Endpoint, o \in OAuth \cup {None}, e \in BOOLEAN : Add(n, o, e)
           \/ \E c \in Calls : Save(c)
<1>1. registry' = registry => SameServer
  BY DEF SameServer
<1>2. ASSUME NEW e \in BOOLEAN, SetEnabled(e) PROVE SameServer
  <2>1. registry \in Server /\ registry' = [registry EXCEPT !.enabled = e]
    BY <1>2 DEF SetEnabled, FilesTyped
  <2>2. registry' \in Server /\ registry'.endpoint = registry.endpoint /\ registry'.oauth = registry.oauth
    BY <2>1 DEF Server
  <2>3. QED
    BY <2>1, <2>2 DEF SameServer, HubAssumption
<1>3. ASSUME NEW c \in Calls, ProviderWrites(c) \/ Step(c), ~Save(c) PROVE SameServer
  <2>1. \/ registry' = registry
        \/ RecordHealth(c) \/ PersistRefresh(c)
    BY <1>3 DEF ProviderWrites, Step, Delete, ReconfigureFails, Open, Migrate, Reach,
       MutationFails, ConnectionEnds, Redirect, AwaitCallback, CheckCallback, Exchange
  <2>2. QED
    BY <2>1, <1>1, Discovery
<1>4. ASSUME NEW c \in Calls, NEW g \in Gateways, NEW op, NEW o,
             BeginReconfigure(c, g, op, o) \/ Begin(c, g, op)
      PROVE  SameServer
  BY <1>1, <1>4 DEF BeginReconfigure, Begin
<1>5. ASSUME NEW g \in Gateways, Die(g) PROVE SameServer
  BY <1>1, <1>5 DEF Die
<1>6. QED
  BY <1>1, <1>2, <1>3, <1>4, <1>5 DEF Next, Administer, vars

(* Calls go on with their target and their tokens, except where one begins, *)
(* takes its snapshot, or has deleted the credentials.                     *)
LEMMA CallsKept ==
    ASSUME CallsTyped, CallsFollow, [Next]_vars
    PROVE  \/ \A d \in Calls : Kept(d)
           \/ \E c \in Calls, g \in Gateways :
                 \/ BeginReconfigure(c, g, "remove", None)
                 \/ \E o \in OAuth \cup {None} : BeginReconfigure(c, g, "setOAuth", o)
                 \/ \E op \in Ops \ {"remove", "setOAuth", "timedout"} : Begin(c, g, op)
           \/ \E c \in Calls : Delete(c) \/ Open(c) \/ CheckCallback(c)
<1> USE DEF CallsTyped
<1>1. ASSUME NEW c \in Calls, Kept(c), \A d \in Calls \ {c} : call'[d] = call[d]
      PROVE  \A d \in Calls : Kept(d)
  BY <1>1, KeptForms
<1>2. CASE Administer \/ UNCHANGED vars
  BY <1>2, KeptForms DEF Administer, Add, SetEnabled, vars
<1>3. ASSUME NEW c \in Calls, Save(c) PROVE \A d \in Calls : Kept(d)
  BY <1>3, KeptForms DEF Save
<1>4. ASSUME NEW c \in Calls, ProviderWrites(c), ~Open(c) PROVE \A d \in Calls : Kept(d)
  <2>1. Kept(c)
    BY <1>4, ProviderForms DEF Kept, MayWrite, Idle
  <2>2. QED
    BY <2>1, <1>1, <1>4, ProviderForms
<1>5. ASSUME NEW c \in Calls, Reach(c) \/ Redirect(c) PROVE \A d \in Calls : Kept(d)
  <2>1. \A d \in Calls \ {c} : call'[d] = call[d]
    BY <1>5, ReachForms, FlowForms
  <2>2. CASE Reach(c)
    <3>1. Kept(c)
      BY <2>2, ReachForms DEF Kept, MayWrite
    <3>2. QED
      BY <3>1, <2>1, <1>1
  <2>3. CASE Redirect(c)
    <3>1. call[c].pc = "working" /\ call[c].op = "start"
      BY <2>3 DEF Redirect, At
    <3>2. Kept(c)
      BY <2>3, <3>1, FlowForms DEF Kept, MayWrite, Idle
    <3>3. QED
      BY <3>2, <2>1, <1>1
  <2>4. QED
    BY <1>5, <2>2, <2>3
<1>6. ASSUME NEW c \in Calls,
             \/ ReconfigureFails(c) \/ Migrate(c) \/ RecordHealth(c) \/ PersistRefresh(c)
             \/ MutationFails(c) \/ ConnectionEnds(c) \/ AwaitCallback(c) \/ Exchange(c)
      PROVE  \A d \in Calls : Kept(d)
  <2>1. \/ Return(c)
        \/ call[c].op = "refresh" /\ To(c, "persisting")
        \/ (call[c].pc = "migrating" \/ call[c].op = "timedout") /\ To(c, "working")
    BY <1>6 DEF ReconfigureFails, Migrate, RecordHealth, PersistRefresh, MutationFails,
       ConnectionEnds, AwaitCallback, Exchange, AfterRecord, At
  <2>2. \A d \in Calls \ {c} : call'[d] = call[d]
    BY <2>1 DEF Return, To
  <2>3. CASE Return(c)
    BY <2>2, <2>3, <1>1, KeptForms DEF Return
  <2>4. CASE ~Return(c)
    <3>1. PICK step \in {"persisting", "working"} :
              /\ call'[c] = [call[c] EXCEPT !.pc = step]
              /\ \/ step = "persisting" /\ call[c].op = "refresh"
                 \/ MayWrite(c)
      BY <2>1, <2>4 DEF To, MayWrite
    <3>2. call[c] \in CallRecord
      OBVIOUS
    <3>3. /\ call'[c].pc = step /\ call'[c].fresh = call[c].fresh /\ call'[c].op = call[c].op
          /\ call'[c].tokens = call[c].tokens /\ call'[c].target = call[c].target
      BY <3>1, <3>2 DEF CallRecord
    <3>4. QED
      BY <3>1, <3>3, <2>2, <1>1 DEF Kept, MayWrite
  <2>5. QED
    BY <2>3, <2>4
<1>7. ASSUME NEW g \in Gateways, Die(g) PROVE \A d \in Calls : Kept(d)
  BY <1>7, KeptForms DEF Die
<1>8. QED
  BY <1>2, <1>3, <1>4, <1>5, <1>6, <1>7 DEF Next, Step

-----------------------------------------------------------------------------
(* Administration.                                                         *)

LEMMA ChangesServerStep ==
    ASSUME HubAssumption, FilesTyped, CallsTyped, CallsFollow, Locks, ChangesServer, [Next]_vars
    PROVE  ChangesServer'
<1> USE DEF CallsTyped
<1>1. ASSUME lock' = None \/ SameServer,
             \A d \in Calls : lock' = d => lock = d /\ call'[d].target = call[d].target
      PROVE  ChangesServer'
  BY <1>1 DEF ChangesServer, SameServer, HubAssumption
<1>2. ASSUME NEW c \in Calls, NEW g \in Gateways, NEW op, NEW o, BeginReconfigure(c, g, op, o)
      PROVE  ChangesServer'
  <2>1. /\ lock' = c /\ registry' = registry /\ registry # None
        /\ call'[c].target = [TargetOf(registry) EXCEPT !.oauth = o]
    BY <1>2 DEF BeginReconfigure, Running
  <2>2. call'[c].target.endpoint = registry.endpoint
    BY <2>1 DEF TargetOf
  <2>3. QED
    BY <2>1, <2>2 DEF ChangesServer
<1>3. ASSUME NEW c \in Calls, Delete(c) PROVE ChangesServer'
  <2>1. lock' = lock /\ SameServer
    BY <1>3 DEF Delete, SameServer
  <2>2. \A d \in Calls : lock = d => call'[d].target = call[d].target
    BY <1>3, AgedKeeps DEF Delete, Locks, CallRecord
  <2>3. QED
    BY <2>1, <2>2, <1>1
<1>4. ASSUME NEW c \in Calls, Save(c) PROVE ChangesServer'
  <2>1. lock = c
    BY <1>4 DEF Save, At, CallsFollow, Locks
  <2>2. QED
    BY <2>1, <1>4 DEF Save, Release, ChangesServer, HubAssumption
<1>5. ASSUME NEW c \in Calls, NEW g \in Gateways, NEW op, Begin(c, g, op)
      PROVE  ChangesServer'
  <2>1. lock # c
    BY <1>5 DEF Begin, At, Locks
  <2>2. lock' = lock /\ SameServer /\ \A d \in Calls \ {c} : call'[d] = call[d]
    BY <1>5 DEF Begin, Running, SameServer
  <2>3. QED
    BY <2>1, <2>2, <1>1
<1>6. ASSUME NEW c \in Calls, Open(c) \/ CheckCallback(c) PROVE ChangesServer'
  <2>1. lock # c
    BY <1>6 DEF Open, CheckCallback, At, Locks
  <2>2. lock' = lock /\ SameServer /\ \A d \in Calls \ {c} : call'[d] = call[d]
    BY <1>6, ProviderForms, FlowForms DEF Open, CheckCallback, SameServer
  <2>3. QED
    BY <2>1, <2>2, <1>1
<1>7. CASE Administer
  BY <1>7, <1>1 DEF Administer, Add, SetEnabled, HubAssumption
<1>8. ASSUME \A d \in Calls : Kept(d), SameServer,
             \/ \E c \in Calls : ProviderWrites(c) \/ Step(c)
             \/ \E g \in Gateways : Die(g)
             \/ UNCHANGED vars
      PROVE  ChangesServer'
  <2>1. \A d \in Calls : lock' = d => lock = d
    BY <1>8 DEF ProviderWrites, Step, Delete, Save, Release, ReconfigureFails, Open, Migrate,
       Reach, RecordHealth, PersistRefresh, MutationFails, ConnectionEnds, Redirect, AwaitCallback,
       CheckCallback, Exchange, Die, vars, HubAssumption
  <2>2. \A d \in Calls : lock' = d => call'[d].pc # "idle"
    BY LocksStep DEF Locks
  <2>3. QED
    BY <2>1, <2>2, <1>1, <1>8 DEF Kept
<1>9. QED
  BY <1>2, <1>3, <1>4, <1>5, <1>6, <1>7, <1>8, CallsKept, EntryKept
  DEF Next, Administer, Step

LEMMA LastChangeStep ==
    ASSUME HubAssumption, FilesTyped, CallsTyped, CallsFollow, Locks, ChangesServer,
           LastChangeStands, [Next]_vars
    PROVE  LastChangeStands'
<1>1. ASSUME registry' = registry, config' = config PROVE LastChangeStands'
  BY <1>1 DEF LastChangeStands, Configuration
<1>2. ASSUME registry \in Server, registry' \in Server, config' = Configuration(registry'),
             registry'.endpoint = registry.endpoint,
             registry'.tools = registry.tools, registry'.health = registry.health
      PROVE  LastChangeStands'
  BY <1>2 DEF LastChangeStands, Configuration, HubAssumption
<1>3. ASSUME NEW n \in Endpoint, NEW o \in OAuth \cup {None}, NEW e \in BOOLEAN, Add(n, o, e)
      PROVE  LastChangeStands'
  BY <1>3 DEF Add, NewServer, LastChangeStands, Configuration
<1>4. ASSUME NEW e \in BOOLEAN, SetEnabled(e) PROVE LastChangeStands'
  BY <1>2, <1>4 DEF SetEnabled, FilesTyped, Server
<1>5. ASSUME NEW c \in Calls, Save(c) PROVE LastChangeStands'
  <2>1. registry \in Server /\ call[c].target \in Target
    BY <1>5 DEF Save, At, CallsFollow, Locks, ChangesServer, FilesTyped
  <2>2. CASE call[c].op = "remove"
    BY <1>5, <2>2 DEF Save, LastChangeStands, Configuration
  <2>3. CASE call[c].op # "remove"
    BY <1>5, <2>1, <2>3, <1>2 DEF Save, Server, Target
  <2>4. QED
    BY <2>2, <2>3
<1>6. ASSUME NEW c \in Calls, RecordHealth(c) \/ PersistRefresh(c) PROVE LastChangeStands'
  <2>1. config' = config
    BY <1>6 DEF RecordHealth, PersistRefresh
  <2>2. CASE registry = None
    BY <2>1, <2>2, <1>1, <1>6, Discovery DEF SameServer
  <2>3. CASE registry # None
    <3>1. registry' # None
      BY <2>3, <1>6, Discovery DEF SameServer
    <3>2. Configuration(registry') = Configuration(registry)
      BY <2>3, <3>1, <1>6, Discovery DEF SameServer, Configuration
    <3>3. QED
      BY <2>1, <2>3, <3>2, <1>6, Discovery DEF SameServer, LastChangeStands
  <2>4. QED
    BY <2>2, <2>3
<1>7. ASSUME NEW c \in Calls, ProviderWrites(c) \/ Step(c),
             ~Save(c), ~RecordHealth(c), ~PersistRefresh(c)
      PROVE  LastChangeStands'
  BY <1>1, <1>7 DEF ProviderWrites, Step, Delete, ReconfigureFails, Open, Migrate, Reach,
     MutationFails, ConnectionEnds, Redirect, AwaitCallback, CheckCallback, Exchange
<1>8. ASSUME NEW c \in Calls, NEW g \in Gateways, NEW op, NEW o,
             BeginReconfigure(c, g, op, o) \/ Begin(c, g, op)
      PROVE  LastChangeStands'
  BY <1>1, <1>8 DEF BeginReconfigure, Begin
<1>9. ASSUME NEW g \in Gateways, Die(g) PROVE LastChangeStands'
  BY <1>1, <1>9 DEF Die
<1>10. QED
  BY <1>1, <1>3, <1>4, <1>5, <1>6, <1>7, <1>8, <1>9 DEF Next, Administer, vars

-----------------------------------------------------------------------------
(* Credentials.                                                            *)

(* A provider's write is late, or comes from a call no change overtook,    *)
(* while no change is about to be saved.                                   *)
LEMMA WriteIsLate ==
    ASSUME NEW c \in Calls, NEW t, Write(c, t)
    PROVE  /\ tokens' = t
           /\ ~late' => ~late /\ call[c].fresh /\ \A d \in Calls : call[d].pc # "saving"
<1>1. late' = (late \/ ~call[c].fresh \/ \E d \in Calls : call[d].pc = "saving")
  BY DEF Write, At
<1>2. ~late' => ~(late \/ ~call[c].fresh \/ \E d \in Calls : call[d].pc = "saving")
  BY <1>1, Zenon
<1>3. QED
  BY <1>2 DEF Write

LEMMA OwnedStep ==
    ASSUME HubAssumption, FilesTyped, CallsTyped, CallsFollow, Locks, ChangesServer,
           Owned, Fresh, [Next]_vars
    PROVE  Owned'
<1> USE DEF CallsTyped
<1>1. ASSUME UNCHANGED <<tokens, late>>, SameServer,
             \A d \in Calls : call'[d].pc = "saving" =>
                 call[d].pc = "saving" /\ call'[d].op = call[d].op
                 /\ call'[d].target = call[d].target
      PROVE  Owned'
  BY <1>1 DEF Owned, SameServer, TargetOf
<1>2. ASSUME UNCHANGED <<tokens, late>>, registry = None PROVE Owned'
  BY <1>2 DEF Owned
<1>3. ASSUME UNCHANGED <<tokens, late>>, SameServer, \A d \in Calls : Kept(d)
      PROVE  Owned'
  BY <1>1, <1>3 DEF Kept
<1>4. ASSUME NEW c \in Calls, MayWrite(c), call[c].target.oauth # None,
             NEW t \in {call[c].tokens, None}, Write(c, t),
             registry' = registry, \A d \in Calls : Kept(d)
      PROVE  Owned'
  <2>1. SUFFICES ASSUME ~late', tokens' # None PROVE Owned'
    BY DEF Owned
  <2>2. tokens' = t /\ ~late /\ call[c].fresh /\ \A d \in Calls : call[d].pc # "saving"
    BY <1>4, <2>1, WriteIsLate
  <2>3. /\ registry # None /\ call[c].target = TargetOf(registry)
        /\ call[c].tokens \in {None, Identity(call[c].target),
                               Legacy(call[c].target.endpoint.url)}
    BY <1>4, <2>2 DEF Fresh, OwnTokens
  <2>4. call[c].target.oauth = registry.oauth /\ call[c].target.endpoint = registry.endpoint
    BY <2>3 DEF TargetOf
  <2>5. \A d \in Calls : call'[d].pc # "saving"
    BY <1>4, <2>2 DEF Kept
  <2>6. QED
    BY <1>4, <2>1, <2>2, <2>3, <2>4, <2>5 DEF Owned
<1>5. ASSUME NEW n \in Endpoint, NEW o \in OAuth \cup {None}, NEW e \in BOOLEAN, Add(n, o, e)
      PROVE  Owned'
  BY <1>2, <1>5 DEF Add
<1>6. ASSUME NEW e \in BOOLEAN, SetEnabled(e) PROVE Owned'
  <2>1. SameServer
    BY <1>6, EntryKept, HubAssumption DEF SetEnabled, Add, Save, SameServer, FilesTyped, Server
  <2>2. QED
    BY <2>1, <1>1, <1>6 DEF SetEnabled
<1>7. ASSUME NEW c \in Calls, NEW g \in Gateways, NEW op \in {"remove", "setOAuth"},
             NEW o \in OAuth \cup {None}, BeginReconfigure(c, g, op, o)
      PROVE  Owned'
  <2>1. SUFFICES ASSUME ~late', tokens' # None PROVE Owned'
    BY DEF Owned
  <2>2. /\ UNCHANGED <<registry, tokens, late>>
        /\ \A d \in Calls \ {c} : call'[d] = call[d]
        /\ call'[c].op = op /\ call'[c].target = [TargetOf(registry) EXCEPT !.oauth = o]
    BY <1>7 DEF BeginReconfigure, Running
  <2>3. call'[c].pc = "saving" =>
            ~(registry.oauth # None /\ (op = "remove" \/ o # registry.oauth))
    BY <1>7 DEF BeginReconfigure, Running
  <2>4. registry.oauth # None
    BY <2>1, <2>2 DEF Owned
  <2>5. call'[c].target.oauth = o
    BY <2>2 DEF TargetOf
  <2>6. call'[c].pc = "saving" => call'[c].op = "setOAuth" /\ call'[c].target.oauth = registry.oauth
    BY <2>2, <2>3, <2>4, <2>5
  <2>7. QED
    BY <2>1, <2>2, <2>6 DEF Owned
<1>8. ASSUME NEW c \in Calls, NEW g \in Gateways, NEW op \in Ops \ {"remove", "setOAuth", "timedout"},
             Begin(c, g, op)
      PROVE  Owned'
  <2>1. call'[c].pc # "saving" /\ \A d \in Calls \ {c} : call'[d] = call[d]
    BY <1>8 DEF Begin, Running
  <2>2. QED
    BY <2>1, <1>1, <1>8 DEF Begin, SameServer
<1>9. ASSUME NEW c \in Calls, Delete(c) PROVE Owned'
  BY <1>9 DEF Delete, Owned
<1>10. ASSUME NEW c \in Calls, Save(c) PROVE Owned'
  <2>1. SUFFICES ASSUME ~late', tokens' # None PROVE Owned'
    BY DEF Owned
  <2>2. /\ tokens' = tokens /\ ~late /\ tokens # None /\ call[c].pc = "saving"
    BY <1>10, <2>1 DEF Save, At
  <2>3. /\ registry \in Server /\ call[c].op = "setOAuth"
        /\ call[c].target.oauth = registry.oauth
    BY <2>2 DEF Owned, FilesTyped
  <2>4. registry' = registry
    BY <1>10, <2>3 DEF Save, Server
  <2>5. \A d \in Calls : Kept(d)
    BY <1>10, KeptForms DEF Save
  <2>6. QED
    BY <2>2, <2>4, <2>5, <1>3, <1>10 DEF Save, SameServer
<1>11. ASSUME NEW c \in Calls, Open(c) \/ CheckCallback(c) PROVE Owned'
  <2>1. \A d \in Calls \ {c} : call'[d] = call[d]
    BY <1>11, ProviderForms, FlowForms
  <2>2. call'[c].pc # "saving"
    <3>1. CASE Open(c)
      <4>1. ~ProviderWrites(c) \/ call[c].pc = "opening"
        BY <3>1 DEF Open, At
      <4>2. QED
        BY <3>1, <4>1, ProviderForms DEF Idle
    <3>2. CASE CheckCallback(c)
      BY <3>2, FlowForms DEF Idle
    <3>3. QED
      BY <1>11, <3>1, <3>2
  <2>3. UNCHANGED <<registry, tokens, late>>
    BY <1>11 DEF Open, CheckCallback
  <2>4. QED
    BY <2>1, <2>2, <2>3, <1>1 DEF SameServer
<1>12. ASSUME NEW c \in Calls, \A d \in Calls : Kept(d),
              Migrate(c) \/ ProviderWrites(c) \/ Redirect(c) \/ Exchange(c)
       PROVE  Owned'
  <2>1. MayWrite(c) /\ call[c].target.oauth # None /\ registry' = registry
    BY <1>12 DEF Migrate, ProviderWrites, Redirect, Exchange, At, MayWrite, CallsFollow
  <2>2. \/ \E t \in {call[c].tokens, None} : Write(c, t)
        \/ UNCHANGED <<tokens, late>>
    BY <1>12 DEF Migrate, ProviderWrites, Redirect, Exchange
  <2>3. QED
    BY <2>1, <2>2, <1>3, <1>4, <1>12 DEF SameServer
<1>13. ASSUME \A d \in Calls : Kept(d), SameServer,
              \/ \E c \in Calls :
                    \/ ReconfigureFails(c) \/ Reach(c) \/ RecordHealth(c) \/ PersistRefresh(c)
                    \/ MutationFails(c) \/ ConnectionEnds(c) \/ AwaitCallback(c)
              \/ \E g \in Gateways : Die(g)
              \/ UNCHANGED vars
       PROVE  Owned'
  <2>1. UNCHANGED <<tokens, late>>
    BY <1>13 DEF ReconfigureFails, Reach, RecordHealth, PersistRefresh, MutationFails,
       ConnectionEnds, AwaitCallback, Die, vars
  <2>2. QED
    BY <2>1, <1>3, <1>13
<1>14. QED
  BY <1>5, <1>6, <1>7, <1>8, <1>9, <1>10, <1>11, <1>12, <1>13, CallsKept, EntryKept
  DEF Next, Administer, Step

LEMMA FreshStep ==
    ASSUME HubAssumption, FilesTyped, CallsTyped, CallsFollow, Owned, Fresh, [Next]_vars
    PROVE  Fresh'
<1> USE DEF CallsTyped
<1>1. ASSUME \A d \in Calls : Kept(d), SameServer, ~late' => ~late PROVE Fresh'
  <2>1. SUFFICES ASSUME NEW d \in Calls, call'[d].fresh, MayWrite(d)'
                 PROVE  /\ registry' # None /\ call'[d].target = TargetOf(registry')
                        /\ ~late' => call'[d].tokens \in OwnTokens(call'[d].target)
    BY DEF Fresh
  <2>2. /\ MayWrite(d) /\ call[d].fresh /\ call'[d].target = call[d].target
        /\ call'[d].tokens \in {call[d].tokens, None}
    BY <1>1, <2>1 DEF Kept
  <2>3. /\ registry # None /\ call[d].target = TargetOf(registry)
        /\ ~late => call[d].tokens \in OwnTokens(call[d].target)
    BY <2>2 DEF Fresh
  <2>4. registry' # None /\ TargetOf(registry') = TargetOf(registry)
    BY <1>1, <2>3 DEF SameServer, TargetOf
  <2>5. QED
    BY <1>1, <2>2, <2>3, <2>4 DEF OwnTokens
<1>2. ASSUME NEW c \in Calls, SameServer, \A d \in Calls \ {c} : call'[d] = call[d],
             ~late' => ~late,
             MayWrite(c)' /\ call'[c].fresh =>
                 /\ registry # None /\ call'[c].target = TargetOf(registry)
                 /\ ~late => call'[c].tokens \in OwnTokens(call'[c].target)
      PROVE  Fresh'
  <2>1. registry # None => registry' # None /\ TargetOf(registry') = TargetOf(registry)
    BY <1>2 DEF SameServer, TargetOf
  <2>2. QED
    BY <2>1, <1>2 DEF Fresh, MayWrite
<1>3. ASSUME NEW n \in Endpoint, NEW o \in OAuth \cup {None}, NEW e \in BOOLEAN, Add(n, o, e)
      PROVE  Fresh'
  BY <1>3 DEF Add, Fresh, MayWrite
<1>4. ASSUME NEW c \in Calls, Save(c) PROVE Fresh'
  <2>1. \A d \in Calls : ~(call'[d].fresh /\ MayWrite(d)')
    BY <1>4, AgedKeeps DEF Save, Idle, MayWrite
  <2>2. QED
    BY <2>1 DEF Fresh
<1>5. ASSUME NEW c \in Calls, Delete(c) PROVE Fresh'
  <2>1. \A d \in Calls : d = c \/ ~(call'[d].fresh /\ MayWrite(d)')
    BY <1>5, AgedKeeps DEF Delete, MayWrite
  <2>2. call[c].pc = "deleting" /\ call[c].op # "timedout"
    BY <1>5 DEF Delete, At, CallsFollow
  <2>3. ~MayWrite(c)'
    BY <1>5, <2>2 DEF Delete, Idle, CallRecord, MayWrite
  <2>4. QED
    BY <2>1, <2>3 DEF Fresh
<1>6. ASSUME NEW c \in Calls, NEW g \in Gateways, NEW op \in {"remove", "setOAuth"}, NEW o,
             BeginReconfigure(c, g, op, o)
      PROVE  Fresh'
  <2>1. ~MayWrite(c)' /\ \A d \in Calls \ {c} : call'[d] = call[d]
    BY <1>6 DEF BeginReconfigure, Running, MayWrite
  <2>2. QED
    BY <2>1, <1>2, <1>6 DEF BeginReconfigure, SameServer
<1>7. ASSUME NEW c \in Calls, NEW g \in Gateways, NEW op, Begin(c, g, op)
      PROVE  Fresh'
  <2>1. call'[c].target = TargetOf(registry) /\ call'[c].tokens = None
        /\ \A d \in Calls \ {c} : call'[d] = call[d]
    BY <1>7 DEF Begin, Running
  <2>2. QED
    BY <2>1, <1>2, <1>7 DEF Begin, SameServer, OwnTokens
<1>8. ASSUME NEW c \in Calls, Open(c) \/ CheckCallback(c) PROVE Fresh'
  <2>1. /\ call[c].pc \in {"opening", "checking"} /\ UNCHANGED <<registry, late>>
        /\ \A d \in Calls \ {c} : call'[d] = call[d]
    BY <1>8, ProviderForms, FlowForms DEF Open, CheckCallback, At
  <2>2. SUFFICES ASSUME MayWrite(c)', call'[c].fresh
                 PROVE  /\ registry # None /\ call'[c].target = TargetOf(registry)
                        /\ ~late => call'[c].tokens \in OwnTokens(call'[c].target)
    BY <2>1, <1>2 DEF SameServer
  <2>3. call'[c] # Idle
    BY <2>2 DEF MayWrite, Idle
  <2>4. /\ call'[c].target = call[c].target /\ call[c].fresh
        /\ call'[c].tokens \in {tokens, call[c].tokens, None, Identity(call[c].target),
                                Legacy(call[c].target.endpoint.url)}
    <3>1. CASE Open(c)
      BY <3>1, <2>2, <2>3, ProviderForms
    <3>2. CASE CheckCallback(c)
      BY <3>2, <2>1, <2>2, <2>3, FlowForms DEF CheckCallback, At
    <3>3. QED
      BY <1>8, <3>1, <3>2
  <2>5. /\ registry # None /\ call[c].target = TargetOf(registry)
        /\ ~late => call[c].tokens \in OwnTokens(call[c].target)
    BY <2>1, <2>4 DEF Fresh, MayWrite
  <2>6. ~late => tokens \in {None, Identity(TargetOf(registry)), Legacy(registry.endpoint.url)}
    BY DEF Owned
  <2>7. registry.endpoint = call[c].target.endpoint
    BY <2>5 DEF TargetOf
  <2>8. QED
    BY <2>4, <2>5, <2>6, <2>7 DEF OwnTokens
<1>9. ~(\E c \in Calls : Delete(c)) => (~late' => ~late)
  <2>1. ASSUME NEW c \in Calls, NEW t, Write(c, t) PROVE ~late' => ~late
    BY <2>1, WriteIsLate
  <2>2. ASSUME NEW c \in Calls,
               Migrate(c) \/ ProviderWrites(c) \/ Redirect(c) \/ Exchange(c)
        PROVE  ~late' => ~late
    BY <2>1, <2>2 DEF Migrate, ProviderWrites, Redirect, Exchange
  <2>3. ASSUME NEW c \in Calls, Step(c), ~Delete(c), ~Migrate(c), ~Redirect(c), ~Exchange(c)
        PROVE  late' = late
    BY <2>3 DEF Step, Save, ReconfigureFails, Open, Reach, RecordHealth, PersistRefresh,
       MutationFails, ConnectionEnds, AwaitCallback, CheckCallback
  <2>4. QED
    BY <2>2, <2>3 DEF Next, Administer, Add, SetEnabled, BeginReconfigure, Begin, Die, vars
<1>10. QED
  BY <1>1, <1>3, <1>4, <1>5, <1>6, <1>7, <1>8, <1>9, CallsKept, EntryKept

-----------------------------------------------------------------------------
LEMMA StepInvariant == ASSUME HubAssumption, IInv, [Next]_vars PROVE IInv'
<1>1. FilesTyped /\ CallsTyped /\ Locks
  BY TypeParts DEF IInv
<1>2. FilesTyped' /\ CallsTyped' /\ Locks'
  BY <1>1, FilesTypedStep, CallsTypedStep, LocksStep DEF IInv
<1>3. TypeOK'
  BY <1>2 DEF TypeOK, FilesTyped, CallsTyped, Locks, CallRecord
<1>4. CallsFollow' /\ ChangesServer' /\ LastChangeStands' /\ Owned' /\ Fresh'
  BY <1>1, CallsFollowStep, ChangesServerStep, LastChangeStep, OwnedStep, FreshStep DEF IInv
<1>5. QED
  BY <1>3, <1>4 DEF IInv

(* The parts hold together: a call that no deletion and no save overtook   *)
(* works on the server as it is, so what its provider writes is the        *)
(* server's; what an overtaken call writes is marked late.                 *)
THEOREM HubInvariance == Spec => []IInv
<1>1. Init => IInv
  BY InitInvariant, HubAssumption
<1>2. IInv /\ [Next]_vars => IInv'
  BY StepInvariant, HubAssumption
<1>3. QED
  BY <1>1, <1>2, PTL DEF Spec

(* Every variable has its type, and the registry lock is held by exactly   *)
(* the call that removes the server or changes its OAuth configuration.    *)
THEOREM HubTypes == Spec => []TypeOK
<1>1. IInv => TypeOK
  BY DEF IInv
<1>2. QED
  BY <1>1, HubInvariance, PTL

(* No refresh, health record or tool call brings a removed server back or  *)
(* undoes an administrative change made while it ran, and what it found is *)
(* only kept with the url where it was found.                              *)
THEOREM HubLastChangeStands == Spec => []LastChangeStands
<1>1. IInv => LastChangeStands
  BY DEF IInv
<1>2. QED
  BY <1>1, HubInvariance, PTL

(* Outside a change, and but for providers that write after a change they  *)
(* began before, stored tokens are those of the server as configured.      *)
THEOREM HubCredentialsOfServer == Spec => []CredentialsOfServer
<1>1. IInv => CredentialsOfServer
  BY DEF IInv, Owned, CredentialsOfServer
<1>2. QED
  BY <1>1, HubInvariance, PTL
=============================================================================
