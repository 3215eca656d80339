------------------------------- MODULE McpHub -------------------------------
(***************************************************************************)
(* The dynamic MCP hub: the registry file of remote MCP servers, the       *)
(* discovery that refreshes it, and the OAuth credentials that calls to a  *)
(* server use.  Gateways are processes that share both files.              *)
(*                                                                         *)
(* One server name is modelled: names share only the registry lock, and    *)
(* every operation reads or replaces the entry of one name (a batch        *)
(* refresh is a sequence of refreshes whose results are persisted last).   *)
(* The registry lock is the one PidLock specifies; an operation that only  *)
(* loads, edits and saves under it is one step.                            *)
(***************************************************************************)
EXTENDS Naturals, FiniteSets

CONSTANTS
    Gateways,       \* Gateway processes
    Calls,          \* slots for concurrent tool calls and callbacks
    Urls,           \* urls of endpoints
    Headers,        \* their header references, names of environment variables
    Clients,        \* scope, client id and authentication method
    Secrets,        \* names of the environment variables with client secrets
    None            \* no server, no OAuth, no tokens, no flow, no call

VARIABLES
    registry,       \* the entry of the server in servers.json, or None
    lock,           \* the call that holds the registry lock, or None
    tokens,         \* the tokens under the server's key in the secret store
    legacy,         \* url of the tokens an earlier release left, or None
    pending,        \* pending[g]: identity of the flow g waits for, or None
    call,           \* call[c]: the operation c runs, its step and its locals
    config,         \* ghost: configuration of the last administrative change
    late            \* ghost: a call begun before a reconfiguration wrote after it

vars == <<registry, lock, tokens, legacy, pending, call, config, late>>

Endpoint == [url : Urls, headers : Headers]
OAuth == [client : Clients, secret : Secrets]
Target == [endpoint : Endpoint, oauth : OAuth \cup {None}]

(* What an authorization flow remembers of its target: no environment      *)
(* variable, neither those of the headers nor that of the client secret.   *)
(* Tokens are told apart by the identity they were issued for; those of an *)
(* earlier release are known by their url alone.                           *)
Identities == [url : Urls, client : Clients \cup {None}]
Identity(t) == [url |-> t.endpoint.url,
                client |-> IF t.oauth = None THEN None ELSE t.oauth.client]
Legacy(u) == [url |-> u, client |-> None]

Configurations == [endpoint : Endpoint, oauth : OAuth \cup {None}, enabled : BOOLEAN]

(* The tools and the health it has cached, none of them at first, are told *)
(* apart by the endpoint they describe.                                    *)
Server == [endpoint : Endpoint, oauth : OAuth \cup {None}, enabled : BOOLEAN,
           tools : Endpoint, health : Endpoint]

NewServer(n, o, e) ==
    [endpoint |-> n, oauth |-> o, enabled |-> e, tools |-> n, health |-> n]

Configuration(s) ==
    IF s = None THEN None
    ELSE [endpoint |-> s.endpoint, oauth |-> s.oauth, enabled |-> s.enabled]

TargetOf(s) == [endpoint |-> s.endpoint, oauth |-> s.oauth]

SameRefreshTarget(t, s) == s # None /\ TargetOf(s) = t

(* Absence is told apart from everything else.                             *)
ASSUME HubAssumption ==
    None \notin Urls \cup Clients \cup Calls \cup Endpoint \cup OAuth \cup Target
                \cup Identities \cup Configurations \cup Server

Ops == {"remove", "setOAuth", "disconnect", "start", "status", "refresh",
        "call", "timedout", "callback"}

Steps == {"idle", "deleting", "saving", "opening", "migrating", "working",
          "redirected", "recording", "persisting", "checking", "exchanging"}

Idle == [at |-> None, op |-> "call", pc |-> "idle", target |-> None,
         tokens |-> None, fresh |-> TRUE]

(* Call c runs op at Gateway g on target t (for setOAuth, what it becomes). *)
Running(c, g, op, pc, t) ==
    call' = [call EXCEPT ![c] = [at |-> g, op |-> op, pc |-> pc, target |-> t,
                                 tokens |-> None, fresh |-> TRUE]]

At(c, step) == call[c].pc = step
To(c, step) == call' = [call EXCEPT ![c].pc = step]
Return(c) == call' = [call EXCEPT ![c] = Idle]
Release(c) == lock' = IF lock = c THEN None ELSE lock
ClosePending(g) == pending' = [pending EXCEPT ![g] = None]

(* The credentials may still be written by a call that did not return, and *)
(* by the connection of one that timed out.                                *)
MayWrite(c) ==
    \/ call[c].pc \in {"opening", "migrating", "working", "checking", "exchanging"}
    \/ call[c].op = "timedout"

(* A call that read the registry before a deletion or a save.              *)
Aged(c) ==
    IF MayWrite(c) THEN [call[c] EXCEPT !.fresh = FALSE] ELSE call[c]

(* A provider writes its whole snapshot, whatever the store holds by then. *)
Write(c, t) ==
    /\ tokens' = t
    /\ late' = (late \/ ~call[c].fresh \/ \E d \in Calls : At(d, "saving"))

TypeOK ==
    /\ registry \in Server \cup {None}
    /\ lock \in Calls \cup {None}
    /\ tokens \in Identities \cup {None}
    /\ legacy \in Urls \cup {None}
    /\ pending \in [Gateways -> Identities \cup {None}]
    /\ call \in [Calls -> [at : Gateways \cup {None}, op : Ops, pc : Steps,
                           target : Target \cup {None},
                           tokens : Identities \cup {None}, fresh : BOOLEAN]]
    /\ config \in Configurations \cup {None}
    /\ late \in BOOLEAN
    /\ \A c \in Calls : lock = c <=> /\ call[c].pc \in {"deleting", "saving"}
                                     /\ call[c].op # "disconnect"

Init ==
    /\ registry = None
    /\ lock = None
    /\ tokens = None
    /\ legacy \in Urls \cup {None}
    /\ pending = [g \in Gateways |-> None]
    /\ call = [c \in Calls |-> Idle]
    /\ config = None
    /\ late = FALSE

-----------------------------------------------------------------------------
(* Administration, under the registry lock.                                *)

Add(n, o, e) ==
    /\ lock = None
    /\ registry = None
    /\ registry' = NewServer(n, o, e)
    /\ config' = Configuration(registry')
    /\ UNCHANGED <<lock, tokens, legacy, pending, call, late>>

SetEnabled(e) ==
    /\ lock = None
    /\ registry # None
    /\ registry' = [registry EXCEPT !.enabled = e]
    /\ config' = Configuration(registry')
    /\ UNCHANGED <<lock, tokens, legacy, pending, call, late>>

(* Removal, and a change of an OAuth configuration, first disconnect: they *)
(* close this Gateway's flow, then delete the credentials, then save.      *)
BeginReconfigure(c, g, op, o) ==
    /\ At(c, "idle")
    /\ lock = None
    /\ registry # None
    /\ lock' = c
    /\ LET disconnects == registry.oauth # None
                          /\ (op = "remove" \/ o # registry.oauth)
       IN  /\ Running(c, g, op, IF disconnects THEN "deleting" ELSE "saving",
                      [TargetOf(registry) EXCEPT !.oauth = o])
           /\ IF disconnects THEN ClosePending(g) ELSE UNCHANGED pending
    /\ UNCHANGED <<registry, tokens, legacy, config, late>>

Delete(c) ==
    /\ At(c, "deleting")
    /\ tokens' = None
    /\ late' = FALSE
    /\ call' = [d \in Calls |->
           IF d # c THEN Aged(d)
           ELSE IF call[c].op = "disconnect" THEN Idle
           ELSE [call[c] EXCEPT !.pc = "saving"]]
    /\ UNCHANGED <<registry, lock, legacy, pending, config>>

Save(c) ==
    /\ At(c, "saving")
    /\ registry' = IF call[c].op = "remove" THEN None
                   ELSE [registry EXCEPT !.oauth = call[c].target.oauth]
    /\ config' = Configuration(registry')
    /\ call' = [d \in Calls |-> IF d = c THEN Idle ELSE Aged(d)]
    /\ Release(c)
    /\ UNCHANGED <<tokens, legacy, pending, late>>

(* Mutant: the error path forgets the lock.                                *)
ReconfigureFailsLocked(c) ==
    /\ call[c].pc \in {"deleting", "saving"}
    /\ Return(c)
    /\ UNCHANGED <<registry, lock, tokens, legacy, pending, config, late>>

(* The deletion or the save fails: the operation reports it and releases   *)
(* the lock; what it already did stays done.                               *)
ReconfigureFails(c) ==
    /\ call[c].pc \in {"deleting", "saving"}
    /\ Return(c)
    /\ Release(c)
    /\ UNCHANGED <<registry, tokens, legacy, pending, config, late>>

-----------------------------------------------------------------------------
(* Operations on a server that read the registry without its lock.  A tool *)
(* call is a refresh that persists nothing; at a disabled server both only *)
(* record the failure, which is the operation named call here.             *)

Begin(c, g, op) ==
    /\ At(c, "idle")
    /\ registry # None
    /\ op \in {"disconnect", "start", "status", "callback"} => registry.oauth # None
    /\ op \in {"refresh", "call"} => (op = "refresh") = registry.enabled
    /\ LET pc == CASE op = "disconnect" -> "deleting"
                   [] op = "callback" -> "checking"
                   [] op = "call" -> "recording"
                   [] op = "refresh" /\ registry.oauth = None -> "working"
                   [] OTHER -> "opening"
       IN  Running(c, g, op, pc, TargetOf(registry))
    /\ IF op \in {"disconnect", "start"} THEN ClosePending(g) ELSE UNCHANGED pending
    /\ UNCHANGED <<registry, lock, tokens, legacy, config, late>>

(* The provider takes its snapshot of the credentials.  Without tokens it  *)
(* adopts those an earlier release stored for the same url.                *)
Open(c) ==
    /\ At(c, "opening")
    /\ LET adopts == tokens = None /\ legacy = call[c].target.endpoint.url
       IN  call' = [call EXCEPT ![c] =
               IF adopts THEN [@ EXCEPT !.pc = "migrating", !.tokens = Legacy(legacy)]
               ELSE IF @.op = "status" THEN Idle
               ELSE [@ EXCEPT !.pc = "working", !.tokens = tokens]]
    /\ UNCHANGED <<registry, lock, tokens, legacy, pending, config, late>>

(* The removal of the legacy secret may fail; the failure is swallowed.    *)
Migrate(c) ==
    /\ At(c, "migrating")
    /\ Write(c, call[c].tokens)
    /\ legacy' \in {None, legacy}
    /\ IF call[c].op = "status" THEN Return(c) ELSE To(c, "working")
    /\ UNCHANGED <<registry, lock, pending, config>>

(* While it connects, the MCP client has the provider save new tokens,     *)
(* client, verifier or discovery state, or invalidate the tokens (as a     *)
(* forced start does at once); each replaces the stored state.             *)
ProviderWrites(c) ==
    /\ At(c, "working") \/ call[c].op = "timedout"
    /\ call[c].target.oauth # None
    /\ \E t \in {call[c].tokens, None} :
           /\ Write(c, t)
           /\ call' = [call EXCEPT ![c].tokens = t]
    /\ UNCHANGED <<registry, lock, legacy, pending, config>>

(* The server is reached or not.  Without tools to persist the operation   *)
(* goes on as a call.  After the timeout too; but nothing stops the        *)
(* connection it no longer waits for, whose provider goes on.              *)
Reach(c) ==
    /\ At(c, "working")
    /\ call[c].op = "refresh"
    /\ \/ \E op \in {"refresh", "call"} :
             Running(c, call[c].at, op, "recording", call[c].target)
       \/ /\ call[c].target.oauth # None
          /\ call' = [call EXCEPT ![c].op = "timedout", ![c].pc = "recording"]
    /\ UNCHANGED <<registry, lock, tokens, legacy, pending, config, late>>

AfterRecord(c) ==
    CASE call[c].op = "refresh" -> To(c, "persisting")
      [] call[c].op = "timedout" -> To(c, "working")
      [] OTHER -> Return(c)

RecordHealth(c) ==
    /\ At(c, "recording")
    /\ lock = None
    /\ registry' = IF SameRefreshTarget(call[c].target, registry)
                   THEN [registry EXCEPT !.health = call[c].target.endpoint]
                   ELSE registry
    /\ AfterRecord(c)
    /\ UNCHANGED <<lock, tokens, legacy, pending, config, late>>

(* Mutant: the snapshot the refresh started from is saved with its tools.  *)
PersistSnapshot(c) ==
    /\ At(c, "persisting")
    /\ lock = None
    /\ LET t == call[c].target
       IN  registry' = [NewServer(t.endpoint, t.oauth, TRUE) EXCEPT !.tools = t.endpoint]
    /\ Return(c)
    /\ UNCHANGED <<lock, tokens, legacy, pending, config, late>>

(* A stale discovery is not persisted; a fresh one changes the discovery   *)
(* fields of the latest entry only.                                        *)
PersistRefresh(c) ==
    /\ At(c, "persisting")
    /\ lock = None
    /\ registry' = IF SameRefreshTarget(call[c].target, registry)
                   THEN [registry EXCEPT !.tools = call[c].target.endpoint]
                   ELSE registry
    /\ Return(c)
    /\ UNCHANGED <<lock, tokens, legacy, pending, config, late>>

(* The lock is not obtained in time, or the save fails.                    *)
MutationFails(c) ==
    /\ call[c].pc \in {"recording", "persisting"}
    /\ IF At(c, "recording") THEN AfterRecord(c) ELSE Return(c)
    /\ UNCHANGED <<registry, lock, tokens, legacy, pending, config, late>>

-----------------------------------------------------------------------------
(* Authorization.                                                          *)

(* A start ends authenticated, with an error, or with the verifier of a    *)
(* new flow saved and the user redirected.  So does, unheard, a connection *)
(* whose call timed out.                                                   *)
ConnectionEnds(c) ==
    /\ At(c, "working")
    /\ call[c].op \in {"start", "timedout"}
    /\ Return(c)
    /\ UNCHANGED <<registry, lock, tokens, legacy, pending, config, late>>

Redirect(c) ==
    /\ At(c, "working")
    /\ call[c].op = "start"
    /\ Write(c, call[c].tokens)
    /\ call' = [call EXCEPT ![c].pc = "redirected", ![c].tokens = None]
    /\ UNCHANGED <<registry, lock, legacy, pending, config>>

AwaitCallback(c) ==
    /\ At(c, "redirected")
    /\ pending' = [pending EXCEPT ![call[c].at] = Identity(call[c].target)]
    /\ Return(c)
    /\ UNCHANGED <<registry, lock, tokens, legacy, config, late>>

(* Mutant: a flow is finished whatever it was started for.                 *)
CheckCallbackAnyTarget(c) ==
    /\ At(c, "checking")
    /\ LET flow == pending[call[c].at]
       IN  \/ /\ flow # None
              /\ call' = [call EXCEPT ![c].pc = "exchanging", ![c].tokens = flow]
              /\ UNCHANGED pending
           \/ /\ ClosePending(call[c].at)
              /\ Return(c)
    /\ UNCHANGED <<registry, lock, tokens, legacy, config, late>>

(* A callback whose flow expired, was started for another identity, or     *)
(* that carries another state or an error closes the flow and fails.       *)
(* Otherwise the provider of the flow, not that of the server as it is     *)
(* configured now, exchanges the code.                                     *)
CheckCallback(c) ==
    /\ At(c, "checking")
    /\ LET flow == pending[call[c].at]
       IN  \/ /\ flow # None
              /\ flow = Identity(call[c].target)
              /\ call' = [call EXCEPT ![c].pc = "exchanging", ![c].tokens = flow]
              /\ UNCHANGED pending
           \/ /\ ClosePending(call[c].at)
              /\ Return(c)
    /\ UNCHANGED <<registry, lock, tokens, legacy, config, late>>

(* The exchange of the code saves the tokens, or fails; it then closes     *)
(* whichever flow the Gateway waits for by now.                            *)
Exchange(c) ==
    /\ At(c, "exchanging")
    /\ \/ Write(c, call[c].tokens)
       \/ UNCHANGED <<tokens, late>>
    /\ ClosePending(call[c].at)
    /\ Return(c)
    /\ UNCHANGED <<registry, lock, legacy, config>>

(* A Gateway ends; its lock is reclaimed as PidLock specifies.             *)
Die(g) ==
    /\ \E c \in Calls : call[c].at = g
    /\ pending' = [pending EXCEPT ![g] = None]
    /\ call' = [c \in Calls |-> IF call[c].at = g THEN Idle ELSE call[c]]
    /\ lock' = IF lock # None /\ call[lock].at = g THEN None ELSE lock
    /\ UNCHANGED <<registry, tokens, legacy, config, late>>

-----------------------------------------------------------------------------
Administer ==
    \/ \E n \in Endpoint, o \in OAuth \cup {None}, e \in BOOLEAN : Add(n, o, e)
    \/ \E e \in BOOLEAN : SetEnabled(e)

Step(c) ==
    \/ Delete(c) \/ Save(c) \/ ReconfigureFails(c)
    \/ Open(c) \/ Migrate(c) \/ Reach(c)
    \/ RecordHealth(c) \/ PersistRefresh(c) \/ MutationFails(c)
    \/ ConnectionEnds(c) \/ Redirect(c) \/ AwaitCallback(c)
    \/ CheckCallback(c) \/ Exchange(c)

Next ==
    \/ Administer
    \/ \E c \in Calls, g \in Gateways :
           \/ BeginReconfigure(c, g, "remove", None)
           \/ \E o \in OAuth \cup {None} : BeginReconfigure(c, g, "setOAuth", o)
           \/ \E op \in Ops \ {"remove", "setOAuth", "timedout"} : Begin(c, g, op)
    \/ \E c \in Calls : ProviderWrites(c) \/ Step(c)
    \/ \E g \in Gateways : Die(g)

Spec == Init /\ [][Next]_vars

-----------------------------------------------------------------------------
(* The registry holds the configuration the last administrative change     *)
(* gave it, and its tools and health describe the endpoint it has now: no  *)
(* refresh and no health record brings a server back, undoes a change made *)
(* while it ran, or describes a server removed and added again since.      *)
LastChangeStands ==
    /\ Configuration(registry) = config
    /\ registry # None => /\ registry.tools = registry.endpoint
                          /\ registry.health = registry.endpoint

(* Stored tokens were issued for the url, scope and client the server is   *)
(* configured with: removal and a change of OAuth configuration leave none *)
(* behind, and a flow started for another identity yields none.  Excepted: *)
(* connections in progress across the change, also those of calls that     *)
(* timed out, whose providers write their snapshot back after it.  A flow  *)
(* outlives a change, at another Gateway, of the secret's variable alone.  *)
CredentialsOfServer ==
    (lock = None /\ ~late /\ tokens # None) =>
        /\ registry # None
        /\ tokens \in {Identity(TargetOf(registry)), Legacy(registry.endpoint.url)}
=============================================================================
