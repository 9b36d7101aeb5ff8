---------------------------- MODULE ProxyLifecycle ----------------------------
(***************************************************************************)
(* Starting, stopping and reloading the proxies of one process: PrismPipe  *)
(* (src/src/prism-pipe.ts) and its ProxyInstances (src/src/proxy-instance. *)
(* ts), with the plugin registry of each proxy, their listeners and the    *)
(* store they share.                                                       *)
(*                                                                         *)
(* A task is one call of start, stop, reload or shutdown, of a proxy or of *)
(* the whole process, which runs the proxies' methods in parallel          *)
(* (Promise.all).  pc[t][p] is where task t is in the method of proxy p;   *)
(* every await is a place where other tasks may go on.  The store is the   *)
(* SQLite one: the map needs no opening.                                   *)
(***************************************************************************)
EXTENDS Integers, FiniteSets

CONSTANTS
  Proxy,        \* proxies of the process
  Task,         \* lifecycle calls, numbered in the order they are made
  Calls,        \* calls that may be made: <<kind, proxies>>
  Hooked,       \* proxies with a configured plugin that has hooks
  Faults,       \* whether hooks, imports, the store and ports may fail
  NoServer,     \* no listener
  MaxRequests   \* bound on the requests in flight (model checking only)

Kind == {"start", "stop", "reload", "shutdown"}

ASSUME LifecycleAssumption ==
  /\ Hooked \subseteq Proxy
  /\ Calls \subseteq Kind \X ((SUBSET Proxy) \ {{}})
  /\ \A call \in Calls : call[1] = "shutdown" => call[2] = Proxy
  /\ Faults \in BOOLEAN
  /\ NoServer \notin Task
  /\ MaxRequests \in Nat
  /\ Task \subseteq Nat

VARIABLES
  flag,         \* storeInitialized
  dbOpen,       \* whether the store holds a database handle
  started,      \* ProxyInstance.started
  portInfo,     \* the server of ProxyInstance.portInfo
  registered,   \* plugin names in each proxy's registry
  listening,    \* servers of each proxy that accept connections
  requests,     \* requests each proxy is serving
  phase,        \* state of each task
  kind,         \* what it was asked to do
  pc,           \* where it is with each proxy
  \* Observation only:
  crossed,      \* proxies on which a start and a stop overlapped
  doubled,      \* proxies on which two stops overlapped
  timedOut      \* proxies whose last drain ended by its timer

vars == <<flag, dbOpen, started, portInfo, registered, listening, requests,
          phase, kind, pc, crossed, doubled, timedOut>>

-----------------------------------------------------------------------------
Stops  == {"stop", "reload", "shutdown"}
Starts == {"start", "reload"}

StartPc == {"start", "init", "load", "onStart", "bound"}
StopPc  == {"stop", "onShutdown", "drain"}
Pc      == StartPc \cup StopPc \cup {"none", "ok", "failed"}

TypeOK ==
  /\ flag \in BOOLEAN
  /\ dbOpen \in BOOLEAN
  /\ started \in [Proxy -> BOOLEAN]
  /\ portInfo \in [Proxy -> Task \cup {NoServer}]
  /\ registered \in [Proxy -> SUBSET {"configured", "builtin"}]
  /\ listening \in [Proxy -> SUBSET Task]
  /\ requests \in [Proxy -> 0 .. MaxRequests]
  /\ phase \in [Task -> {"idle", "running", "closing", "resolved", "rejected"}]
  /\ kind \in [Task -> Kind]
  /\ pc \in [Task -> [Proxy -> Pc]]
  /\ crossed \subseteq Proxy
  /\ doubled \subseteq Proxy
  /\ timedOut \subseteq Proxy
  \* a proxy remembers a server exactly while it is started
  /\ \A p \in Proxy : started[p] <=> portInfo[p] # NoServer

Init ==
  /\ flag = FALSE
  /\ dbOpen = FALSE
  /\ started = [p \in Proxy |-> FALSE]
  /\ portInfo = [p \in Proxy |-> NoServer]
  /\ registered = [p \in Proxy |-> {}]
  /\ listening = [p \in Proxy |-> {}]
  /\ requests = [p \in Proxy |-> 0]
  /\ phase = [t \in Task |-> "idle"]
  /\ kind = [t \in Task |-> "start"]
  /\ pc = [t \in Task |-> [p \in Proxy |-> "none"]]
  /\ crossed = {}
  /\ doubled = {}
  /\ timedOut = {}

-----------------------------------------------------------------------------
(* Task u has begun and may still do something to proxy p.                 *)
Active(u, p) ==
  \/ pc[u][p] \in StartPc \cup StopPc
  \/ phase[u] \in {"running", "closing"} /\ pc[u][p] # "none"

(* The call itself: the methods of its proxies begin.                      *)
Begin(t, k, targets) ==
  /\ phase[t] = "idle"
  /\ \A u \in Task : u < t => phase[u] # "idle"
  /\ phase' = [phase EXCEPT ![t] = "running"]
  /\ kind' = [kind EXCEPT ![t] = k]
  /\ pc' = [pc EXCEPT ![t] = [p \in Proxy |->
       IF p \notin targets THEN "none"
                           ELSE IF k = "start" THEN "start" ELSE "stop"]]
  /\ crossed' = crossed \cup {p \in targets : \E u \in Task : Active(u, p) /\
       \/ k \in Stops /\ kind[u] \in Starts
       \/ k \in Starts /\ kind[u] \in Stops}
  /\ doubled' = doubled \cup {p \in targets : \E u \in Task :
       Active(u, p) /\ k \in Stops /\ kind[u] \in Stops}
  /\ UNCHANGED <<flag, dbOpen, started, portInfo, registered, listening,
                 requests, timedOut>>

Goto(t, p, place) == pc' = [pc EXCEPT ![t][p] = place]

-----------------------------------------------------------------------------
(* ProxyInstance.start.                                                    *)

\* Mutant: a proxy counts as started once its plugins are registered.
StartSeenRegistered(t, p) ==
  /\ pc[t][p] = "start"
  /\ registered[p] # {}
  /\ Goto(t, p, "ok")
  /\ UNCHANGED <<flag, dbOpen, started, portInfo, registered, listening,
                 requests, phase, kind, crossed, doubled, timedOut>>

StartAlreadyStarted(t, p) ==
  /\ pc[t][p] = "start"
  /\ started[p]
  /\ Goto(t, p, "ok")
  /\ UNCHANGED <<flag, dbOpen, started, portInfo, registered, listening,
                 requests, phase, kind, crossed, doubled, timedOut>>

(* initStore: nothing to do, or the database is opened and migrated; the   *)
(* flag is set after the await.                                            *)
FindStore(t, p) ==
  /\ pc[t][p] = "start"
  /\ ~started[p]
  /\ flag
  /\ Goto(t, p, "load")
  /\ UNCHANGED <<flag, dbOpen, started, portInfo, registered, listening,
                 requests, phase, kind, crossed, doubled, timedOut>>

OpenStore(t, p) ==
  /\ pc[t][p] = "start"
  /\ ~started[p]
  /\ ~flag
  /\ \/ dbOpen' = TRUE /\ Goto(t, p, "init")
     \/ Faults /\ dbOpen' \in {dbOpen, TRUE} /\ Goto(t, p, "failed")
  /\ UNCHANGED <<flag, started, portInfo, registered, listening, requests,
                 phase, kind, crossed, doubled, timedOut>>

StoreReady(t, p) ==
  /\ pc[t][p] = "init"
  /\ flag' = TRUE
  /\ Goto(t, p, "load")
  /\ UNCHANGED <<dbOpen, started, portInfo, registered, listening, requests,
                 phase, kind, crossed, doubled, timedOut>>

\* Mutant: registering a plugin again replaces it.
NamesReplaced(p) == {}

(* loadPlugins imports the configured plugin, runs its onInit and registers*)
(* it; the built-in one is registered next.  PluginRegistry.register throws*)
(* for a name it already has.                                              *)
Names(p) == IF p \in Hooked THEN {"configured", "builtin"} ELSE {"builtin"}

RegisterFails(t, p) ==
  /\ pc[t][p] = "load"
  /\ \/ Names(p) \cap registered[p] # {} /\ UNCHANGED registered
     \/ Faults /\ p \in Hooked /\ UNCHANGED registered
  /\ Goto(t, p, "failed")
  /\ UNCHANGED <<flag, dbOpen, started, portInfo, listening, requests, phase,
                 kind, crossed, doubled, timedOut>>

(* The listener: app.listen binds the port, or the port is taken.          *)
Bind(t, p) ==
  \/ /\ listening[p] = {}
     /\ listening' = [listening EXCEPT ![p] = {t}]
     /\ timedOut' = timedOut \ {p}
     /\ Goto(t, p, "bound")
  \/ /\ listening[p] # {} \/ Faults
     /\ Goto(t, p, "failed")
     /\ UNCHANGED <<listening, timedOut>>

(* Registered: then the plugin's onStart is awaited, or there is none and  *)
(* the listener is started at once.                                        *)
Register(t, p) ==
  /\ pc[t][p] = "load"
  /\ Names(p) \cap registered[p] = {}
  /\ registered' = [registered EXCEPT ![p] = @ \cup Names(p)]
  /\ IF p \in Hooked
       THEN Goto(t, p, "onStart") /\ UNCHANGED <<listening, timedOut>>
       ELSE Bind(t, p)
  /\ UNCHANGED <<flag, dbOpen, started, portInfo, requests, phase, kind,
                 crossed, doubled>>

AfterOnStart(t, p) ==
  /\ pc[t][p] = "onStart"
  /\ \/ Bind(t, p)
     \/ Faults /\ Goto(t, p, "failed") /\ UNCHANGED <<listening, timedOut>>
  /\ UNCHANGED <<flag, dbOpen, started, portInfo, registered, requests, phase,
                 kind, crossed, doubled>>

(* The 'listening' event.                                                  *)
Serve(t, p) ==
  /\ pc[t][p] = "bound"
  /\ portInfo' = [portInfo EXCEPT ![p] = t]
  /\ started' = [started EXCEPT ![p] = TRUE]
  /\ Goto(t, p, "ok")
  /\ UNCHANGED <<flag, dbOpen, registered, listening, requests, phase, kind,
                 crossed, doubled, timedOut>>

-----------------------------------------------------------------------------
(* ProxyInstance.stop; a reload goes on with start.                        *)

AfterStop(t) == IF kind[t] = "reload" THEN "start" ELSE "ok"

StopNotStarted(t, p) ==
  /\ pc[t][p] = "stop"
  /\ ~started[p]
  /\ Goto(t, p, AfterStop(t))
  /\ UNCHANGED <<flag, dbOpen, started, portInfo, registered, listening,
                 requests, phase, kind, crossed, doubled, timedOut>>

StopHooks(t, p) ==
  /\ pc[t][p] = "stop"
  /\ started[p]
  /\ p \in Hooked
  /\ Goto(t, p, "onShutdown")
  /\ UNCHANGED <<flag, dbOpen, started, portInfo, registered, listening,
                 requests, phase, kind, crossed, doubled, timedOut>>

HookFails(t, p) ==
  /\ Faults
  /\ pc[t][p] = "onShutdown"
  /\ Goto(t, p, "failed")
  /\ UNCHANGED <<flag, dbOpen, started, portInfo, registered, listening,
                 requests, phase, kind, crossed, doubled, timedOut>>

\* Mutant: a stopped proxy keeps its port info.
ForgetKeepsPort(t, p) ==
  /\ started' = [started EXCEPT ![p] = FALSE]
  /\ Goto(t, p, AfterStop(t))
  /\ UNCHANGED portInfo

(* portInfo = undefined and started = false.                               *)
Forget(t, p) ==
  /\ portInfo' = [portInfo EXCEPT ![p] = NoServer]
  /\ started' = [started EXCEPT ![p] = FALSE]
  /\ Goto(t, p, AfterStop(t))

HooksDone(t, p) ==
  /\ started[p] \/ pc[t][p] # "stop"
  /\ pc[t][p] = IF p \in Hooked THEN "onShutdown" ELSE "stop"

\* Mutant: close() is called and not awaited.
CloseServerForgets(t, p) ==
  /\ HooksDone(t, p)
  /\ portInfo[p] \in listening[p]
  /\ listening' = [listening EXCEPT ![p] = @ \ {portInfo[p]}]
  /\ Forget(t, p)
  /\ UNCHANGED <<flag, dbOpen, registered, requests, phase, kind, crossed,
                 doubled, timedOut>>

(* server.close() stops listening; its callback waits for the requests ... *)
CloseServer(t, p) ==
  /\ HooksDone(t, p)
  /\ portInfo[p] \in listening[p]
  /\ listening' = [listening EXCEPT ![p] = @ \ {portInfo[p]}]
  /\ Goto(t, p, "drain")
  /\ UNCHANGED <<flag, dbOpen, started, portInfo, registered, requests, phase,
                 kind, crossed, doubled, timedOut>>

(* ... unless the server no longer listens.                                *)
NothingToClose(t, p) ==
  /\ HooksDone(t, p)
  /\ portInfo[p] \notin listening[p]
  /\ Forget(t, p)
  /\ UNCHANGED <<flag, dbOpen, registered, listening, requests, phase, kind,
                 crossed, doubled, timedOut>>

Drained(t, p) ==
  /\ pc[t][p] = "drain"
  /\ requests[p] = 0
  /\ Forget(t, p)
  /\ UNCHANGED <<flag, dbOpen, registered, listening, requests, phase, kind,
                 crossed, doubled, timedOut>>

\* Mutant: no timer.
DrainForever(t, p) == FALSE /\ UNCHANGED vars

(* setTimeout(resolve, 5000)                                               *)
DrainTimeout(t, p) ==
  /\ pc[t][p] = "drain"
  /\ requests[p] > 0
  /\ timedOut' = timedOut \cup {p}
  /\ Forget(t, p)
  /\ UNCHANGED <<flag, dbOpen, registered, listening, requests, phase, kind,
                 crossed, doubled>>

-----------------------------------------------------------------------------
(* Promise.all of the proxies' methods settles; a resolved call is         *)
(* forgotten.                                                              *)
AllOk(t) == \A p \in Proxy : pc[t][p] \in {"none", "ok"}
Forgotten(t) ==
  /\ kind' = [kind EXCEPT ![t] = "start"]
  /\ pc' = [pc EXCEPT ![t] = [p \in Proxy |-> "none"]]

Resolve(t) ==
  /\ phase[t] = "running"
  /\ AllOk(t)
  /\ phase' = [phase EXCEPT ![t] = IF kind[t] = "shutdown" THEN "closing"
                                                           ELSE "resolved"]
  /\ dbOpen' = IF kind[t] = "shutdown" THEN FALSE ELSE dbOpen
  /\ IF kind[t] = "shutdown" THEN UNCHANGED <<kind, pc>> ELSE Forgotten(t)
  /\ UNCHANGED <<flag, started, portInfo, registered, listening, requests,
                 crossed, doubled, timedOut>>

Reject(t) ==
  /\ phase[t] = "running"
  /\ \E p \in Proxy : pc[t][p] = "failed"
  /\ phase' = [phase EXCEPT ![t] = "rejected"]
  /\ UNCHANGED <<flag, dbOpen, started, portInfo, registered, listening,
                 requests, kind, pc, crossed, doubled, timedOut>>

\* Mutant: storeInitialized stays set.
ShutdownKeepsFlag(t) ==
  /\ phase[t] = "closing"
  /\ phase' = [phase EXCEPT ![t] = "resolved"]
  /\ Forgotten(t)
  /\ UNCHANGED <<flag, dbOpen, started, portInfo, registered, listening,
                 requests, crossed, doubled, timedOut>>

(* After store.close() has been awaited.                                   *)
ShutdownDone(t) ==
  /\ phase[t] = "closing"
  /\ flag' = FALSE
  /\ phase' = [phase EXCEPT ![t] = "resolved"]
  /\ Forgotten(t)
  /\ UNCHANGED <<dbOpen, started, portInfo, registered, listening, requests,
                 crossed, doubled, timedOut>>

-----------------------------------------------------------------------------
(* Clients.                                                                *)
Arrive(p) ==
  /\ listening[p] # {}
  /\ requests[p] < MaxRequests
  /\ requests' = [requests EXCEPT ![p] = @ + 1]
  /\ UNCHANGED <<flag, dbOpen, started, portInfo, registered, listening, phase,
                 kind, pc, crossed, doubled, timedOut>>

Leave(p) ==
  /\ requests[p] > 0
  /\ requests' = [requests EXCEPT ![p] = @ - 1]
  /\ UNCHANGED <<flag, dbOpen, started, portInfo, registered, listening, phase,
                 kind, pc, crossed, doubled, timedOut>>

-----------------------------------------------------------------------------
StartStep(t, p) ==
  \/ StartAlreadyStarted(t, p)
  \/ FindStore(t, p)
  \/ OpenStore(t, p)
  \/ StoreReady(t, p)
  \/ RegisterFails(t, p)
  \/ Register(t, p)
  \/ AfterOnStart(t, p)
  \/ Serve(t, p)

StopStep(t, p) ==
  \/ StopNotStarted(t, p)
  \/ StopHooks(t, p)
  \/ HookFails(t, p)
  \/ CloseServer(t, p)
  \/ NothingToClose(t, p)
  \/ Drained(t, p)
  \/ DrainTimeout(t, p)

Settle(t) == Resolve(t) \/ Reject(t) \/ ShutdownDone(t)

Next ==
  \/ \E t \in Task :
       \/ \E call \in Calls : Begin(t, call[1], call[2])
       \/ \E p \in Proxy : StartStep(t, p) \/ StopStep(t, p)
       \/ Settle(t)
  \/ \E p \in Proxy : Arrive(p) \/ Leave(p)

(* Methods go on after their awaits (hooks, imports and the database come  *)
(* back, timers fire); clients owe nothing.                                *)
Fairness ==
  \A t \in Task :
    /\ WF_vars(Settle(t))
    /\ \A p \in Proxy : WF_vars(StartStep(t, p) \/ StopStep(t, p))

Spec == Init /\ [][Next]_vars /\ Fairness

-----------------------------------------------------------------------------
(* Properties.                                                             *)

Targets(t) == {p \in Proxy : pc[t][p] # "none"}

(* No listener is lost: a server that accepts connections is the one its   *)
(* proxy remembers (proxy-instance.ts:169 closes no other), or its start   *)
(* has still to hear that it listens.                                      *)
ListenerOwned ==
  \A p \in Proxy : \A s \in listening[p] : s = portInfo[p] \/ pc[s][p] = "bound"

(* The store is open under every proxy that serves (prism-pipe.ts:271-287: *)
(* the first start opens it, a shutdown closes it after the proxies'       *)
(* stops), unless somewhere a start and a stop of one proxy overlapped:    *)
(* that proxy may serve over the closed store, and so may any started      *)
(* later, since the overtaken start sets storeInitialized after the close. *)
ServingHasStore ==
  \A p \in Proxy : listening[p] # {} /\ ~dbOpen => crossed # {}

(* A shutdown closes the store under no request in flight, except those of *)
(* a proxy whose drain ran into its timer (proxy-instance.ts:180) or whose *)
(* calls overlapped: a second stop does not wait for the first one's drain.*)
DrainedBeforeClose ==
  [][dbOpen /\ ~dbOpen' =>
       \A p \in Proxy : requests[p] = 0 \/ p \in timedOut \cup doubled \cup crossed]_vars

(* When a stop or a shutdown resolves, the proxies it was called on accept *)
(* no connection; when a start resolves, they do.                          *)
CallsMeanIt ==
  [][\A t \in Task : phase[t] = "running" /\ phase'[t] \in {"closing", "resolved"} =>
       \A p \in Targets(t) \ crossed :
         (listening[p] # {}) <=> (kind[t] \in Starts)]_vars

(* Every lifecycle call settles, whatever the plugins' hooks, the store,   *)
(* the port and the requests in flight do, provided the hooks come back.   *)
CallsSettle ==
  \A t \in Task : phase[t] = "running" ~> phase[t] \in {"resolved", "rejected"}

(* src/README.md:152: `await prism.reload();     // Reload all proxies`.   *)
(* With nothing going wrong, a reload comes back with its proxies serving. *)
ReloadServes ==
  \A t \in Task : kind[t] = "reload" /\ phase[t] = "rejected" => Targets(t) \cap crossed # {}
=============================================================================
