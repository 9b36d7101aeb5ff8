------------------------ MODULE ProxyLifecycleProofs ------------------------
(***************************************************************************)
(* ProxyLifecycle's invariants for any number of proxies and of lifecycle  *)
(* calls, however they overlap and whatever fails: first ListenerOwned,    *)
(* then what is said of the store and of calls that come back.             *)
(*                                                                         *)
(* What keeps two starts of a proxy apart is the plugin registry, not the  *)
(* `started` flag, which both see unset: the built-in plugin can be        *)
(* registered once, so at most one start ever gets past registration.      *)
(***************************************************************************)
EXTENDS ProxyLifecycle, TLAPS

USE LifecycleAssumption

(* Task t holds the proxy's one pass from registration to serving.         *)
Opening(t, p)  == pc[t][p] \in {"onStart", "bound"}
(* Task t is in the part of stop that only a started proxy gets to.        *)
Stopping(t, p) == pc[t][p] \in {"onShutdown", "drain"}

(* What a proxy that has never got past registration looks like.           *)
Fresh(p) ==
  /\ listening[p] = {}
  /\ portInfo[p] = NoServer
  /\ ~started[p]
  /\ \A t \in Task : ~Opening(t, p) /\ ~Stopping(t, p)

(* What a proxy that has looks like.                                       *)
Passed(p) ==
  \* Nobody else opens it, nor stops it before it has opened ...
  /\ \A t, u \in Task : Opening(t, p) =>
       /\ u # t => ~Opening(u, p)
       /\ ~Stopping(u, p)
       /\ portInfo[p] = NoServer /\ ~started[p]
       /\ pc[t][p] = "onStart" => listening[p] = {}
       /\ pc[t][p] = "bound" => listening[p] = {t}
  \* ... its server is the one it remembers from then on ...
  /\ (\A t \in Task : ~Opening(t, p)) => listening[p] \subseteq {portInfo[p]}
  \* ... and never listens again once it is being drained.
  /\ \A t \in Task : pc[t][p] = "drain" => listening[p] = {}

Types ==
  /\ started \in [Proxy -> BOOLEAN]
  /\ portInfo \in [Proxy -> Task \cup {NoServer}]
  /\ registered \in [Proxy -> SUBSET {"configured", "builtin"}]
  /\ listening \in [Proxy -> SUBSET Task]
  /\ pc \in [Task -> [Proxy -> Pc]]

OwnedInv ==
  /\ Types
  /\ \A p \in Proxy :
       IF "builtin" \in registered[p] THEN Passed(p) ELSE Fresh(p)

(* A call that is not under way, or has finished with every proxy, is not  *)
(* in the middle of a method.                                              *)
AtRest(t) == \A p \in Proxy : pc[t][p] \in {"none", "ok"}
RestInv ==
  /\ phase \in [Task -> {"idle", "running", "closing", "resolved", "rejected"}]
  /\ \A t \in Task : phase[t] \in {"idle", "closing", "resolved"} => AtRest(t)

LEMMA OwnedInvInit == Init => OwnedInv
BY DEF Init, OwnedInv, Types, Fresh, Passed, Opening, Stopping, Pc, StartPc, StopPc

(* The invariant only looks at five variables.                             *)
LEMMA OwnedInvStutter ==
  ASSUME OwnedInv,
         UNCHANGED <<started, portInfo, registered, listening, pc>>
  PROVE  OwnedInv'
BY DEF OwnedInv, Types, Fresh, Passed, Opening, Stopping

(* A step of task t with proxy p leaves the other proxies as they are, so  *)
(* only p's own part of the invariant is left to show.                     *)
At(p) == IF "builtin" \in registered[p] THEN Passed(p) ELSE Fresh(p)

LEMMA OwnedAtOneProxy ==
  ASSUME OwnedInv, NEW t \in Task, NEW p \in Proxy, NEW place \in Pc,
         Goto(t, p, place), Types', At(p)',
         \A q \in Proxy \ {p} :
           /\ started'[q] = started[q]
           /\ portInfo'[q] = portInfo[q]
           /\ registered'[q] = registered[q]
           /\ listening'[q] = listening[q]
  PROVE  OwnedInv'
<1>1. \A u \in Task, q \in Proxy \ {p} : pc'[u][q] = pc[u][q]
  BY DEF OwnedInv, Types, Goto
<1>2. ASSUME NEW q \in Proxy \ {p} PROVE At(q)'
  <2>1. At(q)
    BY DEF OwnedInv, At
  <2>2. CASE "builtin" \notin registered[q]
    BY <2>1, <2>2, <1>1 DEF At, Fresh, Opening, Stopping
  <2>3. CASE "builtin" \in registered[q]
    BY <2>1, <2>3, <1>1 DEF At, Passed, Opening, Stopping
  <2>. QED BY <2>2, <2>3
<1>. QED BY <1>2 DEF OwnedInv, At

LEMMA GotoAt ==
  ASSUME Types, NEW t \in Task, NEW p \in Proxy, NEW place \in Pc,
         Goto(t, p, place)
  PROVE  /\ pc' \in [Task -> [Proxy -> Pc]]
         /\ \A u \in Task : pc'[u][p] = IF u = t THEN place ELSE pc[u][p]
BY DEF Types, Goto

(* The part of the one task that opens p.                                  *)
LEMMA OpeningAt ==
  ASSUME NEW t \in Task, NEW p \in Proxy,
         "builtin" \in registered'[p],
         portInfo'[p] = NoServer, ~started'[p], Opening(t, p)',
         \A u \in Task : ~Stopping(u, p)',
         \A u \in Task \ {t} : ~Opening(u, p)',
         pc'[t][p] = "onStart" => listening'[p] = {},
         pc'[t][p] = "bound" => listening'[p] = {t}
  PROVE  At(p)'
<1>1. \A u \in Task : Opening(u, p)' => u = t
  OBVIOUS
<1>2. \A u \in Task : pc'[u][p] # "drain"
  BY DEF Stopping
<1>. QED BY <1>1, <1>2 DEF At, Passed

(* A task that moves outside the critical parts of the methods, or gives   *)
(* up, disturbs nothing.                                                   *)
LEMMA OwnedInvMove ==
  ASSUME OwnedInv, NEW t \in Task, NEW p \in Proxy, NEW place \in Pc,
         Goto(t, p, place),
         pc[t][p] # "bound",
         place \notin {"onStart", "bound", "onShutdown", "drain"},
         UNCHANGED <<started, portInfo, registered, listening>>
  PROVE  OwnedInv'
<1>1. \A u \in Task : pc'[u][p] = IF u = t THEN place ELSE pc[u][p]
  BY GotoAt DEF OwnedInv
<1>2. Types'
  BY GotoAt DEF OwnedInv, Types
<1>3. CASE "builtin" \notin registered[p]
  <2>1. At(p)'
    BY <1>1, <1>3 DEF OwnedInv, At, Fresh, Opening, Stopping
  <2>. QED BY <1>2, <2>1, OwnedAtOneProxy
<1>4. CASE "builtin" \in registered[p]
  <2>1. Passed(p)
    BY <1>4 DEF OwnedInv
  <2>2. \A u \in Task :
          /\ Opening(u, p)' => u # t /\ Opening(u, p) /\ pc'[u][p] = pc[u][p]
          /\ Stopping(u, p)' => Stopping(u, p)
          /\ pc'[u][p] = "drain" => pc[u][p] = "drain"
    BY <1>1 DEF Opening, Stopping
  <2>3. (\A u \in Task : ~Opening(u, p)') => listening[p] \subseteq {portInfo[p]}
    <3>1. CASE Opening(t, p)
      BY <2>1, <3>1 DEF Passed, Opening
    <3>2. CASE ~Opening(t, p)
      BY <1>1, <2>1, <3>2 DEF Passed, Opening
    <3>. QED BY <3>1, <3>2
  <2>4. Passed(p)'
    BY <2>1, <2>2, <2>3 DEF Passed
  <2>5. At(p)'
    BY <1>4, <2>4 DEF At
  <2>. QED BY <1>2, <2>5, OwnedAtOneProxy
<1>. QED BY <1>3, <1>4

(* Every action keeps the invariant.                                       *)
LEMMA BeginOwned ==
  ASSUME OwnedInv, NEW t \in Task, NEW k, NEW targets,
         AtRest(t), Begin(t, k, targets)
  PROVE  OwnedInv'
<1>1. \A u \in Task, q \in Proxy :
        /\ pc'[u][q] = IF u # t THEN pc[u][q]
                       ELSE IF q \notin targets THEN "none"
                       ELSE IF k = "start" THEN "start" ELSE "stop"
  BY DEF OwnedInv, Types, Begin
<1>2. pc' \in [Task -> [Proxy -> Pc]]
  BY DEF OwnedInv, Types, Begin, Pc, StartPc, StopPc
<1>3. UNCHANGED <<started, portInfo, registered, listening>>
  BY DEF Begin
<1>4. \A u \in Task, q \in Proxy :
        /\ Opening(u, q)' <=> Opening(u, q)
        /\ Stopping(u, q)' <=> Stopping(u, q)
        /\ Opening(u, q) \/ Stopping(u, q) => pc'[u][q] = pc[u][q]
  BY <1>1 DEF Opening, Stopping, AtRest
<1>5. ASSUME NEW q \in Proxy PROVE At(q)'
  <2>1. CASE "builtin" \notin registered[q]
    BY <1>3, <1>4, <2>1 DEF OwnedInv, At, Fresh
  <2>2. CASE "builtin" \in registered[q]
    <3>1. Passed(q)
      BY <2>2 DEF OwnedInv
    <3>2. \A u \in Task : pc'[u][q] = "drain" => pc[u][q] = "drain"
      BY <1>4 DEF Stopping
    <3>3. \A u \in Task : Opening(u, q) => pc'[u][q] = pc[u][q]
      BY <1>4
    <3>4. Passed(q)'
      BY <1>3, <1>4, <3>1, <3>2, <3>3 DEF Passed
    <3>. QED BY <1>3, <2>2, <3>4 DEF At
  <2>. QED BY <2>1, <2>2
<1>. QED BY <1>2, <1>3, <1>5 DEF OwnedInv, Types, At

LEMMA StartOwned ==
  ASSUME OwnedInv, NEW t \in Task, NEW p \in Proxy, StartStep(t, p)
  PROVE  OwnedInv'
<1>1. CASE StartAlreadyStarted(t, p)
  BY <1>1, OwnedInvMove DEF StartAlreadyStarted, Pc
<1>2. CASE FindStore(t, p)
  BY <1>2, OwnedInvMove DEF FindStore, Pc, StartPc
<1>3. CASE OpenStore(t, p)
  BY <1>3, OwnedInvMove DEF OpenStore, Pc, StartPc
<1>4. CASE StoreReady(t, p)
  BY <1>4, OwnedInvMove DEF StoreReady, Pc, StartPc
<1>5. CASE RegisterFails(t, p)
  BY <1>5, OwnedInvMove DEF RegisterFails, Pc, StartPc
<1>6. CASE Register(t, p)
  <2>1. Fresh(p) /\ "builtin" \in registered'[p]
    BY <1>6 DEF Register, Names, OwnedInv, Types
  <2>2. \A q \in Proxy \ {p} : registered'[q] = registered[q]
    BY <1>6 DEF Register, OwnedInv, Types
  <2>3. pc[t][p] = "load" /\ UNCHANGED <<started, portInfo>>
    BY <1>6 DEF Register
  <2>4. registered' \in [Proxy -> SUBSET {"configured", "builtin"}]
    BY <1>6 DEF Register, Names, OwnedInv, Types
  <2>5. CASE UNCHANGED listening /\ Goto(t, p, "onStart")
    BY <2>1, <2>2, <2>3, <2>4, <2>5
    DEF Goto, OwnedInv, Types, Fresh, Passed, Opening, Stopping, Pc, StartPc
  <2>6. CASE /\ listening' = [listening EXCEPT ![p] = {t}]
             /\ Goto(t, p, "bound")
    <3>1. "bound" \in Pc
      BY DEF Pc, StartPc
    <3>2. \A u \in Task : pc'[u][p] = IF u = t THEN "bound" ELSE pc[u][p]
      BY <2>6, <3>1, GotoAt DEF OwnedInv
    <3>3. Types'
      <4>1. pc' \in [Task -> [Proxy -> Pc]]
        BY <2>6, <3>1, GotoAt DEF OwnedInv
      <4>2. listening' \in [Proxy -> SUBSET Task]
        BY <2>6 DEF OwnedInv, Types
      <4>. QED BY <2>3, <2>4, <4>1, <4>2 DEF OwnedInv, Types
    <3>4. /\ listening'[p] = {t} /\ portInfo'[p] = NoServer /\ ~started'[p]
          /\ Opening(t, p)'
          /\ \A u \in Task : ~Stopping(u, p)'
          /\ \A u \in Task \ {t} : ~Opening(u, p)'
      BY <2>1, <2>3, <2>6, <3>2
      DEF Fresh, Opening, Stopping, OwnedInv, Types
    <3>5. At(p)'
      BY <2>1, <3>2, <3>4, OpeningAt
    <3>. QED
      BY <2>2, <2>3, <2>6, <3>1, <3>3, <3>5, OwnedAtOneProxy DEF OwnedInv, Types
  <2>7. CASE UNCHANGED listening /\ Goto(t, p, "failed")
    BY <2>1, <2>2, <2>3, <2>4, <2>7
    DEF Goto, OwnedInv, Types, Fresh, Passed, Opening, Stopping, Pc
  <2>. QED BY <1>6, <2>5, <2>6, <2>7 DEF Register, Bind
<1>7. CASE AfterOnStart(t, p)
  <2>1. CASE Goto(t, p, "failed") /\ UNCHANGED listening
    BY <1>7, <2>1, OwnedInvMove DEF AfterOnStart, Pc
  <2>2. CASE /\ listening' = [listening EXCEPT ![p] = {t}]
             /\ Goto(t, p, "bound")
    <3>1. "bound" \in Pc
      BY DEF Pc, StartPc
    <3>2. \A u \in Task : pc'[u][p] = IF u = t THEN "bound" ELSE pc[u][p]
      BY <2>2, <3>1, GotoAt DEF OwnedInv
    <3>3. Types'
      <4>1. pc' \in [Task -> [Proxy -> Pc]]
        BY <2>2, <3>1, GotoAt DEF OwnedInv
      <4>2. listening' \in [Proxy -> SUBSET Task]
        BY <2>2 DEF OwnedInv, Types
      <4>. QED BY <1>7, <4>1, <4>2 DEF AfterOnStart, OwnedInv, Types
    <3>4. Passed(p) /\ Opening(t, p) /\ "builtin" \in registered'[p]
      BY <1>7 DEF AfterOnStart, OwnedInv, Fresh, Opening
    <3>5. /\ listening'[p] = {t} /\ portInfo'[p] = NoServer /\ ~started'[p]
          /\ Opening(t, p)'
          /\ \A u \in Task : ~Stopping(u, p)'
          /\ \A u \in Task \ {t} : ~Opening(u, p)'
      BY <1>7, <2>2, <3>2, <3>4
      DEF AfterOnStart, Passed, Opening, Stopping, OwnedInv, Types
    <3>6. At(p)'
      BY <3>2, <3>4, <3>5, OpeningAt
    <3>. QED
      BY <1>7, <2>2, <3>1, <3>3, <3>6, OwnedAtOneProxy
      DEF AfterOnStart, OwnedInv, Types
  <2>. QED BY <1>7, <2>1, <2>2 DEF AfterOnStart, Bind
<1>8. CASE Serve(t, p)
  <2>1. "ok" \in Pc /\ Goto(t, p, "ok")
    BY <1>8 DEF Pc, Serve
  <2>2. \A u \in Task : pc'[u][p] = IF u = t THEN "ok" ELSE pc[u][p]
    BY <2>1, GotoAt DEF OwnedInv
  <2>3. Types'
    BY <1>8, <2>1, GotoAt DEF OwnedInv, Types, Serve
  <2>4. Passed(p) /\ Opening(t, p) /\ "builtin" \in registered'[p]
    BY <1>8 DEF Serve, OwnedInv, Fresh, Opening
  <2>5. portInfo'[p] = t /\ UNCHANGED listening
    BY <1>8 DEF Serve, OwnedInv, Types
  <2>6. listening[p] = {t} /\ \A u \in Task : ~Opening(u, p)' /\ ~Stopping(u, p)'
    BY <1>8, <2>2, <2>4 DEF Serve, Passed, Opening, Stopping
  <2>7. At(p)'
    BY <2>4, <2>5, <2>6 DEF At, Passed, Stopping
  <2>. QED
    BY <1>8, <2>1, <2>3, <2>7, OwnedAtOneProxy DEF Serve, OwnedInv, Types
<1>. QED
  BY <1>1, <1>2, <1>3, <1>4, <1>5, <1>6, <1>7, <1>8 DEF StartStep

(* Once its server no longer listens, a stop may forget it.                *)
LEMMA ForgetOwned ==
  ASSUME OwnedInv, NEW t \in Task, NEW p \in Proxy, Forget(t, p),
         listening[p] = {}, \A u \in Task : ~Opening(u, p),
         "builtin" \in registered[p],
         UNCHANGED <<registered, listening>>
  PROVE  OwnedInv'
<1>1. AfterStop(t) \in Pc \ {"onStart", "bound", "onShutdown", "drain"}
  BY DEF AfterStop, Pc, StartPc
<1>2. Goto(t, p, AfterStop(t))
  BY DEF Forget
<1>3. \A u \in Task :
        pc'[u][p] = IF u = t THEN AfterStop(t) ELSE pc[u][p]
  BY <1>1, <1>2, GotoAt DEF OwnedInv
<1>4. Types'
  BY <1>1, <1>2, GotoAt DEF OwnedInv, Types, Forget
<1>5. At(p)'
  BY <1>1, <1>3 DEF At, Passed, Opening, Stopping
<1>. QED
  BY <1>1, <1>2, <1>4, <1>5, OwnedAtOneProxy DEF Forget, OwnedInv, Types

LEMMA StopOwned ==
  ASSUME OwnedInv, NEW t \in Task, NEW p \in Proxy, StopStep(t, p)
  PROVE  OwnedInv'
<1>0. started[p] \/ Stopping(t, p) =>
        "builtin" \in registered[p] /\ \A u \in Task : ~Opening(u, p)
  BY DEF OwnedInv, Fresh, Passed
<1>1. CASE StopNotStarted(t, p)
  BY <1>1, OwnedInvMove DEF StopNotStarted, AfterStop, Pc, StartPc
<1>2. CASE StopHooks(t, p)
  BY <1>0, <1>2
  DEF StopHooks, Goto, OwnedInv, Types, Fresh, Passed, Opening, Stopping, Pc,
      StopPc
<1>3. CASE HookFails(t, p)
  BY <1>3, OwnedInvMove DEF HookFails, Pc
<1>4. HooksDone(t, p) => started[p] \/ Stopping(t, p)
  BY DEF HooksDone, Stopping
<1>5. CASE CloseServer(t, p)
  <2>1. listening'[p] = {}
    BY <1>0, <1>4, <1>5 DEF CloseServer, OwnedInv, Types, Passed
  <2>2. "drain" \in Pc /\ Goto(t, p, "drain")
    BY <1>5 DEF CloseServer, Pc, StopPc
  <2>3. \A u \in Task : pc'[u][p] = IF u = t THEN "drain" ELSE pc[u][p]
    BY <2>2, GotoAt DEF OwnedInv
  <2>4. Types'
    BY <1>5, <2>2, GotoAt DEF CloseServer, OwnedInv, Types
  <2>5. \A u \in Task : ~Opening(u, p)'
    BY <1>0, <1>4, <1>5, <2>3 DEF CloseServer, Opening
  <2>6. "builtin" \in registered'[p]
    BY <1>0, <1>4, <1>5 DEF CloseServer
  <2>7. At(p)'
    BY <2>1, <2>5, <2>6 DEF At, Passed
  <2>. QED
    BY <1>5, <2>2, <2>4, <2>7, OwnedAtOneProxy DEF CloseServer, OwnedInv, Types
<1>6. CASE NothingToClose(t, p)
  <2>1. listening[p] = {}
    BY <1>0, <1>4, <1>6 DEF NothingToClose, OwnedInv, Types, Passed
  <2>. QED BY <1>0, <1>4, <1>6, <2>1, ForgetOwned DEF NothingToClose
<1>7. CASE Drained(t, p) \/ DrainTimeout(t, p)
  <2>1. pc[t][p] = "drain" /\ Forget(t, p) /\ UNCHANGED <<registered, listening>>
    BY <1>7 DEF Drained, DrainTimeout
  <2>2. listening[p] = {}
    BY <1>0, <2>1 DEF OwnedInv, Passed, Stopping
  <2>. QED BY <1>0, <2>1, <2>2, ForgetOwned DEF Stopping
<1>. QED
  BY <1>1, <1>2, <1>3, <1>5, <1>6, <1>7 DEF StopStep

LEMMA SettleOwned ==
  ASSUME OwnedInv, NEW t \in Task, AtRest(t), Forgotten(t),
         UNCHANGED <<started, portInfo, registered, listening>>
  PROVE  OwnedInv'
<1>1. \A u \in Task, q \in Proxy :
        pc'[u][q] = IF u = t THEN "none" ELSE pc[u][q]
  BY DEF OwnedInv, Types, Forgotten
<1>2. pc' \in [Task -> [Proxy -> Pc]]
  BY DEF OwnedInv, Types, Forgotten, Pc
<1>. QED
  BY <1>1, <1>2
  DEF OwnedInv, Types, Fresh, Passed, Opening, Stopping, AtRest

(* Who is at rest.                                                         *)
LEMMA MethodNotAtRest ==
  ASSUME RestInv, OwnedInv, NEW t \in Task, NEW p \in Proxy,
         StartStep(t, p) \/ StopStep(t, p)
  PROVE  RestInv'
<1>1. pc[t][p] \notin {"none", "ok"}
  BY DEF StartStep, StopStep, StartAlreadyStarted, FindStore, OpenStore,
         StoreReady, RegisterFails, Register, AfterOnStart, Serve,
         StopNotStarted, StopHooks, HookFails, CloseServer, NothingToClose,
         HooksDone, Drained, DrainTimeout
<1>2. phase[t] \notin {"idle", "closing", "resolved"}
  BY <1>1 DEF RestInv, AtRest
<1>3. UNCHANGED phase /\ \E place : Goto(t, p, place)
  BY DEF StartStep, StopStep, StartAlreadyStarted, FindStore, OpenStore,
         StoreReady, RegisterFails, Register, AfterOnStart, Serve, Bind,
         StopNotStarted, StopHooks, HookFails, CloseServer, NothingToClose,
         Drained, DrainTimeout, Forget
<1>4. \A u \in Task \ {t} : pc'[u] = pc[u]
  BY <1>3 DEF Goto, OwnedInv, Types
<1>. QED BY <1>2, <1>3, <1>4 DEF RestInv, AtRest

LEMMA CallRest ==
  ASSUME RestInv, OwnedInv, NEW t \in Task,
         Settle(t) \/ \E call \in Calls : Begin(t, call[1], call[2])
  PROVE  RestInv'
<1>1. CASE \E call \in Calls : Begin(t, call[1], call[2])
  <2>1. PICK call \in Calls : Begin(t, call[1], call[2])
    BY <1>1
  <2>. QED BY <2>1 DEF Begin, RestInv, AtRest, OwnedInv, Types
<1>2. CASE Resolve(t)
  BY <1>2 DEF Resolve, AllOk, Forgotten, RestInv, AtRest, OwnedInv, Types
<1>3. CASE Reject(t)
  BY <1>3 DEF Reject, RestInv, AtRest
<1>4. CASE ShutdownDone(t)
  BY <1>4 DEF ShutdownDone, Forgotten, RestInv, AtRest, OwnedInv, Types
<1>. QED BY <1>1, <1>2, <1>3, <1>4 DEF Settle

LEMMA LifecycleStep ==
  OwnedInv /\ RestInv /\ [Next]_vars => OwnedInv' /\ RestInv'
<1> SUFFICES ASSUME OwnedInv, RestInv, [Next]_vars
             PROVE  OwnedInv' /\ RestInv'
  OBVIOUS
<1>1. ASSUME NEW t \in Task, NEW p \in Proxy, StartStep(t, p) \/ StopStep(t, p)
      PROVE  OwnedInv' /\ RestInv'
  BY <1>1, StartOwned, StopOwned, MethodNotAtRest
<1>2. ASSUME NEW t \in Task,
             Settle(t) \/ \E call \in Calls : Begin(t, call[1], call[2])
      PROVE  OwnedInv' /\ RestInv'
  <2>1. RestInv'
    BY <1>2, CallRest
  <2>2. CASE \E call \in Calls : Begin(t, call[1], call[2])
    <3>1. AtRest(t)
      BY <2>2 DEF Begin, RestInv
    <3>. QED BY <2>1, <2>2, <3>1, BeginOwned
  <2>3. CASE Resolve(t)
    <3>1. AtRest(t)
      BY <2>3 DEF Resolve, AllOk, AtRest
    <3>2. UNCHANGED <<started, portInfo, registered, listening>>
      BY <2>3 DEF Resolve
    <3>3. Forgotten(t) \/ UNCHANGED pc
      BY <2>3 DEF Resolve
    <3>. QED BY <2>1, <3>1, <3>2, <3>3, SettleOwned, OwnedInvStutter
  <2>4. CASE Reject(t)
    BY <2>1, <2>4, OwnedInvStutter DEF Reject
  <2>5. CASE ShutdownDone(t)
    <3>1. AtRest(t)
      BY <2>5 DEF ShutdownDone, RestInv
    <3>. QED BY <2>1, <2>5, <3>1, SettleOwned DEF ShutdownDone
  <2>. QED BY <1>2, <2>2, <2>3, <2>4, <2>5 DEF Settle
<1>3. ASSUME NEW p \in Proxy, Arrive(p) \/ Leave(p)
      PROVE  OwnedInv' /\ RestInv'
  BY <1>3, OwnedInvStutter DEF Arrive, Leave, RestInv, AtRest
<1>4. CASE UNCHANGED vars
  BY <1>4, OwnedInvStutter DEF vars, RestInv, AtRest
<1>. QED BY <1>1, <1>2, <1>3, <1>4 DEF Next

LEMMA OwnedInvImplies == OwnedInv => ListenerOwned
<1> SUFFICES ASSUME OwnedInv, NEW p \in Proxy, NEW s \in listening[p]
             PROVE  s = portInfo[p] \/ pc[s][p] = "bound"
  BY DEF ListenerOwned
<1>1. s \in Task /\ Passed(p)
  BY DEF OwnedInv, Types, Fresh
<1>2. CASE \E t \in Task : Opening(t, p)
  BY <1>1, <1>2 DEF Passed, Opening
<1>3. CASE \A t \in Task : ~Opening(t, p)
  BY <1>1, <1>3 DEF Passed
<1>. QED BY <1>2, <1>3

(* No start, stop, reload or shutdown, overlapping in any way with any     *)
(* others and failing anywhere, leaves a server listening that its proxy   *)
(* has forgotten and no stop could close.                                  *)
THEOREM ListenerAlwaysOwned == Spec => []ListenerOwned
<1>1. Init => OwnedInv /\ RestInv
  BY OwnedInvInit DEF Init, RestInv, AtRest
<1>. QED BY <1>1, LifecycleStep, OwnedInvImplies, PTL DEF Spec

-----------------------------------------------------------------------------
(***************************************************************************)
(* ServingHasStore, the types of ProxyLifecycle, and what its calls have   *)
(* done when they come back, for any number of proxies and of calls.       *)
(*                                                                         *)
(* A shutdown closes the store in one step and clears storeInitialized in  *)
(* a later one.  As long as no start overlaps a stop of the same proxy, no *)
(* start is past initStore at the first step, and none looks at the flag   *)
(* between the two: a shutdown stops every proxy, so every start that      *)
(* overlaps it is seen.                                                    *)
(***************************************************************************)
HIDE LifecycleAssumption

(* The variables the ownership invariant does not look at, and the proxy   *)
(* that is started exactly while it remembers a server.                    *)
OtherTypes ==
  /\ flag \in BOOLEAN
  /\ dbOpen \in BOOLEAN
  /\ requests \in [Proxy -> 0 .. MaxRequests]
  /\ kind \in [Task -> Kind]
  /\ crossed \subseteq Proxy
  /\ doubled \subseteq Proxy
  /\ timedOut \subseteq Proxy
  /\ \A p \in Proxy : started[p] <=> portInfo[p] # NoServer

(* Only a call that starts is in start, only one that stops in stop; a     *)
(* shutdown is a call on every proxy, and closes the store after them all. *)
Kinds ==
  \A t \in Task :
    /\ \A p \in Proxy :
         /\ pc[t][p] \in StartPc => kind[t] \in Starts
         /\ pc[t][p] \in StopPc => kind[t] \in Stops
         /\ kind[t] = "shutdown" => pc[t][p] # "none"
    /\ phase[t] = "closing" =>
         kind[t] = "shutdown" /\ \A p \in Proxy : pc[t][p] = "ok"

(* No start is under way on a proxy that another call stops.               *)
Apart ==
  \A t, u \in Task : \A p \in Proxy :
    t # u /\ Active(t, p) /\ Active(u, p) =>
      ~(kind[t] \in Stops /\ kind[u] \in Starts)

(* A start past initStore found the store open, and it is open still.      *)
Opened ==
  \A t \in Task, p \in Proxy :
    pc[t][p] \in {"init", "load", "onStart", "bound"} => dbOpen

(* The flag lies about the store only while a shutdown closes it.          *)
Flagged == flag => dbOpen \/ \E t \in Task : phase[t] = "closing"

(* What a shutdown has stopped stays stopped until it resolves.            *)
Shut ==
  \A t \in Task, p \in Proxy :
    /\ kind[t] = "shutdown"
    /\ phase[t] \in {"running", "closing"}
    /\ pc[t][p] = "ok"
    => listening[p] = {}

Served == \A p \in Proxy : listening[p] # {} => dbOpen

Uncrossed == Apart /\ Opened /\ Flagged /\ Shut /\ Served

StoreInv == OtherTypes /\ Kinds /\ (crossed = {} => Uncrossed)
LifecycleInv == OwnedInv /\ RestInv /\ StoreInv

-----------------------------------------------------------------------------
LEMMA StoreInvInit == Init => StoreInv
<1> SUFFICES ASSUME Init PROVE StoreInv
  OBVIOUS
<1>1. OtherTypes
  <2>1. \A p \in Proxy : ~started[p] /\ portInfo[p] = NoServer
    BY DEF Init
  <2>2. requests \in [Proxy -> 0 .. MaxRequests]
    BY LifecycleAssumption DEF Init
  <2>3. kind \in [Task -> Kind]
    BY DEF Init, Kind
  <2>. QED BY <2>1, <2>2, <2>3 DEF Init, OtherTypes
<1>2. \A t \in Task, p \in Proxy :
        pc[t][p] = "none" /\ phase[t] = "idle" /\ kind[t] = "start"
  BY DEF Init
<1>3. Kinds /\ Apart /\ Opened /\ Shut
  BY <1>2 DEF Init, Kinds, Apart, Opened, Shut, Active, StartPc, StopPc
<1>4. Flagged /\ Served
  BY DEF Init, Flagged, Served
<1>. QED BY <1>1, <1>3, <1>4 DEF StoreInv, Uncrossed

(* Every step of a method: one task moves, with one proxy, and its call    *)
(* stays what it is.                                                       *)
Moves(t, p, place) ==
  /\ place \in Pc \ {"none"}
  /\ pc[t][p] \in StartPc \cup StopPc
  /\ \A u \in Task, q \in Proxy :
       pc'[u][q] = IF u = t /\ q = p THEN place ELSE pc[u][q]
  /\ UNCHANGED <<phase, kind, crossed>>

LEMMA GotoMoves ==
  ASSUME OwnedInv, NEW t \in Task, NEW p \in Proxy, NEW place \in Pc \ {"none"},
         Goto(t, p, place), pc[t][p] \in StartPc \cup StopPc,
         UNCHANGED <<phase, kind, crossed>>
  PROVE  Moves(t, p, place)
BY DEF Moves, Goto, OwnedInv, Types

(* Moving makes no task active that was not.                               *)
LEMMA MoveApart ==
  ASSUME Apart, NEW t \in Task, NEW p \in Proxy, NEW place,
         Moves(t, p, place)
  PROVE  Apart'
<1>1. \A u \in Task, q \in Proxy : Active(u, q)' => Active(u, q)
  BY DEF Active, Moves
<1>2. UNCHANGED kind
  BY DEF Moves
<1>. QED BY <1>1, <1>2 DEF Apart

LEMMA MoveKinds ==
  ASSUME Kinds, NEW t \in Task, NEW p \in Proxy, NEW place,
         Moves(t, p, place),
         place \in StartPc => kind[t] \in Starts,
         place \in StopPc => kind[t] \in Stops
  PROVE  Kinds'
<1>1. phase[t] # "closing"
  BY DEF Kinds, Moves, StartPc, StopPc
<1>. QED BY <1>1 DEF Kinds, Moves

(* A task in start is not overtaken by a stop of its proxy, and the store  *)
(* is not being closed.                                                    *)
LEMMA StartAlone ==
  ASSUME Kinds, Apart, NEW t \in Task, NEW p \in Proxy, pc[t][p] \in StartPc
  PROVE  /\ \A u \in Task : phase[u] # "closing"
         /\ \A u \in Task : kind[u] = "shutdown" /\ phase[u] = "running" =>
              u = t
         /\ kind[t] \in Starts
<1>1. Active(t, p) /\ kind[t] \in Starts
  BY DEF Active, Kinds
<1>2. ASSUME NEW u \in Task, kind[u] = "shutdown",
             phase[u] \in {"running", "closing"}
      PROVE  u = t
  <2>1. Active(u, p) /\ kind[u] \in Stops
    BY <1>2 DEF Active, Kinds, Stops
  <2>. QED BY <1>1, <2>1 DEF Apart
<1>3. ASSUME NEW u \in Task, phase[u] = "closing" PROVE FALSE
  <2>1. kind[u] = "shutdown" /\ pc[u][p] = "ok"
    BY <1>3 DEF Kinds
  <2>2. u = t
    BY <1>2, <1>3, <2>1
  <2>. QED BY <2>1, <2>2 DEF StartPc
<1>. QED BY <1>1, <1>2, <1>3

(* The steps of start.                                                     *)
LEMMA StartMoves ==
  ASSUME OwnedInv, NEW t \in Task, NEW p \in Proxy, StartStep(t, p)
  PROVE  /\ pc[t][p] \in StartPc
         /\ \E place \in {"ok", "init", "load", "onStart", "bound", "failed"} :
              Moves(t, p, place)
<1>1. pc[t][p] \in StartPc
  BY DEF StartStep, StartAlreadyStarted, FindStore, OpenStore, StoreReady,
         RegisterFails, Register, AfterOnStart, Serve, StartPc
<1>2. /\ UNCHANGED <<phase, kind, crossed>>
      /\ \E place \in {"ok", "init", "load", "onStart", "bound", "failed"} :
           Goto(t, p, place)
  BY DEF StartStep, StartAlreadyStarted, FindStore, OpenStore, StoreReady,
         RegisterFails, Register, AfterOnStart, Serve, Bind
<1>3. PICK place \in {"ok", "init", "load", "onStart", "bound", "failed"} :
        Goto(t, p, place)
  BY <1>2
<1>4. place \in Pc \ {"none"}
  BY DEF Pc, StartPc
<1>5. Moves(t, p, place)
  BY <1>1, <1>2, <1>3, <1>4, GotoMoves
<1>. QED BY <1>1, <1>5

LEMMA StartTypes ==
  ASSUME OwnedInv, OtherTypes, NEW t \in Task, NEW p \in Proxy, StartStep(t, p)
  PROVE  OtherTypes'
<1>1. flag' \in BOOLEAN /\ dbOpen' \in BOOLEAN
  BY DEF OtherTypes, StartStep, StartAlreadyStarted, FindStore, OpenStore,
         StoreReady, RegisterFails, Register, AfterOnStart, Serve
<1>2. /\ UNCHANGED <<requests, kind, crossed, doubled>>
      /\ timedOut' \subseteq timedOut
  BY DEF StartStep, StartAlreadyStarted, FindStore, OpenStore,
         StoreReady, RegisterFails, Register, AfterOnStart, Serve, Bind
<1>3. CASE Serve(t, p)
  <2>1. /\ started' = [started EXCEPT ![p] = TRUE]
        /\ portInfo' = [portInfo EXCEPT ![p] = t]
        /\ t # NoServer
    BY <1>3, LifecycleAssumption DEF Serve
  <2>2. \A q \in Proxy : started'[q] <=> portInfo'[q] # NoServer
    <3>1. started'[p] /\ portInfo'[p] # NoServer
      BY <2>1 DEF OwnedInv, Types
    <3>2. \A q \in Proxy \ {p} :
            started'[q] = started[q] /\ portInfo'[q] = portInfo[q]
      BY <2>1 DEF OwnedInv, Types
    <3>. QED BY <3>1, <3>2 DEF OtherTypes
  <2>. QED BY <1>1, <1>2, <2>2 DEF OtherTypes
<1>4. CASE UNCHANGED <<started, portInfo>>
  BY <1>1, <1>2, <1>4 DEF OtherTypes
<1>5. Serve(t, p) \/ UNCHANGED <<started, portInfo>>
  BY DEF StartStep, StartAlreadyStarted, FindStore, OpenStore, StoreReady,
         RegisterFails, Register, AfterOnStart
<1>. QED BY <1>3, <1>4, <1>5

LEMMA StartUncrossed ==
  ASSUME OwnedInv, RestInv, OtherTypes, Kinds, Uncrossed,
         NEW t \in Task, NEW p \in Proxy, StartStep(t, p)
  PROVE  Uncrossed'
<1>1. PICK place \in {"ok", "init", "load", "onStart", "bound", "failed"} :
        Moves(t, p, place)
  BY StartMoves
<1>2. pc[t][p] \in StartPc
  BY StartMoves
<1>3. /\ \A u \in Task : phase[u] # "closing"
      /\ \A u \in Task : kind[u] = "shutdown" /\ phase[u] = "running" => u = t
      /\ kind[t] \in Starts
  BY <1>2, StartAlone DEF Uncrossed
<1>4. Apart'
  BY <1>1, MoveApart DEF Uncrossed
<1>5. Shut'
  <2>1. \A u \in Task :
          ~(kind'[u] = "shutdown" /\ phase'[u] \in {"running", "closing"})
    BY <1>1, <1>3 DEF Moves, Starts
  <2>. QED BY <2>1 DEF Shut
<1>6. dbOpen => dbOpen'
  BY DEF OtherTypes, StartStep, StartAlreadyStarted, FindStore, OpenStore,
         StoreReady, RegisterFails, Register, AfterOnStart, Serve
<1>7. flag => dbOpen
  BY <1>3 DEF Uncrossed, Flagged
<1>8. pc[t][p] \in {"init", "load", "onStart", "bound"} => dbOpen
  BY DEF Uncrossed, Opened
<1>9. pc'[t][p] \in {"init", "load", "onStart", "bound"} => dbOpen'
  <2>1. pc'[t][p] = place
    BY <1>1 DEF Moves
  <2>2. CASE pc[t][p] # "start"
    BY <1>2, <1>6, <1>8, <2>2 DEF StartPc
  <2>3. CASE FindStore(t, p)
    BY <1>6, <1>7, <2>3 DEF FindStore
  <2>4. CASE OpenStore(t, p)
    <3>1. CASE dbOpen' = TRUE
      BY <3>1
    <3>2. CASE Goto(t, p, "failed")
      BY <3>2 DEF Goto, OwnedInv, Types
    <3>. QED BY <2>4, <3>1, <3>2 DEF OpenStore
  <2>5. CASE StartAlreadyStarted(t, p)
    BY <2>5 DEF StartAlreadyStarted, Goto, OwnedInv, Types
  <2>. QED
    BY <2>2, <2>3, <2>4, <2>5
    DEF StartStep, StoreReady, RegisterFails, Register, AfterOnStart, Serve
<1>10. Opened'
  BY <1>1, <1>6, <1>9 DEF Opened, Uncrossed, Moves
<1>11. Flagged'
  <2>1. flag' => flag \/ pc[t][p] = "init"
    BY DEF StartStep, StartAlreadyStarted, FindStore, OpenStore,
           StoreReady, RegisterFails, Register, AfterOnStart, Serve
  <2>. QED BY <1>6, <1>7, <1>8, <2>1 DEF Flagged
<1>12. Served'
  <2>1. UNCHANGED listening \/ pc[t][p] \in {"load", "onStart"}
    BY DEF StartStep, StartAlreadyStarted, FindStore, OpenStore,
           StoreReady, RegisterFails, Register, AfterOnStart, Serve
  <2>. QED BY <1>6, <1>8, <2>1 DEF Served, Uncrossed
<1>. QED BY <1>4, <1>5, <1>10, <1>11, <1>12 DEF Uncrossed

LEMMA StartStore ==
  ASSUME LifecycleInv, NEW t \in Task, NEW p \in Proxy, StartStep(t, p)
  PROVE  StoreInv'
<1>1. PICK place \in {"ok", "init", "load", "onStart", "bound", "failed"} :
        Moves(t, p, place)
  BY StartMoves DEF LifecycleInv
<1>2. kind[t] \in Starts
  BY StartMoves DEF LifecycleInv, StoreInv, Kinds
<1>3. place \notin StopPc
  BY DEF StopPc
<1>4. Kinds'
  BY <1>1, <1>2, <1>3, MoveKinds DEF LifecycleInv, StoreInv
<1>5. UNCHANGED crossed
  BY <1>1 DEF Moves
<1>. QED
  BY <1>4, <1>5, StartTypes, StartUncrossed DEF LifecycleInv, StoreInv

-----------------------------------------------------------------------------
(* The steps of stop.                                                      *)
LEMMA StopMoves ==
  ASSUME OwnedInv, Kinds, NEW t \in Task, NEW p \in Proxy, StopStep(t, p)
  PROVE  \E place \in {"ok", "start", "onShutdown", "drain", "failed"} :
           /\ Moves(t, p, place)
           /\ place = "start" => kind[t] \in Starts
<1>1. pc[t][p] \in StopPc
  BY DEF StopStep, StopNotStarted, StopHooks, HookFails, HooksDone, CloseServer,
         NothingToClose, Drained, DrainTimeout, StopPc
<1>2. /\ UNCHANGED <<phase, kind, crossed>>
      /\ \E place \in {AfterStop(t), "onShutdown", "drain", "failed"} :
           Goto(t, p, place)
  BY DEF StopStep, StopNotStarted, StopHooks, HookFails, CloseServer,
         NothingToClose, Drained, DrainTimeout, Forget
<1>3. PICK place \in {AfterStop(t), "onShutdown", "drain", "failed"} :
        Goto(t, p, place)
  BY <1>2
<1>4. /\ place \in {"ok", "start", "onShutdown", "drain", "failed"}
      /\ place = "start" => kind[t] \in Starts
  BY DEF AfterStop, Starts
<1>5. place \in Pc \ {"none"}
  BY <1>4 DEF Pc, StartPc, StopPc
<1>6. Moves(t, p, place)
  BY <1>1, <1>2, <1>3, <1>5, GotoMoves
<1>. QED BY <1>4, <1>6

LEMMA StopTypes ==
  ASSUME OwnedInv, OtherTypes, NEW t \in Task, NEW p \in Proxy, StopStep(t, p)
  PROVE  OtherTypes'
<1>1. /\ UNCHANGED <<flag, dbOpen, requests, kind, crossed, doubled>>
      /\ timedOut' \subseteq timedOut \cup {p}
  BY DEF StopStep, StopNotStarted, StopHooks, HookFails, CloseServer,
         NothingToClose, Drained, DrainTimeout
<1>2. CASE Forget(t, p)
  <2>1. started'[p] = FALSE /\ portInfo'[p] = NoServer
    BY <1>2 DEF Forget, OwnedInv, Types
  <2>2. \A q \in Proxy \ {p} :
          started'[q] = started[q] /\ portInfo'[q] = portInfo[q]
    BY <1>2 DEF Forget, OwnedInv, Types
  <2>3. \A q \in Proxy : started'[q] <=> portInfo'[q] # NoServer
    BY <2>1, <2>2 DEF OtherTypes
  <2>. QED BY <1>1, <2>3 DEF OtherTypes
<1>3. CASE UNCHANGED <<started, portInfo>>
  BY <1>1, <1>3 DEF OtherTypes
<1>4. Forget(t, p) \/ UNCHANGED <<started, portInfo>>
  BY DEF StopStep, StopNotStarted, StopHooks, HookFails, CloseServer,
         NothingToClose, Drained, DrainTimeout
<1>. QED BY <1>2, <1>3, <1>4

(* A stop that is through with its proxy leaves nothing listening, unless  *)
(* a start is under way.                                                   *)
LEMMA StopShuts ==
  ASSUME OwnedInv, OtherTypes, NEW t \in Task, NEW p \in Proxy, StopStep(t, p),
         \A u \in Task : ~Opening(u, p), pc'[t][p] = "ok"
  PROVE  listening'[p] = {}
<1>1. listening[p] \subseteq {portInfo[p]} \cap Task
  BY DEF OwnedInv, Fresh, Passed, Types
<1>2. CASE StopNotStarted(t, p)
  <2>1. portInfo[p] = NoServer
    BY <1>2 DEF StopNotStarted, OtherTypes
  <2>2. listening[p] = {}
    BY <1>1, <2>1, LifecycleAssumption
  <2>. QED BY <1>2, <2>2 DEF StopNotStarted
<1>3. CASE NothingToClose(t, p)
  BY <1>1, <1>3 DEF NothingToClose
<1>4. CASE Drained(t, p) \/ DrainTimeout(t, p)
  <2>1. pc[t][p] = "drain" /\ UNCHANGED listening
    BY <1>4 DEF Drained, DrainTimeout
  <2>. QED BY <2>1 DEF OwnedInv, Fresh, Passed, Stopping
<1>5. CASE StopHooks(t, p) \/ HookFails(t, p) \/ CloseServer(t, p)
  BY <1>5 DEF StopHooks, HookFails, CloseServer, Goto, OwnedInv, Types
<1>. QED BY <1>2, <1>3, <1>4, <1>5 DEF StopStep

LEMMA StopUncrossed ==
  ASSUME OwnedInv, RestInv, OtherTypes, Kinds, Uncrossed,
         NEW t \in Task, NEW p \in Proxy, StopStep(t, p)
  PROVE  Uncrossed'
<1>1. PICK place \in {"ok", "start", "onShutdown", "drain", "failed"} :
        Moves(t, p, place)
  BY StopMoves
<1>2. UNCHANGED <<flag, dbOpen, phase, kind>>
  BY DEF StopStep, StopNotStarted, StopHooks, HookFails, CloseServer,
         NothingToClose, Drained, DrainTimeout
<1>3. \A q \in Proxy : listening'[q] \subseteq listening[q]
  BY DEF StopStep, StopNotStarted, StopHooks, HookFails, CloseServer,
         NothingToClose, Drained, DrainTimeout, OwnedInv, Types
<1>4. Apart' /\ Flagged' /\ Served'
  BY <1>1, <1>2, <1>3, MoveApart DEF Uncrossed, Flagged, Served
<1>5. Opened'
  BY <1>1, <1>2 DEF Opened, Uncrossed, Moves
<1>6. ASSUME NEW u \in Task, NEW q \in Proxy, kind'[u] = "shutdown",
             phase'[u] \in {"running", "closing"}, pc'[u][q] = "ok"
      PROVE  listening'[q] = {}
  <2>1. CASE u = t /\ q = p
    <3>1. Active(t, p) /\ kind[t] \in Stops
      BY <1>1, <1>2, <1>6, <2>1 DEF Active, Moves, Stops
    <3>2. \A v \in Task : Opening(v, p) =>
             Active(v, p) /\ kind[v] \in Starts /\ v # t
      <4>1. kind[t] \notin Starts
        BY <1>2, <1>6, <2>1 DEF Starts
      <4>. QED BY <4>1 DEF Opening, Active, Kinds, StartPc
    <3>3. \A v \in Task : ~Opening(v, p)
      BY <3>1, <3>2 DEF Uncrossed, Apart
    <3>. QED BY <1>6, <2>1, <3>3, StopShuts
  <2>2. CASE ~(u = t /\ q = p)
    <3>1. pc[u][q] = "ok"
      BY <1>1, <1>6, <2>2 DEF Moves
    <3>2. listening[q] = {}
      BY <1>2, <1>6, <3>1 DEF Uncrossed, Shut
    <3>. QED BY <1>3, <3>2
  <2>. QED BY <2>1, <2>2
<1>7. Shut'
  BY <1>6 DEF Shut
<1>. QED BY <1>4, <1>5, <1>7 DEF Uncrossed

LEMMA StopStore ==
  ASSUME LifecycleInv, NEW t \in Task, NEW p \in Proxy, StopStep(t, p)
  PROVE  StoreInv'
<1>1. PICK place \in {"ok", "start", "onShutdown", "drain", "failed"} :
        /\ Moves(t, p, place)
        /\ place = "start" => kind[t] \in Starts
  BY StopMoves DEF LifecycleInv, StoreInv
<1>2. pc[t][p] \in StopPc /\ kind[t] \in Stops
  BY DEF StopStep, StopNotStarted, StopHooks, HookFails, HooksDone, CloseServer,
         NothingToClose, Drained, DrainTimeout, StopPc, LifecycleInv, StoreInv,
         Kinds
<1>3. place \in StartPc => kind[t] \in Starts
  BY <1>1 DEF StartPc
<1>4. Kinds'
  BY <1>1, <1>2, <1>3, MoveKinds DEF LifecycleInv, StoreInv
<1>5. UNCHANGED crossed
  BY <1>1 DEF Moves
<1>. QED
  BY <1>4, <1>5, StopTypes, StopUncrossed DEF LifecycleInv, StoreInv

-----------------------------------------------------------------------------
(* The calls: beginning, settling.                                         *)
LEMMA BeginStore ==
  ASSUME LifecycleInv, NEW t \in Task, NEW call \in Calls,
         Begin(t, call[1], call[2])
  PROVE  StoreInv'
<1> DEFINE k == call[1]
           targets == call[2]
<1>1. /\ k \in Kind
      /\ targets \subseteq Proxy
      /\ k = "shutdown" => targets = Proxy
  BY LifecycleAssumption
<1>2. /\ phase[t] = "idle" /\ phase'[t] = "running" /\ kind'[t] = k
      /\ \A u \in Task \ {t} : phase'[u] = phase[u] /\ kind'[u] = kind[u]
  BY DEF Begin, LifecycleInv, RestInv, StoreInv, OtherTypes
<1>3. \A u \in Task, q \in Proxy :
        pc'[u][q] = IF u # t THEN pc[u][q]
                    ELSE IF q \notin targets THEN "none"
                    ELSE IF k = "start" THEN "start" ELSE "stop"
  BY DEF Begin, LifecycleInv, OwnedInv, Types
<1>4. UNCHANGED <<flag, dbOpen, started, portInfo, listening, requests, timedOut>>
  BY DEF Begin
<1>5. /\ crossed \subseteq crossed'
      /\ crossed' = {} => \A q \in targets, u \in Task : Active(u, q) =>
           /\ ~(k \in Stops /\ kind[u] \in Starts)
           /\ ~(k \in Starts /\ kind[u] \in Stops)
  BY DEF Begin
<1>6. OtherTypes'
  <2>1. crossed' \subseteq Proxy /\ doubled' \subseteq Proxy
    BY <1>1 DEF Begin, LifecycleInv, StoreInv, OtherTypes
  <2>2. kind' \in [Task -> Kind]
    BY <1>1 DEF Begin, LifecycleInv, StoreInv, OtherTypes
  <2>. QED BY <1>4, <2>1, <2>2 DEF LifecycleInv, StoreInv, OtherTypes
<1> HIDE DEF k, targets
<1>7. Kinds'
  <2>1. k # "start" => k \in Stops
    BY <1>1 DEF Kind, Stops
  <2>2. "start" \in Starts
    BY DEF Starts
  <2>3. /\ "none" \notin StartPc \cup StopPc
        /\ "start" \in StartPc \ StopPc
        /\ "stop" \in StopPc \ StartPc
    BY DEF StartPc, StopPc
  <2>4. ASSUME NEW u \in Task, u # t, NEW q \in Proxy
        PROVE  pc'[u][q] = pc[u][q] /\ phase'[u] = phase[u] /\ kind'[u] = kind[u]
    BY <1>2, <1>3, <2>4
  <2>5. ASSUME NEW u \in Task, u # t
        PROVE  phase'[u] = phase[u] /\ kind'[u] = kind[u]
    BY <1>2, <2>5
  <2>6. \A q \in Proxy :
          /\ pc'[t][q] \in StartPc => kind'[t] \in Starts
          /\ pc'[t][q] \in StopPc => kind'[t] \in Stops
          /\ kind'[t] = "shutdown" => pc'[t][q] # "none"
    BY <1>1, <1>2, <1>3, <2>1, <2>2, <2>3
  <2>. QED BY <1>2, <2>4, <2>5, <2>6 DEF Kinds, LifecycleInv, StoreInv
<1>8. ASSUME crossed' = {} PROVE Uncrossed'
  <2>1. Uncrossed
    BY <1>5, <1>8 DEF LifecycleInv, StoreInv
  <2>2. \A u \in Task \ {t}, q \in Proxy : Active(u, q)' => Active(u, q)
    BY <1>2, <1>3 DEF Active
  <2>3. \A q \in Proxy : Active(t, q)' => q \in targets
    BY <1>3 DEF Active, StartPc, StopPc
  <2>4. Apart'
    <3> SUFFICES ASSUME NEW u \in Task, NEW v \in Task, NEW q \in Proxy,
                        u # v, Active(u, q)', Active(v, q)',
                        kind'[u] \in Stops, kind'[v] \in Starts
                 PROVE  FALSE
      BY DEF Apart
    <3>1. CASE u # t /\ v # t
      <4>1. Active(u, q) /\ Active(v, q)
        BY <2>2, <3>1
      <4>2. kind[u] \in Stops /\ kind[v] \in Starts
        BY <1>2, <3>1
      <4>. QED BY <2>1, <4>1, <4>2 DEF Uncrossed, Apart
    <3>2. CASE u = t
      <4>1. Active(v, q) /\ q \in targets
        BY <2>2, <2>3, <3>2
      <4>2. k \in Stops /\ kind[v] \in Starts
        BY <1>2, <3>2
      <4>. QED BY <1>5, <1>8, <4>1, <4>2
    <3>3. CASE v = t
      <4>1. Active(u, q) /\ q \in targets
        BY <2>2, <2>3, <3>3
      <4>2. kind[u] \in Stops /\ k \in Starts
        BY <1>2, <3>3
      <4>. QED BY <1>5, <1>8, <4>1, <4>2
    <3>. QED BY <3>1, <3>2, <3>3
  <2>5. Opened'
    BY <1>3, <1>4, <2>1 DEF Uncrossed, Opened
  <2>6. Flagged'
    BY <1>2, <1>4, <2>1 DEF Uncrossed, Flagged
  <2>7. Shut'
    <3> SUFFICES ASSUME NEW u \in Task, NEW q \in Proxy, kind'[u] = "shutdown",
                        phase'[u] \in {"running", "closing"}, pc'[u][q] = "ok"
                 PROVE  listening'[q] = {}
      BY DEF Shut
    <3>1. u # t
      BY <1>3
    <3>. QED BY <1>2, <1>3, <1>4, <2>1, <3>1 DEF Uncrossed, Shut
  <2>8. Served'
    BY <1>4, <2>1 DEF Uncrossed, Served
  <2>. QED BY <2>4, <2>5, <2>6, <2>7, <2>8 DEF Uncrossed
<1>. QED BY <1>6, <1>7, <1>8 DEF StoreInv

(* A call that settles leaves the others as they are, and closes the store *)
(* or is forgotten or rejected.                                            *)
LEMMA SettleAt ==
  ASSUME LifecycleInv, NEW t \in Task, Settle(t)
  PROVE  /\ UNCHANGED <<started, portInfo, listening, requests, crossed, doubled,
                        timedOut>>
         /\ \A u \in Task \ {t} :
              phase'[u] = phase[u] /\ kind'[u] = kind[u] /\ pc'[u] = pc[u]
         /\ \/ /\ kind[t] = "shutdown" /\ phase[t] = "running"
               /\ \A q \in Proxy : pc[t][q] = "ok"
               /\ UNCHANGED <<kind, pc, flag>> /\ dbOpen' = FALSE
               /\ phase'[t] = "closing"
            \/ /\ phase'[t] = "resolved" /\ kind'[t] = "start"
               /\ \A q \in Proxy : pc'[t][q] = "none"
               /\ UNCHANGED dbOpen
               /\ flag' \in {flag, FALSE}
               /\ phase[t] = "running" \/ flag' = FALSE
            \/ /\ phase'[t] = "rejected" /\ phase[t] = "running"
               /\ UNCHANGED <<kind, pc, flag, dbOpen>>
<1>1. /\ UNCHANGED <<started, portInfo, listening, requests, crossed, doubled,
                     timedOut>>
      /\ \A u \in Task \ {t} :
           phase'[u] = phase[u] /\ kind'[u] = kind[u] /\ pc'[u] = pc[u]
  <2>1. UNCHANGED <<started, portInfo, listening, requests, crossed, doubled,
                    timedOut>>
    BY DEF Settle, Resolve, Reject, ShutdownDone
  <2>2. Forgotten(t) \/ UNCHANGED <<kind, pc>>
    BY DEF Settle, Resolve, Reject, ShutdownDone
  <2>3. \A u \in Task \ {t} : kind'[u] = kind[u] /\ pc'[u] = pc[u]
    BY <2>2 DEF Forgotten, LifecycleInv, OwnedInv, Types, StoreInv, OtherTypes
  <2>4. \A u \in Task \ {t} : phase'[u] = phase[u]
    BY DEF Settle, Resolve, Reject, ShutdownDone, LifecycleInv, RestInv
  <2>. QED BY <2>1, <2>3, <2>4
<1>2. Kinds /\ phase \in [Task -> {"idle", "running", "closing", "resolved", "rejected"}]
  BY DEF LifecycleInv, StoreInv, RestInv
<1>3. \/ /\ kind[t] = "shutdown" /\ phase[t] = "running"
         /\ \A q \in Proxy : pc[t][q] = "ok"
         /\ UNCHANGED <<kind, pc, flag>> /\ dbOpen' = FALSE
         /\ phase'[t] = "closing"
      \/ /\ phase'[t] = "resolved" /\ kind'[t] = "start"
         /\ \A q \in Proxy : pc'[t][q] = "none"
         /\ UNCHANGED dbOpen
         /\ flag' \in {flag, FALSE}
         /\ phase[t] = "running" \/ flag' = FALSE
      \/ /\ phase'[t] = "rejected" /\ phase[t] = "running"
         /\ UNCHANGED <<kind, pc, flag, dbOpen>>
  <2>1. CASE Resolve(t) /\ kind[t] = "shutdown"
    <3>1. \A q \in Proxy : pc[t][q] = "ok"
      BY <1>2, <2>1 DEF Resolve, AllOk, Kinds
    <3>. QED BY <1>2, <2>1, <3>1 DEF Resolve
  <2>2. CASE Resolve(t) /\ kind[t] # "shutdown"
    BY <1>2, <2>2 DEF Resolve, Forgotten, LifecycleInv, OwnedInv, Types,
                      StoreInv, OtherTypes
  <2>3. CASE Reject(t)
    BY <1>2, <2>3 DEF Reject
  <2>4. CASE ShutdownDone(t)
    BY <1>2, <2>4 DEF ShutdownDone, Forgotten, LifecycleInv, OwnedInv, Types,
                      StoreInv, OtherTypes
  <2>. QED BY <2>1, <2>2, <2>3, <2>4 DEF Settle
<1>. QED BY <1>1, <1>3

(* It is no more active than before; only a shutdown that closes the store *)
(* touches what the invariant is about.                                    *)
LEMMA SettleStore ==
  ASSUME LifecycleInv, NEW t \in Task, Settle(t)
  PROVE  StoreInv'
<1>1. /\ UNCHANGED <<started, portInfo, listening, requests, crossed, doubled,
                     timedOut>>
      /\ \A u \in Task \ {t} :
           phase'[u] = phase[u] /\ kind'[u] = kind[u] /\ pc'[u] = pc[u]
  BY SettleAt
<1>2. OtherTypes'
  <2>1. flag' \in BOOLEAN /\ dbOpen' \in BOOLEAN
    BY DEF Settle, Resolve, Reject, ShutdownDone, LifecycleInv, StoreInv,
           OtherTypes
  <2>2. kind' \in [Task -> Kind]
    <3>1. "start" \in Kind
      BY DEF Kind
    <3>. QED
      BY <3>1 DEF Settle, Resolve, Reject, ShutdownDone, Forgotten,
                  LifecycleInv, StoreInv, OtherTypes
  <2>. QED BY <1>1, <2>1, <2>2 DEF LifecycleInv, StoreInv, OtherTypes
<1>3. Kinds /\ phase \in [Task -> {"idle", "running", "closing", "resolved", "rejected"}]
  BY DEF LifecycleInv, StoreInv, RestInv
<1>4. \/ /\ kind[t] = "shutdown" /\ phase[t] = "running"
         /\ \A q \in Proxy : pc[t][q] = "ok"
         /\ UNCHANGED <<kind, pc, flag>> /\ dbOpen' = FALSE
         /\ phase'[t] = "closing"
      \/ /\ phase'[t] = "resolved" /\ kind'[t] = "start"
         /\ \A q \in Proxy : pc'[t][q] = "none"
         /\ UNCHANGED dbOpen
         /\ flag' \in {flag, FALSE}
         /\ phase[t] = "running" \/ flag' = FALSE
      \/ /\ phase'[t] = "rejected" /\ phase[t] = "running"
         /\ UNCHANGED <<kind, pc, flag, dbOpen>>
  BY SettleAt
<1>5. \A u \in Task, q \in Proxy : Active(u, q)' =>
        Active(u, q) /\ kind'[u] = kind[u] /\ pc'[u][q] = pc[u][q]
  <2>1. ASSUME NEW q \in Proxy, Active(t, q)'
        PROVE  Active(t, q) /\ UNCHANGED <<kind, pc>>
    BY <1>4, <2>1 DEF Active, StartPc, StopPc
  <2>. QED BY <1>1, <2>1 DEF Active
<1>6. Kinds'
  <2>1. \A q \in Proxy :
          /\ pc'[t][q] \in StartPc => kind'[t] \in Starts
          /\ pc'[t][q] \in StopPc => kind'[t] \in Stops
          /\ kind'[t] = "shutdown" => pc'[t][q] # "none"
    <3>1. CASE UNCHANGED <<kind, pc>>
      BY <1>3, <3>1 DEF Kinds
    <3>2. CASE kind'[t] = "start" /\ \A q \in Proxy : pc'[t][q] = "none"
      BY <3>2 DEF StartPc, StopPc
    <3>. QED BY <1>4, <3>1, <3>2
  <2>2. phase'[t] = "closing" =>
          kind'[t] = "shutdown" /\ \A q \in Proxy : pc'[t][q] = "ok"
    BY <1>4
  <2>. QED BY <1>1, <1>3, <2>1, <2>2 DEF Kinds
<1>7. ASSUME Uncrossed PROVE Uncrossed'
  <2>1. Apart'
    BY <1>5, <1>7 DEF Uncrossed, Apart
  <2>2. \A u \in Task, q \in Proxy :
          pc'[u][q] \in {"init", "load", "onStart", "bound"} =>
            pc[u][q] = pc'[u][q]
    BY <1>1, <1>4
  <2>3. CASE dbOpen' = FALSE /\ phase'[t] = "closing"
    <3>1. /\ kind[t] = "shutdown" /\ phase[t] = "running"
          /\ \A q \in Proxy : pc[t][q] = "ok"
      BY <1>4, <2>3
    <3>2. \A u \in Task, q \in Proxy :
            pc[u][q] \notin {"init", "load", "onStart", "bound"}
      BY <1>3, <1>7, <3>1, StartAlone DEF StartPc, Uncrossed
    <3>3. \A q \in Proxy : listening[q] = {}
      BY <1>7, <3>1 DEF Uncrossed, Shut
    <3>4. Opened'
      BY <2>2, <3>2 DEF Opened
    <3>5. Flagged'
      BY <2>3 DEF Flagged
    <3>6. Shut' /\ Served'
      BY <1>1, <3>3 DEF Shut, Served
    <3>. QED BY <2>1, <3>4, <3>5, <3>6 DEF Uncrossed
  <2>4. CASE UNCHANGED dbOpen /\ phase'[t] # "closing"
    <3>1. Opened'
      BY <1>7, <2>2, <2>4 DEF Uncrossed, Opened
    <3>2. Flagged'
      <4>1. flag' => flag /\ phase[t] # "closing"
        BY <1>4, <2>4
      <4>. QED BY <1>1, <1>7, <2>4, <4>1 DEF Uncrossed, Flagged
    <3>3. Shut'
      <4>1. phase'[t] \notin {"running", "closing"}
        BY <1>4, <2>4
      <4>. QED BY <1>1, <1>7, <4>1 DEF Uncrossed, Shut
    <3>4. Served'
      BY <1>1, <1>7, <2>4 DEF Uncrossed, Served
    <3>. QED BY <2>1, <3>1, <3>2, <3>3, <3>4 DEF Uncrossed
  <2>. QED BY <1>4, <2>3, <2>4
<1>. QED BY <1>1, <1>2, <1>6, <1>7 DEF LifecycleInv, StoreInv

-----------------------------------------------------------------------------
LEMMA StoreStutter ==
  ASSUME StoreInv,
         UNCHANGED <<flag, dbOpen, started, portInfo, listening, requests, phase,
                     kind, pc, crossed, doubled, timedOut>>
  PROVE  StoreInv'
<1>1. OtherTypes' /\ Kinds'
  BY DEF StoreInv, OtherTypes, Kinds
<1>2. Uncrossed => Uncrossed'
  BY DEF Uncrossed, Apart, Opened, Flagged, Shut, Served, Active
<1>. QED BY <1>1, <1>2 DEF StoreInv

(* Requests are all a client changes.                                      *)
LEMMA ClientStore ==
  ASSUME StoreInv, NEW p \in Proxy, Arrive(p) \/ Leave(p)
  PROVE  StoreInv'
<1>1. requests' \in [Proxy -> 0 .. MaxRequests]
  <2>1. requests[p] \in 0 .. MaxRequests
    BY DEF StoreInv, OtherTypes
  <2>2. CASE Arrive(p)
    BY <2>1, <2>2, LifecycleAssumption DEF Arrive, StoreInv, OtherTypes
  <2>3. CASE Leave(p)
    BY <2>1, <2>3, LifecycleAssumption DEF Leave, StoreInv, OtherTypes
  <2>. QED BY <2>2, <2>3
<1>2. UNCHANGED <<flag, dbOpen, started, portInfo, listening, phase, kind, pc,
                  crossed, doubled, timedOut>>
  BY DEF Arrive, Leave
<1>3. OtherTypes' /\ Kinds'
  BY <1>1, <1>2 DEF StoreInv, OtherTypes, Kinds
<1>4. Uncrossed => Uncrossed'
  BY <1>2 DEF Uncrossed, Apart, Opened, Flagged, Shut, Served, Active
<1>. QED BY <1>2, <1>3, <1>4 DEF StoreInv

LEMMA LifecycleInvStep == LifecycleInv /\ [Next]_vars => LifecycleInv'
<1> SUFFICES ASSUME LifecycleInv, [Next]_vars
             PROVE  LifecycleInv'
  OBVIOUS
<1>1. OwnedInv' /\ RestInv'
  BY LifecycleStep DEF LifecycleInv
<1>2. StoreInv'
  <2>1. ASSUME NEW t \in Task, NEW p \in Proxy, StartStep(t, p) \/ StopStep(t, p)
        PROVE  StoreInv'
    BY <2>1, StartStore, StopStore
  <2>2. ASSUME NEW t \in Task, Settle(t) PROVE StoreInv'
    BY <2>2, SettleStore
  <2>3. ASSUME NEW t \in Task, NEW call \in Calls, Begin(t, call[1], call[2])
        PROVE  StoreInv'
    BY <2>3, BeginStore
  <2>4. ASSUME NEW p \in Proxy, Arrive(p) \/ Leave(p) PROVE StoreInv'
    BY <2>4, ClientStore DEF LifecycleInv
  <2>5. CASE UNCHANGED vars
    BY <2>5, StoreStutter DEF vars, LifecycleInv
  <2>. QED BY <2>1, <2>2, <2>3, <2>4, <2>5 DEF Next
<1>. QED BY <1>1, <1>2 DEF LifecycleInv

LEMMA LifecycleInvInit == Init => LifecycleInv
<1>1. Init => RestInv
  BY DEF Init, RestInv, AtRest
<1>. QED BY <1>1, OwnedInvInit, StoreInvInit DEF LifecycleInv

(* Every variable of the lifecycle has its type, and a proxy remembers a   *)
(* server exactly while it is started.                                     *)
THEOREM LifecycleTyped == Spec => []TypeOK
<1>1. LifecycleInv => TypeOK
  BY DEF LifecycleInv, OwnedInv, Types, RestInv, StoreInv, OtherTypes, TypeOK
<1>. QED BY <1>1, LifecycleInvInit, LifecycleInvStep, PTL DEF Spec

(* Whatever starts, stops, reloads and shutdowns overlap and whatever      *)
(* fails, a proxy that accepts connections has the store open under it,    *)
(* unless somewhere a start and a stop of one proxy overlapped.            *)
THEOREM ServingAlwaysHasStore == Spec => []ServingHasStore
<1>1. LifecycleInv => ServingHasStore
  BY DEF LifecycleInv, StoreInv, Uncrossed, Served, ServingHasStore
<1>. QED BY <1>1, LifecycleInvInit, LifecycleInvStep, PTL DEF Spec

-----------------------------------------------------------------------------
(* What a call has done when it comes back, proxy by proxy.                *)

(* Calls that are under way on one proxy together are noted as such.       *)
Overlaps(p) ==
  \A t, u \in Task : t # u /\ Active(t, p) /\ Active(u, p) =>
    /\ kind[t] \in Stops /\ kind[u] \in Starts => p \in crossed
    /\ kind[t] \in Stops /\ kind[u] \in Stops => p \in doubled

(* A proxy that no longer listens, and that has not been forgotten yet or  *)
(* has requests left, is being drained, unless the timer ended the drain.  *)
Drains(p) ==
  /\ started[p] \/ (requests[p] > 0 /\ p \notin timedOut)
  /\ listening[p] = {}
  => \E t \in Task : pc[t][p] = "drain"

(* A call that is through with a proxy has left it as asked.               *)
AsAsked(p) ==
  p \notin crossed =>
    \A t \in Task : phase[t] = "running" /\ pc[t][p] = "ok" =>
      (listening[p] # {} <=> kind[t] \in Starts)

CallsInv == \A p \in Proxy : Overlaps(p) /\ Drains(p) /\ AsAsked(p)

LEMMA CallsInvInit == Init => CallsInv
<1> SUFFICES ASSUME Init, NEW p \in Proxy
             PROVE  Overlaps(p) /\ Drains(p) /\ AsAsked(p)
  BY DEF CallsInv
<1>1. /\ ~started[p] /\ requests[p] = 0
      /\ \A t \in Task : pc[t][p] = "none" /\ phase[t] = "idle"
  BY DEF Init
<1>. QED BY <1>1 DEF Overlaps, Drains, AsAsked, Active, StartPc, StopPc

(* A start and a stop that are both under way on p cross there.            *)
LEMMA NotTogether ==
  ASSUME NEW p \in Proxy, Overlaps(p), p \notin crossed,
         NEW t \in Task, NEW u \in Task, Active(t, p), Active(u, p),
         kind[t] \in Stops, kind[u] \in Starts
  PROVE  t = u
BY DEF Overlaps

(* A step of a method overlaps no more calls than before ...               *)
LEMMA MoveOverlaps ==
  ASSUME NEW t \in Task, NEW p \in Proxy, NEW place, Moves(t, p, place),
         UNCHANGED doubled, NEW q \in Proxy, Overlaps(q)
  PROVE  Overlaps(q)'
<1>1. /\ \A u \in Task : Active(u, q)' => Active(u, q)
      /\ UNCHANGED <<kind, crossed>>
  BY DEF Active, Moves
<1>. QED BY <1>1 DEF Overlaps

(* ... and leaves the other proxies as they are.                           *)
LEMMA MoveOthers ==
  ASSUME NEW t \in Task, NEW p \in Proxy, NEW place, Moves(t, p, place),
         NEW q \in Proxy \ {p}, Drains(q), AsAsked(q),
         started'[q] = started[q], listening'[q] = listening[q],
         UNCHANGED requests, q \in timedOut <=> q \in timedOut'
  PROVE  Drains(q)' /\ AsAsked(q)'
<1>1. /\ \A u \in Task : pc'[u][q] = pc[u][q]
      /\ UNCHANGED <<phase, kind, crossed>>
  BY DEF Moves
<1>2. Drains(q)'
  BY <1>1 DEF Drains
<1>3. AsAsked(q)'
  BY <1>1 DEF AsAsked
<1>. QED BY <1>2, <1>3

(* The steps of start, on their proxy: nothing but a place changes, or the *)
(* listener comes up, or its 'listening' event makes the proxy started.    *)
LEMMA StartAt ==
  ASSUME OwnedInv, NEW t \in Task, NEW p \in Proxy, StartStep(t, p)
  PROVE  /\ UNCHANGED <<requests, doubled>>
         /\ \A q \in Proxy \ {p} :
              /\ started'[q] = started[q] /\ listening'[q] = listening[q]
              /\ q \in timedOut <=> q \in timedOut'
         /\ \/ /\ UNCHANGED <<started, listening, timedOut>>
               /\ pc'[t][p] = "ok" => started[p]
            \/ /\ UNCHANGED started /\ listening'[p] # {} /\ pc'[t][p] # "ok"
            \/ /\ UNCHANGED listening /\ listening[p] # {}
<1>1. CASE Bind(t, p) /\ (Register(t, p) \/ AfterOnStart(t, p))
  <2>1. UNCHANGED <<requests, doubled, started>>
    BY <1>1 DEF Register, AfterOnStart
  <2>2. CASE /\ listening' = [listening EXCEPT ![p] = {t}]
             /\ timedOut' = timedOut \ {p}
             /\ Goto(t, p, "bound")
    <3>1. /\ listening'[p] = {t} /\ pc'[t][p] = "bound"
          /\ \A q \in Proxy \ {p} : listening'[q] = listening[q]
      BY <2>2 DEF Goto, OwnedInv, Types
    <3>. QED BY <2>1, <2>2, <3>1
  <2>3. CASE Goto(t, p, "failed") /\ UNCHANGED <<listening, timedOut>>
    <3>1. pc'[t][p] = "failed"
      BY <2>3 DEF Goto, OwnedInv, Types
    <3>. QED BY <2>1, <2>3, <3>1
  <2>. QED BY <1>1, <2>2, <2>3 DEF Bind
<1>2. CASE Serve(t, p)
  <2>1. /\ pc[t][p] = "bound" /\ UNCHANGED <<requests, doubled, listening, timedOut>>
        /\ \A q \in Proxy \ {p} : started'[q] = started[q]
    BY <1>2 DEF Serve, OwnedInv, Types
  <2>2. listening[p] = {t}
    BY <2>1 DEF OwnedInv, Fresh, Passed, Opening
  <2>. QED BY <2>1, <2>2
<1>3. CASE StartAlreadyStarted(t, p)
  BY <1>3 DEF StartAlreadyStarted
<1>4. CASE /\ UNCHANGED <<started, listening, timedOut, requests, doubled>>
           /\ \E place \in {"init", "load", "onStart", "failed"} : Goto(t, p, place)
  <2>1. pc'[t][p] # "ok"
    BY <1>4 DEF Goto, OwnedInv, Types
  <2>. QED BY <1>4, <2>1
<1>5. \/ Bind(t, p) /\ (Register(t, p) \/ AfterOnStart(t, p))
      \/ Serve(t, p)
      \/ StartAlreadyStarted(t, p)
      \/ /\ UNCHANGED <<started, listening, timedOut, requests, doubled>>
         /\ \E place \in {"init", "load", "onStart", "failed"} : Goto(t, p, place)
  BY DEF StartStep, FindStore, OpenStore, StoreReady, RegisterFails, Register,
         AfterOnStart
<1>. QED BY <1>1, <1>2, <1>3, <1>4, <1>5

LEMMA StartCalls ==
  ASSUME LifecycleInv, CallsInv, NEW t \in Task, NEW p \in Proxy, StartStep(t, p)
  PROVE  CallsInv'
<1>1. PICK place : Moves(t, p, place)
  BY StartMoves DEF LifecycleInv
<1>2. /\ UNCHANGED <<requests, doubled>>
      /\ \A q \in Proxy \ {p} :
           /\ started'[q] = started[q] /\ listening'[q] = listening[q]
           /\ q \in timedOut <=> q \in timedOut'
      /\ \/ /\ UNCHANGED <<started, listening, timedOut>>
            /\ pc'[t][p] = "ok" => started[p]
         \/ /\ UNCHANGED started /\ listening'[p] # {} /\ pc'[t][p] # "ok"
         \/ /\ UNCHANGED listening /\ listening[p] # {}
  BY StartAt DEF LifecycleInv
<1>3. \A q \in Proxy : Overlaps(q) /\ Drains(q) /\ AsAsked(q)
  BY DEF CallsInv
<1>4. \A q \in Proxy : Overlaps(q)'
  BY <1>1, <1>2, <1>3, MoveOverlaps
<1>5. \A q \in Proxy \ {p} : Drains(q)' /\ AsAsked(q)'
  BY <1>1, <1>2, <1>3, MoveOthers
<1>6. /\ pc[t][p] \in StartPc /\ kind[t] \in Starts
      /\ Active(t, p)
      /\ \A u \in Task \ {t} : pc'[u][p] = pc[u][p]
      /\ UNCHANGED <<phase, kind, crossed>>
  BY <1>1, StartMoves DEF LifecycleInv, StoreInv, Kinds, Active, Moves
<1>7. ASSUME NEW u \in Task, pc[u][p] = "drain", p \notin crossed PROVE FALSE
  <2>1. Active(u, p) /\ kind[u] \in Stops /\ u # t
    BY <1>6, <1>7 DEF Active, StartPc, StopPc, LifecycleInv, StoreInv, Kinds
  <2>. QED BY <1>3, <1>6, <1>7, <2>1, NotTogether
<1>8. Drains(p)'
  <2>1. \A u \in Task : pc[u][p] = "drain" => pc'[u][p] = "drain"
    BY <1>6 DEF StartPc
  <2>. QED BY <1>2, <1>3, <2>1 DEF Drains
<1>9. ASSUME p \notin crossed, NEW u \in Task, phase[u] = "running", pc'[u][p] = "ok"
      PROVE  listening'[p] # {} <=> kind[u] \in Starts
  <2>1. CASE u = t
    <3>1. CASE listening[p] # {}
      BY <1>2, <1>6, <2>1, <3>1
    <3>2. CASE listening[p] = {}
      <4>1. started[p]
        BY <1>2, <1>9, <2>1, <3>2
      <4>. QED BY <1>3, <1>7, <1>9, <3>2, <4>1 DEF Drains
    <3>. QED BY <3>1, <3>2
  <2>2. CASE u # t
    <3>1. pc[u][p] = "ok" /\ Active(u, p)
      BY <1>6, <1>9, <2>2 DEF Active
    <3>2. kind[u] \in Starts
      <4>1. kind[u] \in Stops \/ kind[u] \in Starts
        BY DEF LifecycleInv, StoreInv, OtherTypes, Kind, Stops, Starts
      <4>. QED BY <1>3, <1>6, <1>9, <2>2, <3>1, <4>1, NotTogether
    <3>3. listening[p] # {}
      BY <1>3, <1>9, <3>1, <3>2 DEF AsAsked
    <3>. QED BY <1>2, <3>2, <3>3
  <2>. QED BY <2>1, <2>2
<1>10. AsAsked(p)'
  BY <1>6, <1>9 DEF AsAsked
<1>. QED BY <1>4, <1>5, <1>8, <1>10 DEF CallsInv

(* The steps of stop, on their proxy: the server is closed and drained, or *)
(* the proxy is forgotten, once it has drained or the timer has fired, or  *)
(* nothing but a place changes.                                            *)
LEMMA StopAt ==
  ASSUME OwnedInv, NEW t \in Task, NEW p \in Proxy, StopStep(t, p)
  PROVE  /\ UNCHANGED <<requests, doubled>>
         /\ \A q \in Proxy \ {p} :
              /\ started'[q] = started[q] /\ listening'[q] = listening[q]
              /\ q \in timedOut <=> q \in timedOut'
         /\ listening'[p] \subseteq listening[p]
         /\ \/ pc'[t][p] = "drain"
            \/ /\ pc[t][p] # "drain" /\ UNCHANGED <<listening, timedOut>>
               /\ started'[p] => started[p]
            \/ ~started'[p] /\ (requests[p] = 0 \/ p \in timedOut')
         /\ pc'[t][p] = "ok" => kind[t] # "reload"
<1>1. UNCHANGED <<requests, doubled>>
  BY DEF StopStep, StopNotStarted, StopHooks, HookFails, CloseServer,
         NothingToClose, Drained, DrainTimeout
<1>2. \A q \in Proxy \ {p} :
        /\ started'[q] = started[q] /\ listening'[q] = listening[q]
        /\ q \in timedOut <=> q \in timedOut'
  <2>1. UNCHANGED started \/ Forget(t, p)
    BY DEF StopStep, StopNotStarted, StopHooks, HookFails, CloseServer,
           NothingToClose, Drained, DrainTimeout
  <2>2. UNCHANGED listening \/ listening' = [listening EXCEPT ![p] = @ \ {portInfo[p]}]
    BY DEF StopStep, StopNotStarted, StopHooks, HookFails, CloseServer,
           NothingToClose, Drained, DrainTimeout
  <2>3. UNCHANGED timedOut \/ timedOut' = timedOut \cup {p}
    BY DEF StopStep, StopNotStarted, StopHooks, HookFails, CloseServer,
           NothingToClose, Drained, DrainTimeout
  <2>. QED BY <2>1, <2>2, <2>3 DEF Forget, OwnedInv, Types
<1>3. listening'[p] \subseteq listening[p]
  BY DEF StopStep, StopNotStarted, StopHooks, HookFails, CloseServer,
         NothingToClose, Drained, DrainTimeout, OwnedInv, Types
<1>4. Forget(t, p) => ~started'[p]
  BY DEF Forget, OwnedInv, Types
<1>5. pc'[t][p] = "ok" => kind[t] # "reload"
  <2>1. \/ Goto(t, p, AfterStop(t))
        \/ \E place \in {"onShutdown", "drain", "failed"} : Goto(t, p, place)
    BY DEF StopStep, StopNotStarted, StopHooks, HookFails, CloseServer,
           NothingToClose, Drained, DrainTimeout, Forget
  <2>2. CASE Goto(t, p, AfterStop(t))
    <3>1. pc'[t][p] = AfterStop(t)
      BY <2>2 DEF Goto, OwnedInv, Types
    <3>. QED BY <3>1 DEF AfterStop
  <2>3. CASE \E place \in {"onShutdown", "drain", "failed"} : Goto(t, p, place)
    BY <2>3 DEF Goto, OwnedInv, Types
  <2>. QED BY <2>1, <2>2, <2>3
<1>6. \/ pc'[t][p] = "drain"
      \/ /\ pc[t][p] # "drain" /\ UNCHANGED <<listening, timedOut>>
         /\ started'[p] => started[p]
      \/ ~started'[p] /\ (requests[p] = 0 \/ p \in timedOut')
  <2>1. CASE StopNotStarted(t, p) \/ StopHooks(t, p) \/ HookFails(t, p)
    BY <2>1 DEF StopNotStarted, StopHooks, HookFails
  <2>2. CASE CloseServer(t, p)
    BY <2>2 DEF CloseServer, Goto, OwnedInv, Types
  <2>3. CASE NothingToClose(t, p)
    BY <1>4, <2>3 DEF NothingToClose, HooksDone
  <2>4. CASE Drained(t, p) \/ DrainTimeout(t, p)
    BY <1>4, <2>4 DEF Drained, DrainTimeout
  <2>. QED BY <2>1, <2>2, <2>3, <2>4 DEF StopStep
<1>. QED BY <1>1, <1>2, <1>3, <1>5, <1>6

LEMMA StopCalls ==
  ASSUME LifecycleInv, CallsInv, NEW t \in Task, NEW p \in Proxy, StopStep(t, p)
  PROVE  CallsInv'
<1>1. PICK place : Moves(t, p, place)
  BY StopMoves DEF LifecycleInv, StoreInv
<1>2. /\ UNCHANGED <<requests, doubled>>
      /\ \A q \in Proxy \ {p} :
           /\ started'[q] = started[q] /\ listening'[q] = listening[q]
           /\ q \in timedOut <=> q \in timedOut'
      /\ listening'[p] \subseteq listening[p]
      /\ \/ pc'[t][p] = "drain"
         \/ /\ pc[t][p] # "drain" /\ UNCHANGED <<listening, timedOut>>
            /\ started'[p] => started[p]
         \/ ~started'[p] /\ (requests[p] = 0 \/ p \in timedOut')
      /\ pc'[t][p] = "ok" => kind[t] # "reload"
  BY StopAt DEF LifecycleInv
<1>3. \A q \in Proxy : Overlaps(q) /\ Drains(q) /\ AsAsked(q)
  BY DEF CallsInv
<1>4. \A q \in Proxy : Overlaps(q)'
  BY <1>1, <1>2, <1>3, MoveOverlaps
<1>5. \A q \in Proxy \ {p} : Drains(q)' /\ AsAsked(q)'
  BY <1>1, <1>2, <1>3, MoveOthers
<1>6. pc[t][p] \in StopPc
  BY DEF StopStep, StopNotStarted, StopHooks, HookFails, HooksDone, CloseServer,
         NothingToClose, Drained, DrainTimeout, StopPc
<1>7. /\ kind[t] \in Stops /\ Active(t, p)
      /\ \A u \in Task \ {t} : pc'[u][p] = pc[u][p]
      /\ UNCHANGED <<phase, kind, crossed>>
  BY <1>1, <1>6 DEF LifecycleInv, StoreInv, Kinds, Active, Moves
<1>8. Drains(p)'
  <2>1. CASE pc[t][p] # "drain" /\ UNCHANGED <<listening, timedOut>> /\ (started'[p] => started[p])
    <3>1. \A u \in Task : pc[u][p] = "drain" => pc'[u][p] = "drain"
      BY <1>7, <2>1
    <3>. QED BY <1>2, <1>3, <2>1, <3>1 DEF Drains
  <2>2. CASE ~started'[p] /\ (requests[p] = 0 \/ p \in timedOut')
    BY <1>2, <2>2 DEF Drains
  <2>3. CASE pc'[t][p] = "drain"
    BY <2>3 DEF Drains
  <2>. QED BY <1>2, <2>1, <2>2, <2>3
<1>9. ASSUME p \notin crossed, NEW u \in Task, phase[u] = "running", pc'[u][p] = "ok"
      PROVE  listening'[p] # {} <=> kind[u] \in Starts
  <2>1. CASE u = t
    <3>1. kind[t] \notin Starts
      BY <1>2, <1>7, <1>9, <2>1 DEF Stops, Starts
    <3>2. ASSUME NEW v \in Task, Opening(v, p) PROVE FALSE
      <4>1. Active(v, p) /\ kind[v] \in Starts /\ v # t
        BY <1>6, <3>2 DEF Opening, Active, StartPc, StopPc, LifecycleInv,
                          StoreInv, Kinds
      <4>. QED BY <1>3, <1>7, <1>9, <4>1, NotTogether
    <3>3. listening'[p] = {}
      BY <1>9, <2>1, <3>2, StopShuts DEF LifecycleInv, StoreInv
    <3>. QED BY <2>1, <3>1, <3>3
  <2>2. CASE u # t
    <3>1. pc[u][p] = "ok" /\ Active(u, p)
      BY <1>7, <1>9, <2>2 DEF Active
    <3>2. kind[u] \notin Starts
      BY <1>3, <1>7, <1>9, <2>2, <3>1, NotTogether
    <3>3. listening[p] = {}
      BY <1>3, <1>9, <3>1, <3>2 DEF AsAsked
    <3>. QED BY <1>2, <3>2, <3>3
  <2>. QED BY <2>1, <2>2
<1>10. AsAsked(p)'
  BY <1>7, <1>9 DEF AsAsked
<1>. QED BY <1>4, <1>5, <1>8, <1>10 DEF CallsInv

(* A call that begins on a proxy where another is under way is noted.      *)
LEMMA BeginCalls ==
  ASSUME LifecycleInv, CallsInv, NEW t \in Task, NEW call \in Calls,
         Begin(t, call[1], call[2])
  PROVE  CallsInv'
<1> DEFINE k == call[1]
           targets == call[2]
<1>1. /\ phase[t] = "idle" /\ phase'[t] = "running" /\ kind'[t] = k
      /\ \A u \in Task \ {t} : phase'[u] = phase[u] /\ kind'[u] = kind[u]
  BY LifecycleAssumption DEF Begin, LifecycleInv, RestInv, StoreInv, OtherTypes
<1>2. \A u \in Task, q \in Proxy :
        pc'[u][q] = IF u # t THEN pc[u][q]
                    ELSE IF q \notin targets THEN "none"
                    ELSE IF k = "start" THEN "start" ELSE "stop"
  BY DEF Begin, LifecycleInv, OwnedInv, Types
<1>3. UNCHANGED <<started, listening, requests, timedOut>>
  BY DEF Begin
<1>4. /\ crossed \subseteq crossed' /\ doubled \subseteq doubled'
      /\ \A q \in targets \cap Proxy, u \in Task : Active(u, q) =>
           /\ (k \in Stops /\ kind[u] \in Starts) \/ (k \in Starts /\ kind[u] \in Stops)
                => q \in crossed'
           /\ k \in Stops /\ kind[u] \in Stops => q \in doubled'
  BY DEF Begin
<1> HIDE DEF k, targets
<1> SUFFICES ASSUME NEW p \in Proxy
             PROVE  Overlaps(p)' /\ Drains(p)' /\ AsAsked(p)'
  BY DEF CallsInv
<1>5. Overlaps(p) /\ Drains(p) /\ AsAsked(p)
  BY DEF CallsInv
<1>6. /\ \A u \in Task \ {t} : Active(u, p)' => Active(u, p)
      /\ Active(t, p)' => p \in targets \cap Proxy
  BY <1>1, <1>2 DEF Active, StartPc, StopPc
<1>7. ASSUME NEW u \in Task, NEW v \in Task, u # v, Active(u, p)', Active(v, p)',
             kind'[u] \in Stops
      PROVE  /\ kind'[v] \in Starts => p \in crossed'
             /\ kind'[v] \in Stops => p \in doubled'
  <2>1. CASE u # t /\ v # t
    <3>1. Active(u, p) /\ Active(v, p) /\ kind'[u] = kind[u] /\ kind'[v] = kind[v]
      BY <1>1, <1>6, <1>7, <2>1
    <3>. QED BY <1>4, <1>5, <1>7, <3>1 DEF Overlaps
  <2>2. CASE u = t
    <3>1. Active(v, p) /\ p \in targets \cap Proxy /\ kind'[v] = kind[v] /\ k \in Stops
      BY <1>1, <1>6, <1>7, <2>2
    <3>. QED BY <1>4, <3>1
  <2>3. CASE v = t
    <3>1. Active(u, p) /\ p \in targets \cap Proxy /\ kind'[u] = kind[u] /\ kind'[v] = k
      BY <1>1, <1>6, <1>7, <2>3
    <3>. QED BY <1>4, <1>7, <3>1
  <2>. QED BY <2>1, <2>2, <2>3
<1>8. Overlaps(p)'
  BY <1>7 DEF Overlaps
<1>9. \A u \in Task : pc[u][p] = "drain" => pc'[u][p] = "drain"
  <2>1. pc[t][p] # "drain"
    BY <1>1 DEF LifecycleInv, RestInv, AtRest
  <2>. QED BY <1>2, <2>1
<1>10. Drains(p)'
  BY <1>3, <1>5, <1>9 DEF Drains
<1>11. AsAsked(p)'
  <2>1. \A u \in Task : pc'[u][p] = "ok" => u # t /\ pc[u][p] = "ok"
    BY <1>2
  <2>. QED BY <1>1, <1>3, <1>4, <1>5, <2>1 DEF AsAsked
<1>. QED BY <1>8, <1>10, <1>11

LEMMA SettleCalls ==
  ASSUME LifecycleInv, CallsInv, NEW t \in Task, Settle(t)
  PROVE  CallsInv'
<1>1. /\ UNCHANGED <<started, listening, requests, crossed, doubled, timedOut>>
      /\ \A u \in Task \ {t} :
           phase'[u] = phase[u] /\ kind'[u] = kind[u] /\ pc'[u] = pc[u]
      /\ phase'[t] # "running"
      /\ \/ UNCHANGED <<kind, pc>>
         \/ phase'[t] = "resolved" /\ \A q \in Proxy : pc'[t][q] = "none"
  BY SettleAt
<1>2. \/ UNCHANGED <<kind, pc>>
      \/ phase[t] \in {"running", "closing"} /\ AtRest(t)
  BY DEF Settle, Resolve, Reject, ShutdownDone, AllOk, AtRest, LifecycleInv, RestInv
<1> SUFFICES ASSUME NEW p \in Proxy
             PROVE  Overlaps(p)' /\ Drains(p)' /\ AsAsked(p)'
  BY DEF CallsInv
<1>3. Overlaps(p) /\ Drains(p) /\ AsAsked(p)
  BY DEF CallsInv
<1>4. \A u \in Task : Active(u, p)' => Active(u, p) /\ kind'[u] = kind[u]
  <2>1. Active(t, p)' => Active(t, p) /\ kind'[t] = kind[t]
    <3>1. CASE UNCHANGED <<kind, pc>>
      <4>1. phase'[t] = "closing" => phase[t] = "running"
        BY SettleAt
      <4>. QED BY <1>1, <3>1, <4>1 DEF Active
    <3>2. CASE phase'[t] = "resolved" /\ \A q \in Proxy : pc'[t][q] = "none"
      BY <3>2 DEF Active, StartPc, StopPc
    <3>. QED BY <1>1, <3>1, <3>2
  <2>. QED BY <1>1, <2>1 DEF Active
<1>5. Overlaps(p)'
  BY <1>1, <1>3, <1>4 DEF Overlaps
<1>6. \A u \in Task : pc[u][p] = "drain" => pc'[u][p] = "drain"
  BY <1>1, <1>2 DEF AtRest
<1>7. Drains(p)'
  BY <1>1, <1>3, <1>6 DEF Drains
<1>8. AsAsked(p)'
  BY <1>1, <1>3 DEF AsAsked
<1>. QED BY <1>5, <1>7, <1>8

(* Clients only come to a proxy that listens.                              *)
LEMMA ClientCalls ==
  ASSUME LifecycleInv, CallsInv, NEW q \in Proxy, Arrive(q) \/ Leave(q)
  PROVE  CallsInv'
<1>1. UNCHANGED <<started, listening, phase, kind, pc, crossed, doubled, timedOut>>
  BY DEF Arrive, Leave
<1>2. \A p \in Proxy : requests'[p] > 0 => requests[p] > 0 \/ listening[p] # {}
  <2>1. requests \in [Proxy -> 0 .. MaxRequests] /\ MaxRequests \in Nat
    BY LifecycleAssumption DEF LifecycleInv, StoreInv, OtherTypes
  <2>2. CASE Arrive(q)
    BY <2>1, <2>2 DEF Arrive
  <2>3. CASE Leave(q)
    BY <2>1, <2>3 DEF Leave
  <2>. QED BY <2>2, <2>3
<1> SUFFICES ASSUME NEW p \in Proxy
             PROVE  Overlaps(p)' /\ Drains(p)' /\ AsAsked(p)'
  BY DEF CallsInv
<1>3. Overlaps(p) /\ Drains(p) /\ AsAsked(p)
  BY DEF CallsInv
<1>4. Overlaps(p)'
  BY <1>1, <1>3 DEF Overlaps, Active
<1>5. Drains(p)'
  BY <1>1, <1>2, <1>3 DEF Drains
<1>6. AsAsked(p)'
  BY <1>1, <1>3 DEF AsAsked
<1>. QED BY <1>4, <1>5, <1>6

LEMMA CallsInvStep == LifecycleInv /\ CallsInv /\ [Next]_vars => CallsInv'
<1> SUFFICES ASSUME LifecycleInv, CallsInv, [Next]_vars
             PROVE  CallsInv'
  OBVIOUS
<1>1. CASE UNCHANGED vars
  <2>1. UNCHANGED <<started, listening, requests, phase, kind, pc, crossed,
                    doubled, timedOut>>
    BY <1>1 DEF vars
  <2>. QED BY <2>1 DEF CallsInv, Overlaps, Drains, AsAsked, Active
<1>2. ASSUME NEW t \in Task, NEW p \in Proxy, StartStep(t, p) \/ StopStep(t, p)
      PROVE  CallsInv'
  BY <1>2, StartCalls, StopCalls
<1>3. ASSUME NEW t \in Task, Settle(t) PROVE CallsInv'
  BY <1>3, SettleCalls
<1>4. ASSUME NEW t \in Task, NEW call \in Calls, Begin(t, call[1], call[2])
      PROVE  CallsInv'
  BY <1>4, BeginCalls
<1>5. ASSUME NEW p \in Proxy, Arrive(p) \/ Leave(p) PROVE CallsInv'
  BY <1>5, ClientCalls
<1>. QED BY <1>1, <1>2, <1>3, <1>4, <1>5 DEF Next

-----------------------------------------------------------------------------
(* A call resolves when it is through with all of its proxies; a method's  *)
(* own steps resolve nothing.                                              *)
LEMMA OnlySettles ==
  ASSUME LifecycleInv, [Next]_vars, NEW t \in Task, phase[t] = "running",
         phase'[t] \in {"closing", "resolved"}
  PROVE  \A p \in Proxy : pc[t][p] \in {"none", "ok"}
<1>1. phase \in [Task -> {"idle", "running", "closing", "resolved", "rejected"}]
  BY DEF LifecycleInv, RestInv
<1>2. ASSUME NEW u \in Task, Settle(u) PROVE u = t /\ Resolve(t)
  BY <1>1, <1>2 DEF Settle, Resolve, Reject, ShutdownDone
<1>3. ASSUME NEW u \in Task, NEW call \in Calls, Begin(u, call[1], call[2])
      PROVE  FALSE
  BY <1>1, <1>3 DEF Begin
<1>4. ASSUME NEW u \in Task, NEW p \in Proxy, StartStep(u, p) \/ StopStep(u, p)
      PROVE  FALSE
  <2>1. UNCHANGED phase
    BY <1>4, StartMoves, StopMoves DEF Moves, LifecycleInv, StoreInv
  <2>. QED BY <2>1
<1>5. ASSUME NEW p \in Proxy, Arrive(p) \/ Leave(p) PROVE FALSE
  BY <1>5 DEF Arrive, Leave
<1>6. ~ UNCHANGED vars
  BY DEF vars
<1>7. Resolve(t)
  BY <1>2, <1>3, <1>4, <1>5, <1>6 DEF Next
<1>. QED BY <1>7 DEF Resolve, AllOk

(* The store is closed by the step in which a shutdown's stops are done.   *)
LEMMA OnlyShutdownCloses ==
  ASSUME LifecycleInv, [Next]_vars, dbOpen, ~dbOpen'
  PROVE  \E t \in Task : /\ kind[t] = "shutdown" /\ phase[t] = "running"
                         /\ \A p \in Proxy : pc[t][p] = "ok"
<1>1. ASSUME NEW t \in Task, NEW p \in Proxy, StartStep(t, p) PROVE FALSE
  BY <1>1 DEF StartStep, StartAlreadyStarted, FindStore, OpenStore, StoreReady,
              RegisterFails, Register, AfterOnStart, Serve
<1>2. ASSUME NEW t \in Task, NEW p \in Proxy, StopStep(t, p) PROVE FALSE
  BY <1>2 DEF StopStep, StopNotStarted, StopHooks, HookFails, CloseServer,
              NothingToClose, Drained, DrainTimeout
<1>3. ASSUME NEW t \in Task, NEW call \in Calls, Begin(t, call[1], call[2])
      PROVE  FALSE
  BY <1>3 DEF Begin
<1>4. ASSUME NEW p \in Proxy, Arrive(p) \/ Leave(p) PROVE FALSE
  BY <1>4 DEF Arrive, Leave
<1>5. ~ UNCHANGED vars
  BY DEF vars
<1>6. PICK t \in Task : Settle(t)
  BY <1>1, <1>2, <1>3, <1>4, <1>5 DEF Next
<1>7. /\ kind[t] = "shutdown" /\ phase[t] = "running"
      /\ \A p \in Proxy : pc[t][p] = "ok"
  BY <1>6, SettleAt
<1>. QED BY <1>7

LEMMA ClosesDrained ==
  ASSUME LifecycleInv, CallsInv, [Next]_vars, dbOpen, ~dbOpen', NEW p \in Proxy
  PROVE  requests[p] = 0 \/ p \in timedOut \cup doubled \cup crossed
<1> SUFFICES ASSUME p \notin timedOut, p \notin doubled, p \notin crossed
             PROVE  requests[p] = 0
  OBVIOUS
<1>1. PICK t \in Task : /\ kind[t] = "shutdown" /\ phase[t] = "running"
                        /\ pc[t][p] = "ok"
  BY OnlyShutdownCloses
<1>2. Overlaps(p) /\ Drains(p) /\ AsAsked(p)
  BY DEF CallsInv
<1>3. listening[p] = {}
  BY <1>1, <1>2 DEF AsAsked, Starts
<1>4. ASSUME NEW u \in Task, pc[u][p] = "drain" PROVE FALSE
  <2>1. u # t /\ Active(t, p) /\ Active(u, p)
    BY <1>1, <1>4 DEF Active, StopPc
  <2>2. kind[t] \in Stops /\ kind[u] \in Stops
    BY <1>1, <1>4 DEF Stops, StopPc, LifecycleInv, StoreInv, Kinds
  <2>. QED BY <1>2, <2>1, <2>2 DEF Overlaps
<1>5. ~(requests[p] > 0)
  BY <1>2, <1>3, <1>4 DEF Drains
<1>6. requests[p] \in Nat
  BY LifecycleAssumption DEF LifecycleInv, StoreInv, OtherTypes
<1>. QED BY <1>5, <1>6

(* When a shutdown closes the store no request is in flight, but on a      *)
(* proxy whose drain was ended by its timer, or where a start or another   *)
(* stop overlapped the shutdown's own stop.                                *)
THEOREM StoreClosesDrained == Spec => DrainedBeforeClose
<1>1. LifecycleInv /\ CallsInv /\ [Next]_vars =>
        [dbOpen /\ ~dbOpen' =>
           \A p \in Proxy : requests[p] = 0 \/ p \in timedOut \cup doubled \cup crossed]_vars
  BY ClosesDrained
<1>. QED
  BY <1>1, LifecycleInvInit, LifecycleInvStep, CallsInvInit, CallsInvStep, PTL
  DEF Spec, DrainedBeforeClose

(* A start, stop, reload or shutdown that resolves has done what it says   *)
(* to every proxy it was called on, unless starts and stops overlapped.    *)
THEOREM CallsAlwaysMeanIt == Spec => CallsMeanIt
<1>1. ASSUME LifecycleInv, CallsInv, [Next]_vars, NEW t \in Task,
             phase[t] = "running", phase'[t] \in {"closing", "resolved"},
             NEW p \in Targets(t) \ crossed
      PROVE  (listening[p] # {}) <=> (kind[t] \in Starts)
  <2>1. p \in Proxy /\ pc[t][p] # "none"
    BY DEF Targets
  <2>2. pc[t][p] = "ok"
    BY <1>1, <2>1, OnlySettles
  <2>3. AsAsked(p)
    BY <1>1, <2>1 DEF CallsInv
  <2>. QED BY <1>1, <2>2, <2>3 DEF AsAsked
<1>2. LifecycleInv /\ CallsInv /\ [Next]_vars =>
        [\A t \in Task : phase[t] = "running" /\ phase'[t] \in {"closing", "resolved"} =>
           \A p \in Targets(t) \ crossed :
             (listening[p] # {}) <=> (kind[t] \in Starts)]_vars
  BY <1>1
<1>. QED
  BY <1>2, LifecycleInvInit, LifecycleInvStep, CallsInvInit, CallsInvStep, PTL
  DEF Spec, CallsMeanIt
=============================================================================
