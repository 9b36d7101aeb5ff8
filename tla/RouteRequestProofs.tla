------------------------- MODULE RouteRequestProofs -------------------------
(* Proofs about RouteRequest, for any requests, routes, ids and statuses.  *)
EXTENDS RouteRequest, FiniteSetTheorems, TLAPS

-----------------------------------------------------------------------------
(* What a write of a row does: nothing is lost, at most the new row comes  *)
(* in, and if the store accepts writes the request has a row afterwards.   *)
LEMMA LoggedRow ==
  ASSUME NEW r, NEW row, row.req = r
  PROVE  /\ log \subseteq Logged(r, row)
         /\ Logged(r, row) \subseteq log \cup {row}
         /\ Writable => \E x \in Logged(r, row) : id[x.req] = id[r]
<1>1. CASE Writable /\ (backend = "sqlite" => \A old \in log : id[old.req] # id[r])
  BY <1>1 DEF Logged
<1>2. CASE ~(Writable /\ (backend = "sqlite" => \A old \in log : id[old.req] # id[r]))
  BY <1>2 DEF Logged
<1> QED BY <1>1, <1>2

(* Before its route is found a request has none, and before it arrives it  *)
(* has no row, no usage and no response that could bring one.              *)
Fresh ==
  \A r \in Request :
    /\ pc[r] \in {"idle", "admitting", "unseen"} => route[r] = "none"
    /\ pc[r] = "idle" => /\ body[r] = "none"
                         /\ \A row \in log : row.req # r
                         /\ usage[r] = 0
    /\ pc[r] \in {"handler", "usage", "rejecting"} => route[r] # "none"

IInv == TypeOK /\ Fresh /\ AuditComplete /\ UsageHasRow

-----------------------------------------------------------------------------
(* The shape of the state is kept by every step.                           *)
THEOREM TypeInit == ASSUME Init PROVE TypeOK
BY RouteAssumption DEF Init, TypeOK, Status, Config

LEMMA LogTyped ==
  ASSUME TypeOK, NEW r \in Request, NEW source \in {"route", "finish"},
         NEW status \in Status, NEW tokens \in 0 .. 1,
         LogRequest(r, source, status, tokens)
  PROVE  log' \subseteq Row
<1> DEFINE row == [req |-> r, source |-> source, status |-> status, tokens |-> tokens]
<1>1. row \in Row BY DEF Row
<1>2. row.req = r OBVIOUS
<1>3. log' = Logged(r, row) BY DEF LogRequest
<1>4. log' \subseteq log \cup {row} BY <1>2, <1>3, LoggedRow
<1> QED BY <1>1, <1>4 DEF TypeOK

LEMMA UsageTyped ==
  ASSUME TypeOK, NEW r \in Request, NEW n \in 0 .. 1
  PROVE  Recorded(r, n) \in [Request -> Nat]
<1>1. CASE Writable
  <2>1. [usage EXCEPT ![r] = @ + n] \in [Request -> Nat] BY DEF TypeOK
  <2> QED BY <1>1, <2>1 DEF Recorded
<1>2. CASE ~Writable BY <1>2 DEF Recorded, TypeOK
<1> QED BY <1>1, <1>2

LEMMA CountsTyped ==
  ASSUME TypeOK, NEW failed, NEW tokens \in 0 .. 1
  PROVE  Counts(failed, tokens) \in [requests : Nat, errors : Nat, tokens : Nat]
<1>1. stats.requests \in Nat /\ stats.errors \in Nat /\ stats.tokens \in Nat
  BY DEF TypeOK
<1> QED BY <1>1 DEF Counts

(* What the accounting of a handled request leaves.                        *)
Accounted(r, next) ==
  /\ log' \subseteq Row
  /\ usage' \in [Request -> Nat]
  /\ stats' \in [requests : Nat, errors : Nat, tokens : Nat]
  /\ UNCHANGED <<backend, storeOpen>>
  /\ pc' = [pc EXCEPT ![r] = next]

(* recordRequestMetrics, typed.                                            *)
LEMMA RecordTyped ==
  ASSUME TypeOK, NEW r \in Request, NEW status \in Status, NEW failed,
         NEW tokens \in 0 .. 1, NEW entries \in 0 .. 1,
         Record(r, status, failed, tokens, entries)
  PROVE  Accounted(r, "done")
<1>1. log' \subseteq Row BY LogTyped DEF Record
<1>2. usage' \in [Request -> Nat] BY UsageTyped DEF Record
<1>3. stats' \in [requests : Nat, errors : Nat, tokens : Nat] BY CountsTyped DEF Record
<1> QED BY <1>1, <1>2, <1>3 DEF Record, Goto, Accounted

LEMMA RecordHandlerTyped ==
  ASSUME TypeOK, NEW r \in Request, NEW status \in Status, NEW failed,
         NEW tokens \in 0 .. 1, NEW next,
         RecordHandler(r, status, failed, tokens, next)
  PROVE  /\ Accounted(r, next)
         /\ owed' \in [Request -> 0 .. 1]
         /\ UNCHANGED <<route, id, turn>>
<1>1. log' \subseteq Row BY LogTyped DEF RecordHandler
<1>2. stats' \in [requests : Nat, errors : Nat, tokens : Nat] BY CountsTyped DEF RecordHandler
<1> QED BY <1>1, <1>2 DEF RecordHandler, TypeOK, Goto, Accounted

(* The response after a step.                                              *)
AnswerTyped ==
  /\ code' \in [Request -> Status]
  /\ wire' \in [Request -> Status \cup {0}]
  /\ body' \in [Request -> {"none", "open", "ended", "finished", "lost"}]
  /\ connected' \in [Request -> BOOLEAN]

LEMMA SendTyped ==
  ASSUME TypeOK, NEW r \in Request, NEW s \in Status, Send(r, s)
  PROVE  AnswerTyped
BY DEF TypeOK, Send, AnswerTyped

(* A step that answers, accounts and moves on keeps the types.             *)
LEMMA StepTyped ==
  ASSUME TypeOK, NEW r \in Request, AnswerTyped,
         NEW next \in {"usage", "rejecting", "done"}, Accounted(r, next),
         route' \in [Request -> Routes \cup {"none"}],
         owed' \in [Request -> 0 .. 1], UNCHANGED <<id, turn>>
  PROVE  TypeOK'
BY DEF TypeOK, AnswerTyped, Accounted

LEMMA FailTyped ==
  ASSUME TypeOK, NEW r \in Request, NEW s \in Status, NEW tokens \in 0 .. 1,
         Fail(r, s, tokens), UNCHANGED <<id, turn, owed>>,
         route' \in [Request -> Routes \cup {"none"}]
  PROVE  TypeOK'
<1>1. Send(r, s) /\ Record(r, s, TRUE, tokens, 0) BY DEF Fail
<1>2. 0 \in 0 .. 1 OBVIOUS
<1>3. Accounted(r, "done") BY <1>1, <1>2, RecordTyped
<1>4. AnswerTyped BY <1>1, SendTyped
<1>5. owed' \in [Request -> 0 .. 1] BY DEF TypeOK
<1> QED BY <1>3, <1>4, <1>5, StepTyped

LEMMA RespondTyped ==
  ASSUME TypeOK, NEW r \in Request, NEW tokens \in 0 .. 1,
         Respond(r, tokens), UNCHANGED <<route, id, turn, owed>>
  PROVE  TypeOK'
<1>1. 200 \in Status /\ 500 \in Status BY DEF Status
<1>2. route' \in [Request -> Routes \cup {"none"}] /\ owed' \in [Request -> 0 .. 1]
  BY DEF TypeOK
<1>3. CASE Send(r, 200) /\ Record(r, 200, FALSE, tokens, tokens)
  <2>1. Accounted(r, "done") BY <1>1, <1>3, RecordTyped
  <2>2. AnswerTyped BY <1>1, <1>3, SendTyped
  <2> QED BY <1>2, <2>1, <2>2, StepTyped
<1>4. CASE Fail(r, 500, tokens)
  BY <1>1, <1>2, <1>4, FailTyped
<1> QED BY <1>3, <1>4 DEF Respond

LEMMA HandlerSendTyped ==
  ASSUME TypeOK, NEW r \in Request, NEW s \in Status, NEW failed, NEW tokens \in 0 .. 1,
         Send(r, s), RecordHandler(r, s, failed, tokens, "usage")
  PROVE  TypeOK'
<1>1. Accounted(r, "usage") /\ owed' \in [Request -> 0 .. 1] /\ UNCHANGED <<route, id, turn>>
  BY RecordHandlerTyped
<1>2. AnswerTyped BY SendTyped
<1>3. route' \in [Request -> Routes \cup {"none"}] BY <1>1 DEF TypeOK
<1> QED BY <1>1, <1>2, <1>3, StepTyped

-----------------------------------------------------------------------------
THEOREM TypeStep ==
  ASSUME TypeOK, [Next]_vars
  PROVE  TypeOK'
<1> DEFINE Errors == {500} \cup Failures
<1>1. Errors \subseteq Status /\ {200, 204} \subseteq Status /\ EarlyAnswers \subseteq Status
  BY DEF Status
<1>2. CASE UNCHANGED vars BY <1>2 DEF vars, answer, store, TypeOK
<1>3. CASE CloseStore
  BY <1>3 DEF CloseStore, answer, TypeOK
<1> SUFFICES ASSUME NEW r \in Request,
                    \/ Admission(r) \/ ConfigStep(r) \/ CallStep(r) \/ HandlerStep(r)
                    \/ Finish(r) \/ LoseFinish(r) \/ Disconnect(r)
             PROVE  TypeOK'
  BY <1>2, <1>3 DEF Next
<1>4. ASSUME NEW kinds, Match(r, kinds)
      PROVE  route' \in [Request -> Routes \cup {"none"}]
  BY <1>4 DEF Match, TypeOK
<1>5. CASE Admission(r)
  <2>1. CASE AnswerUnseen(r)
    <3>1. PICK s \in {204, 500} : Send(r, s) BY <2>1 DEF AnswerUnseen
    <3>2. s \in Status BY <1>1
    <3> QED BY <2>1, <3>1, <3>2, SendTyped DEF AnswerTyped, AnswerUnseen, Goto, store, TypeOK
  <2>2. CASE Arrive(r)
    BY <2>2, RouteAssumption DEF Arrive, Goto, answer, store, TypeOK
  <2>3. ASSUME NEW s \in EarlyAnswers, AnswerEarly(r, s) PROVE TypeOK'
    <3>1. Send(r, s) /\ s \in Status BY <1>1, <2>3 DEF AnswerEarly
    <3> QED BY <2>3, <3>1, SendTyped DEF AnswerTyped, AnswerEarly, Goto, store, TypeOK
  <2> QED BY <1>5, <2>1, <2>2, <2>3 DEF Admission
<1>6. CASE ConfigStep(r)
  <2>1. CASE Refuse(r)
    <3>1. PICK s \in Errors : Fail(r, s, 0) BY <2>1 DEF Refuse
    <3>2. s \in Status BY <1>1
    <3>3. 0 \in 0 .. 1 OBVIOUS
    <3>4. Match(r, Config) /\ UNCHANGED <<id, turn, owed>> BY <2>1 DEF Refuse
    <3> QED BY <1>4, <3>1, <3>2, <3>3, <3>4, FailTyped
  <2>2. CASE Dispatch(r)
    <3>1. Match(r, Config) BY <2>2 DEF Dispatch
    <3> QED BY <1>4, <2>2, <3>1 DEF Dispatch, Goto, answer, store, TypeOK
  <2>3. CASE PipelinePasses(r)
    BY <2>3 DEF PipelinePasses, Goto, answer, store, TypeOK
  <2>4. ASSUME NEW s \in Errors, PipelineFails(r, s) PROVE TypeOK'
    <3>1. Fail(r, s, 0) /\ UNCHANGED <<route, id, turn, owed>> BY <2>4 DEF PipelineFails
    <3>2. 0 \in 0 .. 1 /\ s \in Status BY <1>1
    <3>3. route' \in [Request -> Routes \cup {"none"}] BY <3>1 DEF TypeOK
    <3> QED BY <3>1, <3>2, <3>3, FailTyped
  <2>5. ASSUME NEW n \in 0 .. 1, PipelineResponds(r, n) PROVE TypeOK'
    BY <2>5, RespondTyped DEF PipelineResponds
  <2> QED BY <1>6, <2>1, <2>2, <2>3, <2>4, <2>5 DEF ConfigStep
<1>7. CASE CallStep(r)
  <2>1. CASE FallBack(r)
    <3>1. turn[r] \in 1 .. Len(Formats) /\ turn[r] < Len(Formats) /\ Len(Formats) \in Int
      BY <2>1 DEF FallBack, HasNext, TypeOK
    <3>2. turn[r] + 1 \in 1 .. Len(Formats) BY <3>1
    <3>3. turn' \in [Request -> 1 .. Len(Formats)] BY <2>1, <3>2 DEF FallBack, TypeOK
    <3> QED BY <2>1, <3>3 DEF FallBack, answer, store, TypeOK
  <2>2. CASE StreamOpens(r)
    <3>1. 200 \in Status BY <1>1
    <3> QED BY <2>2, <3>1 DEF StreamOpens, Goto, store, TypeOK
  <2>3. CASE StreamFails(r)
    <3>1. Record(r, 500, TRUE, 0, 0) BY <2>3 DEF StreamFails
    <3>2. 500 \in Status /\ 0 \in 0 .. 1 BY <1>1
    <3>3. Accounted(r, "done")
      BY <3>1, <3>2, RecordTyped
    <3>4. AnswerTyped BY <2>3, <3>2 DEF StreamFails, Break, AnswerTyped, TypeOK
    <3>5. route' \in [Request -> Routes \cup {"none"}] /\ owed' \in [Request -> 0 .. 1]
      BY <2>3 DEF StreamFails, TypeOK
    <3>6. UNCHANGED <<id, turn>> BY <2>3 DEF StreamFails
    <3> QED BY <3>3, <3>4, <3>5, <3>6, StepTyped
  <2>4. ASSUME NEW s \in Errors, CallFails(r, s) PROVE TypeOK'
    <3>1. Fail(r, s, 0) /\ UNCHANGED <<route, id, turn, owed>> BY <2>4 DEF CallFails
    <3>2. 0 \in 0 .. 1 /\ s \in Status BY <1>1
    <3>3. route' \in [Request -> Routes \cup {"none"}] BY <3>1 DEF TypeOK
    <3> QED BY <3>1, <3>2, <3>3, FailTyped
  <2>5. ASSUME NEW n \in 0 .. 1, CallReturns(r, n) PROVE TypeOK'
    BY <2>5, RespondTyped DEF CallReturns
  <2>6. ASSUME NEW n \in 0 .. 1, ComposeReturns(r, n) PROVE TypeOK'
    <3>1. 500 \in Status /\ 200 \in Status BY <1>1
    <3>2. CASE Fail(r, 500, n)
      <4>1. route' \in [Request -> Routes \cup {"none"}] BY <2>6 DEF ComposeReturns, TypeOK
      <4>2. UNCHANGED <<id, turn, owed>> BY <2>6 DEF ComposeReturns
      <4> QED BY <3>1, <3>2, <4>1, <4>2, FailTyped
    <3>3. CASE /\ wire' = [wire EXCEPT ![r] = 200]
               /\ body' = [body EXCEPT ![r] = "ended"]
               /\ Break(r)
               /\ Record(r, 500, TRUE, n, n)
      <4>1. Accounted(r, "done")
        BY <3>1, <3>3, RecordTyped
      <4>2. AnswerTyped BY <3>1, <3>3 DEF Break, AnswerTyped, TypeOK
      <4>3. route' \in [Request -> Routes \cup {"none"}] /\ owed' \in [Request -> 0 .. 1]
        BY <2>6 DEF ComposeReturns, TypeOK
      <4>4. UNCHANGED <<id, turn>> BY <2>6 DEF ComposeReturns
      <4> QED BY <4>1, <4>2, <4>3, <4>4, StepTyped
    <3> QED BY <2>6, <3>2, <3>3 DEF ComposeReturns
  <2>7. ASSUME NEW n \in 0 .. 1, StreamEnds(r, n) PROVE TypeOK'
    <3>1. 200 \in Status BY <1>1
    <3>2. Record(r, 200, FALSE, n, n) BY <2>7 DEF StreamEnds
    <3>3. Accounted(r, "done")
      BY <3>1, <3>2, RecordTyped
    <3>4. AnswerTyped BY <2>7 DEF StreamEnds, AnswerTyped, TypeOK
    <3>5. route' \in [Request -> Routes \cup {"none"}] /\ owed' \in [Request -> 0 .. 1]
      BY <2>7 DEF StreamEnds, TypeOK
    <3>6. UNCHANGED <<id, turn>> BY <2>7 DEF StreamEnds
    <3> QED BY <3>3, <3>4, <3>5, <3>6, StepTyped
  <2> QED BY <1>7, <2>1, <2>2, <2>3, <2>4, <2>5, <2>6, <2>7 DEF CallStep
<1>8. CASE HandlerStep(r)
  <2>1. CASE EnterHandler(r)
    <3>1. Match(r, {"function"}) BY <2>1 DEF EnterHandler
    <3> QED BY <1>4, <2>1, <3>1 DEF EnterHandler, Goto, answer, store, TypeOK
  <2>2. CASE HandlerEnds(r)
    BY <2>2 DEF HandlerEnds, store, TypeOK
  <2>3. CASE RecordUsage(r)
    <3>1. owed[r] \in 0 .. 1 BY DEF TypeOK
    <3>2. usage' \in [Request -> Nat] BY <2>3, <3>1, UsageTyped DEF RecordUsage
    <3>3. 500 \in Status /\ 0 \in 0 .. 1 BY <1>1
    <3>4. CASE Break(r)
      BY <2>3, <3>2, <3>3, <3>4 DEF RecordUsage, Break, Goto, TypeOK
    <3>5. CASE UNCHANGED <<code, connected>>
      BY <2>3, <3>2, <3>3, <3>5 DEF RecordUsage, Goto, TypeOK
    <3> QED BY <2>3, <3>4, <3>5 DEF RecordUsage
  <2>4. ASSUME NEW s \in {200, 500} \cup Failures, HandlerSends(r, s) PROVE TypeOK'
    <3>1. s \in Status BY <1>1
    <3>2. CASE Send(r, s)
      BY <2>4, <3>1, <3>2, SendTyped DEF AnswerTyped, HandlerSends, store, TypeOK
    <3>3. CASE /\ code' = [code EXCEPT ![r] = s]
               /\ wire' = [wire EXCEPT ![r] = s]
               /\ body' = [body EXCEPT ![r] = "open"]
               /\ UNCHANGED connected
      BY <2>4, <3>1, <3>3 DEF HandlerSends, store, TypeOK
    <3> QED BY <2>4, <3>2, <3>3 DEF HandlerSends
  <2>5. ASSUME NEW n \in 0 .. 1, HandlerReturnsSent(r, n) PROVE TypeOK'
    <3>1. code[r] \in Status BY DEF TypeOK
    <3>2. RecordHandler(r, code[r], FALSE, n, "usage") BY <2>5 DEF HandlerReturnsSent
    <3>3. Accounted(r, "usage") /\ owed' \in [Request -> 0 .. 1] /\ UNCHANGED <<route, id, turn>>
      BY <3>1, <3>2, RecordHandlerTyped
    <3>4. AnswerTyped BY <2>5 DEF HandlerReturnsSent, answer, AnswerTyped, TypeOK
    <3>5. route' \in [Request -> Routes \cup {"none"}] BY <3>3 DEF TypeOK
    <3> QED BY <3>3, <3>4, <3>5, StepTyped
  <2>6. ASSUME NEW n \in 0 .. 1, HandlerReturns(r, n) PROVE TypeOK'
    <3>1. {200, 204, 500} \subseteq Status /\ 0 \in 0 .. 1 BY <1>1
    <3>2. CASE Send(r, 204) /\ RecordHandler(r, 204, FALSE, 0, "usage")
      BY HandlerSendTyped, <3>1, <3>2
    <3>3. CASE Send(r, 200) /\ RecordHandler(r, 200, FALSE, n, "usage")
      BY HandlerSendTyped, <3>1, <3>3
    <3>4. CASE Send(r, 500) /\ RecordHandler(r, 500, TRUE, n, "usage")
      BY HandlerSendTyped, <3>1, <3>4
    <3> QED BY <2>6, <3>2, <3>3, <3>4 DEF HandlerReturns
  <2>7. ASSUME NEW s \in Errors, HandlerThrows(r, s) PROVE TypeOK'
    <3>1. s \in Status /\ 0 \in 0 .. 1 BY <1>1
    <3>2. CASE Send(r, s) /\ RecordHandler(r, s, TRUE, 0, "usage")
      BY <3>1, <3>2, HandlerSendTyped
    <3>3. CASE /\ code' = [code EXCEPT ![r] = s]
               /\ RecordHandler(r, s, TRUE, 0, "rejecting")
               /\ UNCHANGED <<wire, body, connected>>
      <4>1. Accounted(r, "rejecting") /\ owed' \in [Request -> 0 .. 1] /\ UNCHANGED <<route, id, turn>>
        BY <3>1, <3>3, RecordHandlerTyped
      <4>2. AnswerTyped BY <3>1, <3>3 DEF AnswerTyped, TypeOK
      <4>3. route' \in [Request -> Routes \cup {"none"}] BY <4>1 DEF TypeOK
      <4> QED BY <4>1, <4>2, <4>3, StepTyped
    <3> QED BY <2>7, <3>2, <3>3 DEF HandlerThrows
  <2> QED BY <1>8, <2>1, <2>2, <2>3, <2>4, <2>5, <2>6, <2>7 DEF HandlerStep
<1>9. CASE Finish(r)
  <2>1. code[r] \in Status /\ 0 \in 0 .. 1 BY DEF TypeOK
  <2>2. log' \subseteq Row BY <1>9, <2>1, LogTyped DEF Finish
  <2> QED BY <1>9, <2>2 DEF Finish, TypeOK
<1>10. CASE LoseFinish(r)
  BY <1>10 DEF LoseFinish, store, TypeOK
<1>11. CASE Disconnect(r)
  BY <1>11 DEF Disconnect, store, TypeOK
<1> QED BY <1>5, <1>6, <1>7, <1>8, <1>9, <1>10, <1>11
-----------------------------------------------------------------------------
(* The audit: what a step of request r leaves to the others ...            *)
Frame(r) ==
  /\ UNCHANGED <<id, backend, storeOpen>>
  /\ \A q \in Request \ {r} : /\ pc'[q] = pc[q] /\ route'[q] = route[q]
                              /\ body'[q] = body[q] /\ usage'[q] = usage[q]
  /\ log \subseteq log'
  /\ \A row \in log' \ log : row.req = r
  /\ pc'[r] # "idle"
  /\ pc'[r] \in {"admitting", "unseen"} => route'[r] = "none"
  /\ pc'[r] \in {"handler", "usage", "rejecting"} => route'[r] # "none"

(* ... and owes itself.                                                    *)
Settles(r) ==
  /\ storeOpen /\ (Handled(r)' \/ (body'[r] = "finished" /\ pc'[r] # "unseen"))
       => Rows(r)' # {}
  /\ (storeOpen \/ backend = "sqlite") /\ usage'[r] > 0 => Rows(r)' # {}

LEMMA RowsGrow ==
  ASSUME log \subseteq log', id' = id, NEW q, Rows(q) # {}
  PROVE  Rows(q)' # {}
BY DEF Rows

LEMMA StepKeeps ==
  ASSUME IInv, NEW r \in Request, Frame(r), Settles(r)
  PROVE  Fresh' /\ AuditComplete' /\ UsageHasRow'
<1>1. log \subseteq log' /\ id' = id /\ backend' = backend /\ storeOpen' = storeOpen
  BY DEF Frame
<1>2. Fresh'
  <2> SUFFICES ASSUME NEW q \in Request
               PROVE  /\ pc'[q] \in {"idle", "admitting", "unseen"} => route'[q] = "none"
                      /\ pc'[q] = "idle" => /\ body'[q] = "none"
                                            /\ \A row \in log' : row.req # q
                                            /\ usage'[q] = 0
                      /\ pc'[q] \in {"handler", "usage", "rejecting"} => route'[q] # "none"
    BY DEF Fresh
  <2>1. CASE q = r BY <2>1 DEF Frame
  <2>2. CASE q # r BY <2>2 DEF Frame, IInv, Fresh
  <2> QED BY <2>1, <2>2
<1>3. AuditComplete'
  <2> SUFFICES ASSUME storeOpen', NEW q \in Request,
                      Handled(q)' \/ (body'[q] = "finished" /\ pc'[q] # "unseen")
               PROVE  Rows(q)' # {}
    BY DEF AuditComplete
  <2>1. CASE q = r BY <1>1, <2>1 DEF Settles
  <2>2. CASE q # r
    <3>1. Handled(q) \/ (body[q] = "finished" /\ pc[q] # "unseen")
      BY <2>2 DEF Frame, Handled
    <3>2. Rows(q) # {} BY <1>1, <3>1 DEF IInv, AuditComplete
    <3> QED BY <1>1, <3>2, RowsGrow
  <2> QED BY <2>1, <2>2
<1>4. UsageHasRow'
  <2> SUFFICES ASSUME storeOpen' \/ backend' = "sqlite", NEW q \in Request, usage'[q] > 0
               PROVE  Rows(q)' # {}
    BY DEF UsageHasRow
  <2>1. CASE q = r BY <1>1, <2>1 DEF Settles
  <2>2. CASE q # r
    <3>1. usage[q] > 0 BY <2>2 DEF Frame
    <3>2. Rows(q) # {} BY <1>1, <3>1 DEF IInv, UsageHasRow
    <3> QED BY <1>1, <3>2, RowsGrow
  <2> QED BY <2>1, <2>2
<1> QED BY <1>2, <1>3, <1>4

(* A step that writes nothing and settles nothing.                         *)
LEMMA QuietStep ==
  ASSUME IInv, NEW r \in Request,
         UNCHANGED <<id, backend, storeOpen, log, usage>>,
         \A q \in Request \ {r} : /\ pc'[q] = pc[q] /\ route'[q] = route[q]
                                  /\ body'[q] = body[q],
         pc'[r] # "idle",
         pc'[r] \in {"admitting", "unseen"} => route'[r] = "none",
         pc'[r] \in {"handler", "usage", "rejecting"} => route'[r] # "none",
         Handled(r)' \/ (body'[r] = "finished" /\ pc'[r] # "unseen")
           => Handled(r) \/ (body[r] = "finished" /\ pc[r] # "unseen")
  PROVE  Fresh' /\ AuditComplete' /\ UsageHasRow'
<1>1. Frame(r) BY DEF Frame
<1>2. Settles(r)
  <2>1. ASSUME storeOpen, Handled(r)' \/ (body'[r] = "finished" /\ pc'[r] # "unseen")
        PROVE  Rows(r)' # {}
    <3>1. Rows(r) # {} BY <2>1 DEF IInv, AuditComplete
    <3> QED BY <3>1, RowsGrow
  <2>2. ASSUME storeOpen \/ backend = "sqlite", usage'[r] > 0
        PROVE  Rows(r)' # {}
    <3>1. Rows(r) # {} BY <2>2 DEF IInv, UsageHasRow
    <3> QED BY <3>1, RowsGrow
  <2> QED BY <2>1, <2>2 DEF Settles
<1> QED BY <1>1, <1>2, StepKeeps

(* Writing a row of request r, in terms of the audit.                      *)
LEMMA RowWritten ==
  ASSUME IInv, NEW r \in Request, NEW source, NEW status, NEW tokens,
         LogRequest(r, source, status, tokens), UNCHANGED <<id, backend, storeOpen>>
  PROVE  /\ log \subseteq log'
         /\ \A row \in log' \ log : row.req = r
         /\ Writable => Rows(r)' # {}
<1> DEFINE new == [req |-> r, source |-> source, status |-> status, tokens |-> tokens]
<1>1. new.req = r OBVIOUS
<1>2. log' = Logged(r, new) BY DEF LogRequest
<1>3. /\ log \subseteq log'
      /\ log' \subseteq log \cup {new}
      /\ Writable => \E x \in log' : id[x.req] = id[r]
  BY <1>1, <1>2, LoggedRow
<1>4. Writable => Rows(r)' # {} BY <1>3 DEF Rows
<1> QED BY <1>1, <1>3, <1>4

LEMMA UsageWritten ==
  ASSUME TypeOK, NEW r \in Request, NEW n, usage' = Recorded(r, n)
  PROVE  /\ \A q \in Request \ {r} : usage'[q] = usage[q]
         /\ ~Writable => usage' = usage
<1>1. CASE Writable
  <2>1. usage' = [usage EXCEPT ![r] = @ + n] BY <1>1 DEF Recorded
  <2> QED BY <1>1, <2>1 DEF TypeOK
<1>2. CASE ~Writable BY <1>2 DEF Recorded
<1> QED BY <1>1, <1>2

(* The end of a config route.                                              *)
LEMMA RecordKeeps ==
  ASSUME IInv, NEW r \in Request, NEW status, NEW failed, NEW tokens, NEW entries,
         Record(r, status, failed, tokens, entries), UNCHANGED id,
         \A q \in Request \ {r} : route'[q] = route[q] /\ body'[q] = body[q]
  PROVE  Fresh' /\ AuditComplete' /\ UsageHasRow'
<1>1. /\ LogRequest(r, "route", status, tokens)
      /\ usage' = Recorded(r, entries)
      /\ UNCHANGED <<backend, storeOpen>>
      /\ pc' = [pc EXCEPT ![r] = "done"]
  BY DEF Record, Goto
<1>2. /\ log \subseteq log'
      /\ \A row \in log' \ log : row.req = r
      /\ Writable => Rows(r)' # {}
  BY <1>1, RowWritten
<1>3. /\ \A q \in Request \ {r} : usage'[q] = usage[q]
      /\ ~Writable => usage' = usage
  BY <1>1, UsageWritten DEF IInv
<1>4. pc'[r] = "done" /\ \A q \in Request \ {r} : pc'[q] = pc[q]
  BY <1>1 DEF IInv, TypeOK
<1>5. Frame(r) BY <1>1, <1>2, <1>3, <1>4 DEF Frame
<1>6. Settles(r)
  <2>1. CASE Writable BY <1>2, <2>1 DEF Settles
  <2>2. CASE ~Writable
    <3>1. ~storeOpen /\ usage' = usage BY <1>3, <2>2 DEF Writable
    <3>2. ASSUME backend = "sqlite", usage'[r] > 0 PROVE Rows(r)' # {}
      <4>1. Rows(r) # {} BY <3>1, <3>2 DEF IInv, UsageHasRow
      <4> QED BY <1>2, <4>1, RowsGrow
    <3> QED BY <3>1, <3>2 DEF Settles
  <2> QED BY <2>1, <2>2
<1> QED BY <1>5, <1>6, StepKeeps

(* The end of a function route, before its usage is recorded.              *)
LEMMA RecordHandlerKeeps ==
  ASSUME IInv, NEW r \in Request, NEW status, NEW failed, NEW tokens,
         NEW next \in {"usage", "rejecting"},
         RecordHandler(r, status, failed, tokens, next), pc[r] = "handler",
         route[r] # "none",
         \A q \in Request \ {r} : body'[q] = body[q]
  PROVE  Fresh' /\ AuditComplete' /\ UsageHasRow'
<1>1. /\ LogRequest(r, "route", status, tokens)
      /\ UNCHANGED <<route, id, backend, storeOpen, usage>>
      /\ pc' = [pc EXCEPT ![r] = next]
  BY DEF RecordHandler, Goto
<1>2. /\ log \subseteq log'
      /\ \A row \in log' \ log : row.req = r
      /\ Writable => Rows(r)' # {}
  BY <1>1, RowWritten
<1>3. pc'[r] = next /\ \A q \in Request \ {r} : pc'[q] = pc[q]
  BY <1>1 DEF IInv, TypeOK
<1>4. Frame(r) BY <1>1, <1>2, <1>3 DEF Frame
<1>5. Settles(r)
  <2>1. storeOpen => Writable BY DEF Writable
  <2>2. ASSUME storeOpen \/ backend = "sqlite", usage'[r] > 0 PROVE Rows(r)' # {}
    <3>1. Rows(r) # {} BY <1>1, <2>2 DEF IInv, UsageHasRow
    <3> QED BY <1>1, <1>2, <3>1, RowsGrow
  <2> QED BY <1>2, <2>1, <2>2 DEF Settles
<1> QED BY <1>4, <1>5, StepKeeps

-----------------------------------------------------------------------------
(* Every request the routes handled or the logging middleware saw finish   *)
(* has a row, and every usage entry a row to join: one inductive invariant.*)
THEOREM AuditInit == ASSUME Init PROVE Fresh /\ AuditComplete /\ UsageHasRow
BY DEF Init, Fresh, AuditComplete, UsageHasRow, Handled

LEMMA OpenIsWritable == storeOpen => Writable
BY DEF Writable

LEMMA FailKeeps ==
  ASSUME IInv, NEW r \in Request, NEW s, NEW tokens, Fail(r, s, tokens),
         UNCHANGED id, \A q \in Request \ {r} : route'[q] = route[q]
  PROVE  Fresh' /\ AuditComplete' /\ UsageHasRow'
<1>1. Send(r, s) /\ Record(r, s, TRUE, tokens, 0) BY DEF Fail
<1>2. \A q \in Request \ {r} : body'[q] = body[q] BY <1>1 DEF Send, IInv, TypeOK
<1> QED BY <1>1, <1>2, RecordKeeps

LEMMA RespondKeeps ==
  ASSUME IInv, NEW r \in Request, NEW tokens, Respond(r, tokens), UNCHANGED <<id, route>>
  PROVE  Fresh' /\ AuditComplete' /\ UsageHasRow'
<1>1. CASE Send(r, 200) /\ Record(r, 200, FALSE, tokens, tokens)
  <2>1. \A q \in Request \ {r} : body'[q] = body[q] BY <1>1 DEF Send, IInv, TypeOK
  <2> QED BY <1>1, <2>1, RecordKeeps
<1>2. CASE Fail(r, 500, tokens)
  BY <1>2, FailKeeps
<1> QED BY <1>1, <1>2 DEF Respond

LEMMA ArriveKeeps ==
  ASSUME IInv, NEW r \in Request, Arrive(r)
  PROVE  Fresh' /\ AuditComplete' /\ UsageHasRow'
<1>1. /\ pc[r] = "idle"
      /\ pc' = [pc EXCEPT ![r] = "admitting"]
      /\ UNCHANGED <<route, body, backend, storeOpen, log, usage>>
      /\ \A q \in Request \ {r} : id'[q] = id[q]
  BY DEF Arrive, Goto, answer, store, IInv, TypeOK
<1>2. /\ pc'[r] = "admitting"
      /\ \A q \in Request \ {r} : pc'[q] = pc[q]
  BY <1>1 DEF IInv, TypeOK
<1>3. \A row \in log : row.req \in Request \ {r} BY <1>1 DEF IInv, TypeOK, Row, Fresh
<1>4. body[r] = "none" /\ usage[r] = 0 /\ route[r] = "none" BY <1>1 DEF IInv, Fresh
<1>5. Fresh' BY <1>1, <1>2, <1>4 DEF IInv, Fresh
<1>6. ASSUME NEW q \in Request \ {r} PROVE Rows(q)' = Rows(q)
  BY <1>1, <1>3 DEF Rows
<1>7. AuditComplete' BY <1>1, <1>2, <1>4, <1>6 DEF IInv, AuditComplete, Handled
<1>8. UsageHasRow' BY <1>1, <1>4, <1>6 DEF IInv, UsageHasRow
<1> QED BY <1>5, <1>7, <1>8

LEMMA CloseKeeps ==
  ASSUME IInv, CloseStore
  PROVE  Fresh' /\ AuditComplete' /\ UsageHasRow'
<1>1. UNCHANGED <<pc, route, id, body, backend>> /\ ~storeOpen' /\ storeOpen
  BY DEF CloseStore, answer
<1>2. log' \subseteq log BY DEF CloseStore
<1>3. \A r \in Request : usage[r] = 0 => usage'[r] = 0 BY DEF CloseStore
<1>4. Fresh' BY <1>1, <1>2, <1>3 DEF IInv, Fresh
<1>5. AuditComplete' BY <1>1 DEF AuditComplete
<1>6. UsageHasRow'
  <2> SUFFICES ASSUME backend' = "sqlite", NEW r \in Request, usage'[r] > 0
               PROVE  Rows(r)' # {}
    BY <1>1 DEF UsageHasRow
  <2>1. log' = log /\ usage' = usage BY <1>1 DEF CloseStore
  <2>2. Rows(r) # {} BY <1>1, <2>1 DEF IInv, UsageHasRow
  <2> QED BY <1>1, <2>1, <2>2, RowsGrow
<1> QED BY <1>4, <1>5, <1>6

LEMMA UsageKeeps ==
  ASSUME IInv, NEW r \in Request, RecordUsage(r)
  PROVE  Fresh' /\ AuditComplete' /\ UsageHasRow'
<1>1. /\ pc[r] \in {"usage", "rejecting"}
      /\ usage' = Recorded(r, owed[r])
      /\ pc' = [pc EXCEPT ![r] = "done"]
      /\ UNCHANGED <<route, id, body, backend, storeOpen, log>>
  BY DEF RecordUsage, Goto
<1>2. /\ \A q \in Request \ {r} : usage'[q] = usage[q]
      /\ ~Writable => usage' = usage
  BY <1>1, UsageWritten DEF IInv
<1>3. pc'[r] = "done" /\ \A q \in Request \ {r} : pc'[q] = pc[q]
  BY <1>1 DEF IInv, TypeOK
<1>4. Frame(r) BY <1>1, <1>2, <1>3 DEF Frame
<1>5. storeOpen => Rows(r) # {}
  <2>1. Handled(r) BY <1>1 DEF IInv, Fresh, Handled
  <2> QED BY <2>1 DEF IInv, AuditComplete
<1>6. Rows(r)' = Rows(r) BY <1>1 DEF Rows
<1>7. ~storeOpen /\ backend = "sqlite" /\ usage'[r] > 0 => Rows(r) # {}
  BY <1>2 DEF Writable, IInv, UsageHasRow
<1>8. Settles(r) BY <1>5, <1>6, <1>7 DEF Settles
<1> QED BY <1>4, <1>8, StepKeeps

LEMMA FinishKeeps ==
  ASSUME IInv, NEW r \in Request, Finish(r)
  PROVE  Fresh' /\ AuditComplete' /\ UsageHasRow'
<1>1. /\ body[r] = "ended"
      /\ LogRequest(r, "finish", code[r], 0)
      /\ body' = [body EXCEPT ![r] = "finished"]
      /\ UNCHANGED <<pc, route, id, backend, storeOpen, usage>>
  BY DEF Finish
<1>2. /\ log \subseteq log'
      /\ \A row \in log' \ log : row.req = r
      /\ Writable => Rows(r)' # {}
  BY <1>1, RowWritten
<1>3. \A q \in Request \ {r} : body'[q] = body[q] BY <1>1 DEF IInv, TypeOK
<1>4. pc[r] # "idle" BY <1>1 DEF IInv, Fresh
<1>5. Frame(r)
  BY <1>1, <1>2, <1>3, <1>4 DEF Frame, IInv, Fresh
<1>6. usage'[r] > 0 /\ backend = "sqlite" => Rows(r)' # {}
  <2> SUFFICES ASSUME usage[r] > 0, backend = "sqlite" PROVE Rows(r)' # {}
    BY <1>1
  <2>1. Rows(r) # {} BY DEF IInv, UsageHasRow
  <2> QED BY <1>1, <1>2, <2>1, RowsGrow
<1>7. Settles(r) BY <1>2, <1>6, OpenIsWritable DEF Settles
<1> QED BY <1>5, <1>7, StepKeeps

THEOREM AuditStep ==
  ASSUME IInv, [Next]_vars
  PROVE  Fresh' /\ AuditComplete' /\ UsageHasRow'
<1>1. CASE UNCHANGED vars
  BY <1>1 DEF vars, answer, store, IInv, Fresh, AuditComplete, UsageHasRow, Rows, Handled
<1>2. CASE CloseStore BY <1>2, CloseKeeps
<1> SUFFICES ASSUME NEW r \in Request,
                    \/ Admission(r) \/ ConfigStep(r) \/ CallStep(r) \/ HandlerStep(r)
                    \/ Finish(r) \/ LoseFinish(r) \/ Disconnect(r)
             PROVE  Fresh' /\ AuditComplete' /\ UsageHasRow'
  BY <1>1, <1>2 DEF Next
<1> USE DEF Goto
<1>3. ASSUME NEW kinds \in SUBSET (Config \cup {"function"}), Match(r, kinds)
      PROVE  route'[r] # "none" /\ \A q \in Request \ {r} : route'[q] = route[q]
  BY <1>3 DEF Match, IInv, TypeOK, Config
<1>4. CASE Admission(r)
  <2>1. CASE AnswerUnseen(r)
    BY <2>1, QuietStep DEF AnswerUnseen, Send, store, IInv, TypeOK, Fresh, Handled
  <2>2. CASE Arrive(r) BY <2>2, ArriveKeeps
  <2>3. ASSUME NEW s \in EarlyAnswers, AnswerEarly(r, s)
        PROVE  Fresh' /\ AuditComplete' /\ UsageHasRow'
    BY <2>3, QuietStep DEF AnswerEarly, Send, store, IInv, TypeOK, Fresh, Handled
  <2> QED BY <1>4, <2>1, <2>2, <2>3 DEF Admission
<1>5. CASE ConfigStep(r)
  <2>1. CASE Refuse(r)
    <3>1. PICK s \in {500} \cup Failures : Fail(r, s, 0) BY <2>1 DEF Refuse
    <3>2. \A q \in Request \ {r} : route'[q] = route[q] BY <1>3, <2>1 DEF Refuse
    <3> QED BY <2>1, <3>1, <3>2, FailKeeps DEF Refuse
  <2>2. CASE Dispatch(r)
    <3>1. pc[r] = "admitting" /\ \A q \in Request \ {r} : route'[q] = route[q]
      BY <1>3, <2>2 DEF Dispatch, Match
    <3> QED BY <2>2, <3>1, QuietStep DEF Dispatch, answer, store, IInv, TypeOK, Handled
  <2>3. CASE PipelinePasses(r)
    BY <2>3, QuietStep DEF PipelinePasses, answer, store, IInv, TypeOK, Handled
  <2>4. ASSUME NEW s, PipelineFails(r, s) PROVE Fresh' /\ AuditComplete' /\ UsageHasRow'
    BY <2>4, FailKeeps DEF PipelineFails
  <2>5. ASSUME NEW n, PipelineResponds(r, n) PROVE Fresh' /\ AuditComplete' /\ UsageHasRow'
    BY <2>5, RespondKeeps DEF PipelineResponds
  <2> QED BY <1>5, <2>1, <2>2, <2>3, <2>4, <2>5 DEF ConfigStep
<1>6. CASE CallStep(r)
  <2>1. CASE FallBack(r)
    BY <2>1, QuietStep DEF FallBack, answer, store, Handled
  <2>2. CASE StreamOpens(r)
    BY <2>2, QuietStep DEF StreamOpens, store, IInv, TypeOK, Handled
  <2>3. CASE StreamFails(r)
    BY <2>3, RecordKeeps DEF StreamFails
  <2>4. ASSUME NEW s, CallFails(r, s) PROVE Fresh' /\ AuditComplete' /\ UsageHasRow'
    BY <2>4, FailKeeps DEF CallFails
  <2>5. ASSUME NEW n, CallReturns(r, n) PROVE Fresh' /\ AuditComplete' /\ UsageHasRow'
    BY <2>5, RespondKeeps DEF CallReturns
  <2>6. ASSUME NEW n, ComposeReturns(r, n) PROVE Fresh' /\ AuditComplete' /\ UsageHasRow'
    <3>1. CASE Fail(r, 500, n)
      BY <2>6, <3>1, FailKeeps DEF ComposeReturns
    <3>2. CASE /\ body' = [body EXCEPT ![r] = "ended"]
               /\ Record(r, 500, TRUE, n, n)
      <4>1. \A q \in Request \ {r} : body'[q] = body[q] BY <3>2 DEF IInv, TypeOK
      <4> QED BY <2>6, <3>2, <4>1, RecordKeeps DEF ComposeReturns
    <3> QED BY <2>6, <3>1, <3>2 DEF ComposeReturns
  <2>7. ASSUME NEW n, StreamEnds(r, n) PROVE Fresh' /\ AuditComplete' /\ UsageHasRow'
    <3>1. \A q \in Request \ {r} : body'[q] = body[q] BY <2>7 DEF StreamEnds, IInv, TypeOK
    <3> QED BY <2>7, <3>1, RecordKeeps DEF StreamEnds
  <2> QED BY <1>6, <2>1, <2>2, <2>3, <2>4, <2>5, <2>6, <2>7 DEF CallStep
<1>7. CASE HandlerStep(r)
  <2>1. CASE EnterHandler(r)
    <3>1. /\ pc[r] = "admitting" /\ route'[r] # "none"
          /\ \A q \in Request \ {r} : route'[q] = route[q]
      BY <1>3, <2>1 DEF EnterHandler, Match
    <3> QED BY <2>1, <3>1, QuietStep DEF EnterHandler, answer, store, IInv, TypeOK, Handled
  <2>2. CASE HandlerEnds(r)
    BY <2>2, QuietStep DEF HandlerEnds, store, IInv, TypeOK, Fresh, Handled
  <2>3. CASE RecordUsage(r) BY <2>3, UsageKeeps
  <2>4. ASSUME NEW s, HandlerSends(r, s) PROVE Fresh' /\ AuditComplete' /\ UsageHasRow'
    <3>1. /\ \A q \in Request \ {r} : body'[q] = body[q]
          /\ body'[r] # "finished"
      BY <2>4 DEF HandlerSends, Send, IInv, TypeOK
    <3> QED BY <2>4, <3>1, QuietStep DEF HandlerSends, store, IInv, Fresh, Handled
  <2>5. ASSUME pc[r] = "handler" PROVE route[r] # "none"
    BY <2>5 DEF IInv, Fresh
  <2>6. ASSUME NEW s, Send(r, s) PROVE \A q \in Request \ {r} : body'[q] = body[q]
    BY <2>6 DEF Send, IInv, TypeOK
  <2>7. ASSUME NEW n, HandlerReturnsSent(r, n) PROVE Fresh' /\ AuditComplete' /\ UsageHasRow'
    BY <2>5, <2>7, RecordHandlerKeeps DEF HandlerReturnsSent, answer
  <2>8. ASSUME NEW n, HandlerReturns(r, n) PROVE Fresh' /\ AuditComplete' /\ UsageHasRow'
    <3>1. pc[r] = "handler" BY <2>8 DEF HandlerReturns
    <3>2. CASE Send(r, 204) /\ RecordHandler(r, 204, FALSE, 0, "usage")
      BY <2>5, <2>6, <3>1, <3>2, RecordHandlerKeeps
    <3>3. CASE Send(r, 200) /\ RecordHandler(r, 200, FALSE, n, "usage")
      BY <2>5, <2>6, <3>1, <3>3, RecordHandlerKeeps
    <3>4. CASE Send(r, 500) /\ RecordHandler(r, 500, TRUE, n, "usage")
      BY <2>5, <2>6, <3>1, <3>4, RecordHandlerKeeps
    <3> QED BY <2>8, <3>2, <3>3, <3>4 DEF HandlerReturns
  <2>9. ASSUME NEW s, HandlerThrows(r, s) PROVE Fresh' /\ AuditComplete' /\ UsageHasRow'
    <3>1. pc[r] = "handler" BY <2>9 DEF HandlerThrows
    <3>2. CASE Send(r, s) /\ RecordHandler(r, s, TRUE, 0, "usage")
      BY <2>5, <2>6, <3>1, <3>2, RecordHandlerKeeps
    <3>3. CASE RecordHandler(r, s, TRUE, 0, "rejecting") /\ UNCHANGED <<wire, body, connected>>
      BY <2>5, <3>1, <3>3, RecordHandlerKeeps
    <3> QED BY <2>9, <3>2, <3>3 DEF HandlerThrows
  <2> QED BY <1>7, <2>1, <2>2, <2>3, <2>4, <2>7, <2>8, <2>9 DEF HandlerStep
<1>8. CASE Finish(r) BY <1>8, FinishKeeps
<1>9. CASE LoseFinish(r)
  BY <1>9, QuietStep DEF LoseFinish, store, IInv, TypeOK, Fresh, Handled
<1>10. CASE Disconnect(r)
  BY <1>10, QuietStep DEF Disconnect, store, IInv, Fresh, Handled
<1> QED BY <1>4, <1>5, <1>6, <1>7, <1>8, <1>9, <1>10

-----------------------------------------------------------------------------
THEOREM Invariance == Spec => []IInv
<1>1. Init => IInv BY TypeInit, AuditInit DEF IInv
<1>2. IInv /\ [Next]_vars => IInv'
  BY TypeStep, AuditStep DEF IInv
<1> QED BY <1>1, <1>2, PTL DEF Spec

(* The state keeps its shape (TypeOK).                                     *)
THEOREM TypeCorrect == Spec => []TypeOK
<1>1. IInv => TypeOK BY DEF IInv
<1> QED BY <1>1, Invariance, PTL

(* Whatever fails, disconnects or collides in id, a handled or finished    *)
(* request has its row while the store is open (router.ts, request-        *)
(* logging.ts, function-route-runtime.ts, both stores).                    *)
THEOREM AuditStaysComplete == Spec => []AuditComplete
<1>1. IInv => AuditComplete BY DEF IInv
<1> QED BY <1>1, Invariance, PTL

(* A usage entry always has a row of its request id to join.               *)
THEOREM UsageAlwaysHasRow == Spec => []UsageHasRow
<1>1. IInv => UsageHasRow BY DEF IInv
<1> QED BY <1>1, Invariance, PTL

-----------------------------------------------------------------------------
(* What is on record of a request agrees with the request itself.          *)
Settled == {"usage", "rejecting", "done"}

(* Status s is what the client of r saw, or a failure it notices.          *)
Told(s, r) ==
  \/ s = wire[r]
  \/ s >= 400 /\ (~connected[r] \/ pc[r] = "rejecting")

(* The response grows with the handler.                                    *)
ResponseInStep(r) ==
  /\ pc[r] \in {"idle", "admitting", "pipeline", "calling"} => body[r] = "none"
  /\ pc[r] = "streaming" => body[r] = "open" /\ wire[r] = 200
  /\ pc[r] \in Settled \cup {"unseen"} => body[r] # "none"
  /\ body[r] = "none" => code[r] = 200
  /\ body[r] # "none" => Told(code[r], r)
  /\ pc[r] = "streaming" => code[r] = 200

(* A config route has no handler of a function, and usage comes last.      *)
UsageInStep(r) ==
  /\ route[r] \in Config => pc[r] \in {"pipeline", "calling", "streaming", "done"}
  /\ pc[r] \in {"idle", "admitting", "pipeline", "calling", "streaming"} => usage[r] = 0

(* A row belongs to a request that settled, or whose response went out.    *)
RowsInStep ==
  \A row \in log :
    \/ pc[row.req] \in Settled
    \/ row.source = "finish" /\ body[row.req] = "finished"

LogInv ==
  /\ \A r \in Request : ResponseInStep(r) /\ UsageInStep(r)
  /\ RowsInStep
  /\ IsFiniteSet(log)

(* What a step of request r does to the rows: nothing, account for r, note *)
(* that its response is out, or record its usage.                          *)
Quiet(r) ==
  /\ UNCHANGED <<log, stats, usage>>
  /\ Handled(r)' /\ route'[r] \in Config => Handled(r) /\ route[r] \in Config

Accounts(r) ==
  \E status \in Status, tokens \in 0 .. 1, failed \in BOOLEAN, entries \in 0 .. 1 :
    /\ LogRequest(r, "route", status, tokens)
    /\ stats' = Counts(failed, tokens)
    /\ usage' = Recorded(r, entries)
    /\ entries <= tokens
    /\ failed => status >= 400
    /\ Told(status, r)'
    /\ pc[r] \notin Settled /\ pc'[r] \in Settled
    /\ route'[r] \in Config => body[r] # "finished" /\ usage[r] = 0

Finishes(r) ==
  /\ LogRequest(r, "finish", code[r], 0)
  /\ UNCHANGED <<stats, usage, pc, route, code>>
  /\ body[r] = "ended" /\ body'[r] = "finished"
  /\ Told(code[r], r)'

PaysUsage(r) ==
  /\ UNCHANGED <<log, stats>>
  /\ route'[r] \notin Config
  /\ pc[r] \in Settled /\ pc'[r] \in Settled

(* ... while the other requests, and what was seen of r, stay as they are. *)
Step(r) ==
  /\ UNCHANGED <<id, backend, storeOpen>>
  /\ \A q \in Request \ {r} :
       /\ pc'[q] = pc[q] /\ route'[q] = route[q] /\ code'[q] = code[q]
       /\ wire'[q] = wire[q] /\ body'[q] = body[q] /\ connected'[q] = connected[q]
       /\ usage'[q] = usage[q]
  /\ pc'[r] # "idle"
  /\ ResponseInStep(r)' /\ UsageInStep(r)'
  /\ body[r] # "none" => body'[r] # "none" /\ wire'[r] = wire[r]
  /\ body[r] = "finished" => body'[r] = "finished"
  /\ ~connected[r] => ~connected'[r]
  /\ pc[r] \in Settled => pc'[r] \in Settled
  /\ pc[r] = "rejecting" => pc'[r] = "rejecting" \/ ~connected'[r]
  /\ Quiet(r) \/ Accounts(r) \/ Finishes(r) \/ PaysUsage(r)

-----------------------------------------------------------------------------
LEMMA StatusIsInt == Status \subseteq Int /\ {200, 204, 500} \subseteq Status
BY RouteAssumption DEF Status

LEMMA RecordedAt ==
  ASSUME TypeOK, NEW r \in Request, NEW n \in 0 .. 1
  PROVE  /\ \A q \in Request \ {r} : Recorded(r, n)[q] = usage[q]
         /\ Recorded(r, n)[r] \in {usage[r], usage[r] + n}
         /\ n = 0 => Recorded(r, n) = usage
<1>1. CASE Writable
  <2>1. Recorded(r, n) = [usage EXCEPT ![r] = @ + n]
    BY <1>1 DEF Recorded
  <2>2. ASSUME n = 0 PROVE [usage EXCEPT ![r] = @ + n] = usage
    BY <2>2 DEF TypeOK
  <2>. QED BY <2>1, <2>2 DEF TypeOK
<1>2. CASE ~Writable
  BY <1>2 DEF Recorded
<1>. QED BY <1>1, <1>2

(* Accounting for a request whose response has begun.                      *)
LEMMA AccountStep ==
  ASSUME TypeOK, NEW r \in Request, ResponseInStep(r), UsageInStep(r),
         UNCHANGED <<id, backend, storeOpen>>,
         NEW status \in Status, NEW tokens \in 0 .. 1, NEW failed \in BOOLEAN,
         NEW entries \in 0 .. 1, NEW next \in Settled,
         LogRequest(r, "route", status, tokens),
         stats' = Counts(failed, tokens), usage' = Recorded(r, entries),
         entries <= tokens, failed => status >= 400,
         pc[r] \notin Settled, pc' = [pc EXCEPT ![r] = next],
         \A q \in Request \ {r} :
           /\ route'[q] = route[q] /\ code'[q] = code[q] /\ wire'[q] = wire[q]
           /\ body'[q] = body[q] /\ connected'[q] = connected[q],
         route'[r] \in Config =>
           next = "done" /\ pc[r] \in {"admitting", "pipeline", "calling", "streaming"},
         body'[r] # "none", Told(status, r)', Told(code[r], r)',
         body[r] # "none" => wire'[r] = wire[r],
         body[r] = "finished" => body'[r] = "finished",
         ~connected[r] => ~connected'[r]
  PROVE  Step(r)
<1>1. /\ pc'[r] = next
      /\ \A q \in Request \ {r} : pc'[q] = pc[q]
  BY DEF TypeOK
<1>2. \A q \in Request \ {r} : usage'[q] = usage[q]
  BY RecordedAt
<1>3. next \in {"usage", "rejecting", "done"}
  BY DEF Settled
<1>4. ResponseInStep(r)'
  BY <1>1, <1>3 DEF ResponseInStep
<1>5. UsageInStep(r)'
  BY <1>1, <1>3 DEF UsageInStep
<1>6. route'[r] \in Config => body[r] # "finished" /\ usage[r] = 0
  BY DEF ResponseInStep, UsageInStep
<1>7. Accounts(r)
  BY <1>1, <1>6 DEF Accounts
<1>8. pc[r] # "rejecting" /\ pc'[r] # "idle"
  BY <1>1, <1>3 DEF Settled
<1>. QED BY <1>1, <1>2, <1>4, <1>5, <1>7, <1>8 DEF Step

LEMMA SendAt ==
  ASSUME TypeOK, NEW r \in Request, NEW s, Send(r, s)
  PROVE  /\ body[r] = "none" /\ body'[r] = "ended"
         /\ code'[r] = s /\ wire'[r] = s
         /\ UNCHANGED connected
         /\ \A q \in Request \ {r} :
              code'[q] = code[q] /\ wire'[q] = wire[q] /\ body'[q] = body[q]
BY DEF TypeOK, Send

LEMMA RecordStep ==
  ASSUME TypeOK, NEW r \in Request, ResponseInStep(r), UsageInStep(r),
         UNCHANGED id,
         NEW status \in Status, NEW tokens \in 0 .. 1, NEW failed \in BOOLEAN,
         NEW entries \in 0 .. 1, Record(r, status, failed, tokens, entries),
         entries <= tokens, failed => status >= 400,
         pc[r] \in {"admitting", "pipeline", "calling", "streaming"},
         \A q \in Request \ {r} :
           /\ route'[q] = route[q] /\ code'[q] = code[q] /\ wire'[q] = wire[q]
           /\ body'[q] = body[q] /\ connected'[q] = connected[q],
         body'[r] # "none", Told(status, r)', Told(code[r], r)',
         body[r] # "none" => wire'[r] = wire[r],
         ~connected[r] => ~connected'[r]
  PROVE  Step(r)
<1>1. pc[r] \notin Settled /\ body[r] # "finished"
  BY DEF Settled, ResponseInStep
<1>2. "done" \in Settled
  BY DEF Settled
<1>3. /\ LogRequest(r, "route", status, tokens)
      /\ usage' = Recorded(r, entries)
      /\ stats' = Counts(failed, tokens)
      /\ UNCHANGED <<backend, storeOpen>>
      /\ pc' = [pc EXCEPT ![r] = "done"]
  BY DEF Record, Goto
<1>. QED BY <1>1, <1>2, <1>3, AccountStep

LEMMA SentRecordStep ==
  ASSUME TypeOK, NEW r \in Request, ResponseInStep(r), UsageInStep(r),
         UNCHANGED id, \A q \in Request \ {r} : route'[q] = route[q],
         NEW status \in Status, NEW tokens \in 0 .. 1, NEW failed \in BOOLEAN,
         NEW entries \in 0 .. 1, entries <= tokens, failed => status >= 400,
         Send(r, status), Record(r, status, failed, tokens, entries),
         pc[r] \in {"admitting", "pipeline", "calling", "streaming"}
  PROVE  Step(r)
<1>1. /\ body[r] = "none" /\ body'[r] = "ended"
      /\ code'[r] = status /\ wire'[r] = status
      /\ UNCHANGED connected
      /\ \A q \in Request \ {r} :
           code'[q] = code[q] /\ wire'[q] = wire[q] /\ body'[q] = body[q]
  BY SendAt
<1>2. Told(status, r)' /\ Told(code[r], r)'
  BY <1>1 DEF Told
<1>. QED BY <1>1, <1>2, RecordStep

LEMMA FailStep ==
  ASSUME TypeOK, NEW r \in Request, ResponseInStep(r), UsageInStep(r),
         UNCHANGED id, \A q \in Request \ {r} : route'[q] = route[q],
         NEW s \in {500} \cup Failures, NEW tokens \in 0 .. 1, Fail(r, s, tokens),
         pc[r] \in {"admitting", "pipeline", "calling", "streaming"}
  PROVE  Step(r)
<1>1. s \in Status /\ s >= 400 /\ 0 \in 0 .. 1 /\ 0 <= tokens
  BY RouteAssumption DEF Status
<1>2. Send(r, s) /\ Record(r, s, TRUE, tokens, 0)
  BY DEF Fail
<1>. QED BY <1>1, <1>2, SentRecordStep

LEMMA RespondStep ==
  ASSUME TypeOK, NEW r \in Request, ResponseInStep(r), UsageInStep(r),
         UNCHANGED <<id, route>>,
         NEW tokens \in 0 .. 1, Respond(r, tokens),
         pc[r] \in {"admitting", "pipeline", "calling", "streaming"}
  PROVE  Step(r)
<1>1. CASE Send(r, 200) /\ Record(r, 200, FALSE, tokens, tokens)
  <2>1. 200 \in Status /\ FALSE \in BOOLEAN /\ tokens <= tokens
    BY StatusIsInt
  <2>. QED BY <1>1, <2>1, SentRecordStep
<1>2. CASE Fail(r, 500, tokens)
  BY <1>2, FailStep
<1>. QED BY <1>1, <1>2 DEF Respond

(* A function route: its usage is recorded later.                          *)
LEMMA RecordHandlerStep ==
  ASSUME TypeOK, NEW r \in Request, ResponseInStep(r), UsageInStep(r),
         pc[r] = "handler",
         NEW status \in Status, NEW tokens \in 0 .. 1, NEW failed \in BOOLEAN,
         NEW next \in {"usage", "rejecting"},
         RecordHandler(r, status, failed, tokens, next), failed => status >= 400,
         \A q \in Request \ {r} :
           /\ code'[q] = code[q] /\ wire'[q] = wire[q]
           /\ body'[q] = body[q] /\ connected'[q] = connected[q],
         body'[r] # "none", Told(status, r)', Told(code[r], r)',
         body[r] # "none" => wire'[r] = wire[r],
         body[r] = "finished" => body'[r] = "finished",
         ~connected[r] => ~connected'[r]
  PROVE  Step(r)
<1>1. /\ LogRequest(r, "route", status, tokens)
      /\ stats' = Counts(failed, tokens)
      /\ pc' = [pc EXCEPT ![r] = next]
      /\ UNCHANGED <<route, id, backend, storeOpen, usage>>
  BY DEF RecordHandler, Goto
<1>2. usage' = Recorded(r, 0) /\ 0 \in 0 .. 1 /\ 0 <= tokens
  BY <1>1, RecordedAt
<1>3. next \in Settled /\ pc[r] \notin Settled
  BY DEF Settled
<1>4. route'[r] \notin Config
  BY <1>1 DEF UsageInStep
<1>5. \A q \in Request \ {r} : route'[q] = route[q]
  BY <1>1
<1>. QED BY <1>1, <1>2, <1>3, <1>4, <1>5, AccountStep

LEMMA SentHandlerStep ==
  ASSUME TypeOK, NEW r \in Request, ResponseInStep(r), UsageInStep(r),
         pc[r] = "handler",
         NEW status \in Status, NEW tokens \in 0 .. 1, NEW failed \in BOOLEAN,
         failed => status >= 400,
         Send(r, status), RecordHandler(r, status, failed, tokens, "usage")
  PROVE  Step(r)
<1>1. /\ body[r] = "none" /\ body'[r] = "ended"
      /\ code'[r] = status /\ wire'[r] = status
      /\ UNCHANGED connected
      /\ \A q \in Request \ {r} :
           code'[q] = code[q] /\ wire'[q] = wire[q] /\ body'[q] = body[q]
  BY SendAt
<1>2. Told(status, r)' /\ Told(code[r], r)'
  BY <1>1 DEF Told
<1>. QED BY <1>1, <1>2, RecordHandlerStep

(* Every step but arriving and the closing of the store is such a step.    *)
LEMMA AdmissionStep ==
  ASSUME IInv, NEW r \in Request, ResponseInStep(r), UsageInStep(r),
         AnswerUnseen(r) \/ \E s \in EarlyAnswers : AnswerEarly(r, s)
  PROVE  Step(r)
<1>1. PICK s \in Status, next \in {"unseen", "done"} :
        /\ Send(r, s) /\ pc' = [pc EXCEPT ![r] = next]
        /\ pc[r] \in {"idle", "admitting"}
        /\ UNCHANGED <<route, id, store, stats>>
  BY DEF AnswerUnseen, AnswerEarly, Goto, Status
<1>2. TypeOK /\ route[r] = "none"
  BY <1>1 DEF IInv, Fresh
<1>3. /\ body[r] = "none" /\ body'[r] = "ended"
      /\ code'[r] = s /\ wire'[r] = s
      /\ UNCHANGED connected
      /\ \A q \in Request \ {r} :
           code'[q] = code[q] /\ wire'[q] = wire[q] /\ body'[q] = body[q]
  BY <1>1, <1>2, SendAt
<1>4. pc'[r] = next /\ \A q \in Request \ {r} : pc'[q] = pc[q]
  BY <1>1, <1>2 DEF TypeOK
<1>5. "none" \notin Config
  BY DEF Config
<1>6. UNCHANGED <<log, usage, backend, storeOpen>>
  BY <1>1 DEF store
<1>7. Quiet(r)
  BY <1>1, <1>2, <1>5, <1>6 DEF Quiet
<1>8. ResponseInStep(r)'
  BY <1>3, <1>4 DEF ResponseInStep, Told
<1>9. UsageInStep(r)'
  BY <1>1, <1>2, <1>4, <1>5 DEF UsageInStep
<1>10. pc[r] \notin Settled
  BY <1>1 DEF Settled
<1>. QED
  BY <1>1, <1>3, <1>4, <1>6, <1>7, <1>8, <1>9, <1>10 DEF Step, Settled

LEMMA MatchAt ==
  ASSUME TypeOK, NEW r \in Request, NEW kinds, Match(r, kinds)
  PROVE  /\ pc[r] = "admitting" /\ route'[r] \in kinds
         /\ \A q \in Request \ {r} : route'[q] = route[q]
BY DEF Match, TypeOK

LEMMA ConfigSteps ==
  ASSUME IInv, NEW r \in Request, ResponseInStep(r), UsageInStep(r),
         ConfigStep(r)
  PROVE  Step(r)
<1>0. TypeOK
  BY DEF IInv
<1>1. CASE Refuse(r)
  <2>1. PICK s \in {500} \cup Failures : Fail(r, s, 0)
    BY <1>1 DEF Refuse
  <2>2. pc[r] = "admitting" /\ \A q \in Request \ {r} : route'[q] = route[q]
    BY <1>0, <1>1, MatchAt DEF Refuse
  <2>3. UNCHANGED id
    BY <1>1 DEF Refuse
  <2>. QED BY <1>0, <2>1, <2>2, <2>3, FailStep
<1>2. CASE Dispatch(r) \/ PipelinePasses(r)
  <2>1. /\ pc[r] \in {"admitting", "pipeline"}
        /\ \A q \in Request \ {r} : route'[q] = route[q]
        /\ route'[r] \in Config \/ route' = route
    BY <1>0, <1>2, MatchAt DEF Dispatch, PipelinePasses
  <2>2. PICK next \in {"pipeline", "calling"} : pc' = [pc EXCEPT ![r] = next]
    BY <1>2 DEF Dispatch, PipelinePasses, Goto
  <2>3. pc'[r] = next /\ \A q \in Request \ {r} : pc'[q] = pc[q]
    BY <1>0, <2>2 DEF TypeOK
  <2>4. UNCHANGED <<id, code, wire, body, connected, backend, storeOpen, log,
                    usage, stats>>
    BY <1>2 DEF Dispatch, PipelinePasses, answer, store
  <2>5. ResponseInStep(r)'
    BY <2>1, <2>3, <2>4 DEF ResponseInStep, Told, Settled
  <2>6. UsageInStep(r)'
    BY <2>1, <2>3, <2>4 DEF UsageInStep
  <2>7. Quiet(r)
    BY <2>3, <2>4 DEF Quiet, Handled
  <2>. QED BY <2>1, <2>3, <2>4, <2>5, <2>6, <2>7 DEF Step, Settled
<1>3. ASSUME NEW s \in {500} \cup Failures, PipelineFails(r, s) PROVE Step(r)
  BY <1>0, <1>3, FailStep DEF PipelineFails
<1>4. ASSUME NEW n \in 0 .. 1, PipelineResponds(r, n) PROVE Step(r)
  BY <1>0, <1>4, RespondStep DEF PipelineResponds
<1>. QED BY <1>1, <1>2, <1>3, <1>4 DEF ConfigStep

LEMMA CallSteps ==
  ASSUME IInv, NEW r \in Request, ResponseInStep(r), UsageInStep(r),
         CallStep(r)
  PROVE  Step(r)
<1>0. TypeOK
  BY DEF IInv
<1>1. CASE FallBack(r)
  <2>1. UNCHANGED <<pc, route, id, code, wire, body, connected, backend,
                    storeOpen, log, usage, stats>>
    BY <1>1 DEF FallBack, answer, store
  <2>2. pc[r] = "calling"
    BY <1>1 DEF FallBack
  <2>3. ResponseInStep(r)' /\ UsageInStep(r)' /\ Quiet(r)
    BY <2>1 DEF ResponseInStep, UsageInStep, Told, Quiet, Handled
  <2>. QED BY <2>1, <2>2, <2>3 DEF Step
<1>2. CASE StreamOpens(r)
  <2>1. /\ pc[r] = "calling" /\ body[r] = "none" /\ code[r] = 200
        /\ wire'[r] = 200 /\ body'[r] = "open" /\ pc'[r] = "streaming"
        /\ \A q \in Request \ {r} :
             wire'[q] = wire[q] /\ body'[q] = body[q] /\ pc'[q] = pc[q]
    BY <1>0, <1>2 DEF StreamOpens, Goto, TypeOK, ResponseInStep
  <2>2. UNCHANGED <<route, id, code, connected, backend, storeOpen, log, usage,
                    stats>>
    BY <1>2 DEF StreamOpens, store
  <2>3. ResponseInStep(r)'
    BY <2>1, <2>2 DEF ResponseInStep, Told, Settled
  <2>4. UsageInStep(r)'
    BY <2>1, <2>2 DEF UsageInStep
  <2>5. Quiet(r)
    BY <2>1, <2>2 DEF Quiet, Handled
  <2>. QED BY <2>1, <2>2, <2>3, <2>4, <2>5 DEF Step, Settled
<1>3. CASE StreamFails(r)
  <2>1. /\ pc[r] = "streaming" /\ code'[r] = 500 /\ connected'[r] = FALSE
        /\ \A q \in Request \ {r} :
             code'[q] = code[q] /\ connected'[q] = connected[q]
        /\ UNCHANGED <<route, id, wire, body>>
    BY <1>0, <1>3 DEF StreamFails, Break, TypeOK
  <2>2. Record(r, 500, TRUE, 0, 0)
    BY <1>3 DEF StreamFails
  <2>3. body'[r] # "none"
    BY <2>1 DEF ResponseInStep
  <2>4. Told(500, r)' /\ Told(code[r], r)'
    BY <2>1 DEF Told
  <2>5. 500 \in Status /\ 0 \in 0 .. 1 /\ 0 <= 0 /\ 500 >= 400 /\ TRUE \in BOOLEAN
    BY StatusIsInt
  <2>6. pc[r] \in {"admitting", "pipeline", "calling", "streaming"}
    BY <2>1
  <2>7. \A q \in Request \ {r} :
          /\ route'[q] = route[q] /\ code'[q] = code[q] /\ wire'[q] = wire[q]
          /\ body'[q] = body[q] /\ connected'[q] = connected[q]
    BY <2>1
  <2>8. wire'[r] = wire[r] /\ ~connected'[r] /\ UNCHANGED id
    BY <2>1
  <2>. QED BY <1>0, <2>2, <2>3, <2>4, <2>5, <2>6, <2>7, <2>8, RecordStep
<1>4. ASSUME NEW s \in {500} \cup Failures, CallFails(r, s) PROVE Step(r)
  BY <1>0, <1>4, FailStep DEF CallFails
<1>5. ASSUME NEW n \in 0 .. 1, CallReturns(r, n) PROVE Step(r)
  BY <1>0, <1>5, RespondStep DEF CallReturns
<1>6. ASSUME NEW n \in 0 .. 1, ComposeReturns(r, n) PROVE Step(r)
  <2>1. pc[r] = "calling" /\ UNCHANGED <<route, id>>
    BY <1>6 DEF ComposeReturns
  <2>2. CASE Fail(r, 500, n)
    BY <1>0, <2>1, <2>2, FailStep
  <2>3. CASE /\ body[r] = "none"
             /\ wire' = [wire EXCEPT ![r] = 200]
             /\ body' = [body EXCEPT ![r] = "ended"]
             /\ Break(r)
             /\ Record(r, 500, TRUE, n, n)
    <3>1. /\ body'[r] = "ended" /\ code'[r] = 500 /\ connected'[r] = FALSE
          /\ \A q \in Request \ {r} :
               /\ wire'[q] = wire[q] /\ body'[q] = body[q]
               /\ code'[q] = code[q] /\ connected'[q] = connected[q]
      BY <1>0, <2>3 DEF Break, TypeOK
    <3>2. Told(500, r)' /\ Told(code[r], r)'
      BY <3>1 DEF Told
    <3>3. 500 \in Status /\ n <= n /\ 500 >= 400 /\ TRUE \in BOOLEAN
      BY StatusIsInt
    <3>4. pc[r] \in {"admitting", "pipeline", "calling", "streaming"}
      BY <2>1
    <3>5. body'[r] # "none" /\ ~connected'[r]
      BY <3>1
    <3>6. \A q \in Request \ {r} :
            /\ route'[q] = route[q] /\ code'[q] = code[q] /\ wire'[q] = wire[q]
            /\ body'[q] = body[q] /\ connected'[q] = connected[q]
      BY <2>1, <3>1
    <3>. QED
      BY <1>0, <2>1, <2>3, <3>2, <3>3, <3>4, <3>5, <3>6, RecordStep
  <2>. QED BY <1>6, <2>2, <2>3 DEF ComposeReturns
<1>7. ASSUME NEW n \in 0 .. 1, StreamEnds(r, n) PROVE Step(r)
  <2>1. /\ pc[r] = "streaming" /\ body'[r] = "ended"
        /\ \A q \in Request \ {r} : body'[q] = body[q]
        /\ UNCHANGED <<route, id, code, wire, connected>>
    BY <1>0, <1>7 DEF StreamEnds, TypeOK
  <2>2. Record(r, 200, FALSE, n, n)
    BY <1>7 DEF StreamEnds
  <2>3. Told(200, r)' /\ Told(code[r], r)'
    BY <2>1 DEF ResponseInStep, Told
  <2>4. 200 \in Status /\ n <= n /\ FALSE \in BOOLEAN
    BY StatusIsInt
  <2>5. pc[r] \in {"admitting", "pipeline", "calling", "streaming"}
    BY <2>1
  <2>. QED BY <1>0, <2>1, <2>2, <2>3, <2>4, <2>5, RecordStep
<1>. QED BY <1>1, <1>2, <1>3, <1>4, <1>5, <1>6, <1>7 DEF CallStep

LEMMA HandlerSteps ==
  ASSUME IInv, NEW r \in Request, ResponseInStep(r), UsageInStep(r),
         HandlerStep(r)
  PROVE  Step(r)
<1>0. TypeOK
  BY DEF IInv
<1>1. CASE EnterHandler(r)
  <2>1. /\ pc[r] = "admitting" /\ pc'[r] = "handler" /\ route'[r] = "function"
        /\ \A q \in Request \ {r} : route'[q] = route[q] /\ pc'[q] = pc[q]
    BY <1>0, <1>1, MatchAt DEF EnterHandler, Goto, TypeOK
  <2>2. UNCHANGED <<id, code, wire, body, connected, backend, storeOpen, log,
                    usage, stats>>
    BY <1>1 DEF EnterHandler, answer, store
  <2>3. "function" \notin Config
    BY DEF Config
  <2>4. ResponseInStep(r)'
    BY <2>1, <2>2 DEF ResponseInStep, Told, Settled
  <2>5. UsageInStep(r)' /\ Quiet(r)
    BY <2>1, <2>2, <2>3 DEF UsageInStep, Quiet
  <2>. QED BY <2>1, <2>2, <2>4, <2>5 DEF Step, Settled
<1>2. CASE HandlerEnds(r)
  <2>1. /\ pc[r] = "handler" /\ body[r] = "open" /\ body'[r] = "ended"
        /\ \A q \in Request \ {r} : body'[q] = body[q]
        /\ UNCHANGED <<pc, route, id, code, wire, connected, backend, storeOpen,
                       log, usage, stats>>
    BY <1>0, <1>2 DEF HandlerEnds, store, TypeOK
  <2>2. ResponseInStep(r)' /\ UsageInStep(r)' /\ Quiet(r)
    BY <2>1 DEF ResponseInStep, UsageInStep, Told, Quiet, Handled
  <2>. QED BY <2>1, <2>2 DEF Step
<1>3. CASE RecordUsage(r)
  <2>1. /\ pc[r] \in {"usage", "rejecting"} /\ pc'[r] = "done"
        /\ \A q \in Request \ {r} : pc'[q] = pc[q]
        /\ UNCHANGED <<route, id, wire, body, backend, storeOpen, log, stats>>
    BY <1>0, <1>3 DEF RecordUsage, Goto, TypeOK
  <2>2. /\ \/ code'[r] = 500 /\ connected'[r] = FALSE
           \/ pc[r] # "rejecting" /\ UNCHANGED <<code, connected>>
        /\ \A q \in Request \ {r} :
             code'[q] = code[q] /\ connected'[q] = connected[q]
    BY <1>0, <1>3 DEF RecordUsage, Break, TypeOK
  <2>3. owed[r] \in 0 .. 1 /\ usage' = Recorded(r, owed[r])
    BY <1>0, <1>3 DEF RecordUsage, TypeOK
  <2>4. \A q \in Request \ {r} : usage'[q] = usage[q]
    BY <1>0, <2>3, RecordedAt
  <2>5. Told(code[r], r)'
    BY <2>1, <2>2 DEF Told, ResponseInStep, Settled
  <2>6. ResponseInStep(r)'
    BY <2>1, <2>5 DEF ResponseInStep, Settled
  <2>7. route[r] \notin Config
    BY <2>1 DEF UsageInStep
  <2>8. UsageInStep(r)' /\ PaysUsage(r)
    BY <2>1, <2>7 DEF UsageInStep, PaysUsage, Settled
  <2>. QED BY <2>1, <2>2, <2>4, <2>6, <2>8 DEF Step, Settled
<1>4. ASSUME NEW s \in {200, 500} \cup Failures, HandlerSends(r, s)
      PROVE  Step(r)
  <2>1. /\ pc[r] = "handler" /\ body[r] = "none"
        /\ body'[r] \in {"open", "ended"} /\ code'[r] = s /\ wire'[r] = s
        /\ \A q \in Request \ {r} :
             code'[q] = code[q] /\ wire'[q] = wire[q] /\ body'[q] = body[q]
        /\ UNCHANGED <<pc, route, id, connected, backend, storeOpen, log, usage,
                       stats>>
    BY <1>0, <1>4 DEF HandlerSends, Send, store, TypeOK
  <2>2. ResponseInStep(r)' /\ UsageInStep(r)' /\ Quiet(r)
    BY <2>1 DEF ResponseInStep, UsageInStep, Told, Quiet, Handled, Settled
  <2>. QED BY <2>1, <2>2 DEF Step
<1>5. ASSUME NEW n \in 0 .. 1, HandlerReturnsSent(r, n) PROVE Step(r)
  <2>1. /\ pc[r] = "handler" /\ body[r] # "none"
        /\ RecordHandler(r, code[r], FALSE, n, "usage")
        /\ UNCHANGED <<code, wire, body, connected>>
    BY <1>5 DEF HandlerReturnsSent, answer
  <2>2. code[r] \in Status /\ Told(code[r], r)
    BY <1>0, <2>1 DEF TypeOK, ResponseInStep
  <2>3. pc'[r] = "usage"
    BY <1>0, <2>1 DEF RecordHandler, Goto, TypeOK
  <2>4. Told(code[r], r)'
    BY <2>1, <2>2 DEF Told
  <2>5. code'[r] = code[r]
    BY <2>1
  <2>. QED BY <1>0, <2>1, <2>2, <2>4, <2>5, RecordHandlerStep DEF Told
<1>6. ASSUME NEW n \in 0 .. 1, HandlerReturns(r, n) PROVE Step(r)
  <2>0. pc[r] = "handler"
    BY <1>6 DEF HandlerReturns
  <2>1. /\ 200 \in Status /\ 204 \in Status /\ 500 \in Status /\ 0 \in 0 .. 1
        /\ TRUE \in BOOLEAN /\ FALSE \in BOOLEAN /\ 500 >= 400
    BY StatusIsInt
  <2>2. CASE Send(r, 204) /\ RecordHandler(r, 204, FALSE, 0, "usage")
    BY <1>0, <2>0, <2>1, <2>2, SentHandlerStep
  <2>3. CASE Send(r, 200) /\ RecordHandler(r, 200, FALSE, n, "usage")
    BY <1>0, <2>0, <2>1, <2>3, SentHandlerStep
  <2>4. CASE Send(r, 500) /\ RecordHandler(r, 500, TRUE, n, "usage")
    BY <1>0, <2>0, <2>1, <2>4, SentHandlerStep
  <2>. QED BY <1>6, <2>2, <2>3, <2>4 DEF HandlerReturns
<1>7. ASSUME NEW s \in {500} \cup Failures, HandlerThrows(r, s) PROVE Step(r)
  <2>0. pc[r] = "handler"
    BY <1>7 DEF HandlerThrows
  <2>1. s \in Status /\ s >= 400 /\ 0 \in 0 .. 1 /\ TRUE \in BOOLEAN
    BY RouteAssumption DEF Status
  <2>2. CASE Send(r, s) /\ RecordHandler(r, s, TRUE, 0, "usage")
    BY <1>0, <2>0, <2>1, <2>2, SentHandlerStep
  <2>3. CASE /\ body[r] # "none"
             /\ code' = [code EXCEPT ![r] = s]
             /\ RecordHandler(r, s, TRUE, 0, "rejecting")
             /\ UNCHANGED <<wire, body, connected>>
    <3>1. /\ code'[r] = s /\ pc'[r] = "rejecting"
          /\ \A q \in Request \ {r} : code'[q] = code[q]
      BY <1>0, <2>3 DEF RecordHandler, Goto, TypeOK
    <3>2. Told(s, r)' /\ Told(code[r], r)'
      BY <2>1, <3>1 DEF Told
    <3>3. /\ body'[r] # "none" /\ wire'[r] = wire[r]
          /\ body'[r] = body[r] /\ connected'[r] = connected[r]
          /\ "rejecting" \in {"usage", "rejecting"}
          /\ \A q \in Request \ {r} :
               /\ code'[q] = code[q] /\ wire'[q] = wire[q]
               /\ body'[q] = body[q] /\ connected'[q] = connected[q]
      BY <2>3, <3>1
    <3>. QED BY <1>0, <2>0, <2>1, <2>3, <3>2, <3>3, RecordHandlerStep
  <2>. QED BY <1>7, <2>2, <2>3 DEF HandlerThrows
<1>. QED BY <1>1, <1>2, <1>3, <1>4, <1>5, <1>6, <1>7 DEF HandlerStep

LEMMA ResponseSteps ==
  ASSUME IInv, NEW r \in Request, ResponseInStep(r), UsageInStep(r),
         Finish(r) \/ LoseFinish(r) \/ Disconnect(r)
  PROVE  Step(r)
<1>0. TypeOK
  BY DEF IInv
<1>1. CASE Finish(r)
  <2>1. /\ body[r] = "ended" /\ body'[r] = "finished"
        /\ LogRequest(r, "finish", code[r], 0)
        /\ \A q \in Request \ {r} : body'[q] = body[q]
        /\ UNCHANGED <<pc, route, id, code, wire, connected, backend, storeOpen,
                       usage, stats>>
    BY <1>0, <1>1 DEF Finish, TypeOK
  <2>2. pc[r] \notin {"idle", "streaming"}
    BY <2>1 DEF ResponseInStep
  <2>3. Told(code[r], r)'
    BY <2>1 DEF ResponseInStep, Told
  <2>4. ResponseInStep(r)' /\ UsageInStep(r)'
    BY <2>1, <2>2, <2>3 DEF ResponseInStep, UsageInStep, Told
  <2>5. Told(code[r], r)
    BY <2>1 DEF ResponseInStep
  <2>6. Finishes(r)
    BY <2>1, <2>5 DEF Finishes, Told
  <2>. QED BY <2>1, <2>2, <2>4, <2>6 DEF Step
<1>2. CASE LoseFinish(r) \/ Disconnect(r)
  <2>1. /\ pc[r] # "idle" /\ UNCHANGED <<pc, route, id, code, wire, backend,
                                         storeOpen, log, usage, stats>>
    BY <1>2 DEF LoseFinish, Disconnect, store, ResponseInStep
  <2>2. /\ body'[r] = body[r] \/ (body[r] = "ended" /\ body'[r] = "lost")
        /\ connected'[r] = connected[r] \/ connected'[r] = FALSE
        /\ \A q \in Request \ {r} :
             body'[q] = body[q] /\ connected'[q] = connected[q]
    BY <1>0, <1>2 DEF LoseFinish, Disconnect, TypeOK
  <2>3. ResponseInStep(r)' /\ UsageInStep(r)' /\ Quiet(r)
    BY <2>1, <2>2 DEF ResponseInStep, UsageInStep, Told, Quiet, Handled, Settled
  <2>. QED BY <2>1, <2>2, <2>3 DEF Step
<1>. QED BY <1>1, <1>2

LEMMA StepShape ==
  ASSUME IInv, NEW r \in Request, ResponseInStep(r), UsageInStep(r),
         \/ Admission(r) \/ ConfigStep(r) \/ CallStep(r) \/ HandlerStep(r)
         \/ Finish(r) \/ LoseFinish(r) \/ Disconnect(r)
  PROVE  Arrive(r) \/ Step(r)
BY AdmissionStep, ConfigSteps, CallSteps, HandlerSteps, ResponseSteps
   DEF Admission

-----------------------------------------------------------------------------
(* The rows that such a step brings are about its request.                 *)
LEMMA NewRows ==
  ASSUME TypeOK, NEW r \in Request, Step(r)
  PROVE  /\ \A row \in log' :
              \/ row \in log
              \/ /\ row.req = r
                 /\ Told(row.status, r)'
                 /\ \/ pc'[r] \in Settled
                    \/ row.source = "finish" /\ body'[r] = "finished"
         /\ IsFiniteSet(log) => IsFiniteSet(log')
<1>1. CASE Quiet(r) \/ PaysUsage(r)
  BY <1>1 DEF Quiet, PaysUsage
<1>2. CASE Accounts(r)
  <2>1. PICK status \in Status, tokens \in 0 .. 1 :
          /\ LogRequest(r, "route", status, tokens)
          /\ Told(status, r)' /\ pc'[r] \in Settled
    BY <1>2 DEF Accounts
  <2> DEFINE new == [req |-> r, source |-> "route", status |-> status, tokens |-> tokens]
  <2>2. new.req = r /\ new.status = status
    OBVIOUS
  <2>3. log' \subseteq log \cup {new}
    BY <2>1, <2>2, LoggedRow DEF LogRequest
  <2>. HIDE DEF new
  <2>4. IsFiniteSet(log) => IsFiniteSet(log')
    BY <2>3, FS_AddElement, FS_Subset
  <2>. QED BY <2>1, <2>2, <2>3, <2>4
<1>3. CASE Finishes(r)
  <2>1. PICK status : status = code[r] /\ status = code'[r]
    BY <1>3 DEF Finishes
  <2>2. /\ LogRequest(r, "finish", status, 0)
        /\ Told(status, r)' /\ body'[r] = "finished"
    BY <1>3, <2>1 DEF Finishes, Told
  <2> DEFINE new == [req |-> r, source |-> "finish", status |-> status, tokens |-> 0]
  <2>3. new.req = r /\ new.status = status /\ new.source = "finish"
    OBVIOUS
  <2>4. log' \subseteq log \cup {new}
    BY <2>2, <2>3, LoggedRow DEF LogRequest
  <2>. HIDE DEF new
  <2>5. IsFiniteSet(log) => IsFiniteSet(log')
    BY <2>4, FS_AddElement, FS_Subset
  <2>. QED BY <2>2, <2>3, <2>4, <2>5
<1>. QED BY <1>1, <1>2, <1>3 DEF Step

(* A row tells the outcome, said with Told.                                *)
LEMMA OutcomeTold == RowsTellOutcome <=> \A row \in log : Told(row.status, row.req)
BY DEF RowsTellOutcome, Told

LEMMA StepKeepsLog ==
  ASSUME IInv, LogInv, RowsTellOutcome, NEW r \in Request, Step(r)
  PROVE  LogInv' /\ RowsTellOutcome'
<1>1. /\ \A q \in Request \ {r} :
           /\ pc'[q] = pc[q] /\ route'[q] = route[q] /\ code'[q] = code[q]
           /\ wire'[q] = wire[q] /\ body'[q] = body[q]
           /\ connected'[q] = connected[q] /\ usage'[q] = usage[q]
      /\ ResponseInStep(r)' /\ UsageInStep(r)'
      /\ body[r] # "none" => body'[r] # "none" /\ wire'[r] = wire[r]
      /\ body[r] = "finished" => body'[r] = "finished"
      /\ ~connected[r] => ~connected'[r]
      /\ pc[r] \in Settled => pc'[r] \in Settled
      /\ pc[r] = "rejecting" => pc'[r] = "rejecting" \/ ~connected'[r]
  BY DEF Step
<1>2. TypeOK /\ \A row \in log : row.req \in Request
  BY DEF IInv, TypeOK, Row
<1>3. ASSUME NEW q \in Request PROVE ResponseInStep(q)' /\ UsageInStep(q)'
  <2>1. CASE q = r
    BY <1>1, <2>1
  <2>2. CASE q # r
    <3>1. /\ pc'[q] = pc[q] /\ route'[q] = route[q] /\ code'[q] = code[q]
          /\ wire'[q] = wire[q] /\ body'[q] = body[q]
          /\ connected'[q] = connected[q] /\ usage'[q] = usage[q]
      BY <1>1, <2>2
    <3>2. ResponseInStep(q) /\ UsageInStep(q)
      BY DEF LogInv
    <3>3. ResponseInStep(q)'
      BY <3>1, <3>2 DEF ResponseInStep, Told
    <3>4. UsageInStep(q)'
      BY <3>1, <3>2 DEF UsageInStep
    <3>. QED BY <3>3, <3>4
  <2>. QED BY <2>1, <2>2
<1>4. /\ \A row \in log' :
           \/ row \in log
           \/ /\ row.req = r
              /\ Told(row.status, r)'
              /\ \/ pc'[r] \in Settled
                 \/ row.source = "finish" /\ body'[r] = "finished"
      /\ IsFiniteSet(log')
  BY <1>2, NewRows DEF LogInv
<1>5. ASSUME NEW row \in log
      PROVE  /\ \/ pc'[row.req] \in Settled
                \/ row.source = "finish" /\ body'[row.req] = "finished"
             /\ Told(row.status, row.req)'
  <2>1. /\ row.req \in Request
        /\ \/ pc[row.req] \in Settled
           \/ row.source = "finish" /\ body[row.req] = "finished"
        /\ Told(row.status, row.req)
    BY <1>2, OutcomeTold DEF LogInv, RowsInStep
  <2>2. CASE row.req # r
    BY <1>1, <2>1, <2>2 DEF Told
  <2>3. CASE row.req = r
    <3>1. body[r] # "none"
      BY <2>1, <2>3 DEF LogInv, ResponseInStep
    <3>2. wire'[r] = wire[r]
      BY <1>1, <3>1
    <3>3. Told(row.status, r)'
      BY <1>1, <2>1, <2>3, <3>2 DEF Told
    <3>. QED BY <1>1, <2>1, <2>3, <3>3
  <2>. QED BY <2>2, <2>3
<1>6. RowsInStep'
  BY <1>4, <1>5 DEF RowsInStep
<1>7. \A row \in log' : Told(row.status, row.req)'
  BY <1>4, <1>5 DEF Told
<1>8. RowsTellOutcome'
  BY <1>7 DEF RowsTellOutcome, Told
<1>. QED BY <1>3, <1>4, <1>6, <1>8 DEF LogInv

(* The two steps that are of another shape.                                *)
LEMMA ArriveAt ==
  ASSUME IInv, NEW r \in Request, Arrive(r)
  PROVE  /\ pc[r] = "idle" /\ pc'[r] = "admitting"
         /\ \A q \in Request \ {r} : pc'[q] = pc[q] /\ id'[q] = id[q]
         /\ UNCHANGED <<route, code, wire, body, connected, backend, storeOpen,
                        log, usage, stats>>
         /\ usage[r] = 0 /\ route[r] = "none"
         /\ \A row \in log : row.req # r
<1>1. pc[r] = "idle" /\ pc'[r] = "admitting" /\ \A q \in Request \ {r} : pc'[q] = pc[q]
  BY DEF IInv, TypeOK, Arrive, Goto
<1>2. \A q \in Request \ {r} : id'[q] = id[q]
  BY DEF IInv, TypeOK, Arrive
<1>3. UNCHANGED <<route, code, wire, body, connected, backend, storeOpen, log,
                  usage, stats>>
  BY DEF Arrive, answer, store
<1>. QED BY <1>1, <1>2, <1>3 DEF IInv, Fresh

LEMMA ArriveKeepsLog ==
  ASSUME IInv, LogInv, RowsTellOutcome, NEW r \in Request, Arrive(r)
  PROVE  LogInv' /\ RowsTellOutcome'
<1>1. /\ pc[r] = "idle" /\ pc'[r] = "admitting"
      /\ \A q \in Request \ {r} : pc'[q] = pc[q]
      /\ UNCHANGED <<route, code, wire, body, connected, log, usage>>
      /\ usage[r] = 0 /\ route[r] = "none"
      /\ \A row \in log : row.req # r
  BY ArriveAt
<1>2. "none" \notin Config
  BY DEF Config
<1>3. ASSUME NEW q \in Request PROVE ResponseInStep(q)' /\ UsageInStep(q)'
  <2>1. ResponseInStep(q) /\ UsageInStep(q)
    BY DEF LogInv
  <2>2. ResponseInStep(q)'
    BY <1>1, <2>1 DEF ResponseInStep, Told, Settled
  <2>3. UsageInStep(q)'
    BY <1>1, <1>2, <2>1 DEF UsageInStep
  <2>. QED BY <2>2, <2>3
<1>4. \A row \in log : row.req \in Request \ {r}
  BY <1>1 DEF IInv, TypeOK, Row
<1>5. RowsInStep'
  BY <1>1, <1>4 DEF LogInv, RowsInStep
<1>6. RowsTellOutcome'
  BY <1>1, <1>4 DEF RowsTellOutcome
<1>. QED BY <1>1, <1>3, <1>5, <1>6 DEF LogInv

LEMMA CloseKeepsLog ==
  ASSUME IInv, LogInv, RowsTellOutcome, CloseStore
  PROVE  LogInv' /\ RowsTellOutcome'
<1>1. UNCHANGED <<pc, route, code, wire, body, connected>> /\ log' \subseteq log
  BY DEF CloseStore, answer
<1>2. \A q \in Request : usage'[q] = 0 \/ usage'[q] = usage[q]
  BY DEF CloseStore
<1>3. ASSUME NEW q \in Request PROVE ResponseInStep(q)' /\ UsageInStep(q)'
  <2>1. ResponseInStep(q) /\ UsageInStep(q)
    BY DEF LogInv
  <2>2. ResponseInStep(q)'
    BY <1>1, <2>1 DEF ResponseInStep, Told
  <2>3. UsageInStep(q)'
    BY <1>1, <1>2, <2>1 DEF UsageInStep
  <2>. QED BY <2>2, <2>3
<1>4. RowsInStep' /\ RowsTellOutcome'
  BY <1>1 DEF LogInv, RowsInStep, RowsTellOutcome
<1>5. IsFiniteSet(log')
  BY <1>1, FS_Subset DEF LogInv
<1>. QED BY <1>3, <1>4, <1>5 DEF LogInv

(* With what holds of the log already, a step arrives, closes the store,   *)
(* is of the shape above, or changes nothing.                              *)
LEMMA NextShape ==
  ASSUME IInv, LogInv, [Next]_vars
  PROVE  \/ CloseStore
         \/ \E r \in Request : Arrive(r) \/ Step(r)
         \/ UNCHANGED vars
<1>1. ASSUME NEW r \in Request,
             \/ Admission(r) \/ ConfigStep(r) \/ CallStep(r) \/ HandlerStep(r)
             \/ Finish(r) \/ LoseFinish(r) \/ Disconnect(r)
      PROVE  Arrive(r) \/ Step(r)
  <2>1. ResponseInStep(r) /\ UsageInStep(r)
    BY DEF LogInv
  <2>. QED BY <1>1, <2>1, StepShape
<1>. QED BY <1>1 DEF Next

(* The log invariant holds at first and is kept by every step.             *)
THEOREM LogInit ==
  ASSUME Init PROVE LogInv /\ RowsTellOutcome
<1>1. ASSUME NEW r \in Request PROVE ResponseInStep(r) /\ UsageInStep(r)
  BY DEF Init, ResponseInStep, UsageInStep, Settled, Config
<1>2. IsFiniteSet(log) /\ RowsInStep /\ RowsTellOutcome
  BY FS_EmptySet DEF Init, RowsInStep, RowsTellOutcome
<1>. QED BY <1>1, <1>2 DEF LogInv

(* The rows never contradict what the requests and their clients saw.      *)
THEOREM LogStep ==
  ASSUME IInv, LogInv, RowsTellOutcome, [Next]_vars
  PROVE  LogInv' /\ RowsTellOutcome'
<1>1. CASE UNCHANGED vars
  <2>1. UNCHANGED <<pc, route, code, wire, body, connected, log, usage>>
    BY <1>1 DEF vars, answer, store
  <2>. QED
    BY <2>1 DEF LogInv, RowsInStep, RowsTellOutcome, ResponseInStep, UsageInStep,
                Told
<1>. QED BY <1>1, NextShape, StepKeepsLog, ArriveKeepsLog, CloseKeepsLog

-----------------------------------------------------------------------------
(* The statistics against the rows.                                        *)
Routed(rows) == {row \in rows : row.source = "route"}
WithTokens(rows) == {row \in Routed(rows) : row.tokens = 1}
Failed(rows) == {row \in Routed(rows) : row.status >= 400}

LEMMA OneMore ==
  ASSUME NEW S, IsFiniteSet(S), NEW x, x \notin S, NEW c \in BOOLEAN,
         NEW T, T = S \cup (IF c THEN {x} ELSE {})
  PROVE  /\ Cardinality(S) \in Nat
         /\ Cardinality(T) = Cardinality(S) + (IF c THEN 1 ELSE 0)
<1>1. Cardinality(S) \in Nat
  BY FS_CardinalityType
<1>2. CASE c
  <2>1. T = S \cup {x}
    BY <1>2
  <2>2. Cardinality(T) = Cardinality(S) + 1
    BY <2>1, FS_AddElement
  <2>. QED BY <1>1, <1>2, <2>2
<1>3. CASE ~c
  <2>1. T = S
    BY <1>3
  <2>. QED BY <1>1, <1>3, <2>1
<1>. QED BY <1>2, <1>3

LEMMA StatsByRows ==
  StatsMatchLog <=>
    (storeOpen /\ backend = "memory" =>
       /\ stats.requests = Cardinality(Routed(log))
       /\ stats.tokens = Cardinality(WithTokens(log))
       /\ stats.errors <= Cardinality(Failed(log)))
BY DEF StatsMatchLog, Routed, WithTokens, Failed

LEMMA AccountsKeepStats ==
  ASSUME IInv, LogInv, StatsMatchLog, NEW r \in Request, Accounts(r),
         UNCHANGED <<id, backend, storeOpen>>
  PROVE  StatsMatchLog'
<1>. SUFFICES ASSUME storeOpen, backend = "memory"
              PROVE  /\ stats'.requests = Cardinality(Routed(log'))
                     /\ stats'.tokens = Cardinality(WithTokens(log'))
                     /\ stats'.errors <= Cardinality(Failed(log'))
  BY DEF StatsMatchLog, Routed, WithTokens, Failed
<1>1. PICK status \in Status, tokens \in 0 .. 1, failed \in BOOLEAN :
        /\ LogRequest(r, "route", status, tokens)
        /\ stats' = Counts(failed, tokens)
        /\ failed => status >= 400
        /\ pc[r] \notin Settled
  BY DEF Accounts
<1>. DEFINE new == [req |-> r, source |-> "route", status |-> status, tokens |-> tokens]
<1>2. new.req = r /\ new.source = "route" /\ new.status = status /\ new.tokens = tokens
  OBVIOUS
<1>3. log' = log \cup {new}
  BY <1>1 DEF LogRequest, Logged, Writable
<1>. HIDE DEF new
<1>4. new \notin log
  BY <1>1, <1>2 DEF LogInv, RowsInStep
<1>5. IsFiniteSet(log) /\ log \subseteq Row
  BY DEF LogInv, IInv, TypeOK
<1>6. PICK paid \in BOOLEAN, bad \in BOOLEAN :
         (paid <=> tokens = 1) /\ (bad <=> status >= 400)
  OBVIOUS
<1>7. /\ Routed(log') = Routed(log) \cup {new}
      /\ WithTokens(log') = WithTokens(log) \cup (IF paid THEN {new} ELSE {})
      /\ Failed(log') = Failed(log) \cup (IF bad THEN {new} ELSE {})
  BY <1>2, <1>3, <1>6 DEF Routed, WithTokens, Failed
<1>8. /\ Routed(log) \subseteq log /\ WithTokens(log) \subseteq log
      /\ Failed(log) \subseteq log
  BY DEF Routed, WithTokens, Failed
<1>9. /\ IsFiniteSet(Routed(log)) /\ IsFiniteSet(WithTokens(log))
      /\ IsFiniteSet(Failed(log))
  BY <1>5, <1>8, FS_Subset
<1>10. Cardinality(Routed(log')) = Cardinality(Routed(log)) + 1
  BY <1>4, <1>7, <1>8, <1>9, FS_AddElement
<1>11. Cardinality(WithTokens(log'))
         = Cardinality(WithTokens(log)) + (IF paid THEN 1 ELSE 0)
  BY <1>4, <1>7, <1>8, <1>9, OneMore
<1>12. /\ Cardinality(Failed(log)) \in Nat
       /\ Cardinality(Failed(log'))
            = Cardinality(Failed(log)) + (IF bad THEN 1 ELSE 0)
  BY <1>4, <1>7, <1>8, <1>9, OneMore
<1>13. /\ stats.requests = Cardinality(Routed(log))
       /\ stats.tokens = Cardinality(WithTokens(log))
       /\ stats.errors <= Cardinality(Failed(log))
       /\ stats.requests \in Nat /\ stats.tokens \in Nat /\ stats.errors \in Nat
  BY StatsByRows DEF IInv, TypeOK
<1>14. /\ stats'.requests = stats.requests + 1
       /\ stats'.tokens = stats.tokens + tokens
       /\ stats'.errors = stats.errors + (IF failed THEN 1 ELSE 0)
  BY <1>1 DEF Counts
<1>15. stats'.tokens = Cardinality(WithTokens(log'))
  BY <1>6, <1>11, <1>13, <1>14
<1>16. stats'.errors <= Cardinality(Failed(log'))
  BY <1>1, <1>6, <1>12, <1>13, <1>14
<1>. QED BY <1>10, <1>13, <1>14, <1>15, <1>16

LEMMA FinishesKeepStats ==
  ASSUME IInv, StatsMatchLog, NEW r \in Request, Finishes(r),
         UNCHANGED <<id, backend, storeOpen>>
  PROVE  StatsMatchLog'
<1>1. LogRequest(r, "finish", code[r], 0) /\ UNCHANGED stats
  BY DEF Finishes
<1>2. PICK new : log \subseteq log' /\ log' \subseteq log \cup {new} /\ new.source = "finish"
  BY <1>1, LoggedRow DEF LogRequest
<1>3. /\ Routed(log') = Routed(log) /\ WithTokens(log') = WithTokens(log)
      /\ Failed(log') = Failed(log)
  BY <1>2 DEF Routed, WithTokens, Failed
<1>4. storeOpen /\ backend = "memory" =>
        /\ stats.requests = Cardinality(Routed(log))
        /\ stats.tokens = Cardinality(WithTokens(log))
        /\ stats.errors <= Cardinality(Failed(log))
  BY StatsByRows
<1>5. storeOpen' /\ backend' = "memory" =>
        /\ stats'.requests = Cardinality(Routed(log'))
        /\ stats'.tokens = Cardinality(WithTokens(log'))
        /\ stats'.errors <= Cardinality(Failed(log'))
  BY <1>1, <1>3, <1>4
<1>. QED BY <1>5 DEF StatsMatchLog, Routed, WithTokens, Failed

(* The statistics and the rows start equal and are kept so by every step.  *)
THEOREM StatsInit == ASSUME Init PROVE StatsMatchLog
<1>1. Routed({}) = {} /\ WithTokens({}) = {} /\ Failed({}) = {}
  BY DEF Routed, WithTokens, Failed
<1>2. /\ log = {}
      /\ stats.requests = 0 /\ stats.tokens = 0 /\ stats.errors = 0
  BY DEF Init
<1>. QED BY <1>1, <1>2, FS_EmptySet, StatsByRows

(* One account, one row: the counts move together in the memory store.     *)
THEOREM StatsStep ==
  ASSUME IInv, LogInv, StatsMatchLog, [Next]_vars
  PROVE  StatsMatchLog'
<1>1. CASE UNCHANGED <<backend, storeOpen, log, stats>>
  BY <1>1 DEF StatsMatchLog
<1>2. CASE CloseStore
  BY <1>2 DEF CloseStore, StatsMatchLog
<1>3. CASE UNCHANGED vars
  BY <1>1, <1>3 DEF vars, store
<1>4. ASSUME NEW r \in Request, Arrive(r) PROVE StatsMatchLog'
  BY <1>1, <1>4, ArriveAt
<1>5. ASSUME NEW r \in Request, Step(r) PROVE StatsMatchLog'
  <2>1. /\ UNCHANGED <<id, backend, storeOpen>>
        /\ Quiet(r) \/ Accounts(r) \/ Finishes(r) \/ PaysUsage(r)
    BY <1>5 DEF Step
  <2>2. CASE Quiet(r) \/ PaysUsage(r)
    BY <1>1, <2>1, <2>2 DEF Quiet, PaysUsage
  <2>. QED BY <2>1, <2>2, AccountsKeepStats, FinishesKeepStats
<1>. QED BY <1>2, <1>3, <1>4, <1>5, NextShape

-----------------------------------------------------------------------------
(* The one row of a config route in SQLite.                                *)
Alone(r) == \A other \in Request \ {r} : id[other] # id[r] \/ pc[other] = "idle"

RowKept(r) ==
  /\ {row.source : row \in Rows(r)} = {"route"}
  /\ \A row \in Rows(r) : row.tokens >= usage[r]

LEMMA KeptByRequest ==
  RouteRowKept <=>
    (storeOpen /\ backend = "sqlite" =>
       \A r \in Request : Handled(r) /\ route[r] \in Config /\ Alone(r) => RowKept(r))
BY DEF RouteRowKept, Alone, RowKept

(* The same rows and the same usage are as good as before.                 *)
LEMMA SameRowsKept ==
  ASSUME NEW r \in Request, RowKept(r), Rows(r)' = Rows(r), usage'[r] = usage[r]
  PROVE  RowKept(r)'
BY DEF RowKept

(* A write about a request of another id leaves the rows of r alone.       *)
LEMMA OthersRows ==
  ASSUME NEW r \in Request, NEW q \in Request, id[q] # id[r], UNCHANGED id,
         NEW new, new.req = q, log' = Logged(q, new)
  PROVE  Rows(r)' = Rows(r)
<1>1. log \subseteq log' /\ log' \subseteq log \cup {new}
  BY LoggedRow
<1>. QED BY <1>1 DEF Rows

(* The accounting of a config route finds no row under its id, so the row  *)
(* it writes comes in and is the only one.                                 *)
LEMMA AccountsKeepsRow ==
  ASSUME IInv, LogInv, NEW r \in Request, Accounts(r),
         UNCHANGED <<id, backend, storeOpen>>, storeOpen, backend = "sqlite",
         route'[r] \in Config, Alone(r)
  PROVE  RowKept(r)'
<1>1. PICK status \in Status, tokens \in 0 .. 1, entries \in 0 .. 1 :
        /\ LogRequest(r, "route", status, tokens)
        /\ usage' = Recorded(r, entries)
        /\ entries <= tokens
        /\ pc[r] \notin Settled /\ body[r] # "finished" /\ usage[r] = 0
  BY DEF Accounts
<1>. DEFINE new == [req |-> r, source |-> "route", status |-> status, tokens |-> tokens]
<1>2. new.req = r /\ new.source = "route" /\ new.tokens = tokens
  OBVIOUS
<1>3. log' = Logged(r, new)
  BY <1>1 DEF LogRequest
<1>. HIDE DEF new
<1>4. ASSUME NEW row \in log PROVE id[row.req] # id[r]
  <2>1. row.req \in Request
    BY DEF IInv, TypeOK, Row
  <2>2. row.req # r
    BY <1>1 DEF LogInv, RowsInStep
  <2>3. pc[row.req] # "idle"
    BY <2>1 DEF IInv, Fresh
  <2>. QED BY <2>1, <2>2, <2>3 DEF Alone
<1>5. log' = log \cup {new}
  BY <1>3, <1>4 DEF Logged, Writable
<1>6. Rows(r)' = {new}
  BY <1>2, <1>4, <1>5 DEF Rows
<1>7. usage'[r] \in {usage[r], usage[r] + entries}
  BY <1>1, RecordedAt DEF IInv
<1>8. usage'[r] <= tokens
  BY <1>1, <1>7
<1>9. {row.source : row \in Rows(r)'} = {"route"}
  BY <1>2, <1>6
<1>10. \A row \in Rows(r)' : row.tokens >= usage'[r]
  BY <1>2, <1>6, <1>8
<1>. QED BY <1>9, <1>10 DEF RowKept

LEMMA StepKeepsRow ==
  ASSUME IInv, LogInv, RouteRowKept, NEW q \in Request, Step(q)
  PROVE  RouteRowKept'
<1>1. /\ UNCHANGED <<id, backend, storeOpen>>
      /\ \A p \in Request \ {q} :
           pc'[p] = pc[p] /\ route'[p] = route[p] /\ usage'[p] = usage[p]
      /\ pc'[q] # "idle"
      /\ Quiet(q) \/ Accounts(q) \/ Finishes(q) \/ PaysUsage(q)
  BY DEF Step
<1>2. SUFFICES ASSUME storeOpen, backend = "sqlite", NEW r \in Request,
                      Handled(r)', route'[r] \in Config, Alone(r)'
               PROVE  RowKept(r)'
  BY <1>1 DEF RouteRowKept, Alone, RowKept
<1>3. Alone(r) /\ (q # r => id[q] # id[r])
  BY <1>1, <1>2 DEF Alone
<1>4. Handled(r) /\ route[r] \in Config => RowKept(r)
  BY <1>2, <1>3, KeptByRequest
<1>5. CASE q = r
  <2>1. CASE Quiet(r)
    <3>1. Handled(r) /\ route[r] \in Config /\ UNCHANGED <<log, usage>>
      BY <1>2, <2>1 DEF Quiet
    <3>2. Rows(r)' = Rows(r)
      BY <1>1, <3>1 DEF Rows
    <3>. QED BY <1>4, <3>1, <3>2, SameRowsKept
  <2>2. CASE Accounts(r)
    BY <1>1, <1>2, <1>3, <2>2, AccountsKeepsRow
  <2>3. CASE Finishes(r)
    <3>1. /\ Handled(r) /\ route[r] \in Config /\ UNCHANGED usage
          /\ LogRequest(r, "finish", code[r], 0)
      BY <1>2, <2>3 DEF Finishes, Handled
    <3>2. RowKept(r)
      BY <1>4, <3>1
    <3>3. \E row \in log : id[row.req] = id[r]
      BY <3>2 DEF RowKept, Rows
    <3>4. UNCHANGED log
      BY <1>2, <3>1, <3>3 DEF LogRequest, Logged
    <3>5. Rows(r)' = Rows(r)
      BY <1>1, <3>4 DEF Rows
    <3>. QED BY <3>1, <3>2, <3>5, SameRowsKept
  <2>4. CASE PaysUsage(r)
    BY <1>2, <2>4 DEF PaysUsage
  <2>. QED BY <1>1, <1>5, <2>1, <2>2, <2>3, <2>4
<1>6. CASE q # r
  <2>1. pc'[r] = pc[r] /\ route'[r] = route[r] /\ usage'[r] = usage[r]
    BY <1>1, <1>6
  <2>2. RowKept(r)
    BY <1>2, <1>4, <2>1 DEF Handled
  <2>3. UNCHANGED log \/ \E new : new.req = q /\ log' = Logged(q, new)
    <3>1. CASE Quiet(q) \/ PaysUsage(q)
      BY <3>1 DEF Quiet, PaysUsage
    <3>2. CASE Accounts(q)
      <4>1. PICK status, tokens : LogRequest(q, "route", status, tokens)
        BY <3>2 DEF Accounts
      <4>. QED BY <4>1 DEF LogRequest
    <3>3. CASE Finishes(q)
      BY <3>3 DEF Finishes, LogRequest
    <3>. QED BY <1>1, <3>1, <3>2, <3>3
  <2>4. Rows(r)' = Rows(r)
    <3>1. CASE UNCHANGED log
      BY <1>1, <3>1 DEF Rows
    <3>2. ASSUME NEW new, new.req = q, log' = Logged(q, new) PROVE Rows(r)' = Rows(r)
      BY <1>1, <1>3, <1>6, <3>2, OthersRows
    <3>. QED BY <2>3, <3>1, <3>2
  <2>. QED BY <2>1, <2>2, <2>4, SameRowsKept
<1>. QED BY <1>5, <1>6

LEMMA ArriveKeepsRow ==
  ASSUME IInv, LogInv, RouteRowKept, NEW q \in Request, Arrive(q)
  PROVE  RouteRowKept'
<1>1. /\ pc[q] = "idle" /\ pc'[q] = "admitting"
      /\ \A p \in Request \ {q} : pc'[p] = pc[p] /\ id'[p] = id[p]
      /\ UNCHANGED <<route, backend, storeOpen, log, usage>>
      /\ \A row \in log : row.req # q
  BY ArriveAt
<1>2. SUFFICES ASSUME storeOpen, backend = "sqlite", NEW r \in Request,
                      Handled(r)', route'[r] \in Config, Alone(r)'
               PROVE  RowKept(r)'
  BY <1>1 DEF RouteRowKept, Alone, RowKept
<1>3. r # q
  BY <1>1, <1>2 DEF Handled
<1>4. Handled(r) /\ route[r] \in Config /\ Alone(r)
  BY <1>1, <1>2, <1>3 DEF Handled, Alone
<1>5. RowKept(r)
  BY <1>2, <1>4, KeptByRequest
<1>6. \A row \in log : row.req \in Request \ {q}
  BY <1>1 DEF IInv, TypeOK, Row
<1>7. Rows(r)' = Rows(r)
  BY <1>1, <1>3, <1>6 DEF Rows
<1>. QED BY <1>1, <1>5, <1>7, SameRowsKept

(* At first nothing is handled.                                            *)
THEOREM RowInit == ASSUME Init PROVE RouteRowKept
BY DEF Init, RouteRowKept, Handled

(* No step adds a second row to a request that is alone with its id.       *)
THEOREM RowStep ==
  ASSUME IInv, LogInv, RouteRowKept, [Next]_vars
  PROVE  RouteRowKept'
<1>1. CASE UNCHANGED vars
  <2>1. UNCHANGED <<pc, route, id, backend, storeOpen, log, usage>>
    BY <1>1 DEF vars, store
  <2>. QED BY <2>1 DEF RouteRowKept, Handled, Rows
<1>2. CASE CloseStore
  BY <1>2 DEF CloseStore, RouteRowKept
<1>. QED BY <1>1, <1>2, NextShape, StepKeepsRow, ArriveKeepsRow

-----------------------------------------------------------------------------
(* What is on record agrees with the requests in every state of every run, *)
(* with any number of requests, colliding ids included.                    *)
THEOREM LogInvariance == Spec => [](LogInv /\ RowsTellOutcome /\ StatsMatchLog /\ RouteRowKept)
<1>1. Init => LogInv /\ RowsTellOutcome /\ StatsMatchLog /\ RouteRowKept
  BY LogInit, StatsInit, RowInit
<1>2. /\ IInv /\ LogInv /\ RowsTellOutcome /\ StatsMatchLog /\ RouteRowKept
      /\ [Next]_vars
      => (LogInv /\ RowsTellOutcome /\ StatsMatchLog /\ RouteRowKept)'
  BY LogStep, StatsStep, RowStep
<1>. QED BY <1>1, <1>2, Invariance, PTL DEF Spec

(* A row of the log has the status line its client got, or else notes a    *)
(* failure behind it, and then the connection is broken or about to be.    *)
THEOREM RowsAlwaysTellOutcome == Spec => []RowsTellOutcome
BY LogInvariance, PTL

(* The admin statistics and the memory store agree on the requests handled *)
(* and their tokens, and the statistics claim no failure that has no row.  *)
THEOREM StatsAlwaysMatchLog == Spec => []StatsMatchLog
BY LogInvariance, PTL

(* SQLite keeps the router's row of a config route, not the row of the     *)
(* 'finish' listener, as long as no other request came under the same id;  *)
(* and usage recorded for the request is usage the row shows.              *)
THEOREM RouteRowAlwaysKept == Spec => []RouteRowKept
BY LogInvariance, PTL
=============================================================================
