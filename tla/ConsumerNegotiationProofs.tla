----------------------- MODULE ConsumerNegotiationProofs -----------------------
(***************************************************************************)
(* Proofs about ConsumerNegotiation, for any number of negotiations,       *)
(* concurrent requests, counterparties, datasets and agreements, and for   *)
(* every policy.                                                           *)
(***************************************************************************)
EXTENDS ConsumerNegotiation, TLAPS

\* A stored row holds a DSP state; a missing one holds none of them.
LEMMA RowShape ==
  ASSUME row \in [Neg -> {NoRow} \cup Row], NEW n \in Neg
  PROVE  /\ row[n].state \in States \cup {"NONE"}
         /\ row[n].state \in States => row[n] \in Row
         /\ Exists(n) <=> row[n].state \in States
BY DEF NoRow, Row, States, Exists

\* A state change changes one row, and that one only if it is in `from`.
LEMMA SetEffect ==
  ASSUME row \in [Neg -> {NoRow} \cup Row], NEW n \in Neg,
         NEW from \in States, NEW to \in States,
         row' = SetConsumerState(n, from, to)
  PROVE  /\ row' \in [Neg -> {NoRow} \cup Row]
         /\ \A m \in Neg \ {n} : row'[m] = row[m]
         /\ row[n].state # from => row' = row
         /\ row[n].state = from => /\ row[n] \in Row /\ row'[n] \in Row
                                   /\ row'[n].dataset = row[n].dataset
                                   /\ row'[n].party = row[n].party
                                   /\ row'[n].pid = row[n].pid
                                   /\ row'[n].state = to
<1>1. CASE row[n].state = from
  <2>1. row[n] \in Row
    BY <1>1, RowShape
  <2>2. row' = [row EXCEPT ![n].state = to]
    BY <1>1 DEF SetConsumerState, Holds
  <2>3. row'[n] = [row[n] EXCEPT !.state = to]
    BY <2>2
  <2>4. /\ row'[n] \in Row /\ row'[n].state = to
        /\ row'[n].dataset = row[n].dataset /\ row'[n].party = row[n].party
        /\ row'[n].pid = row[n].pid
    BY <2>1, <2>3 DEF Row
  <2> QED BY <1>1, <2>1, <2>2, <2>4
<1>2. CASE row[n].state # from
  BY <1>2 DEF SetConsumerState, Holds
<1> QED BY <1>1, <1>2

\* A request past its checks holds a copy of a row.
LEMMA RequestShape ==
  ASSUME handler \in [Handlers -> {Idle} \cup Recording \cup Writing], NEW h \in Handlers
  PROVE  /\ handler[h].pc = "record" => handler[h] \in Recording
         /\ handler[h].pc = "write" => handler[h] \in Writing
         /\ handler[h].pc \in {"record", "write"} =>
              handler[h].neg \in Neg /\ handler[h].seen \in States /\ handler[h].pid \in BOOLEAN
BY DEF Idle, Recording, Writing

\* What may follow a state is a set of states, that one included.
LEMMA PastRange ==
  ASSUME NEW x \in States
  PROVE  x \in Past(x) /\ Past(x) \subseteq States
BY DEF Past, States, IssuedStates

\* The transitions of the contract only go forward.
LEMMA LegalIsForward ==
  ASSUME NEW s \in States, NEW t \in States, <<s, t>> \in Contract!Legal,
         NEW x \in States, s \in Past(x)
  PROVE  t \in Past(x)
BY DEF Contract!Legal, Contract!States, Contract!Terminal, States, Past, IssuedStates

-----------------------------------------------------------------------------
(* What the steps do to the goroutines *)

\* One goroutine becomes t, and no other changes.
TaskBecomes(n, k, t) ==
  /\ t \in Task
  /\ task' \in [Neg -> [TaskIds -> Task]]
  /\ task'[n][k] = t
  /\ \A m \in Neg, j \in TaskIds : m # n \/ j # k => task'[m][j] = task[m][j]

\* An update of the table of goroutines at one place.
LEMMA TaskUpdate ==
  ASSUME task \in [Neg -> [TaskIds -> Task]], NEW n \in Neg, NEW k \in TaskIds, NEW t \in Task,
         task' = [task EXCEPT ![n][k] = t]
  PROVE  TaskBecomes(n, k, t)
BY DEF TaskBecomes

\* What a running goroutine turns into: the same reaction, at another stage.
GoesOn(n, k, t) ==
  /\ TaskBecomes(n, k, t)
  /\ task[n][k].pc # "none" /\ t.pc # "none"
  /\ t.from = task[n][k].from /\ t.action = task[n][k].action
  /\ t.pid => task[n][k].pid \/ row[n].pid \/ row'[n].pid
  /\ t.pc \notin {"request", "resolve"}
  /\ t.pc = "pid" => k = "start"
  /\ t.pc = "push" => t.action \notin {"wait", "passive"}
  /\ t.pc = "store" => /\ t.action \in {"accept", "verify", "reject", "abandon"}
                       /\ t.action = "verify" => answer'[n].acknowledged

\* A step of a goroutine records at most that its push was acknowledged.
Heard(n) == answer' = answer \/ answer' = [answer EXCEPT ![n].acknowledged = TRUE]

\* The steps of a goroutine, faults included.
RunOrFail(n, k) ==
  \/ k = "start" /\ \E answered \in BOOLEAN : sendInitialRequest(n, answered)
  \/ k = "start" /\ SetConsumerProviderPID(n)
  \/ resolveProviderPID(n, k)
  \/ \E delivered \in BOOLEAN : endPush(n, k, delivered)
  \/ storeReaction(n, k)
  \/ failStore(n, k)
  \/ failResolve(n, k)

\* Each of them makes its goroutine go on, and leaves requests and agreements.
LEMMA RunEffect ==
  ASSUME TypeOK, InFlightIsLegal, NEW n \in Neg, NEW k \in TaskIds, RunOrFail(n, k)
  PROVE  /\ \E t \in Task : GoesOn(n, k, t)
         /\ UNCHANGED <<agreements, handler>>
         /\ Heard(n)
<1> DEFINE old == task[n][k]
<1>0. old \in Task /\ old.pid \in BOOLEAN /\ old.action \in Actions /\ old.from \in States
  BY DEF TypeOK, Task
<1>1. old.pc = "push" => old.action \notin {"wait", "passive"}
  BY DEF InFlightIsLegal
<1>2. old.pc = "resolve" => old.action # "wait"
  BY DEF InFlightIsLegal, Plans, TaskIds, OfferPolicies, AgreementPolicies
<1>11. ASSUME \A delivered \in BOOLEAN : ~endPush(n, k, delivered) PROVE answer' = answer
  BY <1>11 DEF RunOrFail, sendInitialRequest, SetConsumerProviderPID, resolveProviderPID,
               storeReaction, failStore, failResolve
<1>12. ASSUME NEW delivered \in BOOLEAN, endPush(n, k, delivered) PROVE Heard(n)
  BY <1>12 DEF endPush, acknowledge, Heard
<1>13. Heard(n)
  BY <1>11, <1>12 DEF Heard
<1>3. ASSUME NEW pc \in Stages \ {"none"}, NEW pid \in BOOLEAN,
             task' = [task EXCEPT ![n][k] = [@ EXCEPT !.pc = pc, !.pid = pid]],
             old.pc # "none",
             pid => old.pid \/ row[n].pid \/ row'[n].pid,
             pc \notin {"request", "resolve"},
             pc = "pid" => k = "start",
             pc = "push" => old.action \notin {"wait", "passive"},
             pc = "store" => /\ old.action \in {"accept", "verify", "reject", "abandon"}
                             /\ old.action = "verify" => answer'[n].acknowledged
      PROVE  \E t \in Task : GoesOn(n, k, t)
  <2> DEFINE t == [old EXCEPT !.pc = pc, !.pid = pid]
  <2>1. /\ t \in Task /\ t.pc = pc /\ t.pid = pid
        /\ t.from = old.from /\ t.action = old.action
    BY <1>0 DEF Task
  <2>2. task' = [task EXCEPT ![n][k] = t]
    BY <1>3
  <2> HIDE DEF t
  <2>3. TaskBecomes(n, k, t)
    BY <2>1, <2>2, TaskUpdate DEF TypeOK
  <2> QED BY <1>3, <2>1, <2>3 DEF GoesOn
<1>4. ASSUME NEW pc \in Stages \ {"none"}, task' = [task EXCEPT ![n][k].pc = pc]
      PROVE  task' = [task EXCEPT ![n][k] = [@ EXCEPT !.pc = pc, !.pid = old.pid]]
  BY <1>0, <1>4 DEF TypeOK, Task
<1>5. CASE k = "start" /\ \E answered \in BOOLEAN : sendInitialRequest(n, answered)
  <2>1. PICK pc \in {"pid", "done"} : task' = [task EXCEPT ![n][k].pc = pc]
    BY <1>5 DEF sendInitialRequest
  <2> QED BY <1>13, <1>0, <1>3, <1>4, <1>5, <2>1 DEF sendInitialRequest, Stages
<1>6. CASE k = "start" /\ SetConsumerProviderPID(n)
  <2>1. PICK pc \in {"push", "done"} :
          /\ task' = [task EXCEPT ![n][k].pid = TRUE, ![n][k].pc = pc]
          /\ pc = "push" => old.action = "abandon"
    BY <1>6 DEF SetConsumerProviderPID
  <2>2. task' = [task EXCEPT ![n][k] = [@ EXCEPT !.pc = pc, !.pid = TRUE]]
    BY <1>0, <2>1 DEF TypeOK, Task
  <2>3. row'[n].pid
    <3>1. row[n].state \in States
      BY <1>6, PastRange DEF InFlightIsLegal, SetConsumerProviderPID, StartedFrom, States
    <3>2. row[n] \in Row
      BY <3>1, RowShape DEF TypeOK
    <3> QED BY <1>6, <3>2 DEF SetConsumerProviderPID, TypeOK, Row
  <2> QED BY <1>13, <1>3, <1>6, <2>1, <2>2, <2>3 DEF SetConsumerProviderPID, Stages
<1>7. CASE resolveProviderPID(n, k)
  <2>1. PICK pc \in {"push", "done"} :
          /\ task' = [task EXCEPT ![n][k].pid = @ \/ row[n].pid, ![n][k].pc = pc]
          /\ pc = "push" => old.action # "passive"
    BY <1>7 DEF resolveProviderPID
  <2> DEFINE pid == old.pid \/ row[n].pid
  <2>2. task' = [task EXCEPT ![n][k] = [@ EXCEPT !.pc = pc, !.pid = pid]]
    BY <1>0, <2>1 DEF TypeOK, Task
  <2>3. pid \in BOOLEAN /\ (pid => old.pid \/ row[n].pid)
    OBVIOUS
  <2> HIDE DEF pid
  <2>4. old.pc = "resolve"
    BY <1>7 DEF resolveProviderPID
  <2>5. pc = "push" => old.action \notin {"wait", "passive"}
    BY <1>2, <2>1, <2>4
  <2> QED BY <1>13, <1>3, <1>7, <2>2, <2>3, <2>4, <2>5 DEF resolveProviderPID, Stages
<1>8. CASE \E delivered \in BOOLEAN : endPush(n, k, delivered)
  <2>1. PICK pc \in {"store", "done"} :
          /\ task' = [task EXCEPT ![n][k].pc = pc]
          /\ pc = "store" => /\ old.action # "counter"
                             /\ old.action = "verify" =>
                                  answer' = [answer EXCEPT ![n].acknowledged = TRUE]
    BY <1>8 DEF endPush, acknowledge
  <2>2. old.pc = "push"
    BY <1>8 DEF endPush
  <2>3. pc = "store" => /\ old.action \in {"accept", "verify", "reject", "abandon"}
                        /\ old.action = "verify" => answer'[n].acknowledged
    BY <1>0, <1>1, <2>1, <2>2 DEF TypeOK, Answer, Actions, OfferPolicies, AgreementPolicies, IdlePolicies
  <2> QED BY <1>13, <1>0, <1>3, <1>4, <1>8, <2>1, <2>2, <2>3 DEF endPush, Stages
<1>9. CASE storeReaction(n, k) \/ failStore(n, k)
  <2>1. PICK pc \in {"done"} : task' = [task EXCEPT ![n][k].pc = pc]
    BY <1>9 DEF storeReaction, failStore
  <2>2. old.pc # "none"
    BY <1>9 DEF storeReaction, failStore
  <2>3. UNCHANGED <<agreements, handler>>
    BY <1>9 DEF storeReaction, failStore
  <2> QED BY <1>13, <1>0, <1>3, <1>4, <2>1, <2>2, <2>3 DEF Stages
<1>10. CASE failResolve(n, k)
  <2>1. PICK pc \in {"push", "done"} :
          /\ task' = [task EXCEPT ![n][k].pc = pc]
          /\ pc = "push" => old.action # "passive"
    BY <1>10 DEF failResolve
  <2>2. old.pc = "resolve"
    BY <1>10 DEF failResolve
  <2> QED BY <1>13, <1>0, <1>2, <1>3, <1>4, <1>10, <2>1, <2>2 DEF failResolve, Stages
<1> QED BY <1>5, <1>6, <1>7, <1>8, <1>9, <1>10 DEF RunOrFail

-----------------------------------------------------------------------------
(* What the requests do *)

\* A request looks at a row.
Looks(h) ==
  \E n \in Neg, who \in Participants :
    \/ \E unenforceable \in BOOLEAN : handleOffers(h, n, who, unenforceable)
    \/ \E m \in Message : handleAgreement(h, n, who, m)
    \/ handleConsumerFinalizedEvent(h, n, who)
    \/ handleConsumerTermination(h, n, who)

\* A request writes the state.
Writes(h) == storeOffered(h) \/ storeAgreed(h) \/ storeFinalized(h) \/ storeTermination(h)

\* The kinds of steps there are.
LEMMA Steps ==
  ASSUME [Next]_vars
  PROVE  \/ \E n \in Neg, who \in Participants, d \in Datasets : handleInitiate(n, d, who)
         \/ \E h \in Handlers : Looks(h)
         \/ \E h \in Handlers : CreateAgreement(h)
         \/ \E h \in Handlers : Writes(h)
         \/ \E h \in Handlers : failWrite(h)
         \/ \E n \in Neg, k \in TaskIds : RunOrFail(n, k)
         \/ crash
         \/ UNCHANGED vars
BY DEF Next, Work, Fault, Request, Serve, Run, Looks, Writes, RunOrFail

\* A copy just taken of a row, in a state the request may write from.
Copied(c) ==
  /\ c \in Recording \cup Writing
  /\ c.neg \in Neg /\ c.seen \in States
  /\ c.seen = row[c.neg].state /\ c.pid = row[c.neg].pid
  /\ c.pc = "record" => c.seen \in SeenBy["agreement"]
  /\ c.pc = "write" => c.seen \in SeenBy[c.op] /\ c.op # "agreement"

\* A request is answered at once, or goes on with such a copy.
TakesUp(h) ==
  /\ UNCHANGED <<row, agreements, task, answer>>
  /\ \/ handler' = handler
     \/ \E c \in Recording \cup Writing : Copied(c) /\ handler' = [handler EXCEPT ![h] = c]

\* A request that looks at a row goes on with a copy of it, or is over.
LEMMA LooksEffect ==
  ASSUME TypeOK, NEW h \in Handlers, Looks(h)
  PROVE  TakesUp(h)
<1>1. ASSUME NEW n \in Neg, NEW who \in Participants, NEW legal, NEW c,
             lookup(h, n, who, legal, c),
             row[n] \in Row => c \in Recording \cup Writing,
             row[n] \in Row /\ legal => Copied(c)
      PROVE  TakesUp(h)
  <2>1. row[n] \in Row
    BY <1>1, RowShape DEF TypeOK, lookup
  <2> QED BY <1>1, <2>1 DEF lookup, TakesUp
<1>2. ASSUME NEW n \in Neg, NEW op \in Ops \ {"agreement"}, NEW unenforceable \in BOOLEAN,
             row[n] \in Row
      PROVE  LET c == writing(op, n, unenforceable, FALSE) IN
             /\ c \in Writing
             /\ row[n].state \in SeenBy[op] => Copied(c)
  <2> DEFINE c == writing(op, n, unenforceable, FALSE)
  <2>1. row[n].state \in States /\ row[n].pid \in BOOLEAN
    BY <1>2 DEF Row
  <2>2. /\ c \in Writing
        /\ c.neg = n /\ c.seen = row[n].state /\ c.pid = row[n].pid
        /\ c.pc = "write" /\ c.op = op
    BY <2>1 DEF writing, Writing
  <2> HIDE DEF c
  <2>3. row[n].state \in SeenBy[op] => Copied(c)
    BY <2>1, <2>2 DEF Copied
  <2> QED BY <2>2, <2>3 DEF c
<1>3. PICK n \in Neg, who \in Participants :
        \/ \E unenforceable \in BOOLEAN : handleOffers(h, n, who, unenforceable)
        \/ \E m \in Message : handleAgreement(h, n, who, m)
        \/ handleConsumerFinalizedEvent(h, n, who)
        \/ handleConsumerTermination(h, n, who)
  BY DEF Looks
<1>4. ASSUME NEW unenforceable \in BOOLEAN, handleOffers(h, n, who, unenforceable)
      PROVE  TakesUp(h)
  <2> DEFINE c == writing("offer", n, unenforceable, FALSE)
             legal == offerLegalFrom(row[n].state)
  <2>1. row[n] \in Row => c \in Writing /\ (legal => Copied(c))
    BY <1>2 DEF Ops, SeenBy, offerLegalFrom
  <2>2. lookup(h, n, who, legal, c)
    BY <1>4 DEF handleOffers
  <2> HIDE DEF c, legal
  <2> QED BY <1>1, <2>1, <2>2
<1>5. ASSUME NEW m \in Message, handleAgreement(h, n, who, m)
      PROVE  TakesUp(h)
  <2> DEFINE c == [pc |-> "record", neg |-> n, seen |-> row[n].state, pid |-> row[n].pid, msg |-> m]
             legal == agreementLegalFrom(row[n].state)
  <2>1. row[n] \in Row => /\ c \in Recording
                         /\ row[n].state \in States
    BY DEF Row, Recording
  <2>2. row[n] \in Row => (legal => Copied(c))
    <3>1. /\ c.neg = n /\ c.seen = row[n].state /\ c.pid = row[n].pid /\ c.pc = "record"
          /\ legal => row[n].state \in SeenBy["agreement"]
      BY DEF SeenBy, agreementLegalFrom
    <3> HIDE DEF c, legal
    <3> QED BY <2>1, <3>1 DEF Copied
  <2>3. lookup(h, n, who, legal, c)
    BY <1>5 DEF handleAgreement
  <2> HIDE DEF c, legal
  <2> QED BY <1>1, <2>1, <2>2, <2>3
<1>6. ASSUME handleConsumerFinalizedEvent(h, n, who)
      PROVE  TakesUp(h)
  <2> DEFINE c == writing("finalized", n, FALSE, FALSE)
             legal == finalizedEventLegalFrom(row[n].state)
  <2>1. row[n] \in Row => c \in Writing /\ (legal => Copied(c))
    BY <1>2 DEF Ops, SeenBy, finalizedEventLegalFrom
  <2>2. lookup(h, n, who, legal, c)
    BY <1>6 DEF handleConsumerFinalizedEvent
  <2> HIDE DEF c, legal
  <2> QED BY <1>1, <2>1, <2>2
<1>7. ASSUME handleConsumerTermination(h, n, who)
      PROVE  TakesUp(h)
  <2> DEFINE c == writing("termination", n, FALSE, FALSE)
             legal == row[n].state \notin Terminal
  <2>1. row[n] \in Row => c \in Writing /\ (legal => Copied(c))
    BY <1>2 DEF Ops, SeenBy, Row
  <2>2. lookup(h, n, who, legal, c)
    BY <1>7 DEF handleConsumerTermination
  <2> HIDE DEF c, legal
  <2> QED BY <1>1, <2>1, <2>2
<1> QED BY <1>3, <1>4, <1>5, <1>6, <1>7

\* The row of a request past its checks exists, in a state after the one seen.
LEMMA RequestFacts ==
  ASSUME TypeOK, InFlightIsLegal, NEW h \in Handlers, handler[h].pc \in {"record", "write"}
  PROVE  /\ handler[h].neg \in Neg /\ handler[h].seen \in States /\ handler[h].pid \in BOOLEAN
         /\ row[handler[h].neg] \in Row
         /\ row[handler[h].neg].state \in Past(handler[h].seen)
         /\ handler[h].pid => row[handler[h].neg].pid
         /\ handler[h].pc = "record" => /\ handler[h] \in Recording
                                        /\ handler[h].seen \in SeenBy["agreement"]
         /\ handler[h].pc = "write" => /\ handler[h] \in Writing
                                       /\ handler[h].seen \in SeenBy[handler[h].op]
<1>1. handler[h].neg \in Neg /\ handler[h].seen \in States /\ handler[h].pid \in BOOLEAN
  BY RequestShape DEF TypeOK
<1>2. row[handler[h].neg].state \in Past(handler[h].seen)
  BY DEF InFlightIsLegal
<1>3. row[handler[h].neg] \in Row
  BY <1>1, <1>2, PastRange, RowShape DEF TypeOK
<1> QED BY <1>1, <1>2, <1>3, RequestShape DEF TypeOK, InFlightIsLegal

\* A reaction t, of kind k, starts on the negotiation of h, which becomes `to`.
Starts(h, to, k, t) ==
  LET n == handler[h].neg IN
  /\ k \in {"offer", "agreement"} /\ StartedFrom[k] = to
  /\ row[n].state = handler[h].seen
  /\ TaskBecomes(n, k, t)
  /\ t.pc = "resolve" /\ t.from = to /\ t.action \in Plans[k] /\ t.pid = handler[h].pid
  /\ k = "agreement" /\ t.action = "verify" =>
       OnAgreement[row[n].dataset] = "verify" /\ ~handler[h].wrongTarget
  /\ k = "offer" /\ t.action = "accept" => OnOffer[row[n].dataset] = "accept"

\* A request writes the state `to`, and ends.
Stores(h, to) ==
  /\ handler[h].pc = "write"
  /\ to \in {"OFFERED", "AGREED", "FINALIZED", "TERMINATED"}
  /\ <<handler[h].seen, to>> \in Contract!Legal
  /\ to = "AGREED" => handler[h].op = "agreement"
  /\ to = "FINALIZED" => handler[h].op = "finalized"
  /\ to = "TERMINATED" => handler[h].op = "termination"
  /\ row' = SetConsumerState(handler[h].neg, handler[h].seen, to)
  /\ handler' = [handler EXCEPT ![h] = Idle]
  /\ agreements' = agreements
  /\ answer' = IF row[handler[h].neg].state = handler[h].seen /\ to = "AGREED"
                 THEN [answer EXCEPT ![handler[h].neg].to = handler[h].id] ELSE answer
  /\ task' = task \/ \E k \in TaskIds, t \in Task : Starts(h, to, k, t)

\* That is what the four writes are.
LEMMA WritesEffect ==
  ASSUME TypeOK, InFlightIsLegal, NEW h \in Handlers, Writes(h)
  PROVE  \E to \in States : Stores(h, to)
<1> DEFINE n == handler[h].neg
<1>1. handler[h].pc = "write"
  BY DEF Writes, storeOffered, storeAgreed, storeFinalized, storeTermination, AtWrite
<1>2. /\ n \in Neg /\ handler[h].seen \in States /\ row[n] \in Row
      /\ handler[h] \in Writing /\ handler[h].seen \in SeenBy[handler[h].op]
  BY <1>1, RequestFacts
<1>3. /\ handler[h].pid \in BOOLEAN /\ handler[h].unenforceable \in BOOLEAN
      /\ handler[h].wrongTarget \in BOOLEAN /\ row[n].dataset \in Datasets
  BY <1>2 DEF Writing, Row
<1>4. ASSUME NEW k \in {"offer", "agreement"}, NEW action \in Plans[k], NEW to \in States,
             StartedFrom[k] = to,
             row[n].state = handler[h].seen,
             task' = [task EXCEPT ![n][k] = react(to, handler[h].pid, action)],
             k = "agreement" /\ action = "verify" =>
               OnAgreement[row[n].dataset] = "verify" /\ ~handler[h].wrongTarget,
             k = "offer" /\ action = "accept" => OnOffer[row[n].dataset] = "accept"
      PROVE  \E j \in TaskIds, t \in Task : Starts(h, to, j, t)
  <2> DEFINE t == react(to, handler[h].pid, action)
  <2>1. action \in Actions
    BY <1>4 DEF Plans, Actions
  <2>2. /\ t \in Task
        /\ t.pc = "resolve" /\ t.from = to /\ t.action = action /\ t.pid = handler[h].pid
    BY <1>3, <1>4, <2>1 DEF react, Task, Stages
  <2>3. k \in TaskIds
    BY DEF TaskIds
  <2>4. task' = [task EXCEPT ![n][k] = t]
    BY <1>4
  <2> HIDE DEF t
  <2>5. TaskBecomes(n, k, t)
    BY <1>2, <2>2, <2>3, <2>4, TaskUpdate DEF TypeOK
  <2> QED BY <1>4, <2>2, <2>3, <2>5 DEF Starts
<1>5. CASE storeOffered(h)
  <2>1. handler[h].op = "offer" /\ handler[h].seen = "REQUESTED"
    BY <1>2, <1>5 DEF storeOffered, AtWrite, SeenBy
  <2>2. OnOffer[row[n].dataset] \in OfferPolicies
    BY <1>3, PolicyAssumption
  <2> DEFINE action == decideOfferReaction(OnOffer[row[n].dataset], handler[h].unenforceable)
  <2>3. /\ action \in Plans["offer"]
        /\ action = "accept" => OnOffer[row[n].dataset] = "accept"
    BY <2>2 DEF decideOfferReaction, Plans, OfferPolicies
  <2>4. \/ task' = task
        \/ /\ row[n].state = handler[h].seen
           /\ task' = [task EXCEPT ![n]["offer"] = react("OFFERED", handler[h].pid, action)]
    BY <1>5 DEF storeOffered, store, Holds
  <2> HIDE DEF action
  <2>5. task' = task \/ \E k \in TaskIds, t \in Task : Starts(h, "OFFERED", k, t)
    BY <1>4, <2>3, <2>4 DEF StartedFrom, States
  <2>6. <<handler[h].seen, "OFFERED">> \in Contract!Legal
    BY <2>1 DEF Contract!Legal
  <2>7. /\ row' = SetConsumerState(handler[h].neg, handler[h].seen, "OFFERED")
        /\ handler' = [handler EXCEPT ![h] = Idle]
        /\ agreements' = agreements
        /\ answer' = IF row[handler[h].neg].state = handler[h].seen /\ "OFFERED" = "AGREED"
                       THEN [answer EXCEPT ![handler[h].neg].to = handler[h].id] ELSE answer
    BY <1>5 DEF storeOffered, store, return, Holds
  <2> QED BY <1>1, <2>5, <2>6, <2>7 DEF Stores, States
<1>6. CASE storeAgreed(h)
  <2>1. handler[h].op = "agreement" /\ handler[h].seen \in {"REQUESTED", "ACCEPTED"}
    BY <1>2, <1>6 DEF storeAgreed, AtWrite, SeenBy
  <2>2. OnAgreement[row[n].dataset] \in AgreementPolicies
    BY <1>3, PolicyAssumption
  <2> DEFINE action == decideAgreementReaction(OnAgreement[row[n].dataset],
                                               handler[h].unenforceable, handler[h].wrongTarget)
  <2>3. /\ action \in Plans["agreement"]
        /\ action = "verify" =>
             OnAgreement[row[n].dataset] = "verify" /\ ~handler[h].wrongTarget
    BY <1>3, <2>2 DEF decideAgreementReaction, Plans, AgreementPolicies
  <2>4. \/ task' = task
        \/ /\ row[n].state = handler[h].seen
           /\ task' = [task EXCEPT ![n]["agreement"] = react("AGREED", handler[h].pid, action)]
    BY <1>6 DEF storeAgreed, store, Holds
  <2> HIDE DEF action
  <2>5. task' = task \/ \E k \in TaskIds, t \in Task : Starts(h, "AGREED", k, t)
    BY <1>4, <2>3, <2>4 DEF StartedFrom, States
  <2>6. <<handler[h].seen, "AGREED">> \in Contract!Legal
    BY <2>1 DEF Contract!Legal
  <2>7. /\ row' = SetConsumerState(handler[h].neg, handler[h].seen, "AGREED")
        /\ handler' = [handler EXCEPT ![h] = Idle]
        /\ agreements' = agreements
        /\ answer' = IF row[handler[h].neg].state = handler[h].seen /\ "AGREED" = "AGREED"
                       THEN [answer EXCEPT ![handler[h].neg].to = handler[h].id] ELSE answer
    BY <1>6 DEF storeAgreed, store, return, Holds
  <2> QED BY <1>1, <2>1, <2>5, <2>6, <2>7 DEF Stores, States
<1>7. CASE storeFinalized(h)
  <2>1. handler[h].op = "finalized" /\ handler[h].seen = "VERIFIED"
    BY <1>2, <1>7 DEF storeFinalized, AtWrite, SeenBy
  <2>2. <<handler[h].seen, "FINALIZED">> \in Contract!Legal
    BY <2>1 DEF Contract!Legal
  <2>3. /\ row' = SetConsumerState(handler[h].neg, handler[h].seen, "FINALIZED")
        /\ handler' = [handler EXCEPT ![h] = Idle]
        /\ agreements' = agreements /\ task' = task /\ answer' = answer
    BY <1>7 DEF storeFinalized, store, return, Holds
  <2> QED BY <1>1, <2>1, <2>2, <2>3 DEF Stores, States
<1>8. CASE storeTermination(h)
  <2>1. handler[h].op = "termination" /\ handler[h].seen \in States \ Terminal
    BY <1>2, <1>8 DEF storeTermination, AtWrite, SeenBy
  <2>2. <<handler[h].seen, "TERMINATED">> \in Contract!Legal
    BY <2>1 DEF Contract!Legal, Contract!States, Contract!Terminal, States, Terminal
  <2>3. /\ row' = SetConsumerState(handler[h].neg, handler[h].seen, "TERMINATED")
        /\ handler' = [handler EXCEPT ![h] = Idle]
        /\ agreements' = agreements /\ task' = task /\ answer' = answer
    BY <1>8 DEF storeTermination, store, return, Holds
  <2> QED BY <1>1, <2>1, <2>2, <2>3 DEF Stores, States
<1> QED BY <1>5, <1>6, <1>7, <1>8 DEF Writes

-----------------------------------------------------------------------------
(* What the steps do to the rows *)

\* A row is left alone, or keeps what was asked for, does not forget the
\* provider's pid, and makes at most one legal transition.
RowAdvances(n) ==
  \/ row'[n] = row[n]
  \/ /\ row[n] \in Row /\ row'[n] \in Row
     /\ row'[n].dataset = row[n].dataset /\ row'[n].party = row[n].party
     /\ row[n].pid => row'[n].pid
     /\ row'[n].state = row[n].state \/ <<row[n].state, row'[n].state>> \in Contract!Legal

\* A row that advances stays, and stays past every state it was past.
LEMMA AdvancesForward ==
  ASSUME TypeOK, NEW n \in Neg, RowAdvances(n)
  PROVE  /\ \A x \in States : row[n].state \in Past(x) => row'[n].state \in Past(x)
         /\ Exists(n)' <=> Exists(n)
         /\ row[n] \in Row => /\ row'[n] \in Row
                              /\ row'[n].dataset = row[n].dataset
                              /\ row'[n].party = row[n].party
                              /\ row[n].pid => row'[n].pid
<1>1. CASE row'[n] = row[n]
  BY <1>1 DEF Exists
<1>2. CASE /\ row[n] \in Row /\ row'[n] \in Row
           /\ row'[n].dataset = row[n].dataset /\ row'[n].party = row[n].party
           /\ row[n].pid => row'[n].pid
           /\ row'[n].state = row[n].state \/ <<row[n].state, row'[n].state>> \in Contract!Legal
  <2>1. row[n].state \in States /\ row'[n].state \in States
    BY <1>2 DEF Row
  <2>2. Exists(n) /\ Exists(n)'
    BY <2>1 DEF Exists, NoRow, States
  <2> QED BY <1>2, <2>1, <2>2, LegalIsForward
<1> QED BY <1>1, <1>2 DEF RowAdvances

\* A conditional state write is an advance if its states are a transition.
LEMMA SetAdvances ==
  ASSUME TypeOK, NEW n \in Neg, NEW from \in States, NEW to \in States,
         <<from, to>> \in Contract!Legal, row' = SetConsumerState(n, from, to)
  PROVE  /\ row' \in [Neg -> {NoRow} \cup Row]
         /\ \A m \in Neg : RowAdvances(m)
<1>1. /\ row' \in [Neg -> {NoRow} \cup Row]
      /\ \A m \in Neg \ {n} : row'[m] = row[m]
      /\ row[n].state # from => row' = row
      /\ row[n].state = from => /\ row[n] \in Row /\ row'[n] \in Row
                                /\ row'[n].dataset = row[n].dataset
                                /\ row'[n].party = row[n].party
                                /\ row'[n].pid = row[n].pid
                                /\ row'[n].state = to
  BY SetEffect DEF TypeOK
<1>2. CASE row[n].state = from
  <2>1. RowAdvances(n)
    BY <1>1, <1>2 DEF RowAdvances
  <2> QED BY <1>1, <2>1 DEF RowAdvances
<1>3. CASE row[n].state # from
  BY <1>1, <1>3 DEF RowAdvances
<1> QED BY <1>2, <1>3

\* The transition a reaction makes.
LEMMA ReactionLegal ==
  ASSUME TypeOK, InFlightIsLegal, NEW n \in Neg, NEW k \in TaskIds, task[n][k].pc = "store"
  PROVE  /\ task[n][k].from \in States /\ Store[task[n][k].action] \in States
         /\ <<task[n][k].from, Store[task[n][k].action]>> \in Contract!Legal
         /\ Store[task[n][k].action] # "AGREED"
         /\ Store[task[n][k].action] = "VERIFIED" => k = "agreement" /\ task[n][k].action = "verify"
<1> DEFINE old == task[n][k]
<1>1. /\ old.from = StartedFrom[k] /\ old.action \in Plans[k]
      /\ old.action \in {"accept", "verify", "reject", "abandon"}
  BY DEF InFlightIsLegal, Store
<1> HIDE DEF old
<1>2. CASE k = "start"
  <2>1. old.from = "REQUESTED" /\ old.action = "abandon"
    BY <1>1, <1>2 DEF StartedFrom, Plans, IdlePolicies
  <2> QED BY <1>2, <2>1 DEF old, Store, States, Contract!Legal, Contract!States, Contract!Terminal
<1>3. CASE k = "offer"
  <2>1. old.from = "OFFERED" /\ old.action \in {"accept", "reject"}
    BY <1>1, <1>3 DEF StartedFrom, Plans, OfferPolicies
  <2> QED BY <1>3, <2>1 DEF old, Store, States, Contract!Legal, Contract!States, Contract!Terminal
<1>4. CASE k = "agreement"
  <2>1. old.from = "AGREED" /\ old.action \in {"verify", "reject"}
    BY <1>1, <1>4 DEF StartedFrom, Plans, AgreementPolicies
  <2> QED BY <1>4, <2>1 DEF old, Store, States, Contract!Legal, Contract!States, Contract!Terminal
<1> QED BY <1>2, <1>3, <1>4 DEF TaskIds

\* A goroutine leaves the rows alone, records the provider's pid, or writes
\* the state its reaction ends in.
LEMMA RunRows ==
  ASSUME TypeOK, InFlightIsLegal, NEW n \in Neg, NEW k \in TaskIds, RunOrFail(n, k)
  PROVE  /\ row' \in [Neg -> {NoRow} \cup Row]
         /\ \A m \in Neg : RowAdvances(m)
         /\ \/ \A m \in Neg : row'[m].state = row[m].state
            \/ storeReaction(n, k)
<1>1. CASE row' = row
  BY <1>1 DEF RowAdvances, TypeOK
<1>2. CASE k = "start" /\ SetConsumerProviderPID(n)
  <2>1. row[n].state \in States
    BY <1>2, PastRange DEF InFlightIsLegal, SetConsumerProviderPID, StartedFrom, States
  <2>2. row[n] \in Row
    BY <2>1, RowShape DEF TypeOK
  <2>3. row'[n] = [row[n] EXCEPT !.pid = TRUE] /\ \A m \in Neg \ {n} : row'[m] = row[m]
    BY <1>2 DEF SetConsumerProviderPID, TypeOK
  <2>4. /\ row'[n] \in Row /\ row'[n].pid = TRUE
        /\ row'[n].dataset = row[n].dataset /\ row'[n].party = row[n].party
        /\ row'[n].state = row[n].state
    BY <2>2, <2>3 DEF Row
  <2>5. row' \in [Neg -> {NoRow} \cup Row]
    BY <1>2, <2>3, <2>4 DEF SetConsumerProviderPID, TypeOK
  <2>6. RowAdvances(n)
    BY <2>2, <2>4 DEF RowAdvances
  <2> QED BY <2>3, <2>4, <2>5, <2>6 DEF RowAdvances
<1>3. CASE storeReaction(n, k)
  <2> DEFINE from == task[n][k].from
             to == Store[task[n][k].action]
  <2>1. task[n][k].pc = "store" /\ row' = SetConsumerState(n, from, to)
    BY <1>3 DEF storeReaction
  <2>2. from \in States /\ to \in States /\ <<from, to>> \in Contract!Legal
    BY <2>1, ReactionLegal
  <2> HIDE DEF from, to
  <2> QED BY <1>3, <2>1, <2>2, SetAdvances
<1> QED
  BY <1>1, <1>2, <1>3
  DEF RunOrFail, sendInitialRequest, resolveProviderPID, endPush, failStore, failResolve

\* Every step advances every row, unless it creates one.
LEMMA RowStep ==
  ASSUME TypeOK, InFlightIsLegal, [Next]_vars
  PROVE  \/ \E n \in Neg, who \in Participants, d \in Datasets : handleInitiate(n, d, who)
         \/ row' \in [Neg -> {NoRow} \cup Row] /\ \A m \in Neg : RowAdvances(m)
<1>1. CASE row' = row
  BY <1>1 DEF RowAdvances, TypeOK
<1>2. ASSUME NEW h \in Handlers, Writes(h)
      PROVE  row' \in [Neg -> {NoRow} \cup Row] /\ \A m \in Neg : RowAdvances(m)
  <2>1. PICK to \in States : Stores(h, to)
    BY <1>2, WritesEffect
  <2>2. handler[h].neg \in Neg /\ handler[h].seen \in States
    BY <2>1, RequestFacts DEF Stores
  <2> QED BY <2>1, <2>2, SetAdvances DEF Stores
<1>3. ASSUME NEW h \in Handlers, Looks(h) PROVE row' = row
  BY <1>3, LooksEffect DEF TakesUp
<1> QED
  BY <1>1, <1>2, <1>3, Steps, RunRows DEF CreateAgreement, failWrite, crash, vars

\* A row that is created.
LEMMA CreatedRow ==
  ASSUME TypeOK, NEW n \in Neg, NEW who \in Participants, NEW d \in Datasets,
         handleInitiate(n, d, who)
  PROVE  /\ row' \in [Neg -> {NoRow} \cup Row]
         /\ row[n] = NoRow /\ row[n].state \notin States
         /\ row'[n] \in Row /\ row'[n].state = "REQUESTED" /\ row'[n].dataset = d
         /\ row'[n] # NoRow
         /\ \A m \in Neg \ {n} : row'[m] = row[m]
<1> DEFINE r == [state |-> "REQUESTED", dataset |-> d, party |-> who, pid |-> FALSE]
<1>1. r \in Row /\ r.state = "REQUESTED" /\ r.dataset = d
  BY DEF Row, States
<1>2. row' = [row EXCEPT ![n] = r]
  BY DEF handleInitiate
<1> HIDE DEF r
<1>3. /\ row' \in [Neg -> {NoRow} \cup Row] /\ row'[n] = r
      /\ \A m \in Neg \ {n} : row'[m] = row[m]
  BY <1>1, <1>2 DEF TypeOK
<1>4. row[n] = NoRow /\ row[n].state \notin States
  BY DEF handleInitiate, Exists, NoRow, States
<1> QED BY <1>1, <1>3, <1>4 DEF NoRow

\* Its goroutine.
LEMMA CreatedTask ==
  ASSUME TypeOK, NEW n \in Neg, NEW who \in Participants, NEW d \in Datasets,
         handleInitiate(n, d, who)
  PROVE  \E t \in Task : /\ TaskBecomes(n, "start", t)
                         /\ t.pc = "request" /\ t.from = "REQUESTED"
                         /\ t.pid = FALSE /\ t.action = OnIdle[d]
<1> DEFINE t == [pc |-> "request", from |-> "REQUESTED", pid |-> FALSE, action |-> OnIdle[d]]
<1>1. OnIdle[d] \in IdlePolicies
  BY PolicyAssumption
<1>2. /\ t \in Task /\ t.pc = "request" /\ t.from = "REQUESTED" /\ t.pid = FALSE
      /\ t.action = OnIdle[d]
  BY <1>1 DEF Task, Stages, States, Actions
<1>3. task' = [task EXCEPT ![n]["start"] = t]
  BY DEF handleInitiate
<1> HIDE DEF t
<1>4. TaskBecomes(n, "start", t)
  BY <1>2, <1>3, TaskUpdate DEF TypeOK, TaskIds
<1> QED BY <1>2, <1>4

-----------------------------------------------------------------------------
(* What is in flight stays legal *)

\* The parts of InFlightIsLegal: a goroutine, a negotiation, a request.
GoroutineLegal(n, k) ==
  task[n][k].pc # "none" =>
    /\ row[n].state \in Past(StartedFrom[k])
    /\ task[n][k].from = StartedFrom[k]
    /\ task[n][k].action \in Plans[k]
    /\ task[n][k].pid => row[n].pid
    /\ task[n][k].pc \in {"request", "pid"} => k = "start"
    /\ task[n][k].pc = "resolve" => k # "start"
    /\ task[n][k].pc = "push" => task[n][k].action \notin {"wait", "passive"}
    /\ task[n][k].pc = "store" => task[n][k].action \in DOMAIN Store

NegotiationLegal(n) == Exists(n) <=> task[n]["start"].pc # "none"

RequestLegal(h) ==
  handler[h].pc \in {"record", "write"} =>
    /\ row[handler[h].neg].state \in Past(handler[h].seen)
    /\ handler[h].pid => row[handler[h].neg].pid
    /\ handler[h].pc = "record" => handler[h].seen \in SeenBy["agreement"]
    /\ handler[h].pc = "write" => handler[h].seen \in SeenBy[handler[h].op]

\* InFlightIsLegal, one part per kind of actor.
LEMMA InFlightParts ==
  InFlightIsLegal <=> /\ \A n \in Neg, k \in TaskIds : GoroutineLegal(n, k)
                      /\ \A n \in Neg : NegotiationLegal(n)
                      /\ \A h \in Handlers : RequestLegal(h)
BY DEF InFlightIsLegal, GoroutineLegal, NegotiationLegal, RequestLegal

\* A goroutine that does not move stays legal while its row advances.
LEMMA GoroutineKept ==
  ASSUME TypeOK, NEW n \in Neg, NEW k \in TaskIds, GoroutineLegal(n, k),
         RowAdvances(n), task'[n][k] = task[n][k]
  PROVE  GoroutineLegal(n, k)'
<1> SUFFICES ASSUME task[n][k].pc # "none" PROVE GoroutineLegal(n, k)'
  BY DEF GoroutineLegal
<1>1. StartedFrom[k] \in States
  BY DEF StartedFrom, TaskIds, States
<1>2. row[n].state \in Past(StartedFrom[k])
  BY DEF GoroutineLegal
<1>3. row[n] \in Row
  BY <1>1, <1>2, PastRange, RowShape DEF TypeOK
<1>4. row'[n].state \in Past(StartedFrom[k]) /\ (row[n].pid => row'[n].pid)
  BY <1>1, <1>2, <1>3, AdvancesForward
<1> QED BY <1>4 DEF GoroutineLegal

\* So does one that goes on.
LEMMA GoroutineGoesOn ==
  ASSUME TypeOK, NEW n \in Neg, NEW k \in TaskIds, GoroutineLegal(n, k),
         RowAdvances(n), NEW t \in Task, GoesOn(n, k, t)
  PROVE  GoroutineLegal(n, k)'
<1>1. /\ task'[n][k] = t
      /\ task[n][k].pc # "none" /\ t.pc # "none"
      /\ t.from = task[n][k].from /\ t.action = task[n][k].action
      /\ t.pid => task[n][k].pid \/ row[n].pid \/ row'[n].pid
      /\ t.pc \notin {"request", "resolve"}
      /\ t.pc = "pid" => k = "start"
      /\ t.pc = "push" => t.action \notin {"wait", "passive"}
      /\ t.pc = "store" => t.action \in {"accept", "verify", "reject", "abandon"}
  BY DEF GoesOn, TaskBecomes
<1>2. StartedFrom[k] \in States
  BY DEF StartedFrom, TaskIds, States
<1>3. row[n].state \in Past(StartedFrom[k]) /\ (task[n][k].pid => row[n].pid)
  BY <1>1 DEF GoroutineLegal
<1>4. row[n] \in Row
  BY <1>2, <1>3, PastRange, RowShape DEF TypeOK
<1>5. row'[n].state \in Past(StartedFrom[k]) /\ (row[n].pid => row'[n].pid)
  BY <1>2, <1>3, <1>4, AdvancesForward
<1>6. /\ t.from = StartedFrom[k] /\ t.action \in Plans[k]
      /\ t.pid => row'[n].pid
  BY <1>1, <1>3, <1>5 DEF GoroutineLegal
<1>7. DOMAIN Store = {"accept", "verify", "reject", "abandon"}
  BY DEF Store
<1> QED BY <1>1, <1>5, <1>6, <1>7 DEF GoroutineLegal

\* A negotiation stays legal while its row stays, or not, like its first goroutine.
LEMMA NegotiationKept ==
  ASSUME TypeOK, NEW n \in Neg, NegotiationLegal(n), RowAdvances(n),
         task'[n]["start"].pc = "none" <=> task[n]["start"].pc = "none"
  PROVE  NegotiationLegal(n)'
BY AdvancesForward DEF NegotiationLegal

\* Goroutines in flight stay legal, and exist as long as their negotiation
\* does, whatever the step.
LEMMA GoroutinesStep ==
  ASSUME TypeOK, InFlightIsLegal, [Next]_vars, NEW m \in Neg
  PROVE  NegotiationLegal(m)' /\ \A j \in TaskIds : GoroutineLegal(m, j)'
<1>0. NegotiationLegal(m) /\ \A j \in TaskIds : GoroutineLegal(m, j)
  BY InFlightParts
<1>1. ASSUME NEW n \in Neg, NEW who \in Participants, NEW d \in Datasets, handleInitiate(n, d, who)
      PROVE  NegotiationLegal(m)' /\ \A j \in TaskIds : GoroutineLegal(m, j)'
  <2>1. PICK t \in Task : /\ TaskBecomes(n, "start", t)
                          /\ t.pc = "request" /\ t.from = "REQUESTED"
                          /\ t.pid = FALSE /\ t.action = OnIdle[d]
    BY <1>1, CreatedTask
  <2>2. CASE m # n
    <3>1. row'[m] = row[m]
      BY <1>1, <2>2, CreatedRow
    <3>3. \A j \in TaskIds : task'[m][j] = task[m][j]
      BY <2>1, <2>2 DEF TaskBecomes
    <3>2. RowAdvances(m)
      BY <3>1 DEF RowAdvances
    <3>4. "start" \in TaskIds
      BY DEF TaskIds
    <3> QED BY <1>0, <3>2, <3>3, <3>4, GoroutineKept, NegotiationKept
  <2>3. CASE m = n
    <3>1. row[n].state \notin States /\ row'[n].state = "REQUESTED" /\ Exists(n)'
      BY <1>1, CreatedRow DEF Exists
    <3>2. task'[n]["start"] = t /\ \A j \in TaskIds \ {"start"} : task'[n][j] = task[n][j]
      BY <2>1 DEF TaskBecomes, TaskIds
    <3>3. NegotiationLegal(n)'
      BY <2>1, <3>1, <3>2 DEF NegotiationLegal
    <3>4. GoroutineLegal(n, "start")'
      <4>1. OnIdle[d] \in IdlePolicies
        BY PolicyAssumption
      <4>2. "REQUESTED" \in Past("REQUESTED")
        BY DEF Past, States
      <4> QED BY <2>1, <3>1, <3>2, <4>1, <4>2 DEF GoroutineLegal, StartedFrom, Plans
    <3>5. ASSUME NEW j \in TaskIds \ {"start"} PROVE GoroutineLegal(n, j)'
      <4>1. StartedFrom[j] \in States
        BY DEF StartedFrom, TaskIds, States
      <4>2. task[n][j].pc = "none"
        BY <1>0, <2>3, <3>1, <4>1, PastRange DEF GoroutineLegal
      <4> QED BY <3>2, <4>2 DEF GoroutineLegal
    <3> QED BY <2>3, <3>3, <3>4, <3>5
  <2> QED BY <2>2, <2>3
<1>2. ASSUME \A n \in Neg : RowAdvances(n), task' = task
      PROVE  NegotiationLegal(m)' /\ \A j \in TaskIds : GoroutineLegal(m, j)'
  BY <1>0, <1>2, GoroutineKept, NegotiationKept
<1>3. ASSUME UNCHANGED <<row, task>>
      PROVE  NegotiationLegal(m)' /\ \A j \in TaskIds : GoroutineLegal(m, j)'
  BY <1>2, <1>3 DEF RowAdvances
<1>4. ASSUME NEW h \in Handlers, Looks(h)
      PROVE  NegotiationLegal(m)' /\ \A j \in TaskIds : GoroutineLegal(m, j)'
  BY <1>3, <1>4, LooksEffect DEF TakesUp
<1>5. ASSUME NEW h \in Handlers, Writes(h)
      PROVE  NegotiationLegal(m)' /\ \A j \in TaskIds : GoroutineLegal(m, j)'
  <2>1. PICK to \in States : Stores(h, to)
    BY <1>5, WritesEffect
  <2>2. PICK n \in Neg, seen \in States :
          /\ n = handler[h].neg /\ seen = handler[h].seen
          /\ row[n] \in Row /\ (handler[h].pid => row[n].pid)
    BY <2>1, RequestFacts DEF Stores
  <2>3. row' = SetConsumerState(n, seen, to) /\ <<seen, to>> \in Contract!Legal
    BY <2>1, <2>2 DEF Stores
  <2>6. /\ \A x \in Neg : RowAdvances(x)
        /\ row[n].state = seen => row'[n].state = to
    <3>1. row \in [Neg -> {NoRow} \cup Row]
      BY DEF TypeOK
    <3>2. ASSUME row[n].state = seen PROVE row'[n].state = to
      <4>1. row'[n] = [row[n] EXCEPT !.state = to]
        BY <2>3, <3>1, <3>2 DEF SetConsumerState, Holds
      <4> QED BY <2>2, <4>1 DEF Row
    <3> QED BY <2>3, <3>2, SetAdvances
  <2>4. CASE task' = task
    BY <1>2, <2>6, <2>4
  <2>5. ASSUME NEW k \in TaskIds, NEW t \in Task, Starts(h, to, k, t)
        PROVE  NegotiationLegal(m)' /\ \A j \in TaskIds : GoroutineLegal(m, j)'
    <3>1. /\ TaskBecomes(n, k, t) /\ k # "start" /\ StartedFrom[k] = to
          /\ row[n].state = handler[h].seen
          /\ t.pc = "resolve" /\ t.from = to /\ t.action \in Plans[k] /\ t.pid = handler[h].pid
      BY <2>2, <2>5 DEF Starts
    <3>2. ASSUME NEW j \in TaskIds, m # n \/ j # k PROVE GoroutineLegal(m, j)'
      BY <1>0, <2>6, <3>1, <3>2, GoroutineKept DEF TaskBecomes
    <3>3. NegotiationLegal(m)'
      <4>1. task'[m]["start"].pc = "none" <=> task[m]["start"].pc = "none"
        BY <3>1 DEF TaskBecomes, TaskIds
      <4>2. NegotiationLegal(m) /\ RowAdvances(m)
        BY <1>0, <2>6
      <4> QED BY <4>1, <4>2, NegotiationKept
    <3>4. GoroutineLegal(n, k)'
      <4>1. row'[n].state = to
        BY <2>2, <2>6, <3>1
      <4>2. row[n].pid => row'[n].pid
        BY <2>2, <2>6, AdvancesForward
      <4>3. to \in Past(StartedFrom[k])
        BY <3>1, PastRange
      <4>4. task'[n][k] = t
        BY <3>1 DEF TaskBecomes
      <4> QED BY <2>2, <3>1, <4>1, <4>2, <4>3, <4>4 DEF GoroutineLegal
    <3> QED BY <3>2, <3>3, <3>4
  <2> QED BY <2>1, <2>4, <2>5 DEF Stores
<1>6. ASSUME NEW n \in Neg, NEW k \in TaskIds, RunOrFail(n, k)
      PROVE  NegotiationLegal(m)' /\ \A j \in TaskIds : GoroutineLegal(m, j)'
  <2>1. PICK t \in Task : GoesOn(n, k, t)
    BY <1>6, RunEffect
  <2>2. \A x \in Neg : RowAdvances(x)
    BY <1>6, RunRows
  <2>3. ASSUME NEW j \in TaskIds PROVE GoroutineLegal(m, j)'
    <3>1. CASE m # n \/ j # k
      BY <1>0, <2>1, <2>2, <3>1, GoroutineKept DEF GoesOn, TaskBecomes
    <3>2. CASE m = n /\ j = k
      BY <1>0, <2>1, <2>2, <3>2, GoroutineGoesOn
    <3> QED BY <3>1, <3>2
  <2>4. NegotiationLegal(m)'
    <3>1. task'[m]["start"].pc = "none" <=> task[m]["start"].pc = "none"
      BY <2>1 DEF GoesOn, TaskBecomes, TaskIds
    <3> QED BY <1>0, <2>2, <3>1, NegotiationKept
  <2> QED BY <2>3, <2>4
<1>7. ASSUME crash PROVE NegotiationLegal(m)' /\ \A j \in TaskIds : GoroutineLegal(m, j)'
  <2>1. ASSUME NEW j \in TaskIds
        PROVE  \/ task'[m][j] = task[m][j]
               \/ /\ task[m][j].pc # "none" /\ task'[m][j].pc = "done"
                  /\ task'[m][j].from = task[m][j].from
                  /\ task'[m][j].action = task[m][j].action
                  /\ task'[m][j].pid = task[m][j].pid
    BY <1>7 DEF crash, TypeOK, Task
  <2>2. row' = row
    BY <1>7 DEF crash
  <2>3. ASSUME NEW j \in TaskIds PROVE GoroutineLegal(m, j)'
    BY <1>0, <2>1, <2>2 DEF GoroutineLegal
  <2>4. NegotiationLegal(m)'
    BY <1>0, <2>1, <2>2 DEF NegotiationLegal, Exists, TaskIds
  <2> QED BY <2>3, <2>4
<1> QED
  BY <1>1, <1>3, <1>4, <1>5, <1>6, <1>7, Steps DEF CreateAgreement, failWrite, vars

\* Requests in flight stay legal, whatever the step.
LEMMA RequestsStep ==
  ASSUME TypeOK, InFlightIsLegal, [Next]_vars, NEW g \in Handlers
  PROVE  RequestLegal(g)'
<1>1. ASSUME handler'[g] = handler[g], \A n \in Neg : RowAdvances(n)
      PROVE  RequestLegal(g)'
  <2> SUFFICES ASSUME handler[g].pc \in {"record", "write"} PROVE RequestLegal(g)'
    BY <1>1 DEF RequestLegal
  <2>1. PICK n \in Neg, seen \in States :
          /\ n = handler[g].neg /\ seen = handler[g].seen
          /\ row[n] \in Row /\ row[n].state \in Past(seen)
          /\ handler[g].pid => row[n].pid
    BY RequestFacts
  <2>2. row'[n].state \in Past(seen) /\ (row[n].pid => row'[n].pid)
    BY <1>1, <2>1, AdvancesForward
  <2>3. RequestLegal(g)
    BY InFlightParts
  <2> QED BY <1>1, <2>1, <2>2, <2>3 DEF RequestLegal
<1>2. CASE handler'[g].pc \notin {"record", "write"}
  BY <1>2 DEF RequestLegal
<1>3. ASSUME NEW h \in Handlers, handler' = [handler EXCEPT ![h] = Idle]
      PROVE  handler'[g] = handler[g] \/ handler'[g].pc \notin {"record", "write"}
  BY <1>3 DEF TypeOK, Idle
<1>4. ASSUME NEW n \in Neg, NEW who \in Participants, NEW d \in Datasets, handleInitiate(n, d, who)
      PROVE  RequestLegal(g)'
  <2>1. handler' = handler
    BY <1>4 DEF handleInitiate
  <2> SUFFICES ASSUME handler[g].pc \in {"record", "write"} PROVE RequestLegal(g)'
    BY <2>1 DEF RequestLegal
  <2>2. handler[g].neg \in Neg /\ row[handler[g].neg] \in Row
    BY RequestFacts
  <2>3. handler[g].neg # n
    BY <1>4, <2>2, CreatedRow DEF Row
  <2>4. row'[handler[g].neg] = row[handler[g].neg]
    BY <1>4, <2>2, <2>3, CreatedRow
  <2>5. RequestLegal(g)
    BY InFlightParts
  <2> QED BY <2>1, <2>4, <2>5 DEF RequestLegal
<1>5. ASSUME NEW h \in Handlers, Looks(h) PROVE RequestLegal(g)'
  <2>1. TakesUp(h)
    BY <1>5, LooksEffect
  <2>2. \A n \in Neg : RowAdvances(n)
    BY <2>1 DEF TakesUp, RowAdvances
  <2>3. CASE handler'[g] = handler[g]
    BY <1>1, <2>2, <2>3
  <2>4. CASE handler'[g] # handler[g]
    <3>1. PICK c \in Recording \cup Writing :
            Copied(c) /\ handler' = [handler EXCEPT ![h] = c]
      BY <2>1, <2>4 DEF TakesUp
    <3>2. handler'[g] = c /\ row' = row
      BY <2>1, <2>4, <3>1 DEF TakesUp, TypeOK
    <3>3. /\ row[c.neg].state \in Past(c.seen)
          /\ c.pid => row[c.neg].pid
          /\ c.pc = "record" => c.seen \in SeenBy["agreement"]
          /\ c.pc = "write" => c.seen \in SeenBy[c.op]
      BY <3>1, PastRange DEF Copied
    <3> QED BY <3>2, <3>3 DEF RequestLegal
  <2> QED BY <2>3, <2>4
<1>6. ASSUME NEW h \in Handlers, CreateAgreement(h) PROVE RequestLegal(g)'
  <2>1. row' = row
    BY <1>6 DEF CreateAgreement
  <2>2. \A n \in Neg : RowAdvances(n)
    BY <2>1 DEF RowAdvances
  <2>3. CASE handler' = [handler EXCEPT ![h] = Idle] \/ h # g
    <3>1. handler'[g] = handler[g] \/ handler'[g].pc \notin {"record", "write"}
      BY <1>3, <1>6, <2>3 DEF CreateAgreement, return, TypeOK
    <3> QED BY <1>1, <1>2, <2>2, <3>1
  <2>4. CASE handler' = [handler EXCEPT ![h] = recorded(h)] /\ h = g
    <3>1. /\ handler'[g].pc = "write" /\ handler'[g].op = "agreement"
          /\ handler'[g].neg = handler[g].neg /\ handler'[g].seen = handler[g].seen
          /\ handler'[g].pid = handler[g].pid
      BY <2>4 DEF recorded, TypeOK
    <3>2. handler[g].pc = "record" /\ RequestLegal(g)
      BY <1>6, <2>4, InFlightParts DEF CreateAgreement
    <3> QED BY <2>1, <3>1, <3>2 DEF RequestLegal
  <2> QED BY <1>6, <2>3, <2>4 DEF CreateAgreement, return
<1>7. ASSUME NEW h \in Handlers, Writes(h) PROVE RequestLegal(g)'
  <2>1. PICK to \in States : Stores(h, to)
    BY <1>7, WritesEffect
  <2>2. /\ handler[h].neg \in Neg /\ handler[h].seen \in States
        /\ row' = SetConsumerState(handler[h].neg, handler[h].seen, to)
        /\ <<handler[h].seen, to>> \in Contract!Legal
        /\ handler' = [handler EXCEPT ![h] = Idle]
    BY <2>1, RequestFacts DEF Stores
  <2>3. \A n \in Neg : RowAdvances(n)
    BY <2>2, SetAdvances
  <2> QED BY <1>1, <1>2, <1>3, <2>2, <2>3
<1>8. ASSUME NEW h \in Handlers, failWrite(h) PROVE RequestLegal(g)'
  <2>1. \A n \in Neg : RowAdvances(n)
    BY <1>8 DEF failWrite, RowAdvances
  <2> QED BY <1>1, <1>2, <1>3, <1>8, <2>1 DEF failWrite, return
<1>9. ASSUME NEW n \in Neg, NEW k \in TaskIds, RunOrFail(n, k) PROVE RequestLegal(g)'
  BY <1>1, <1>9, RunRows, RunEffect
<1>10. ASSUME crash PROVE RequestLegal(g)'
  BY <1>2, <1>10 DEF crash, Idle
<1>11. ASSUME UNCHANGED vars PROVE RequestLegal(g)'
  <2>1. \A n \in Neg : RowAdvances(n)
    BY <1>11 DEF vars, RowAdvances
  <2> QED BY <1>1, <1>11, <2>1 DEF vars
<1> QED BY <1>4, <1>5, <1>6, <1>7, <1>8, <1>9, <1>10, <1>11, Steps

\* What is in flight stays legal.
LEMMA InFlightStep == TypeOK /\ InFlightIsLegal /\ [Next]_vars => InFlightIsLegal'
<1> SUFFICES ASSUME TypeOK, InFlightIsLegal, [Next]_vars PROVE InFlightIsLegal'
  OBVIOUS
<1>1. \A n \in Neg, k \in TaskIds : GoroutineLegal(n, k)'
  BY GoroutinesStep
<1>2. \A n \in Neg : NegotiationLegal(n)'
  BY GoroutinesStep
<1>3. \A h \in Handlers : RequestLegal(h)'
  BY RequestsStep
<1> QED BY <1>1, <1>2, <1>3 DEF InFlightIsLegal, GoroutineLegal, NegotiationLegal, RequestLegal

-----------------------------------------------------------------------------
(* What is known of the answers *)

\* The history keeps its type; the agreement a negotiation reports is settled when
\* it becomes AGREED, and an acknowledgement is not taken back.
LEMMA AnswerStep ==
  ASSUME TypeOK, InFlightIsLegal, [Next]_vars
  PROVE  /\ answer' \in [Neg -> Answer]
         /\ \A m \in Neg :
              /\ answer[m].acknowledged => answer'[m].acknowledged
              /\ row[m].state \in Past("AGREED") => answer'[m].to = answer[m].to
<1>1. ASSUME answer' = answer
      PROVE  /\ answer' \in [Neg -> Answer]
             /\ \A m \in Neg : /\ answer[m].acknowledged => answer'[m].acknowledged
                              /\ answer'[m].to = answer[m].to
  BY <1>1 DEF TypeOK
<1>2. ASSUME NEW n \in Neg, Heard(n)
      PROVE  /\ answer' \in [Neg -> Answer]
             /\ \A m \in Neg : /\ answer[m].acknowledged => answer'[m].acknowledged
                              /\ answer'[m].to = answer[m].to
  <2>1. CASE answer' = [answer EXCEPT ![n].acknowledged = TRUE]
    <3>1. /\ answer'[n] = [answer[n] EXCEPT !.acknowledged = TRUE] /\ answer[n] \in Answer
          /\ \A m \in Neg \ {n} : answer'[m] = answer[m]
      BY <2>1 DEF TypeOK
    <3>2. answer'[n] \in Answer /\ answer'[n].acknowledged /\ answer'[n].to = answer[n].to
      BY <3>1 DEF Answer
    <3>3. answer' \in [Neg -> Answer]
      BY <2>1, <3>2 DEF TypeOK
    <3> QED BY <3>1, <3>2, <3>3
  <2> QED BY <1>1, <1>2, <2>1 DEF Heard
<1>3. ASSUME NEW h \in Handlers, Writes(h), answer' # answer
      PROVE  /\ answer' \in [Neg -> Answer]
             /\ \A m \in Neg :
                  /\ answer'[m].acknowledged = answer[m].acknowledged
                  /\ row[m].state \in Past("AGREED") => answer'[m].to = answer[m].to
  <2>1. PICK to \in States : Stores(h, to)
    BY <1>3, WritesEffect
  <2>2. to = "AGREED" /\ handler[h].op = "agreement" /\ handler[h].pc = "write"
        /\ row[handler[h].neg].state = handler[h].seen
    BY <1>3, <2>1 DEF Stores
  <2>3. /\ handler[h] \in Writing /\ handler[h].neg \in Neg
        /\ handler[h].seen \in {"REQUESTED", "ACCEPTED"}
    BY <2>2, RequestFacts DEF SeenBy
  <2>4. PICK n \in Neg, id \in AgreementIds \cup {NoId} :
          n = handler[h].neg /\ id = handler[h].id
    BY <2>3 DEF Writing
  <2>5. answer' = [answer EXCEPT ![n].to = id] /\ row[n].state \in {"REQUESTED", "ACCEPTED"}
    BY <2>1, <2>2, <2>3, <2>4 DEF Stores
  <2>6. row[n].state \notin Past("AGREED")
    BY <2>5 DEF Past, IssuedStates
  <2>7. /\ answer'[n] = [answer[n] EXCEPT !.to = id] /\ answer[n] \in Answer
        /\ \A m \in Neg \ {n} : answer'[m] = answer[m]
    BY <2>5 DEF TypeOK
  <2>8. answer'[n] \in Answer /\ answer'[n].acknowledged = answer[n].acknowledged
    BY <2>7 DEF Answer
  <2>9. answer' \in [Neg -> Answer]
    BY <2>5, <2>8 DEF TypeOK
  <2> QED BY <2>6, <2>7, <2>8, <2>9
<1>4. ASSUME NEW h \in Handlers, Looks(h) PROVE answer' = answer
  BY <1>4, LooksEffect DEF TakesUp
<1>5. ASSUME NEW n \in Neg, NEW k \in TaskIds, RunOrFail(n, k) PROVE Heard(n)
  BY <1>5, RunEffect
<1>6. \/ answer' = answer
      \/ \E n \in Neg : Heard(n)
      \/ \E h \in Handlers : Writes(h) /\ answer' # answer
  BY <1>4, <1>5, Steps DEF handleInitiate, CreateAgreement, failWrite, crash, vars
<1> QED
  BY <1>1, <1>2, <1>3, <1>6

-----------------------------------------------------------------------------
(* Type correctness *)

\* Every step keeps the types, as long as what is in flight is legal.
LEMMA TypeStep == TypeOK /\ InFlightIsLegal /\ [Next]_vars => TypeOK'
<1> SUFFICES ASSUME TypeOK, InFlightIsLegal, [Next]_vars PROVE TypeOK'
  OBVIOUS
<1>1. row' \in [Neg -> {NoRow} \cup Row] /\ answer' \in [Neg -> Answer]
  BY RowStep, CreatedRow, AnswerStep
<1>2. ASSUME NEW n \in Neg, NEW who \in Participants, NEW d \in Datasets, handleInitiate(n, d, who)
      PROVE  TypeOK'
  <2>1. task' \in [Neg -> [TaskIds -> Task]]
    BY <1>2, CreatedTask DEF TaskBecomes
  <2> QED BY <1>1, <1>2, <2>1 DEF handleInitiate, TypeOK
<1>3. ASSUME NEW h \in Handlers, Looks(h) PROVE TypeOK'
  BY <1>1, <1>3, LooksEffect DEF TakesUp, TypeOK
<1>4. ASSUME NEW h \in Handlers, CreateAgreement(h) PROVE TypeOK'
  <2>1. handler[h] \in Recording /\ handler[h].neg \in Neg /\ row[handler[h].neg] \in Row
    BY <1>4, RequestFacts DEF CreateAgreement
  <2>2. handler[h].msg \in Message
    BY <2>1 DEF Recording
  <2>3. Received(h) \in Agreement
    BY <2>1, <2>2 DEF Received, Agreement, Message, Row
  <2>4. recorded(h) \in Writing
    <3>1. (handler[h].msg.dataset # row[handler[h].neg].dataset) \in BOOLEAN
      OBVIOUS
    <3>2. handler[h].msg.unenforceable \in BOOLEAN
      BY <2>2 DEF Message
    <3>3. handler[h].seen \in States /\ handler[h].pid \in BOOLEAN
      BY <2>1 DEF Recording
    <3>4. handler[h].msg.id \in AgreementIds \cup {NoId}
      BY <2>2 DEF Message
    <3> QED BY <2>1, <3>1, <3>2, <3>3, <3>4 DEF recorded, Writing, Ops
  <2>5. handler' \in [Handlers -> {Idle} \cup Recording \cup Writing]
    BY <1>4, <2>4 DEF CreateAgreement, return, TypeOK
  <2>6. agreements' \subseteq Agreement
    BY <1>4, <2>3 DEF CreateAgreement, TypeOK
  <2> QED BY <1>1, <1>4, <2>5, <2>6 DEF CreateAgreement, TypeOK
<1>5. ASSUME NEW h \in Handlers, Writes(h) PROVE TypeOK'
  <2>1. PICK to \in States : Stores(h, to)
    BY <1>5, WritesEffect
  <2>2. task' \in [Neg -> [TaskIds -> Task]]
    BY <2>1 DEF Stores, Starts, TaskBecomes, TypeOK
  <2>3. handler' \in [Handlers -> {Idle} \cup Recording \cup Writing]
    BY <2>1 DEF Stores, TypeOK
  <2> QED BY <1>1, <2>1, <2>2, <2>3 DEF Stores, TypeOK
<1>6. ASSUME NEW h \in Handlers, failWrite(h) PROVE TypeOK'
  BY <1>1, <1>6 DEF failWrite, return, TypeOK
<1>7. ASSUME NEW n \in Neg, NEW k \in TaskIds, RunOrFail(n, k) PROVE TypeOK'
  <2>1. PICK t \in Task : GoesOn(n, k, t)
    BY <1>7, RunEffect
  <2>2. UNCHANGED <<agreements, handler>>
    BY <1>7, RunEffect
  <2> QED BY <1>1, <2>1, <2>2 DEF GoesOn, TaskBecomes, TypeOK
<1>8. ASSUME crash PROVE TypeOK'
  <2>1. ASSUME NEW n \in Neg, NEW k \in TaskIds
        PROVE  [task[n][k] EXCEPT !.pc = "done"] \in Task /\ task[n][k] \in Task
    BY SMTT(40) DEF TypeOK, Task, Stages
  <2>2. task' \in [Neg -> [TaskIds -> Task]]
    BY <1>8, <2>1 DEF crash
  <2>3. handler' \in [Handlers -> {Idle} \cup Recording \cup Writing]
    BY <1>8 DEF crash
  <2> QED BY <1>1, <1>8, <2>2, <2>3 DEF crash, TypeOK
<1>9. ASSUME UNCHANGED vars PROVE TypeOK'
  BY <1>9 DEF vars, TypeOK
<1> QED BY <1>2, <1>3, <1>4, <1>5, <1>6, <1>7, <1>8, <1>9, Steps

-----------------------------------------------------------------------------
(* The inductive invariant *)

\* The agreement reported is recorded, for what this connector asked for.
Asked(n) ==
  \E a \in agreements : /\ a.id = answer[n].to /\ a.neg = n
                        /\ a.dataset = row[n].dataset /\ a.party = row[n].party

\* Why only such agreements are verified: by the time an agreement is to be
\* stored as the state it is in the table, and a verification is decided on
\* only with that agreement behind it, and stored only when acknowledged.
RequestTracked(h) ==
  handler[h].pc = "write" /\ handler[h].op = "agreement" =>
    \E a \in agreements :
      /\ a.id = handler[h].id /\ a.neg = handler[h].neg
      /\ ~handler[h].wrongTarget =>
           /\ a.dataset = row[handler[h].neg].dataset
           /\ a.party = row[handler[h].neg].party

ReactionTracked(n) ==
  LET t == task[n]["agreement"] IN
  t.pc # "none" /\ t.action = "verify" =>
    /\ OnAgreement[row[n].dataset] = "verify"
    /\ Asked(n)
    /\ t.pc = "store" => answer[n].acknowledged

AgreementsAreTracked ==
  /\ \A h \in Handlers : RequestTracked(h)
  /\ \A n \in Neg : ReactionTracked(n)

IInv == TypeOK /\ InFlightIsLegal /\ AgreementsAreTracked /\ VerifiedWasAskedFor

\* A negotiation whose row exists keeps what was asked for.
LEMMA AskedKept ==
  ASSUME TypeOK, NEW n \in Neg, row[n] \in Row, RowAdvances(n), agreements \subseteq agreements',
         answer'[n].to = answer[n].to
  PROVE  /\ Asked(n) => Asked(n)'
         /\ row'[n].dataset = row[n].dataset /\ row'[n].party = row[n].party
<1>1. row'[n].dataset = row[n].dataset /\ row'[n].party = row[n].party
  BY AdvancesForward
<1> QED BY <1>1 DEF Asked

\* The table of agreements only grows.
LEMMA AgreementsGrow ==
  ASSUME TypeOK, InFlightIsLegal, [Next]_vars
  PROVE  agreements \subseteq agreements'
<1>1. ASSUME NEW h \in Handlers, Writes(h) PROVE agreements' = agreements
  BY <1>1, WritesEffect DEF Stores
<1>2. ASSUME NEW h \in Handlers, Looks(h) PROVE agreements' = agreements
  BY <1>2, LooksEffect DEF TakesUp
<1> QED BY <1>1, <1>2, Steps, RunEffect DEF handleInitiate, CreateAgreement, failWrite, crash, vars

\* A row of a goroutine in flight exists.
LEMMA GoroutineRow ==
  ASSUME TypeOK, InFlightIsLegal, NEW n \in Neg, NEW k \in TaskIds, task[n][k].pc # "none"
  PROVE  row[n] \in Row
<1>1. StartedFrom[k] \in States
  BY DEF StartedFrom, TaskIds, States
<1>2. row[n].state \in Past(StartedFrom[k])
  BY DEF InFlightIsLegal
<1> QED BY <1>1, <1>2, PastRange, RowShape DEF TypeOK

\* What is known of an agreement about to be stored stays known.
LEMMA RequestsTracked ==
  ASSUME IInv, [Next]_vars, NEW g \in Handlers
  PROVE  RequestTracked(g)'
<1>1. TypeOK /\ InFlightIsLegal /\ RequestTracked(g)
  BY DEF IInv, AgreementsAreTracked
<1>2. agreements \subseteq agreements'
  BY <1>1, AgreementsGrow
<1>3. ASSUME handler'[g] = handler[g] PROVE RequestTracked(g)'
  <2> SUFFICES ASSUME handler[g].pc = "write", handler[g].op = "agreement"
               PROVE  RequestTracked(g)'
    BY <1>3 DEF RequestTracked
  <2>1. handler[g].neg \in Neg /\ row[handler[g].neg] \in Row
    BY <1>1, RequestFacts
  <2>2. /\ row'[handler[g].neg].dataset = row[handler[g].neg].dataset
        /\ row'[handler[g].neg].party = row[handler[g].neg].party
    <3>1. ASSUME NEW n \in Neg, NEW who \in Participants, NEW d \in Datasets,
                 handleInitiate(n, d, who)
          PROVE  row'[handler[g].neg] = row[handler[g].neg]
      <4>1. handler[g].neg # n
        BY <1>1, <2>1, <3>1, CreatedRow DEF Row
      <4> QED BY <1>1, <2>1, <3>1, <4>1, CreatedRow
    <3>2. CASE \A m \in Neg : RowAdvances(m)
      BY <1>1, <2>1, <3>2, AdvancesForward
    <3> QED BY <1>1, <3>1, <3>2, RowStep
  <2> QED BY <1>1, <1>2, <1>3, <2>2 DEF RequestTracked
<1>4. ASSUME handler'[g].pc # "write" \/ handler'[g].op # "agreement" PROVE RequestTracked(g)'
  BY <1>4 DEF RequestTracked
<1>5. ASSUME NEW h \in Handlers, handler' = [handler EXCEPT ![h] = Idle]
      PROVE  handler'[g] = handler[g] \/ handler'[g].pc # "write"
  BY <1>1, <1>5 DEF TypeOK, Idle
<1>6. ASSUME NEW h \in Handlers, Looks(h) PROVE RequestTracked(g)'
  <2>1. TakesUp(h)
    BY <1>1, <1>6, LooksEffect
  <2>2. handler'[g] = handler[g] \/ handler'[g].pc # "write" \/ handler'[g].op # "agreement"
    BY <1>1, <2>1 DEF TakesUp, Copied, TypeOK
  <2> QED BY <1>3, <1>4, <2>2
<1>7. ASSUME NEW h \in Handlers, CreateAgreement(h) PROVE RequestTracked(g)'
  <2>1. CASE handler' = [handler EXCEPT ![h] = Idle] \/ h # g
    <3>1. handler'[g] = handler[g] \/ handler'[g].pc # "write"
      BY <1>1, <1>5, <1>7, <2>1 DEF CreateAgreement, return, TypeOK
    <3> QED BY <1>3, <1>4, <3>1
  <2>2. CASE handler' = [handler EXCEPT ![h] = recorded(h)] /\ h = g /\ IsNewId(handler[g].msg.id)
    <3> DEFINE a == Received(g)
    <3>1. /\ handler'[g].neg = handler[g].neg /\ handler'[g].id = handler[g].msg.id
          /\ handler'[g].wrongTarget = (handler[g].msg.dataset # row[handler[g].neg].dataset)
      BY <1>1, <2>2 DEF recorded, TypeOK
    <3>2. a \in agreements' /\ row' = row
      BY <1>7, <2>2 DEF CreateAgreement
    <3>3. /\ a.id = handler[g].msg.id /\ a.neg = handler[g].neg /\ a.party = row[handler[g].neg].party
          /\ a.dataset = handler[g].msg.dataset
      BY DEF Received
    <3> HIDE DEF a
    <3> QED BY <3>1, <3>2, <3>3 DEF RequestTracked
  <2> QED BY <1>7, <2>1, <2>2 DEF CreateAgreement, return
<1>8. ASSUME NEW h \in Handlers, Writes(h) PROVE RequestTracked(g)'
  BY <1>1, <1>3, <1>4, <1>5, <1>8, WritesEffect DEF Stores
<1>9. ASSUME NEW n \in Neg, NEW k \in TaskIds, RunOrFail(n, k) PROVE RequestTracked(g)'
  BY <1>1, <1>3, <1>9, RunEffect
<1>10. ASSUME crash PROVE RequestTracked(g)'
  BY <1>4, <1>10 DEF crash, Idle
<1> QED
  BY <1>3, <1>4, <1>5, <1>6, <1>7, <1>8, <1>9, <1>10, Steps
  DEF handleInitiate, failWrite, return, vars

\* What is known of a verification stays known.
LEMMA ReactionsTracked ==
  ASSUME IInv, [Next]_vars, NEW m \in Neg
  PROVE  ReactionTracked(m)'
<1>1. TypeOK /\ InFlightIsLegal /\ ReactionTracked(m)
  BY DEF IInv, AgreementsAreTracked
<1>2. agreements \subseteq agreements'
  BY <1>1, AgreementsGrow
<1>3. "agreement" \in TaskIds
  BY DEF TaskIds
<1>4. ASSUME \A n \in Neg : RowAdvances(n),
             task[m]["agreement"].pc # "none",
             task'[m]["agreement"].action = task[m]["agreement"].action,
             task'[m]["agreement"].pc = "store" /\ task'[m]["agreement"].action = "verify" =>
               \/ answer'[m].acknowledged
               \/ task'[m]["agreement"] = task[m]["agreement"]
      PROVE  ReactionTracked(m)'
  <2> SUFFICES ASSUME task'[m]["agreement"].action = "verify" PROVE ReactionTracked(m)'
    BY DEF ReactionTracked
  <2>1. row[m] \in Row
    BY <1>1, <1>3, <1>4, GoroutineRow
  <2>2. OnAgreement[row[m].dataset] = "verify" /\ Asked(m)
    BY <1>1, <1>4 DEF ReactionTracked
  <2>5. row[m].state \in Past("AGREED")
    BY <1>1, <1>3, <1>4 DEF InFlightIsLegal, StartedFrom
  <2>6. /\ answer'[m].to = answer[m].to
        /\ answer[m].acknowledged => answer'[m].acknowledged
    BY <1>1, <2>5, AnswerStep
  <2>3. Asked(m)' /\ row'[m].dataset = row[m].dataset
    BY <1>1, <1>2, <1>4, <2>1, <2>2, <2>6, AskedKept
  <2>4. task'[m]["agreement"].pc = "store" => answer'[m].acknowledged
    BY <1>1, <1>4, <2>6 DEF ReactionTracked
  <2> QED BY <2>2, <2>3, <2>4 DEF ReactionTracked
<1>5. ASSUME task'[m]["agreement"] = task[m]["agreement"], \A n \in Neg : RowAdvances(n)
      PROVE  ReactionTracked(m)'
  <2>1. CASE task[m]["agreement"].pc = "none"
    BY <1>5, <2>1 DEF ReactionTracked
  <2>2. CASE task[m]["agreement"].pc # "none"
    BY <1>4, <1>5, <2>2
  <2> QED BY <2>1, <2>2
<1>6. ASSUME NEW n \in Neg, NEW who \in Participants, NEW d \in Datasets, handleInitiate(n, d, who)
      PROVE  ReactionTracked(m)'
  <2>1. task'[m]["agreement"] = task[m]["agreement"]
    BY ZenonT(60), <1>1, <1>3, <1>6, CreatedTask DEF TaskBecomes
  <2>2. CASE task[m]["agreement"].pc = "none"
    BY <2>1, <2>2 DEF ReactionTracked
  <2>3. CASE task[m]["agreement"].pc # "none"
    <3>1. row[m] \in Row
      BY <1>1, <1>3, <2>3, GoroutineRow
    <3>2. m # n
      BY <1>1, <1>6, <3>1, CreatedRow DEF Row
    <3>3. row'[m] = row[m] /\ agreements' = agreements /\ answer' = answer
      BY <1>1, <1>6, <3>2, CreatedRow DEF handleInitiate
    <3> QED BY <1>1, <2>1, <3>3 DEF ReactionTracked, Asked
  <2> QED BY <2>2, <2>3
<1>7. ASSUME row' = row, task' = task PROVE ReactionTracked(m)'
  BY <1>5, <1>7 DEF RowAdvances
<1>8. ASSUME NEW h \in Handlers, Looks(h) PROVE ReactionTracked(m)'
  BY <1>1, <1>7, <1>8, LooksEffect DEF TakesUp
<1>9. ASSUME NEW h \in Handlers, Writes(h) PROVE ReactionTracked(m)'
  <2>1. PICK to \in States : Stores(h, to)
    BY <1>1, <1>9, WritesEffect
  <2>2. PICK n \in Neg, seen \in States :
          /\ n = handler[h].neg /\ seen = handler[h].seen /\ row[n] \in Row
    BY <1>1, <2>1, RequestFacts DEF Stores
  <2>3. row' = SetConsumerState(n, seen, to) /\ <<seen, to>> \in Contract!Legal
    BY <2>1, <2>2 DEF Stores
  <2>4. \A x \in Neg : RowAdvances(x)
    BY <1>1, <2>3, SetAdvances
  <2>5. CASE task' = task
    BY <1>5, <2>4, <2>5
  <2>6. ASSUME NEW k \in TaskIds, NEW t \in Task, Starts(h, to, k, t)
        PROVE  ReactionTracked(m)'
    <3>1. /\ TaskBecomes(n, k, t) /\ t.pc = "resolve" /\ StartedFrom[k] = to
          /\ k = "agreement" /\ t.action = "verify" =>
               OnAgreement[row[n].dataset] = "verify" /\ ~handler[h].wrongTarget
      BY <2>2, <2>6 DEF Starts
    <3>2. CASE m # n \/ k # "agreement"
      BY <1>3, <1>5, <2>4, <3>1, <3>2 DEF TaskBecomes
    <3>3. CASE m = n /\ k = "agreement"
      <4>1. task'[n]["agreement"] = t
        BY <3>1, <3>3 DEF TaskBecomes
      <4>2. ASSUME t.action = "verify"
            PROVE  OnAgreement[row'[n].dataset] = "verify" /\ Asked(n)'
        <5>1. handler[h].op = "agreement" /\ handler[h].pc = "write"
          BY <2>1, <3>1, <3>3 DEF Stores, StartedFrom
        <5>2. RequestTracked(h)
          BY DEF IInv, AgreementsAreTracked
        <5>3. PICK a \in agreements : /\ a.id = handler[h].id /\ a.neg = n
                                      /\ a.dataset = row[n].dataset /\ a.party = row[n].party
          BY <2>2, <3>1, <3>3, <4>2, <5>1, <5>2 DEF RequestTracked
        <5>4. row'[n].dataset = row[n].dataset /\ row'[n].party = row[n].party
          BY <1>1, <2>2, <2>4, AdvancesForward
        <5>5. to = "AGREED" /\ row[n].state = handler[h].seen
          BY <2>2, <2>6, <3>1, <3>3 DEF Starts, StartedFrom
        <5>6. answer'[n].to = handler[h].id
          BY <1>1, <2>1, <2>2, <5>5 DEF Stores, TypeOK, Answer
        <5>7. Asked(n)'
          BY <1>2, <5>3, <5>4, <5>6 DEF Asked
        <5> QED BY <3>1, <3>3, <4>2, <5>4, <5>7
      <4> QED BY <3>1, <3>3, <4>1, <4>2 DEF ReactionTracked
    <3> QED BY <3>2, <3>3
  <2> QED BY <2>1, <2>5, <2>6 DEF Stores
<1>10. ASSUME NEW n \in Neg, NEW k \in TaskIds, RunOrFail(n, k) PROVE ReactionTracked(m)'
  <2>1. PICK t \in Task : GoesOn(n, k, t)
    BY <1>1, <1>10, RunEffect
  <2>2. \A x \in Neg : RowAdvances(x)
    BY <1>1, <1>10, RunRows
  <2>3. CASE m # n \/ k # "agreement"
    BY <1>3, <1>5, <2>1, <2>2, <2>3 DEF GoesOn, TaskBecomes
  <2>4. CASE m = n /\ k = "agreement"
    <3>1. /\ task'[m]["agreement"] = t /\ task[m]["agreement"].pc # "none"
          /\ t.action = task[m]["agreement"].action
          /\ t.pc = "store" /\ t.action = "verify" => answer'[m].acknowledged
      BY <2>1, <2>4 DEF GoesOn, TaskBecomes
    <3> QED BY <1>4, <2>2, <3>1
  <2> QED BY <2>3, <2>4
<1>11. ASSUME crash PROVE ReactionTracked(m)'
  <2>1. \/ task'[m]["agreement"] = task[m]["agreement"]
        \/ /\ task[m]["agreement"].pc # "none" /\ task'[m]["agreement"].pc = "done"
           /\ task'[m]["agreement"].action = task[m]["agreement"].action
    BY <1>1, <1>3, <1>11 DEF crash, TypeOK, Task
  <2>2. \A n \in Neg : RowAdvances(n)
    BY <1>11 DEF crash, RowAdvances
  <2> QED BY <1>4, <1>5, <2>1, <2>2
<1> QED
  BY <1>6, <1>7, <1>8, <1>9, <1>10, <1>11, Steps DEF CreateAgreement, failWrite, vars

\* VERIFIED is entered only by the verification of an agreement.
LEMMA BecomesVerified ==
  ASSUME TypeOK, InFlightIsLegal, [Next]_vars, NEW m \in Neg,
         row[m].state # "VERIFIED", row'[m].state = "VERIFIED"
  PROVE  task[m]["agreement"].pc = "store" /\ task[m]["agreement"].action = "verify"
<1>1. row' # row
  OBVIOUS
<1>2. ASSUME NEW n \in Neg, NEW who \in Participants, NEW d \in Datasets, handleInitiate(n, d, who)
      PROVE  FALSE
  <2>1. m = n
    BY <1>2, CreatedRow
  <2> QED BY <1>2, <2>1, CreatedRow
<1>3. ASSUME NEW h \in Handlers, Looks(h) PROVE FALSE
  BY <1>1, <1>3, LooksEffect DEF TakesUp
<1>4. ASSUME NEW h \in Handlers, Writes(h) PROVE FALSE
  <2>1. PICK to \in States : Stores(h, to)
    BY <1>4, WritesEffect
  <2>2. PICK n \in Neg, seen \in States : n = handler[h].neg /\ seen = handler[h].seen
    BY <2>1, RequestFacts DEF Stores
  <2>3. row' = SetConsumerState(n, seen, to) /\ to # "VERIFIED"
    BY <2>1, <2>2 DEF Stores
  <2>4. row'[m].state = row[m].state \/ row'[m].state = to
    BY <2>3, SetEffect DEF TypeOK
  <2> QED BY <2>3, <2>4
<1>5. ASSUME NEW n \in Neg, NEW k \in TaskIds, RunOrFail(n, k)
      PROVE  task[m]["agreement"].pc = "store" /\ task[m]["agreement"].action = "verify"
  <2>1. storeReaction(n, k)
    BY <1>5, RunRows
  <2> DEFINE from == task[n][k].from
             to == Store[task[n][k].action]
  <2>2. /\ task[n][k].pc = "store" /\ row' = SetConsumerState(n, from, to)
        /\ from \in States /\ to \in States
        /\ to = "VERIFIED" => k = "agreement" /\ task[n][k].action = "verify"
    BY <2>1, ReactionLegal DEF storeReaction
  <2> HIDE DEF from, to
  <2>3. row \in [Neg -> {NoRow} \cup Row]
    BY DEF TypeOK
  <2>4. m = n
    BY <2>2, <2>3, SetEffect
  <2>5. to = "VERIFIED"
    BY <2>2, <2>3, <2>4, SetEffect
  <2> QED BY <2>2, <2>4, <2>5
<1> QED
  BY <1>1, <1>2, <1>3, <1>4, <1>5, Steps DEF CreateAgreement, failWrite, crash, vars

\* A verified negotiation stays one that was asked for.
LEMMA VerifiedStep ==
  ASSUME IInv, [Next]_vars
  PROVE  VerifiedWasAskedFor'
<1> SUFFICES ASSUME NEW m \in Neg, row'[m].state \in {"VERIFIED", "FINALIZED"}
             PROVE  answer'[m].acknowledged /\ OnAgreement[row'[m].dataset] = "verify" /\ Asked(m)'
  BY DEF VerifiedWasAskedFor, Asked
<1>1. TypeOK /\ InFlightIsLegal
  BY DEF IInv
<1>2. agreements \subseteq agreements'
  BY <1>1, AgreementsGrow
<1>3. ASSUME row[m] \in Row, answer[m].acknowledged, OnAgreement[row[m].dataset] = "verify", Asked(m),
             RowAdvances(m), row[m].state \in Past("AGREED")
      PROVE  answer'[m].acknowledged /\ OnAgreement[row'[m].dataset] = "verify" /\ Asked(m)'
  <2>1. answer'[m].to = answer[m].to /\ answer'[m].acknowledged
    BY <1>1, <1>3, AnswerStep
  <2>2. Asked(m)' /\ row'[m].dataset = row[m].dataset
    BY <1>1, <1>2, <1>3, <2>1, AskedKept
  <2> QED BY <1>3, <2>1, <2>2
<1>4. RowAdvances(m)
  <2>1. ASSUME NEW n \in Neg, NEW who \in Participants, NEW d \in Datasets,
               handleInitiate(n, d, who)
        PROVE  RowAdvances(m)
    <3>1. m # n
      BY <1>1, <2>1, CreatedRow
    <3>2. row'[m] = row[m]
      BY <1>1, <2>1, <3>1, CreatedRow
    <3> QED BY <3>2 DEF RowAdvances
  <2> QED BY <1>1, <2>1, RowStep
<1>5. CASE row[m].state \in {"VERIFIED", "FINALIZED"}
  <2>1. row[m] \in Row
    BY <1>1, <1>5, RowShape DEF TypeOK, States
  <2>2. answer[m].acknowledged /\ OnAgreement[row[m].dataset] = "verify" /\ Asked(m)
    BY <1>5 DEF IInv, VerifiedWasAskedFor, Asked
  <2>3. row[m].state \in Past("AGREED")
    BY <1>5 DEF Past, IssuedStates
  <2> QED BY <1>3, <1>4, <2>1, <2>2, <2>3
<1>6. CASE row[m].state \notin {"VERIFIED", "FINALIZED"}
  <2>1. <<row[m].state, row'[m].state>> \in Contract!Legal
    BY <1>4, <1>6 DEF RowAdvances
  <2>2. row'[m].state = "VERIFIED"
    BY <1>6, <2>1 DEF Contract!Legal
  <2>3. task[m]["agreement"].pc = "store" /\ task[m]["agreement"].action = "verify"
    BY <1>1, <1>6, <2>2, BecomesVerified
  <2>4. "agreement" \in TaskIds
    BY DEF TaskIds
  <2>5. ReactionTracked(m)
    BY DEF IInv, AgreementsAreTracked
  <2>6. /\ OnAgreement[row[m].dataset] = "verify" /\ Asked(m)
        /\ answer[m].acknowledged
    BY <2>3, <2>5 DEF ReactionTracked
  <2>7. row[m].state \in Past("AGREED")
    BY <1>1, <2>3, <2>4 DEF InFlightIsLegal, StartedFrom
  <2>8. row[m] \in Row
    BY <1>1, <2>3, <2>4, GoroutineRow
  <2> QED BY <1>3, <1>4, <2>6, <2>7, <2>8
<1> QED BY <1>5, <1>6

\* The invariant holds of the empty tables.
LEMMA Initially == Init => IInv
<1> SUFFICES ASSUME Init PROVE IInv
  OBVIOUS
<1>1. TypeOK
  <2>1. NoTask \in Task
    BY DEF NoTask, Task, Stages, States, Actions, IdlePolicies
  <2>2. NoAnswer \in Answer
    BY DEF NoAnswer, Answer
  <2> QED BY <2>1, <2>2 DEF Init, TypeOK
<1>2. InFlightIsLegal
  BY DEF Init, InFlightIsLegal, NoRow, NoTask, Idle, Exists, TaskIds
<1>3. AgreementsAreTracked
  BY DEF Init, AgreementsAreTracked, RequestTracked, ReactionTracked, NoTask, Idle, TaskIds
<1>4. VerifiedWasAskedFor
  BY DEF Init, VerifiedWasAskedFor, NoRow
<1> QED BY <1>1, <1>2, <1>3, <1>4 DEF IInv

\* Every step keeps the invariant.
LEMMA Inductive == IInv /\ [Next]_vars => IInv'
<1> SUFFICES ASSUME IInv, [Next]_vars PROVE IInv'
  OBVIOUS
<1>1. TypeOK' /\ InFlightIsLegal'
  BY TypeStep, InFlightStep DEF IInv
<1>2. AgreementsAreTracked'
  BY RequestsTracked, ReactionsTracked DEF AgreementsAreTracked
<1> QED BY <1>1, <1>2, VerifiedStep DEF IInv

\* Hence every behaviour has it.
LEMMA Invariance == Spec => []IInv
BY Initially, Inductive, PTL DEF Spec

\* Every variable keeps its type, whatever the provider pushes and however the
\* handlers and goroutines interleave, fail or crash.
THEOREM TypeCorrect == Spec => []TypeOK
<1>1. IInv => TypeOK
  BY DEF IInv
<1> QED BY <1>1, Invariance, PTL

\* Whatever a handler or a reaction is about to write, on a copy of a row any
\* number of steps old, is still a legal continuation of that copy.
THEOREM InFlight == Spec => []InFlightIsLegal
<1>1. IInv => InFlightIsLegal
  BY DEF IInv
<1> QED BY <1>1, Invariance, PTL

\* Each offer and each agreement is reacted to once, however often and however
\* concurrently the provider sends it.
THEOREM ReactedOnce == Spec => []ReactsOnce
<1>1. IInv => ReactsOnce
  <2> SUFFICES ASSUME IInv, NEW h \in Handlers, handler[h].pc = "write",
                      Holds(handler[h].neg, handler[h].seen)
               PROVE  /\ handler[h].op = "offer" => task[handler[h].neg]["offer"].pc = "none"
                      /\ handler[h].op = "agreement" =>
                           task[handler[h].neg]["agreement"].pc = "none"
    BY DEF ReactsOnce
  <2>1. TypeOK /\ InFlightIsLegal
    BY DEF IInv
  <2>2. PICK n \in Neg : n = handler[h].neg /\ handler[h].seen \in SeenBy[handler[h].op]
    BY <2>1, RequestFacts
  <2>3. /\ task[n]["offer"].pc # "none" => row[n].state \in Past("OFFERED")
        /\ task[n]["agreement"].pc # "none" => row[n].state \in Past("AGREED")
    BY <2>1, InFlightParts DEF GoroutineLegal, StartedFrom, TaskIds
  <2>4. row[n].state \in SeenBy[handler[h].op]
    BY <2>2 DEF Holds
  <2>5. CASE handler[h].op = "offer"
    BY <2>2, <2>3, <2>4, <2>5 DEF SeenBy, Past, States
  <2>6. CASE handler[h].op = "agreement"
    BY <2>2, <2>3, <2>4, <2>6 DEF SeenBy, Past, IssuedStates
  <2> QED BY <2>5, <2>6
<1> QED BY <1>1, Invariance, PTL

\* VERIFIED is reported only once the verification was acknowledged, of an agreement
\* that is recorded, with the party and over the dataset that was asked for.
THEOREM VerifiedAsked == Spec => []VerifiedWasAskedFor
<1>1. IInv => VerifiedWasAskedFor
  BY DEF IInv
<1> QED BY <1>1, Invariance, PTL
-----------------------------------------------------------------------------
(* The consumer keeps the contract of one side of a negotiation *)

\* The refinement mapping of `state`, at a step.
LEMMA OneMoves ==
  ASSUME TypeOK, NEW n \in Neg, NEW s, row'[n].state = s,
         \A m \in Neg \ {n} : row'[m].state = row[m].state
  PROVE  [m \in Neg |-> row'[m].state] = [[m \in Neg |-> row[m].state] EXCEPT ![n] = s]
OBVIOUS

\* A step that leaves the states alone leaves the mapped states alone.
LEMMA NoneMoves ==
  ASSUME \A m \in Neg : row'[m].state = row[m].state, agreements' = agreements
  PROVE  UNCHANGED Contract!contractVars
<1>1. [m \in Neg |-> row'[m].state] = [m \in Neg |-> row[m].state]
  OBVIOUS
<1> QED BY <1>1 DEF Contract!contractVars

\* A conditional write of a legal successor is an Advance of the contract, or
\* nothing; of AGREED, if the agreement is in the table.
LEMMA SetIsContract ==
  ASSUME TypeOK, NEW n \in Neg, NEW from \in States, NEW to \in States,
         <<from, to>> \in Contract!Legal, row' = SetConsumerState(n, from, to),
         agreements' = agreements,
         to = "AGREED" => \E a \in agreements : a.neg = n
  PROVE  [Contract!Next]_(Contract!contractVars)
<1>1. row \in [Neg -> {NoRow} \cup Row]
  BY DEF TypeOK
<1>2. /\ \A m \in Neg \ {n} : row'[m] = row[m]
      /\ row[n].state # from => row' = row
      /\ row[n].state = from => row'[n].state = to
  BY <1>1, SetEffect
<1>3. CASE row[n].state # from
  BY <1>2, <1>3, NoneMoves
<1>4. CASE row[n].state = from
  <2>1. [m \in Neg |-> row'[m].state] = [[m \in Neg |-> row[m].state] EXCEPT ![n] = to]
    BY <1>2, <1>4, OneMoves
  <2>2. to \in {"AGREED"} => n \in {a.neg : a \in agreements}
    OBVIOUS
  <2>3. Contract!Advance(n, to)
    BY <1>4, <2>1, <2>2 DEF Contract!Advance
  <2>4. to \in Contract!States
    BY DEF Contract!States, States
  <2> QED BY <2>3, <2>4 DEF Contract!Next
<1> QED BY <1>3, <1>4

\* Every step of the consumer is a step of the contract, or a stutter.
LEMMA ContractStep ==
  ASSUME IInv, [Next]_vars
  PROVE  [Contract!Next]_(Contract!contractVars)
<1> DEFINE Goal == [Contract!Next]_(Contract!contractVars)
<1> HIDE DEF Goal
<1>1. TypeOK /\ InFlightIsLegal
  BY DEF IInv
<1>2. ASSUME \A m \in Neg : row'[m].state = row[m].state, agreements' = agreements PROVE Goal
  BY <1>2, NoneMoves DEF Goal
<1>3. ASSUME NEW n \in Neg, NEW who \in Participants, NEW d \in Datasets, handleInitiate(n, d, who)
      PROVE  Goal
  <2>1. /\ row[n] = NoRow /\ row'[n].state = "REQUESTED"
        /\ \A m \in Neg \ {n} : row'[m] = row[m]
    BY <1>1, <1>3, CreatedRow
  <2>2. agreements' = agreements
    BY <1>3 DEF handleInitiate
  <2>3. [m \in Neg |-> row'[m].state] = [[m \in Neg |-> row[m].state] EXCEPT ![n] = "REQUESTED"]
    BY <1>1, <2>1, OneMoves
  <2>4. Contract!Begin(n)
    BY <2>1, <2>2, <2>3 DEF Contract!Begin, NoRow
  <2> QED BY <2>4 DEF Goal, Contract!Next
<1>4. ASSUME NEW h \in Handlers, Looks(h) PROVE Goal
  BY <1>1, <1>2, <1>4, LooksEffect DEF TakesUp
<1>5. ASSUME NEW h \in Handlers, CreateAgreement(h) PROVE Goal
  <2>1. CASE agreements' = agreements
    BY <1>2, <1>5, <2>1 DEF CreateAgreement
  <2>2. CASE agreements' = agreements \cup {Received(h)}
    <3>1. PICK n \in Neg : n = handler[h].neg /\ row[n] \in Row
      BY <1>1, <1>5, RequestFacts DEF CreateAgreement
    <3>2. {a.neg : a \in agreements'} = {a.neg : a \in agreements} \cup {n}
      <4> DEFINE new == Received(h)
      <4>1. new.neg = n /\ agreements' = agreements \cup {new}
        BY <2>2, <3>1 DEF Received
      <4> HIDE DEF new
      <4> QED BY <4>1
    <3>3. row' = row /\ row[n].state \in States
      BY <1>5, <3>1 DEF CreateAgreement, Row
    <3>4. Contract!Record(n)
      BY <3>2, <3>3 DEF Contract!Record
    <3> QED BY <3>4 DEF Goal, Contract!Next
  <2> QED BY <1>5, <2>1, <2>2 DEF CreateAgreement
<1>6. ASSUME NEW h \in Handlers, Writes(h) PROVE Goal
  <2>1. PICK to \in States : Stores(h, to)
    BY <1>1, <1>6, WritesEffect
  <2>2. PICK n \in Neg, seen \in States : n = handler[h].neg /\ seen = handler[h].seen
    BY <1>1, <2>1, RequestFacts DEF Stores
  <2>3. /\ row' = SetConsumerState(n, seen, to) /\ <<seen, to>> \in Contract!Legal
        /\ agreements' = agreements
    BY <2>1, <2>2 DEF Stores
  <2>4. to = "AGREED" => \E a \in agreements : a.neg = n
    BY <2>1, <2>2 DEF Stores, IInv, AgreementsAreTracked, RequestTracked
  <2> QED BY <1>1, <2>3, <2>4, SetIsContract DEF Goal
<1>7. ASSUME NEW n \in Neg, NEW k \in TaskIds, RunOrFail(n, k) PROVE Goal
  <2>1. agreements' = agreements
    BY <1>1, <1>7, RunEffect
  <2>2. CASE \A m \in Neg : row'[m].state = row[m].state
    BY <1>2, <2>1, <2>2
  <2>3. CASE storeReaction(n, k)
    <3> DEFINE from == task[n][k].from
               to == Store[task[n][k].action]
    <3>1. /\ row' = SetConsumerState(n, from, to)
          /\ from \in States /\ to \in States /\ <<from, to>> \in Contract!Legal
          /\ to # "AGREED"
      BY <1>1, <2>3, ReactionLegal DEF storeReaction
    <3> HIDE DEF from, to
    <3> QED BY <1>1, <2>1, <3>1, SetIsContract DEF Goal
  <2> QED BY <1>1, <1>7, <2>2, <2>3, RunRows
<1>8. Goal
  BY <1>2, <1>3, <1>4, <1>5, <1>6, <1>7, Steps DEF failWrite, crash, vars
<1> QED BY <1>8 DEF Goal

\* The consumer implements NegotiationContract.
THEOREM ContractKept == Spec => KeepsContract
<1>1. Init => Contract!Init
  BY DEF Init, Contract!Init, NoRow
<1> QED BY <1>1, ContractStep, Invariance, PTL DEF Spec, KeepsContract, Contract!Spec
-----------------------------------------------------------------------------
(* What a step does to one negotiation, for those who compose this module *)

Reacting(n, k) == task[n][k].pc # "none"

\* A request past its checks is about to write.
Serving(n, op) ==
  \E h \in Handlers : handler[h].pc = "write" /\ handler[h].op = op /\ handler[h].neg = n

\* A reaction is not there, or goes on with its action.
Continues(n, k) ==
  /\ Reacting(n, k)' <=> Reacting(n, k)
  /\ task'[n][k].action = task[n][k].action

\* What starts each reaction.
Begins(n, k) ==
  /\ ~Reacting(n, k) /\ Reacting(n, k)'
  /\ row'[n].state = StartedFrom[k]
  /\ \/ /\ k = "start" /\ ~Exists(n)
        /\ task'[n][k].action = OnIdle[row'[n].dataset]
     \/ /\ k = "offer" /\ row[n].state = "REQUESTED"
        /\ task'[n][k].action = "accept" => OnOffer[row[n].dataset] = "accept"
     \/ /\ k = "agreement" /\ row[n].state \in {"REQUESTED", "ACCEPTED"}

\* What changes a state.
StateMoves(n) ==
  \/ row'[n].state = row[n].state
  \/ ~Exists(n) /\ row'[n].state = "REQUESTED"
  \/ row[n].state \in States /\ row'[n].state \in {"OFFERED", "AGREED"}
  \/ Serving(n, "finalized") /\ row[n].state = "VERIFIED" /\ row'[n].state = "FINALIZED"
  \/ Serving(n, "termination") /\ row[n].state \in States /\ row'[n].state = "TERMINATED"
  \/ \E k \in TaskIds :
       /\ task[n][k].pc = "store"
       /\ row[n].state = task[n][k].from /\ row'[n].state = Store[task[n][k].action]

\* What a negotiation is about does not change.
DatasetKept(n) == Exists(n) => Exists(n)' /\ row'[n].dataset = row[n].dataset

\* Everything a step may do to a negotiation.
NegotiationMoves(n) ==
  /\ DatasetKept(n)
  /\ StateMoves(n)
  /\ \A k \in TaskIds : Continues(n, k) \/ Begins(n, k)

\* A negotiation that keeps its reactions.
LEMMA ReactionsContinue ==
  ASSUME NEW m \in Neg, task' = task
  PROVE  \A j \in TaskIds : Continues(m, j)
BY DEF Continues, Reacting

\* A goroutine that goes on starts none.
LEMMA GoingOnMoves ==
  ASSUME TypeOK, InFlightIsLegal, NEW n \in Neg, NEW k \in TaskIds, RunOrFail(n, k), NEW m \in Neg
  PROVE  NegotiationMoves(m)
<1>1. \A j \in TaskIds : Continues(m, j)
  <2>1. PICK t \in Task : GoesOn(n, k, t)
    BY RunEffect
  <2>2. TaskBecomes(n, k, t) /\ t.pc # "none" /\ task[n][k].pc # "none" /\ t.action = task[n][k].action
    BY <2>1 DEF GoesOn
  <2> QED BY <2>2 DEF TaskBecomes, Continues, Reacting
<1>2. DatasetKept(m)
  <2>1. RowAdvances(m)
    BY RunRows
  <2> QED BY <2>1, AdvancesForward, RowShape DEF TypeOK, DatasetKept
<1>3. StateMoves(m)
  <2>1. CASE row'[m].state = row[m].state
    BY SMTT(40), <2>1 DEF StateMoves
  <2>2. CASE storeReaction(n, k)
    <3>1. task[n][k].pc = "store" /\ row' = SetConsumerState(n, task[n][k].from, Store[task[n][k].action])
      BY <2>2 DEF storeReaction
    <3>2. task[n][k].from \in States /\ Store[task[n][k].action] \in States
      BY <3>1, ReactionLegal
    <3>3. \/ row'[m].state = row[m].state
          \/ /\ m = n /\ row[m].state = task[n][k].from
             /\ row'[m].state = Store[task[n][k].action]
      BY <3>1, <3>2, SetEffect DEF TypeOK
    <3> QED BY Zenon, <3>1, <3>3 DEF StateMoves
  <2> QED BY <2>1, <2>2, RunRows
<1> QED BY <1>1, <1>2, <1>3 DEF NegotiationMoves

\* A request that writes a state starts the reaction to it.
LEMMA WritesMoves ==
  ASSUME TypeOK, InFlightIsLegal, NEW h \in Handlers, Writes(h), NEW m \in Neg
  PROVE  NegotiationMoves(m)
<1>0. PICK n : n = handler[h].neg
  OBVIOUS
<1>1. PICK to \in States : Stores(h, to)
  BY WritesEffect
<1>2. /\ n \in Neg /\ handler[h].seen \in States /\ row[n] \in Row
      /\ handler[h].seen \in SeenBy[handler[h].op]
  BY <1>0, <1>1, RequestFacts DEF Stores
<1>3. RowAdvances(m)
  BY <1>0, <1>1, <1>2, SetAdvances DEF Stores
<1>4. DatasetKept(m)
  BY <1>3, AdvancesForward, RowShape DEF TypeOK, DatasetKept
<1>5. \/ row'[m].state = row[m].state
      \/ m = n /\ row[m].state = handler[h].seen /\ row'[m].state = to
  <2>1. row' = SetConsumerState(n, handler[h].seen, to)
    BY <1>0, <1>1 DEF Stores
  <2>2. CASE row[n].state = handler[h].seen
    BY <1>2, <2>1, <2>2, SetEffect DEF TypeOK
  <2>3. CASE row[n].state # handler[h].seen
    BY <1>2, <2>1, <2>3, SetEffect DEF TypeOK
  <2> QED BY <2>2, <2>3
<1>6. StateMoves(m)
  <2>1. to \in {"FINALIZED", "TERMINATED"} => Serving(n, handler[h].op)
    BY <1>0, <1>1 DEF Stores, Serving
  <2>2. to = "FINALIZED" => handler[h].op = "finalized" /\ handler[h].seen = "VERIFIED"
    BY <1>1, <1>2 DEF Stores, SeenBy
  <2>3. to = "TERMINATED" => handler[h].op = "termination"
    BY <1>1 DEF Stores
  <2> QED BY <1>1, <1>2, <1>5, <2>1, <2>2, <2>3 DEF StateMoves, Stores
<1>7. CASE task' = task
  BY <1>4, <1>6, <1>7, ReactionsContinue DEF NegotiationMoves
<1>8. ASSUME NEW k \in TaskIds, NEW t \in Task, Starts(h, to, k, t) PROVE NegotiationMoves(m)
  <2>1. /\ TaskBecomes(n, k, t) /\ row[n].state = handler[h].seen
        /\ k \in {"offer", "agreement"} /\ StartedFrom[k] = to /\ t.pc = "resolve"
        /\ k = "offer" /\ t.action = "accept" => OnOffer[row[n].dataset] = "accept"
    BY <1>0, <1>8 DEF Starts
  <2>2. k = "offer" => to = "OFFERED" /\ handler[h].seen = "REQUESTED"
    <3>1. k = "offer" => to = "OFFERED"
      BY <2>1 DEF StartedFrom
    <3> QED BY <1>1, <3>1 DEF Stores, Contract!Legal, Contract!States, Contract!Terminal
  <2>3. k = "agreement" => to = "AGREED" /\ handler[h].seen \in {"REQUESTED", "ACCEPTED"}
    <3>1. k = "agreement" => to = "AGREED"
      BY <2>1 DEF StartedFrom
    <3> QED BY <1>1, <1>2, <3>1 DEF Stores, SeenBy
  <2>4. task[n][k].pc = "none"
    <3>1. row[n].state \notin Past(StartedFrom[k])
      BY <2>1, <2>2, <2>3 DEF Past, StartedFrom, IssuedStates
    <3> QED BY <1>2, <3>1 DEF InFlightIsLegal
  <2>5. Begins(n, k)
    <3>1. row' = SetConsumerState(n, handler[h].seen, to)
      BY <1>0, <1>1 DEF Stores
    <3>2. row'[n].state = to
      BY <1>2, <2>1, <3>1, SetEffect DEF TypeOK
    <3> QED BY <2>1, <2>2, <2>3, <2>4, <3>2 DEF TaskBecomes, Begins, Reacting
  <2>6. ASSUME NEW j \in TaskIds PROVE Continues(m, j) \/ Begins(m, j)
    BY <2>1, <2>5 DEF TaskBecomes, Continues, Reacting
  <2> QED BY <1>4, <1>6, <2>6 DEF NegotiationMoves
<1> QED BY <1>1, <1>7, <1>8 DEF Stores

\* The operator's request starts a negotiation and its first goroutine.
LEMMA InitiateMoves ==
  ASSUME TypeOK, InFlightIsLegal, NEW n \in Neg, NEW who \in Participants, NEW d \in Datasets,
         handleInitiate(n, d, who), NEW m \in Neg
  PROVE  NegotiationMoves(m)
<1>1. /\ row[n] = NoRow /\ row'[n].state = "REQUESTED" /\ row'[n].dataset = d
      /\ \A i \in Neg \ {n} : row'[i] = row[i]
  BY CreatedRow
<1>2. PICK t \in Task : TaskBecomes(n, "start", t) /\ t.pc = "request" /\ t.action = OnIdle[d]
  BY CreatedTask
<1>3. task[n]["start"].pc = "none" /\ "start" \in TaskIds
  BY <1>1 DEF InFlightIsLegal, Exists, TaskIds
<1>4. Begins(n, "start")
  BY <1>1, <1>2, <1>3 DEF Begins, TaskBecomes, Reacting, Exists, StartedFrom
<1>5. \A j \in TaskIds : Continues(m, j) \/ Begins(m, j)
  BY <1>2, <1>4 DEF TaskBecomes, Continues, Reacting
<1>6. DatasetKept(m) /\ StateMoves(m)
  BY <1>1 DEF DatasetKept, StateMoves, Exists
<1> QED BY <1>5, <1>6 DEF NegotiationMoves

\* Every step of the consumer does to a negotiation one of those things.
LEMMA Moves ==
  ASSUME IInv, [Next]_vars, NEW m \in Neg
  PROVE  NegotiationMoves(m)
<1>1. TypeOK /\ InFlightIsLegal
  BY DEF IInv
<1>2. ASSUME row' = row, \A j \in TaskIds : Continues(m, j) PROVE NegotiationMoves(m)
  BY <1>2 DEF NegotiationMoves, DatasetKept, StateMoves, Exists
<1>3. ASSUME row' = row, task' = task PROVE NegotiationMoves(m)
  BY <1>2, <1>3, ReactionsContinue
<1>4. ASSUME NEW h \in Handlers, Looks(h) PROVE NegotiationMoves(m)
  BY <1>1, <1>3, <1>4, LooksEffect DEF TakesUp
<1>5. ASSUME crash PROVE NegotiationMoves(m)
  <2>1. ASSUME NEW j \in TaskIds PROVE Continues(m, j)
    <3>1. CASE task[m][j].pc = "none"
      <4>1. task'[m][j] = task[m][j]
        BY <1>5, <3>1 DEF crash
      <4> QED BY <4>1 DEF Continues, Reacting
    <3>2. CASE task[m][j].pc # "none"
      <4>1. task'[m][j] = [task[m][j] EXCEPT !.pc = "done"]
        BY <1>5, <3>2 DEF crash
      <4> QED BY <1>1, <3>2, <4>1 DEF Continues, Reacting, TypeOK, Task
    <3> QED BY <3>1, <3>2
  <2> QED BY <1>2, <1>5, <2>1 DEF crash
<1> QED
  BY <1>1, <1>3, <1>4, <1>5, Steps, InitiateMoves, WritesMoves, GoingOnMoves
  DEF CreateAgreement, failWrite, vars

\* An agreement in the table is one that came in.
LEMMA AgreementsGain ==
  ASSUME TypeOK, InFlightIsLegal, [Next]_vars, NEW a \in agreements', a \notin agreements
  PROVE  \E h \in Handlers :
           /\ handler[h].pc = "record"
           /\ a.neg = handler[h].neg /\ a.dataset = handler[h].msg.dataset
<1>1. ASSUME NEW h \in Handlers, Writes(h) PROVE agreements' = agreements
  BY Zenon, <1>1, WritesEffect DEF Stores
<1>2. ASSUME NEW h \in Handlers, Looks(h) PROVE agreements' = agreements
  BY <1>2, LooksEffect DEF TakesUp
<1>3. PICK h \in Handlers : CreateAgreement(h)
  BY <1>1, <1>2, Steps, RunEffect DEF handleInitiate, failWrite, crash, vars
<1> QED BY <1>3 DEF CreateAgreement, Received

\* A message gets past its checks as the message it is.
LEMMA ChecksPassed ==
  ASSUME TypeOK, NEW h \in Handlers, NEW n \in Neg, NEW who, NEW legal, NEW copy,
         lookup(h, n, who, legal, copy), NEW g \in Handlers
  PROVE  handler'[g] = handler[g] \/ handler'[g] = copy
BY DEF lookup, TypeOK

\* Nothing else makes a request go on, but an agreement from its insert to its
\* state write.
LEMMA NothingServedAnew ==
  ASSUME TypeOK,
         \/ \E h \in Handlers : Serve(h)
         \/ \E n \in Neg, k \in TaskIds : RunOrFail(n, k)
         \/ Fault
         \/ \E n \in Neg, who \in Participants, d \in Datasets : handleInitiate(n, d, who),
         NEW g \in Handlers
  PROVE  \/ handler'[g] = handler[g]
         \/ handler'[g] = Idle
         \/ handler'[g].pc = "write" /\ handler'[g].op = "agreement"
<1>1. ASSUME NEW h \in Handlers, return(h) PROVE handler'[g] = handler[g] \/ handler'[g] = Idle
  BY <1>1 DEF return, TypeOK
<1>2. ASSUME NEW h \in Handlers, CreateAgreement(h)
      PROVE  \/ handler'[g] = handler[g]
             \/ handler'[g] = Idle
             \/ handler'[g].pc = "write" /\ handler'[g].op = "agreement"
  BY <1>1, <1>2 DEF CreateAgreement, recorded, TypeOK
<1>3. ASSUME crash PROVE handler'[g] = Idle
  BY <1>3 DEF crash
<1>4. ASSUME NEW h \in Handlers, Serve(h), ~CreateAgreement(h) PROVE return(h)
  BY <1>4, ZenonT(60) DEF Serve, storeOffered, storeAgreed, storeFinalized, storeTermination, store
<1>5. ASSUME NEW n \in Neg, NEW k \in TaskIds, RunOrFail(n, k) PROVE handler' = handler
  BY <1>5, ZenonT(60)
  DEF RunOrFail, sendInitialRequest, SetConsumerProviderPID, resolveProviderPID, endPush,
      storeReaction, failStore, failResolve
<1>6. ASSUME NEW h \in Handlers, failWrite(h) PROVE return(h)
  BY <1>6 DEF failWrite
<1>7. ASSUME NEW n \in Neg, NEW who \in Participants, NEW d \in Datasets,
             handleInitiate(n, d, who)
      PROVE  handler' = handler
  BY <1>7 DEF handleInitiate
<1>8. CASE Fault
  <2>1. \A n \in Neg, k \in TaskIds :
          failStore(n, k) \/ failResolve(n, k) => RunOrFail(n, k)
    BY DEF RunOrFail
  <2> QED BY <1>1, <1>3, <1>5, <1>6, <1>8, <2>1 DEF Fault
<1>9. ASSUME NEW h \in Handlers, Serve(h)
      PROVE  \/ handler'[g] = handler[g]
             \/ handler'[g] = Idle
             \/ handler'[g].pc = "write" /\ handler'[g].op = "agreement"
  BY <1>1, <1>2, <1>4, <1>9
<1> QED BY <1>5, <1>7, <1>8, <1>9
-----------------------------------------------------------------------------
(* What the liveness of the reactions rests on *)

\* Goroutine k of n is on its way to a write that its row still allows, by one
\* of the actions.
Reacts(n, k, actions) ==
  /\ task[n][k].pc \in {"resolve", "push", "store"}
  /\ task[n][k].from = row[n].state
  /\ task[n][k].action \in actions

\* Every state EveryReactionLands promises to leave has a goroutine at work that
\* leaves it.
ReactionPending(n) ==
  /\ Exists(n) => task[n]["start"].action = OnIdle[row[n].dataset]
  /\ row[n].state = "REQUESTED" /\ row[n].pid /\ OnIdle[row[n].dataset] = "abandon" =>
       Reacts(n, "start", {"abandon"})
  /\ row[n].state = "OFFERED" /\ OnOffer[row[n].dataset] \in {"accept", "reject"} =>
       Reacts(n, "offer", {"accept", "reject"})
  /\ row[n].state = "AGREED" /\ OnAgreement[row[n].dataset] = "reject" =>
       Reacts(n, "agreement", {"reject"})

ReactionsPending == \A n \in Neg : ReactionPending(n)

\* A step that touches neither the row nor the goroutines.
LEMMA PendingKept ==
  ASSUME NEW n \in Neg, ReactionPending(n), row'[n] = row[n],
         \A k \in TaskIds : task'[n][k] = task[n][k]
  PROVE  ReactionPending(n)'
BY DEF ReactionPending, Reacts, Exists, TaskIds

\* A negotiation that moves to a state no policy leaves.
LEMMA PendingEnds ==
  ASSUME NEW n \in Neg, ReactionPending(n), Exists(n), row'[n].dataset = row[n].dataset,
         row'[n].state \notin {"REQUESTED", "OFFERED", "AGREED"},
         task'[n]["start"].action = task[n]["start"].action
  PROVE  ReactionPending(n)'
BY DEF ReactionPending

\* A goroutine that goes on and does not end keeps what waits for it.
LEMMA PendingGoesOn ==
  ASSUME NEW n \in Neg, ReactionPending(n), row'[n] = row[n],
         NEW k \in TaskIds,
         \A j \in TaskIds \ {k} : task'[n][j] = task[n][j],
         task'[n][k].action = task[n][k].action, task'[n][k].from = task[n][k].from,
         \/ task[n][k].pc \notin {"resolve", "push", "store"}
         \/ task[n][k].from # row[n].state
         \/ task[n][k].action \notin {"accept", "reject", "abandon"}
         \/ task'[n][k].pc \in {"resolve", "push", "store"}
  PROVE  ReactionPending(n)'
BY DEF ReactionPending, Reacts, Exists, TaskIds

\* The steps of the goroutines: one that ends has stored its reaction, or its
\* row has moved on, or its reaction is not one that stores unconditionally.
LEMMA RunPending ==
  ASSUME TypeOK, InFlightIsLegal, NEW n \in Neg, NEW k \in TaskIds, Run(n, k),
         NEW m \in Neg, ReactionPending(m)
  PROVE  ReactionPending(m)'
<1> DEFINE old == task[n][k]
<1>1. old \in Task /\ "start" \in TaskIds
  BY DEF TypeOK, TaskIds
<1>2. ASSUME NEW pc \in Stages, task' = [task EXCEPT ![n][k].pc = pc], row' = row,
             \/ old.pc \notin {"resolve", "push", "store"}
             \/ old.from # row[n].state
             \/ old.action \notin {"accept", "reject", "abandon"}
             \/ pc \in {"resolve", "push", "store"}
      PROVE  ReactionPending(m)'
  <2>1. CASE m # n
    BY <1>2, <2>1, PendingKept DEF TypeOK
  <2>2. CASE m = n
    <3>1. /\ \A j \in TaskIds \ {k} : task'[n][j] = task[n][j]
          /\ task'[n][k].pc = pc
          /\ task'[n][k].action = old.action /\ task'[n][k].from = old.from
      BY <1>1, <1>2 DEF TypeOK, Task
    <3> QED BY <1>2, <2>2, <3>1, PendingGoesOn
  <2> QED BY <2>1, <2>2
<1>3. CASE k = "start" /\ \E answered \in BOOLEAN : sendInitialRequest(n, answered)
  <2>1. PICK pc \in {"pid", "done"} : task' = [task EXCEPT ![n][k].pc = pc]
    BY <1>3 DEF sendInitialRequest
  <2> QED BY <1>2, <1>3, <2>1 DEF sendInitialRequest, Stages
<1>4. CASE k = "start" /\ SetConsumerProviderPID(n)
  <2>1. PICK pc \in {"push", "done"} :
          /\ task' = [task EXCEPT ![n]["start"].pid = TRUE, ![n]["start"].pc = pc]
          /\ pc = (IF old.action = "abandon" THEN "push" ELSE "done")
    BY <1>4 DEF SetConsumerProviderPID
  <2>2. row' = [row EXCEPT ![n].pid = TRUE] /\ old.pc = "pid"
    BY <1>4 DEF SetConsumerProviderPID
  <2>3. CASE m # n
    BY <2>1, <2>2, <2>3, PendingKept DEF TypeOK
  <2>4. CASE m = n
    <3>1. row[n] \in Row /\ Exists(n)
      <4>1. row[n].state \in States
        BY <1>4, <2>2, PastRange DEF InFlightIsLegal, StartedFrom, States
      <4> QED BY <4>1, RowShape DEF TypeOK
    <3>2. /\ row'[n].state = row[n].state /\ row'[n].dataset = row[n].dataset
          /\ Exists(n)'
      BY <2>2, <3>1 DEF TypeOK, Row, Exists, NoRow, States
    <3>3. /\ \A j \in TaskIds \ {"start"} : task'[n][j] = task[n][j]
          /\ task'[n]["start"].pc = pc /\ task'[n]["start"].action = old.action
          /\ task'[n]["start"].from = old.from
      BY <1>1, <1>4, <2>1 DEF TypeOK, Task
    <3>4. old.from = "REQUESTED"
      BY <1>4, <2>2 DEF InFlightIsLegal, StartedFrom
    <3>5. row[n].state = "REQUESTED" /\ OnIdle[row[n].dataset] = "abandon" =>
            Reacts(n, "start", {"abandon"})'
      BY ZenonT(60), <1>4, <2>1, <2>4, <3>1, <3>2, <3>3, <3>4 DEF ReactionPending, Reacts
    <3> QED BY <1>4, <2>4, <3>1, <3>2, <3>3, <3>5 DEF ReactionPending, Reacts, TaskIds
  <2> QED BY <2>3, <2>4
<1>5. CASE resolveProviderPID(n, k)
  <2>1. PICK pc \in {"push", "done"} :
          /\ task' = [task EXCEPT ![n][k].pid = @ \/ row[n].pid, ![n][k].pc = pc]
          /\ pc = (IF old.action = "passive" THEN "done" ELSE "push")
    BY <1>5 DEF resolveProviderPID
  <2>2. row' = row
    BY <1>5 DEF resolveProviderPID
  <2>3. CASE m # n
    <3>1. task'[m] = task[m]
      BY <2>1, <2>3 DEF TypeOK
    <3> QED BY <2>2, <3>1, PendingKept
  <2>4. CASE m = n
    <3>1. /\ \A j \in TaskIds \ {k} : task'[n][j] = task[n][j]
          /\ task'[n][k].pc = pc
          /\ task'[n][k].action = old.action /\ task'[n][k].from = old.from
      BY <1>1, <2>1 DEF TypeOK, Task
    <3> QED BY ZenonT(60), <2>1, <2>2, <2>4, <3>1, PendingGoesOn
  <2> QED BY <2>3, <2>4
<1>6. CASE \E delivered \in BOOLEAN : endPush(n, k, delivered)
  <2>1. PICK pc \in {"store", "done"} :
          /\ task' = [task EXCEPT ![n][k].pc = pc]
          /\ pc = "done" => old.action \in {"counter", "verify"}
    BY <1>6 DEF endPush
  <2> QED BY <1>2, <1>6, <2>1 DEF endPush, Stages
<1>7. CASE storeReaction(n, k)
  <2>1. /\ old.pc = "store" /\ task' = [task EXCEPT ![n][k].pc = "done"]
        /\ row' = SetConsumerState(n, old.from, Store[old.action])
    BY <1>7 DEF storeReaction
  <2>2. CASE row[n].state # old.from
    BY <1>2, <2>1, <2>2 DEF SetConsumerState, Holds, Stages
  <2>3. CASE row[n].state = old.from /\ m # n
    <3>1. row'[m] = row[m]
      BY <2>1, <2>3 DEF SetConsumerState, TypeOK
    <3> QED BY <2>1, <2>3, <3>1, PendingKept DEF TypeOK
  <2>4. CASE row[n].state = old.from /\ m = n
    <3>1. old.from \in States /\ Store[old.action] \in States
      BY <2>1, ReactionLegal
    <3>2. row'[n].dataset = row[n].dataset /\ row'[n].state = Store[old.action] /\ row[n] \in Row
      BY <2>1, <2>4, <3>1, SetEffect DEF TypeOK
    <3>3. Store[old.action] \notin {"REQUESTED", "OFFERED", "AGREED"}
      <4>1. old.action \in {"accept", "verify", "reject", "abandon"}
        BY <2>1 DEF InFlightIsLegal, Store
      <4> HIDE DEF old
      <4> QED BY <4>1 DEF Store
    <3>4. Exists(n)
      BY <3>2 DEF Row, Exists, NoRow, States
    <3>5. task'[n]["start"].action = task[n]["start"].action
      BY <1>1, <2>1 DEF TypeOK, Task
    <3> QED BY <2>4, <3>2, <3>3, <3>4, <3>5, PendingEnds
  <2> QED BY <2>2, <2>3, <2>4
<1> QED BY <1>3, <1>4, <1>5, <1>6, <1>7 DEF Run

\* A conditional write that does not land touches nothing, and one that lands
\* touches its own negotiation.
LEMMA StoreElsewhere ==
  ASSUME TypeOK, NEW n \in Neg, NEW k \in TaskIds, NEW from, NEW to, NEW t,
         row' = SetConsumerState(n, from, to),
         task' = IF Holds(n, from) THEN [task EXCEPT ![n][k] = t] ELSE task,
         NEW m \in Neg, m # n \/ ~Holds(n, from), ReactionPending(m)
  PROVE  ReactionPending(m)'
<1>1. row'[m] = row[m] /\ task'[m] = task[m]
  BY DEF SetConsumerState, TypeOK
<1> QED BY <1>1, PendingKept

\* What the writes of the requests do: one that lands starts the reaction that
\* the state it stores waits for.
LEMMA WritesPending ==
  ASSUME TypeOK, InFlightIsLegal, NEW h \in Handlers, Writes(h), NEW m \in Neg, ReactionPending(m)
  PROVE  ReactionPending(m)'
<1> DEFINE n == handler[h].neg
           seen == handler[h].seen
<1>1. /\ n \in Neg /\ seen \in States /\ row[n] \in Row /\ Exists(n)
      /\ handler[h].unenforceable \in BOOLEAN /\ handler[h].wrongTarget \in BOOLEAN
      /\ row[n].dataset \in Datasets
  <2>1. handler[h].pc = "write"
    BY DEF Writes, storeOffered, storeAgreed, storeFinalized, storeTermination, AtWrite
  <2>2. n \in Neg /\ seen \in States /\ row[n] \in Row /\ handler[h] \in Writing
    BY <2>1, RequestFacts
  <2> QED BY <2>2 DEF Writing, Row, Exists, NoRow, States
<1> HIDE DEF n, seen
<1>2. ASSUME NEW to \in States, row' = SetConsumerState(n, seen, to), m = n, Holds(n, seen)
      PROVE  row'[n].state = to /\ row'[n].dataset = row[n].dataset
  BY <1>1, <1>2, SetEffect DEF TypeOK, Holds
<1>3. CASE storeOffered(h)
  <2> DEFINE action == decideOfferReaction(OnOffer[row[n].dataset], handler[h].unenforceable)
             t == react("OFFERED", handler[h].pid, action)
  <2>1. /\ row' = SetConsumerState(n, seen, "OFFERED")
        /\ task' = IF Holds(n, seen) THEN [task EXCEPT ![n]["offer"] = t] ELSE task
    BY <1>3 DEF storeOffered, store, n, seen
  <2>2. t.pc = "resolve" /\ t.from = "OFFERED" /\ t.action = action
    BY DEF react
  <2>3. OnOffer[row[n].dataset] \in {"accept", "reject"} => action \in {"accept", "reject"}
    BY DEF decideOfferReaction
  <2> HIDE DEF t, action
  <2>4. CASE m # n \/ ~Holds(n, seen)
    BY <1>1, <2>1, <2>4, StoreElsewhere DEF TaskIds
  <2>5. CASE m = n /\ Holds(n, seen)
    <3>1. row'[n].state = "OFFERED" /\ row'[n].dataset = row[n].dataset
      BY <1>2, <2>1, <2>5 DEF States
    <3>2. task'[n]["offer"] = t /\ task'[n]["start"] = task[n]["start"]
      BY <1>1, <2>1, <2>5 DEF TypeOK, TaskIds
    <3> QED BY <1>1, <2>2, <2>3, <2>5, <3>1, <3>2 DEF ReactionPending, Reacts
  <2> QED BY <2>4, <2>5
<1>4. CASE storeAgreed(h)
  <2> DEFINE action == decideAgreementReaction(OnAgreement[row[n].dataset],
                         handler[h].unenforceable, handler[h].wrongTarget)
             t == react("AGREED", handler[h].pid, action)
  <2>1. /\ row' = SetConsumerState(n, seen, "AGREED")
        /\ task' = IF Holds(n, seen) THEN [task EXCEPT ![n]["agreement"] = t] ELSE task
    BY <1>4 DEF storeAgreed, store, n, seen
  <2>2. t.pc = "resolve" /\ t.from = "AGREED" /\ t.action = action
    BY DEF react
  <2>3. OnAgreement[row[n].dataset] = "reject" => action = "reject"
    BY DEF decideAgreementReaction
  <2> HIDE DEF t, action
  <2>4. CASE m # n \/ ~Holds(n, seen)
    BY <1>1, <2>1, <2>4, StoreElsewhere DEF TaskIds
  <2>5. CASE m = n /\ Holds(n, seen)
    <3>1. row'[n].state = "AGREED" /\ row'[n].dataset = row[n].dataset
      BY <1>2, <2>1, <2>5 DEF States
    <3>2. task'[n]["agreement"] = t /\ task'[n]["start"] = task[n]["start"]
      BY <1>1, <2>1, <2>5 DEF TypeOK, TaskIds
    <3> QED BY <1>1, <2>2, <2>3, <2>5, <3>1, <3>2 DEF ReactionPending, Reacts
  <2> QED BY <2>4, <2>5
<1>5. CASE storeFinalized(h) \/ storeTermination(h)
  <2>1. PICK to \in {"FINALIZED", "TERMINATED"} : row' = SetConsumerState(n, seen, to) /\ task' = task
    BY <1>5 DEF storeFinalized, storeTermination, store, n, seen
  <2>2. CASE m # n \/ ~Holds(n, seen)
    <3>1. row'[m] = row[m]
      BY <1>1, <2>1, <2>2 DEF SetConsumerState, TypeOK
    <3> QED BY <2>1, <3>1, PendingKept
  <2>3. CASE m = n /\ Holds(n, seen)
    <3>1. row'[n].state = to /\ row'[n].dataset = row[n].dataset
      BY <1>2, <2>1, <2>3 DEF States
    <3> QED BY <1>1, <2>1, <2>3, <3>1, PendingEnds
  <2> QED BY <2>2, <2>3
<1> QED BY <1>3, <1>4, <1>5 DEF Writes

LEMMA PendingStep ==
  ASSUME TypeOK, InFlightIsLegal, ReactionsPending, [Work]_vars
  PROVE  ReactionsPending'
<1> SUFFICES ASSUME NEW m \in Neg PROVE ReactionPending(m)'
  BY DEF ReactionsPending
<1>1. ReactionPending(m)
  BY DEF ReactionsPending
<1>2. ASSUME NEW n \in Neg, NEW who \in Participants, NEW d \in Datasets, handleInitiate(n, d, who)
      PROVE  ReactionPending(m)'
  <2>1. CASE m # n
    <3>1. row'[m] = row[m] /\ task'[m] = task[m]
      BY <1>2, <2>1 DEF handleInitiate, TypeOK
    <3> QED BY <1>1, <3>1, PendingKept
  <2>2. CASE m = n
    <3>1. row'[n].state = "REQUESTED" /\ row'[n].pid = FALSE /\ row'[n].dataset = d
      BY <1>2 DEF handleInitiate, TypeOK
    <3>2. task'[n]["start"].action = OnIdle[d]
      BY <1>2 DEF handleInitiate, TypeOK, TaskIds
    <3> QED BY <2>2, <3>1, <3>2 DEF ReactionPending
  <2> QED BY <2>1, <2>2
<1>3. CASE \E h \in Handlers : Looks(h)
  <2>1. row' = row /\ task' = task
    BY <1>3, LooksEffect DEF TakesUp
  <2> QED BY <1>1, <2>1, PendingKept
<1>4. CASE \E h \in Handlers : Writes(h)
  BY <1>1, <1>4, WritesPending
<1>5. CASE \E h \in Handlers : CreateAgreement(h)
  <2>1. row' = row /\ task' = task
    BY <1>5 DEF CreateAgreement
  <2> QED BY <1>1, <2>1, PendingKept
<1>6. CASE \E n \in Neg, k \in TaskIds : Run(n, k)
  BY <1>1, <1>6, RunPending
<1>7. CASE UNCHANGED vars
  BY <1>1, <1>7, PendingKept DEF vars
<1> QED BY <1>2, <1>3, <1>4, <1>5, <1>6, <1>7 DEF Work, Request, Serve, Looks, Writes

\* While nothing fails, no negotiation is left in a state its policy leaves with
\* nobody to take it out of it: an idle request to abandon, an offer to answer and
\* an agreement to reject have a goroutine on its way to store the reaction, on a
\* copy of the row that is still current.  The safety that EveryReactionLands
\* rests on.
THEOREM ReactionsAreInFlight == FairSpec => []ReactionsPending
<1>1. Init => ReactionsPending
  BY DEF Init, ReactionsPending, ReactionPending, NoRow, Exists
<1>2. IInv /\ [Work]_vars => IInv'
  BY Inductive DEF Next
<1>3. IInv => TypeOK /\ InFlightIsLegal
  BY DEF IInv
<1>4. IInv /\ ReactionsPending /\ [Work]_vars => ReactionsPending'
  BY <1>3, PendingStep
<1>5. Init /\ [][Work]_vars => []ReactionsPending
  BY <1>1, <1>2, <1>4, Initially, PTL
<1> QED BY <1>5, PTL DEF FairSpec
=============================================================================
