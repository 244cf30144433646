-------------------------- MODULE ProviderNegotiation --------------------------
(***************************************************************************)
(* The provider role of a contract negotiation                             *)
(* (internal/dsp/negotiation_handler.go over internal/store): the          *)
(* negotiations and agreements tables, the HTTP handlers that serve a      *)
(* consumer's messages, and the goroutines those handlers leave behind to  *)
(* push messages and store the state that follows from them.               *)
(*                                                                         *)
(* The store has one connection, so every store call is one step.  What is *)
(* not atomic is everything between two calls: a handler reads a row,      *)
(* decides on its copy, and writes; a goroutine pushes for seconds on a    *)
(* decision made before, then writes.  Each such pair is split here, and   *)
(* any number of other steps may come between.                             *)
(*                                                                         *)
(* The consumer is not constrained: any message may arrive at any time.    *)
(* How long a push takes, and whether it was delivered, is not visible to  *)
(* the provider, which discards the result; a push is the time a task      *)
(* spends at "push".                                                       *)
(***************************************************************************)
EXTENDS NegotiationRules

CONSTANTS
  Neg,                \* negotiations, by provider pid
  Participants,       \* verified issuers of requests
  Datasets,           \* dataset identifiers a request may name
  Advertised,         \* the configured datasets
  Limited,            \* those of them with a validity_until
  TerminateOnVerify,  \* those of them with terminate_on_verify
  Handlers            \* concurrently served requests

ASSUME ConfigAssumption ==
  /\ Advertised \subseteq Datasets
  /\ Limited \subseteq Advertised
  /\ TerminateOnVerify \subseteq Advertised

VARIABLES
  row,         \* table negotiations
  agreements,  \* table agreements, the rows of origin "negotiated"
  expired,     \* the datasets whose validity_until has passed
  handler,     \* requests being served
  task         \* the goroutines of each negotiation

vars == <<row, agreements, expired, handler, task>>

-----------------------------------------------------------------------------
(* State *)

NoRow == [state |-> "NONE"]

\* `matches` abstracts the stored offer id: whether it is the advertised one.
Row == [state : States, dataset : Datasets, matches : BOOLEAN,
        party : Participants, rerequested : BOOLEAN]

Agreement == [id : Neg, dataset : Datasets, party : Participants]

\* A request past its checks holds a copy of the row (`seen` is the copy's
\* state) and is about to write; an answered one is about to return.
Idle == [pc |-> "idle"]
Ops == {"reRequest", "accepted", "verification", "termination"}
Writing == [pc : {"write"}, op : Ops, neg : Neg, seen : States, same : BOOLEAN]
Answered == [pc : {"reply"}, neg : Neg, ok : BOOLEAN]

\* The goroutines a negotiation can have, named for what starts them: dispatch
\* after the request, dispatch after the ACCEPTED event, the push after a
\* mismatched re-request, the push after a verification, and delayedTerminate.
\* `from` is the state in the goroutine's copy of the row, `to` the state its
\* push announces.
TaskIds == {"request", "accepted", "walkaway", "verified", "withdraw"}
Stages == {"none", "sleep", "push", "store", "record", "done"}
Task == [pc : Stages, from : States, to : States, withdraw : BOOLEAN]
NoTask == [pc |-> "none", from |-> "REQUESTED", to |-> "REQUESTED", withdraw |-> FALSE]

TypeOK ==
  /\ row \in [Neg -> {NoRow} \cup Row]
  /\ agreements \subseteq Agreement
  /\ expired \subseteq Limited
  /\ handler \in [Handlers -> {Idle} \cup Writing \cup Answered]
  /\ task \in [Neg -> [TaskIds -> Task]]

Init ==
  /\ row = [n \in Neg |-> NoRow]
  /\ agreements = {}
  /\ expired = {}
  /\ handler = [h \in Handlers |-> Idle]
  /\ task = [n \in Neg |-> [k \in TaskIds |-> NoTask]]

-----------------------------------------------------------------------------
(* The store, and the helpers of the handlers *)

Exists(n) == row[n] # NoRow

\* isValid at this instant.
isValid(d) == d \notin expired

\* Not the code: an UPDATE without its `AND state = ?`.
HoldsAlways(n, from) == Exists(n)

\* SetState: the UPDATE matches only while the stored state is still `from`.
Holds(n, from) == row[n].state = from

SetState(n, from, to) ==
  IF Holds(n, from) THEN [row EXCEPT ![n].state = to] ELSE row

\* A goroutine that pushes a message and then stores `to`, on a copy in `from`.
pushing(from, to, withdraw) ==
  [pc |-> "push", from |-> from, to |-> to, withdraw |-> withdraw]

\* The goroutine `go dispatch(n, outcome)`: outcomeNone does nothing.
dispatch(from, outcome) ==
  CASE outcome = {}           -> [NoTask EXCEPT !.pc = "done"]
    [] "offer" \in outcome    -> pushing(from, "OFFERED", "termination" \in outcome)
    [] "agreement" \in outcome -> pushing(from, "AGREED", FALSE)
    [] OTHER                  -> pushing(from, "TERMINATED", FALSE)

Reply(h, n, ok) == handler' = [handler EXCEPT ![h] = [pc |-> "reply", neg |-> n, ok |-> ok]]

\* What the handlers of a stored negotiation share: read the row, refuse a
\* caller it is not with, check the message is legal from the state read.
lookup(h, n, who, op, legal, same) ==
  /\ handler[h] = Idle
  /\ Exists(n)
  /\ IF who = row[n].party /\ legal
       THEN handler' = [handler EXCEPT ![h] =
              [pc |-> "write", op |-> op, neg |-> n, seen |-> row[n].state, same |-> same]]
       ELSE Reply(h, n, FALSE)
  /\ UNCHANGED <<row, agreements, expired, task>>

AtWrite(h, op) == handler[h].pc = "write" /\ handler[h].op = op

-----------------------------------------------------------------------------
(* Requests: the first step of each handler *)

\* Not the code: the row stored without its counterparty.
handleAnonymousRequest(h, n, d, matches, who) ==
  /\ handler[h] = Idle
  /\ ~Exists(n)
  /\ row' = [row EXCEPT ![n] = [state |-> "REQUESTED", dataset |-> d, matches |-> matches,
                                party |-> "", rerequested |-> FALSE]]
  /\ task' = [task EXCEPT ![n]["request"] =
       dispatch("REQUESTED", decideInitialRequest(d \in Advertised, matches, isValid(d)))]
  /\ Reply(h, n, TRUE)
  /\ UNCHANGED <<agreements, expired>>

handleContractRequest(h, n, d, matches, who) ==
  /\ handler[h] = Idle
  /\ ~Exists(n)
  /\ row' = [row EXCEPT ![n] = [state |-> "REQUESTED", dataset |-> d, matches |-> matches,
                                party |-> who, rerequested |-> FALSE]]
  /\ task' = [task EXCEPT ![n]["request"] =
       dispatch("REQUESTED", decideInitialRequest(d \in Advertised, matches, isValid(d)))]
  /\ Reply(h, n, TRUE)
  /\ UNCHANGED <<agreements, expired>>

\* `same`: the re-request repeats the stored offer id.
handleReRequest(h, n, who, same) ==
  lookup(h, n, who, "reRequest", row[n].state = "OFFERED", same)

handleProviderAcceptedEvent(h, n, who) ==
  lookup(h, n, who, "accepted", row[n].state = "OFFERED", TRUE)

handleVerification(h, n, who) ==
  lookup(h, n, who, "verification", row[n].state = "AGREED", TRUE)

handleProviderTermination(h, n, who) ==
  lookup(h, n, who, "termination", row[n].state \notin Terminal, TRUE)

-----------------------------------------------------------------------------
(* Requests: the write, the answer and the goroutine each handler ends with *)

\* Not the code: the one re-request is granted without being recorded.
storeReRequestUnrecorded(h) ==
  LET n == handler[h].neg IN
  /\ AtWrite(h, "reRequest")
  /\ task' = IF handler[h].same THEN task ELSE
       [task EXCEPT ![n]["walkaway"] = pushing(handler[h].seen, "TERMINATED", FALSE)]
  /\ Reply(h, n, TRUE)
  /\ UNCHANGED <<row, agreements, expired>>

\* SetRerequested is conditional on the flag alone.  A re-request for another
\* offer is granted too, and starts the push that ends the negotiation.
storeReRequest(h) ==
  LET n == handler[h].neg IN
  /\ AtWrite(h, "reRequest")
  /\ IF row[n].rerequested
       THEN Reply(h, n, FALSE) /\ UNCHANGED <<row, task>>
       ELSE /\ row' = [row EXCEPT ![n].rerequested = TRUE]
            /\ task' = IF handler[h].same THEN task ELSE
                 [task EXCEPT ![n]["walkaway"] = pushing(handler[h].seen, "TERMINATED", FALSE)]
            /\ Reply(h, n, TRUE)
  /\ UNCHANGED <<agreements, expired>>

\* Not the code: dispatch given the copy as read, still in OFFERED.
storeAcceptedStaleCopy(h) ==
  LET n == handler[h].neg IN
  /\ AtWrite(h, "accepted")
  /\ row' = SetState(n, handler[h].seen, "ACCEPTED")
  /\ Reply(h, n, Holds(n, handler[h].seen))
  /\ task' = IF ~Holds(n, handler[h].seen) THEN task ELSE
       [task EXCEPT ![n]["accepted"] =
          dispatch(handler[h].seen, decideAccept(row[n].dataset \in Advertised,
                                                 isValid(row[n].dataset)))]
  /\ UNCHANGED <<agreements, expired>>

storeAccepted(h) ==
  LET n == handler[h].neg IN
  /\ AtWrite(h, "accepted")
  /\ row' = SetState(n, handler[h].seen, "ACCEPTED")
  /\ Reply(h, n, Holds(n, handler[h].seen))
  /\ task' = IF ~Holds(n, handler[h].seen) THEN task ELSE
       [task EXCEPT ![n]["accepted"] =
          dispatch("ACCEPTED", decideAccept(row[n].dataset \in Advertised,
                                            isValid(row[n].dataset)))]
  /\ UNCHANGED <<agreements, expired>>

storeVerified(h) ==
  LET n == handler[h].neg IN
  /\ AtWrite(h, "verification")
  /\ row' = SetState(n, handler[h].seen, "VERIFIED")
  /\ Reply(h, n, Holds(n, handler[h].seen))
  /\ task' = IF ~Holds(n, handler[h].seen) THEN task ELSE
       [task EXCEPT ![n]["verified"] =
          pushing("VERIFIED",
                  IF row[n].dataset \in TerminateOnVerify THEN "TERMINATED" ELSE "FINALIZED",
                  FALSE)]
  /\ UNCHANGED <<agreements, expired>>

storeTermination(h) ==
  LET n == handler[h].neg IN
  /\ AtWrite(h, "termination")
  /\ row' = SetState(n, handler[h].seen, "TERMINATED")
  /\ Reply(h, n, Holds(n, handler[h].seen))
  /\ UNCHANGED <<agreements, expired, task>>

\* The handler returns, which is when the response goes out.
return(h) ==
  /\ handler[h].pc = "reply"
  /\ handler' = [handler EXCEPT ![h] = Idle]
  /\ UNCHANGED <<row, agreements, expired, task>>

-----------------------------------------------------------------------------
(* Goroutines *)

\* pushCallback is over: delivered, or its retries exhausted.
endPush(n, k) ==
  /\ task[n][k].pc = "push"
  /\ task' = [task EXCEPT ![n][k].pc = "store"]
  /\ UNCHANGED <<row, agreements, expired, handler>>

\* What dispatch does once pushAndStore has returned.
afterStore(n, k) ==
  CASE task[n][k].to = "AGREED" -> [task EXCEPT ![n][k].pc = "record"]
    [] task[n][k].withdraw      -> [task EXCEPT ![n][k].pc = "done",
                                                ![n]["withdraw"].pc = "sleep"]
    [] OTHER                    -> [task EXCEPT ![n][k].pc = "done"]

\* The state write of pushAndStore, dropped if the row has moved on.
pushAndStore(n, k) ==
  /\ task[n][k].pc = "store"
  /\ row' = SetState(n, task[n][k].from, task[n][k].to)
  /\ task' = afterStore(n, k)
  /\ UNCHANGED <<agreements, expired, handler>>

\* delayedTerminate wakes and re-reads: only an offer still open is withdrawn.
delayedTerminate(n) ==
  /\ task[n]["withdraw"].pc = "sleep"
  /\ task' = [task EXCEPT ![n]["withdraw"] =
       IF row[n].state = "OFFERED" THEN pushing("OFFERED", "TERMINATED", FALSE)
                                   ELSE [@ EXCEPT !.pc = "done"]]
  /\ UNCHANGED <<row, agreements, expired, handler>>

\* Not the code: the agreement recorded without the re-read of the state.
CreateAgreementUnchecked(n, k) ==
  /\ task[n][k].pc = "record"
  /\ agreements' = agreements \cup
       {[id |-> n, dataset |-> row[n].dataset, party |-> row[n].party]}
  /\ task' = [task EXCEPT ![n][k].pc = "done"]
  /\ UNCHANGED <<row, expired, handler>>

\* Not the code: the agreement recorded without its counterparty.
CreateAgreementAnonymous(n, k) ==
  /\ task[n][k].pc = "record"
  /\ agreements' = IF row[n].state \in IssuedStates /\ \A a \in agreements : a.id # n
       THEN agreements \cup {[id |-> n, dataset |-> row[n].dataset, party |-> ""]}
       ELSE agreements
  /\ task' = [task EXCEPT ![n][k].pc = "done"]
  /\ UNCHANGED <<row, expired, handler>>

\* One transaction: the state is re-read and the agreement inserted.  The
\* agreement's id is the provider pid, and a duplicate id fails the insert.
CreateAgreementIfNegotiationAgreed(n, k) ==
  /\ task[n][k].pc = "record"
  /\ agreements' = IF row[n].state \in IssuedStates /\ \A a \in agreements : a.id # n
       THEN agreements \cup {[id |-> n, dataset |-> row[n].dataset, party |-> row[n].party]}
       ELSE agreements
  /\ task' = [task EXCEPT ![n][k].pc = "done"]
  /\ UNCHANGED <<row, expired, handler>>

-----------------------------------------------------------------------------
(* Time, failing store calls, and crashes *)

\* A dataset's validity_until passes.
expire(d) ==
  /\ d \notin expired
  /\ expired' = expired \cup {d}
  /\ UNCHANGED <<row, agreements, handler, task>>

\* A handler's write fails: 500, and nothing follows.
failWrite(h) ==
  /\ handler[h].pc = "write"
  /\ Reply(h, handler[h].neg, FALSE)
  /\ UNCHANGED <<row, agreements, expired, task>>

\* A goroutine's write fails: logged, and dispatch goes on.
failStore(n, k) ==
  /\ task[n][k].pc = "store"
  /\ task' = afterStore(n, k)
  /\ UNCHANGED <<row, agreements, expired, handler>>

\* The insert of the agreement fails, or delayedTerminate's read does.
failTask(n, k) ==
  /\ task[n][k].pc \in {"record", "sleep"}
  /\ task' = [task EXCEPT ![n][k].pc = "done"]
  /\ UNCHANGED <<row, agreements, expired, handler>>

\* The process stops and starts again: the tables survive, nothing resumes
\* the requests it was serving or the goroutines it was running.
crash ==
  /\ handler' = [h \in Handlers |-> Idle]
  /\ task' = [n \in Neg |-> [k \in TaskIds |->
       IF task[n][k].pc = "none" THEN task[n][k] ELSE [task[n][k] EXCEPT !.pc = "done"]]]
  /\ UNCHANGED <<row, agreements, expired>>

-----------------------------------------------------------------------------
(* Next-state relation *)

Request ==
  \E h \in Handlers, n \in Neg, who \in Participants :
    \/ \E d \in Datasets, matches \in BOOLEAN : handleContractRequest(h, n, d, matches, who)
    \/ \E same \in BOOLEAN : handleReRequest(h, n, who, same)
    \/ handleProviderAcceptedEvent(h, n, who)
    \/ handleVerification(h, n, who)
    \/ handleProviderTermination(h, n, who)

Serve(h) ==
  \/ storeReRequest(h)
  \/ storeAccepted(h)
  \/ storeVerified(h)
  \/ storeTermination(h)
  \/ return(h)

Run(n, k) ==
  \/ endPush(n, k)
  \/ pushAndStore(n, k)
  \/ k = "withdraw" /\ delayedTerminate(n)
  \/ CreateAgreementIfNegotiationAgreed(n, k)

Work ==
  \/ Request
  \/ \E h \in Handlers : Serve(h)
  \/ \E n \in Neg, k \in TaskIds : Run(n, k)
  \/ \E d \in Limited : expire(d)

Fault ==
  \/ \E h \in Handlers : failWrite(h)
  \/ \E n \in Neg, k \in TaskIds : failStore(n, k) \/ failTask(n, k)
  \/ crash

Next == Work \/ Fault

Spec == Init /\ [][Next]_vars

\* The Go scheduler runs every handler and goroutine, and both timeouts and
\* the retry schedule bound a push.  Nothing promises that a request arrives.
\* Faults are excluded: after one, nothing resumes what was lost.
FairSpec ==
  /\ Init /\ [][Work]_vars
  /\ \A h \in Handlers : WF_vars(Serve(h))
  /\ \A n \in Neg, k \in TaskIds : WF_vars(Run(n, k))
-----------------------------------------------------------------------------
(* Properties *)

\* The states a negotiation may be in once it has been in s.
Past(s) ==
  CASE s = "REQUESTED" -> States
    [] s = "OFFERED"   -> States \ {"REQUESTED"}
    [] s = "ACCEPTED"  -> States \ {"REQUESTED", "OFFERED"}
    [] s = "AGREED"    -> IssuedStates \cup {"TERMINATED"}
    [] s = "VERIFIED"  -> {"VERIFIED", "FINALIZED", "TERMINATED"}
    [] OTHER           -> {s}

\* What each goroutine may be about to store, and on top of which state.
Plans ==
  [request  |-> {"REQUESTED"} \X {"OFFERED", "AGREED", "TERMINATED"},
   accepted |-> {"ACCEPTED"} \X {"AGREED", "TERMINATED"},
   walkaway |-> {<<"OFFERED", "TERMINATED">>},
   verified |-> {"VERIFIED"} \X {"FINALIZED", "TERMINATED"},
   withdraw |-> {<<"OFFERED", "TERMINATED">>}]

\* The state each goroutine is started in, or after.
StartedFrom ==
  [request |-> "REQUESTED", accepted |-> "ACCEPTED", walkaway |-> "OFFERED",
   verified |-> "VERIFIED", withdraw |-> "REQUESTED"]

\* The states each handler goes on to its write from.
SeenBy ==
  [reRequest |-> {"OFFERED"}, accepted |-> {"OFFERED"}, verification |-> {"AGREED"},
   termination |-> States \ Terminal]

\* Nothing in flight is about to write nonsense: every goroutine is about to
\* store a legal successor of its copy's state, every handler checked a state
\* it may write from, and the row has only moved forward from the state either
\* started in.  At stake in every read that is used after other steps ran.
InFlightIsLegal ==
  /\ \A n \in Neg :
       /\ Exists(n) <=> task[n]["request"].pc # "none"
       /\ task[n]["walkaway"].pc # "none" => row[n].rerequested
       /\ task[n]["withdraw"].pc # "none" => task[n]["request"].pc = "done"
       /\ \A k \in TaskIds :
            /\ task[n][k].pc # "none" => row[n].state \in Past(StartedFrom[k])
            /\ task[n][k].pc \in {"push", "store", "record"} =>
                 <<task[n][k].from, task[n][k].to>> \in Plans[k]
            /\ task[n][k].pc = "sleep" => k = "withdraw"
            /\ task[n][k].withdraw => k = "request" /\ task[n][k].to = "OFFERED"
  /\ \A h \in Handlers : handler[h].pc = "write" =>
       /\ handler[h].seen \in SeenBy[handler[h].op]
       /\ row[handler[h].neg].state \in Past(handler[h].seen)

\* The agreements table agrees with the negotiations table: an agreement was
\* issued by the negotiation of its id, to the same party over the same
\* dataset, once; that negotiation can since only have gone on or been
\* terminated.  At stake in CreateAgreementIfNegotiationAgreed, which runs
\* seconds after the decision, with terminations arriving in between.
AgreementMatchesNegotiation ==
  /\ \A a \in agreements :
       /\ row[a.id].state \in IssuedStates \cup {"TERMINATED"}
       /\ a.dataset = row[a.id].dataset
       /\ a.party = row[a.id].party
  /\ \A a, b \in agreements : a.id = b.id => a = b

\* The write of a request that can still succeed finds the goroutine it starts
\* not yet started, so however requests interleave no message is pushed by
\* two goroutines.  At stake in SetState and SetRerequested, which alone
\* decide which of two concurrent requests was granted.
StartsOnce ==
  /\ \A h \in Handlers : handler[h].pc = "write" =>
       LET n == handler[h].neg  op == handler[h].op IN
       /\ op = "accepted" /\ Holds(n, handler[h].seen) => task[n]["accepted"].pc = "none"
       /\ op = "verification" /\ Holds(n, handler[h].seen) => task[n]["verified"].pc = "none"
       /\ op = "reRequest" /\ ~row[n].rerequested => task[n]["walkaway"].pc = "none"
  /\ \A n \in Neg : task[n]["request"].pc = "store" => task[n]["withdraw"].pc = "none"

\* Nothing is contracted over a dataset this connector does not offer, nor on
\* the informational counter-offer made for an expired one, whatever the
\* consumer answers to it and whenever.  At stake in decideAccept, which must
\* look at the validity window again.
OnlyOfferedContracts ==
  \A n \in Neg :
    row[n].state \in IssuedStates \/ (\E a \in agreements : a.id = n) =>
      row[n].dataset \in Advertised /\ ~task[n]["request"].withdraw

\* The provider keeps the contract of one side of a negotiation: it walks the
\* DSP state machine and records an agreement only while the negotiation shows
\* that one was issued.
Contract == INSTANCE NegotiationContract WITH
  RecordIn <- IssuedStates,
  RecordedBefore <- {},
  state <- [n \in Neg |-> row[n].state],
  ledger <- {a.id : a \in agreements}

KeepsContract == Contract!Spec

Advertises(n) == Exists(n) /\ row[n].dataset \in Advertised

\* Every state that waits for a goroutine of this connector is left: a request
\* for an advertised dataset is answered, an acceptance leads to an agreement
\* or a termination, a verification ends the negotiation, and an offer made
\* for an expired dataset is withdrawn.  At stake in the conditional writes of
\* pushAndStore: one made on a stale copy is dropped, and nothing retries it.
EveryDecisionLands ==
  \A n \in Neg :
    /\ Advertises(n) /\ row[n].state = "REQUESTED" ~> row[n].state # "REQUESTED"
    /\ row[n].state = "ACCEPTED" ~> row[n].state # "ACCEPTED"
    /\ row[n].state = "VERIFIED" ~> row[n].state \in Terminal
    /\ row[n].state = "OFFERED" /\ task[n]["request"].withdraw ~> row[n].state # "OFFERED"

\* An announced agreement ends up in the table, or the negotiation was
\* terminated (dispatch, "recording it must follow the state that actually
\* landed").
AgreedIsRecorded ==
  \A n \in Neg :
    row[n].state \in IssuedStates ~>
      (\E a \in agreements : a.id = n) \/ row[n].state = "TERMINATED"

\* What the comment on handleReRequest says of a granted re-request for
\* another offer: "a decision to walk away ... terminated asynchronously".
WalkAwayTerminates ==
  \A n \in Neg : task[n]["walkaway"].pc = "push" ~> row[n].state = "TERMINATED"
=============================================================================
