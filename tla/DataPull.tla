-------------------------------- MODULE DataPull --------------------------------
(***************************************************************************)
(* Fetching the bytes of one consumer-role transfer                        *)
(* (pullTransferData in internal/dsp/transfer_consumer_handler.go), from   *)
(* the start message that sets a pull off to the row that says what it     *)
(* did, and the stop of the process in between (cmd/dsbox/main.go).        *)
(*                                                                         *)
(* A pull goes on for as long as the bytes do.  Meanwhile the transfer may *)
(* be suspended and started again, the provider's file replaced by another *)
(* representation, the connection cut, and the process stopped gracefully, *)
(* impatiently or not at all.  What a pull leaves is a partial file that a *)
(* later one continues, and the row's count, length and outcome.           *)
(*                                                                         *)
(* A byte is the version of the source it comes from and its position in   *)
(* it.  The provider replaces its file when it likes: an answer may be     *)
(* about any version, and its body is of that version to the end.          *)
(***************************************************************************)
EXTENDS TransferRules, Integers, Sequences

CONSTANTS
  Pulls,            \* start messages, and the goroutines they set off, at a time
  Versions,         \* representations of the dataset at the provider
  Length,           \* the size of each
  MaxDownloadBytes  \* max_download_bytes

ASSUME DataAssumption ==
  /\ Length \in [Versions -> Nat \ {0}]
  /\ MaxDownloadBytes \in Nat \ {0}

VARIABLES
  row,      \* the transfer's row: its state, and what is known of its data
  partial,  \* the partial file
  pulling,  \* whether the transfer's entry in the map of running pulls is set
  pull,     \* the start messages being handled, and their goroutines
  mode,     \* the life of the process
  trust,    \* history: what the bytes of the partial file were checked against
  lost,     \* history: the last change on disk never reached the row
  owed      \* history: the pulls whose outcome the stop of the process is to wait for

vars == <<row, partial, pulling, pull, mode, trust, lost, owed>>

-----------------------------------------------------------------------------
(* State *)

Byte == [version : Versions, at : Nat]

\* `expected` 0 is not known.
Row == [state : {"REQUESTED", "STARTED", "SUSPENDED"}, expected : Nat, received : Nat,
        outcome : {"none", "completed", "failed"}]

\* `known` is the expected length in the copy of the row the start was read
\* with, `had` the size of the partial file before the request.
Idle == [pc |-> "idle"]
Reading == [pc : {"read"}, seen : startLegalFrom, known : Nat]
Spawned == [pc : {"spawned"}, known : Nat]
Requesting == [pc : {"request"}, known : Nat, had : Nat]
Copying == [pc : {"copy"}, had : Nat, n : Nat, of : Versions, expected : Nat]
\* `file` is the download a pull has just published, empty if it failed.
Recording == [pc : {"record"}, received : Nat, outcome : {"completed", "failed"},
              file : Seq(Byte)]
Releasing == [pc : {"release"}]

\* "closing" waits for the handlers, "draining" for the pulls, "clean" and
\* "abandoned" are what drainPulls reported.
Modes == {"up", "closing", "draining", "clean", "abandoned", "down"}

TypeOK ==
  /\ row \in Row
  /\ partial \in Seq(Byte)
  /\ pulling \in BOOLEAN
  /\ pull \in [Pulls -> {Idle} \cup Reading \cup Spawned \cup Requesting \cup Copying
                        \cup Recording \cup Releasing]
  /\ mode \in Modes
  /\ trust \in {"checked", "unchecked", "silent"}
  /\ lost \in BOOLEAN
  /\ owed \subseteq Pulls

Init ==
  /\ row = [state |-> "REQUESTED", expected |-> 0, received |-> 0, outcome |-> "none"]
  /\ partial = <<>>
  /\ pulling = FALSE
  /\ pull = [g \in Pulls |-> Idle]
  /\ mode = "up"
  /\ trust = "checked"
  /\ lost = FALSE
  /\ owed = {}

At(g, pc) == pull[g].pc = pc
Goto(g, p) == pull' = [pull EXCEPT ![g] = p]

\* The process exists, and the connector's lifetime context is not cancelled.
Running == mode # "down"
Uncancelled == mode \in {"up", "closing"}

\* The drain has not reported yet: an outcome is still waited for.
Awaited == Uncancelled \/ mode = "draining"

\* The pull has said what it did, or will do nothing.
settle(g) == owed' = owed \ {g}

-----------------------------------------------------------------------------
(* The start message *)

\* applyTransition reads the row; the message's body is still to be read.
lookup(g) ==
  /\ mode = "up" /\ At(g, "idle")
  /\ row.state \in startLegalFrom
  /\ Goto(g, [pc |-> "read", seen |-> row.state, known |-> row.expected])
  /\ UNCHANGED <<row, partial, pulling, mode, trust, lost, owed>>

\* The conditional write; if granted, the pull is counted and set off.
start(g) ==
  /\ Running /\ At(g, "read")
  /\ IF row.state = pull[g].seen
       THEN /\ row' = [row EXCEPT !.state = "STARTED"]
            /\ Goto(g, [pc |-> "spawned", known |-> pull[g].known])
            /\ owed' = IF Awaited THEN owed \cup {g} ELSE owed
       ELSE Goto(g, Idle) /\ UNCHANGED <<row, owed>>
  /\ UNCHANGED <<partial, pulling, mode, trust, lost>>

\* A suspension: nothing tells a running pull.
suspend ==
  /\ mode = "up" /\ row.state = "STARTED"
  /\ row' = [row EXCEPT !.state = "SUSPENDED"]
  /\ UNCHANGED <<partial, pulling, pull, mode, trust, lost, owed>>

-----------------------------------------------------------------------------
(* The pull, up to the answer *)

\* Not the code: no entry is looked for.
beginAlways(g) ==
  /\ Running /\ At(g, "spawned")
  /\ pulling' = TRUE
  /\ Goto(g, [pc |-> "request", known |-> pull[g].known, had |-> Len(partial)])
  /\ UNCHANGED <<row, partial, mode, trust, lost, owed>>

\* LoadOrStore: a pull that finds another one ends and records nothing.  One
\* that does not measures the partial file and sends its request.
begin(g) ==
  /\ Running /\ At(g, "spawned")
  /\ IF pulling
       THEN Goto(g, Idle) /\ settle(g) /\ UNCHANGED pulling
       ELSE /\ pulling' = TRUE
            /\ Goto(g, [pc |-> "request", known |-> pull[g].known, had |-> Len(partial)])
            /\ UNCHANGED owed
  /\ UNCHANGED <<row, partial, mode, trust, lost>>

failed(received) == [pc |-> "record", received |-> received, outcome |-> "failed",
                     file |-> <<>>]

published(received) == [pc |-> "record", received |-> received, outcome |-> "completed",
                        file |-> partial]

\* Not the code: a request that outlives the connector's context.
refuseUncancelled(g) ==
  /\ Uncancelled /\ At(g, "request")
  /\ Goto(g, failed(pull[g].had))
  /\ UNCHANGED <<row, partial, pulling, mode, trust, lost, owed>>

\* Every exit that leaves the disk as it is: no endpoint, an address or a
\* directory refused, no credential, no response in time, a refusal, to a
\* resumed pull anything that is not the requested range, and a partial file
\* that should be discarded and cannot be removed.
refuse(g) ==
  /\ Running /\ At(g, "request")
  /\ Goto(g, failed(pull[g].had))
  /\ UNCHANGED <<row, partial, pulling, mode, trust, lost, owed>>

\* Not the code: a length not stated recorded the way net/http reports it.
recordExpectedRaw(expected, known, stored) ==
  IF stored THEN [row EXCEPT !.expected = IF expected = 0 THEN -1 ELSE expected] ELSE row

\* The length an answer leaves in the row: written only if it is not the one in
\* the pull's copy, and a failing write is only logged.
recordExpected(expected, known, stored) ==
  IF expected # known /\ stored THEN [row EXCEPT !.expected = expected] ELSE row

\* A fresh answer, stating the whole length or none (0).
answerFresh(g, of, stated, stored) ==
  LET p == pull[g] IN
  /\ Uncancelled /\ At(g, "request")
  /\ p.had = 0
  /\ row' = recordExpected(stated, p.known, stored)
  /\ partial' = <<>>
  /\ trust' = IF stated = 0 \/ ~stored    THEN "silent"
              ELSE IF row'.expected = stated THEN "checked" ELSE "unchecked"
  /\ Goto(g, [pc |-> "copy", had |-> 0, n |-> 0, of |-> of, expected |-> stated])
  /\ UNCHANGED <<pulling, mode, lost, owed>>

\* Not the code: the count kept when the bytes go.
discardPartialCounted(g) ==
  /\ partial' = <<>>
  /\ Goto(g, failed(pull[g].had))

discardPartial(g) ==
  /\ partial' = <<>>
  /\ Goto(g, failed(0))

\* Not the code: the stated length is not compared.
differsNever(stated, known) == FALSE

\* A stated length that is not the one recorded: another representation.
differs(stated, known) == stated > 0 /\ known > 0 /\ stated # known

\* A resumed answer: the rest of a longer version, stating its length or none.
answerResumed(g, of, stated, stored) ==
  LET p == pull[g]
      expected == IF stated > 0 THEN stated ELSE p.known IN
  /\ Uncancelled /\ At(g, "request")
  /\ p.had > 0 /\ Length[of] > p.had
  /\ IF differs(stated, p.known)
       THEN discardPartial(g) /\ UNCHANGED <<row, trust>>
       ELSE /\ row' = recordExpected(expected, p.known, stored)
            /\ trust' = IF stated = 0 \/ ~stored \/ trust = "silent" THEN "silent"
                        ELSE IF p.known = 0 \/ p.known # row.expected THEN "unchecked" ELSE trust
            /\ Goto(g, [pc |-> "copy", had |-> p.had, n |-> 0, of |-> of,
                        expected |-> expected])
            /\ UNCHANGED partial
  /\ UNCHANGED <<pulling, mode, lost, owed>>

\* 416: the file is no longer than what is here.
answerUnsatisfiable(g, of) ==
  /\ Uncancelled /\ At(g, "request")
  /\ pull[g].had > 0 /\ Length[of] <= pull[g].had
  /\ discardPartial(g)
  /\ UNCHANGED <<row, pulling, mode, trust, lost, owed>>

\* The provider answers with the version it has by now.
answer(g, of, stored) ==
  \/ \E stated \in {0, Length[of]} :
       answerFresh(g, of, stated, stored) \/ answerResumed(g, of, stated, stored)
  \/ answerUnsatisfiable(g, of)

-----------------------------------------------------------------------------
(* The pull, from the first byte to the end *)

\* One byte past the ceiling is read, on top of what was there before.
withinLimit(p) == p.had + p.n <= MaxDownloadBytes

more(p) == p.had + p.n < Length[p.of] /\ withinLimit(p)

copy(g) ==
  /\ Running /\ At(g, "copy")
  /\ more(pull[g])
  /\ partial' = Append(partial, [version |-> pull[g].of, at |-> pull[g].had + pull[g].n + 1])
  /\ Goto(g, [pull[g] EXCEPT !.n = @ + 1])
  /\ UNCHANGED <<row, pulling, mode, trust, lost, owed>>

\* The body stops before its end: severed, idle for too long, or cancelled.
\* Also a file that cannot be written, synced, closed or placed.
cutoff(g) ==
  /\ Running /\ At(g, "copy")
  /\ Goto(g, failed(pull[g].had + pull[g].n))
  /\ UNCHANGED <<row, partial, pulling, mode, trust, lost, owed>>

\* The body ends, or the ceiling is passed; the file is published if it has
\* the length stated.
finish(g) ==
  LET p == pull[g]
      total == p.had + p.n IN
  /\ Running /\ At(g, "copy")
  /\ ~more(p)
  /\ IF withinLimit(p) /\ p.expected \in {0, total}
       THEN partial' = <<>> /\ Goto(g, published(total))
       ELSE Goto(g, failed(total)) /\ UNCHANGED partial
  /\ UNCHANGED <<row, pulling, mode, trust, lost, owed>>

\* RecordConsumerTransferOutcome, the last thing done under the guard.
record(g) ==
  /\ Running /\ At(g, "record")
  /\ row' = [row EXCEPT !.received = pull[g].received, !.outcome = pull[g].outcome]
  /\ lost' = FALSE
  /\ Goto(g, [pc |-> "release"])
  /\ settle(g)
  /\ UNCHANGED <<partial, pulling, mode, trust>>

\* The entry is deleted, and the pull no longer counted.
release(g) ==
  /\ Running /\ At(g, "release")
  /\ pulling' = FALSE
  /\ Goto(g, Idle)
  /\ UNCHANGED <<row, partial, mode, trust, lost, owed>>

-----------------------------------------------------------------------------
(* The stop of the process *)

\* A signal: both listeners stop accepting.
shutdown ==
  /\ mode = "up"
  /\ mode' = "closing"
  /\ UNCHANGED <<row, partial, pulling, pull, trust, lost, owed>>

\* The handlers are done, or five seconds over; the pulls are cancelled.
cancelPulls ==
  /\ mode = "closing"
  /\ mode' = "draining"
  /\ UNCHANGED <<row, partial, pulling, pull, trust, lost, owed>>

\* Not the code: Add inside the goroutine, so that a pull counts once it runs.
countedInside == {g \in Pulls : pull[g].pc \notin {"idle", "read", "spawned"}}

\* The pulls the WaitGroup counts.
counted == {g \in Pulls : pull[g].pc \notin {"idle", "read"}}

\* drainPulls: all counted pulls are done, or the budget is spent.
drainPulls ==
  /\ mode = "draining"
  /\ mode' \in (IF counted = {} THEN {"clean"} ELSE {"abandoned"})
  /\ UNCHANGED <<row, partial, pulling, pull, trust, lost, owed>>

\* The process is gone, and with it every handler, pull and running entry.
gone ==
  /\ mode' = "down"
  /\ pull' = [g \in Pulls |-> Idle]
  /\ pulling' = FALSE
  /\ owed' = {}
  /\ UNCHANGED <<row, partial, trust>>

exit ==
  /\ mode \in {"clean", "abandoned"}
  /\ lost' = (lost \/ mode = "abandoned")
  /\ gone

restart ==
  /\ mode = "down"
  /\ mode' = "up"
  /\ UNCHANGED <<row, partial, pulling, pull, trust, lost, owed>>

-----------------------------------------------------------------------------
(* Failures *)

\* The outcome cannot be recorded: only logged.
failRecord(g) ==
  /\ Running /\ At(g, "record")
  /\ lost' = TRUE
  /\ Goto(g, [pc |-> "release"])
  /\ settle(g)
  /\ UNCHANGED <<row, partial, pulling, mode, trust>>

\* The process is killed.
kill ==
  /\ Running
  /\ lost' = (lost \/ counted # {})
  /\ gone

-----------------------------------------------------------------------------
(* Next-state relation *)

Pull(g) ==
  \/ start(g)
  \/ begin(g)
  \/ refuse(g)
  \/ \E of \in Versions : answer(g, of, TRUE)
  \/ copy(g)
  \/ cutoff(g)
  \/ finish(g)
  \/ record(g)
  \/ release(g)

Stop == shutdown \/ cancelPulls \/ drainPulls \/ exit \/ restart

Fault ==
  \/ \E g \in Pulls :
       \/ \E of \in Versions : answer(g, of, FALSE)
       \/ failRecord(g)
  \/ kill

Next ==
  \/ \E g \in Pulls : lookup(g) \/ Pull(g)
  \/ suspend
  \/ Stop
  \/ Fault

Spec == Init /\ [][Next]_vars

\* The Go scheduler runs every handler and pull, and data_idle_timeout bounds
\* every wait of a pull for the provider.
FairSpec == Spec /\ \A g \in Pulls : WF_vars(Pull(g))
-----------------------------------------------------------------------------
(* Properties *)

\* Whatever starts, cuts and restarts there were, the partial file is a prefix:
\* no byte twice, none missing, and at most one past the ceiling.  At stake in
\* the guard on running pulls, and in the size measured under it.
PartialIsPrefix ==
  /\ \A i \in 1..Len(partial) : partial[i].at = i
  /\ Len(partial) <= MaxDownloadBytes + 1

Publishes(g) == At(g, "record") /\ pull[g].outcome = "completed"

\* Between pulls the row's count is the size of the partial file, and a
\* published file is counted whole, unless a write of the row failed or a stop
\* cut a pull short: what an operator relies on to know whether a restart
\* resumes (discardPartial, "The two have to move together").  A drain that
\* reported success lost nothing.
CountIsTrue ==
  /\ (\A g \in Pulls : pull[g].pc \notin {"copy", "record"})
       /\ ~lost /\ row.outcome # "completed" => row.received = Len(partial)
  /\ \A g \in Pulls : Publishes(g) => pull[g].received = Len(pull[g].file)

\* All of one file, from representations as long as it is.
Whole(file) ==
  \A i \in 1..Len(file) : file[i].at = i /\ Length[file[i].version] = Len(file)

\* A download is reported complete only when it is as long as the provider said
\* it is, all of it from representations of that length, if every answer stated
\* one and was judged by the length on record.
CompletedIsWhole ==
  \A g \in Pulls : Publishes(g) /\ trust = "checked" => Whole(pull[g].file)

\* A drain that reported success has the outcome of every pull set off before
\* it reported, one cut short, refused or not yet begun included, and left none
\* that has touched the disk: what a late handler sets off after it can only be
\* refused.  At stake in the order of Add, the goroutine and Wait
\* (applyTransition, "Add before the goroutine starts, never inside it").
DrainIsComplete ==
  mode = "clean" =>
    /\ owed = {}
    /\ \A g \in Pulls : ~At(g, "copy") /\ ~Publishes(g)

\* The guard is given back: every pull that took it ends, also one that the
\* stop of the process cancels, so that a later start can pull again.
GuardIsFreed == pulling ~> ~pulling

\* What store.ConsumerTransfer says of ExpectedBytes: "recorded on the first
\* attempt so a later one can tell a resumption from a different
\* representation".  Every answer stated a length, and every write succeeded.
ResumptionIsToldApart ==
  \A g \in Pulls : Publishes(g) /\ trust # "silent" => Whole(pull[g].file)
=============================================================================
