------------------------------ MODULE Commands ------------------------------
(***************************************************************************)
(* The setValue commands of the client (api/client.py): set_property and   *)
(* _send_command on one side, the reader's _on_response and the reset of a *)
(* connection on the other.  A command is named by its request id.  The    *)
(* socket is reduced to what commands notice: whether one is there, whether *)
(* it works, and which one it is.                                          *)
(*                                                                         *)
(* A definition whose name ends in Faulty is a slip the code does not      *)
(* make; nothing uses it but the tests of the properties.                  *)
(***************************************************************************)
EXTENDS Naturals

CONSTANTS
  MaxId,      \* bound: commands issued in a run
  MaxSocket   \* bound: sockets used in a run

ASSUME BoundsAssumption == MaxId \in Nat /\ MaxSocket \in Nat

Ids == 1 .. MaxId

\* How the wire spells an id: sent as an integer, answered as either.
Spellings == {"integer", "string"}

VARIABLES
  requestId,    \* self._request_id
  pending,      \* the keys of self._pending_commands
  future,       \* the future of each command
  pc,           \* where the caller of each command is suspended
  interrupted,  \* what ends the caller's wait from outside
  outcome,      \* what _send_command returned or raised
  sentOn,       \* the socket a command was written to, 0 if to none
  link,         \* the socket: "none", "up", or "down" (closed, still named)
  socket,       \* which socket that is, counted
  begun,        \* begin() has run and its connect is pending
  verdict       \* what the charger made of each command it answered

linkVars == <<link, socket, begun>>
vars == <<requestId, pending, future, pc, interrupted, outcome, sentOn, linkVars, verdict>>

Futures  == {"none", "pending", "accepted", "rejected", "abandoned", "cancelled"}
Outcomes == {"none", "accepted", "rejected", "abandoned", "timeout", "cancelled",
             "unsent", "sent"}
Active   == {"sending", "waiting"}

CommandTypes ==
  /\ requestId \in 0 .. MaxId
  /\ pending \subseteq Ids
  /\ future \in [Ids -> Futures]
  /\ pc \in [Ids -> {"new", "returned"} \cup Active]
  /\ interrupted \in [Ids -> {"no", "timeout", "cancelled"}]
  /\ outcome \in [Ids -> Outcomes]
  /\ sentOn \in [Ids -> 0 .. MaxSocket]
  /\ verdict \in [Ids -> {"none", "accepted", "rejected"}]

LinkTypes ==
  /\ link \in {"none", "up", "down"}
  /\ socket \in 0 .. MaxSocket
  /\ begun \in BOOLEAN

TypeOK == CommandTypes /\ LinkTypes

Init ==
  /\ requestId = 0
  /\ pending = {}
  /\ future = [i \in Ids |-> "none"]
  /\ pc = [i \in Ids |-> "new"]
  /\ interrupted = [i \in Ids |-> "no"]
  /\ outcome = [i \in Ids |-> "none"]
  /\ sentOn = [i \in Ids |-> 0]
  /\ link = "none" /\ socket = 0 /\ begun = FALSE
  /\ verdict = [i \in Ids |-> "none"]

-----------------------------------------------------------------------------
(* The caller: set_property, _send_command. *)

\* What a wait that is over raises or returns.
ResultFaulty(i) == IF interrupted[i] = "no" THEN future[i] ELSE "accepted"
Result(i) == IF interrupted[i] = "no" THEN future[i] ELSE interrupted[i]

\* _send_command leaves: its `finally` forgets the command.
Return(i, result) ==
  /\ pc' = [pc EXCEPT ![i] = "returned"]
  /\ outcome' = [outcome EXCEPT ![i] = result]
  /\ pending' = pending \ {i}
  /\ UNCHANGED <<requestId, interrupted, sentOn, linkVars, verdict>>

\* Nothing to wait for: send() has no socket, or the command restarts the charger
\* ("rst"), which never acknowledges that.
Unawaited(i) ==
  /\ pc' = [pc EXCEPT ![i] = "returned"]
  /\ outcome' = [outcome EXCEPT ![i] = IF link = "up" THEN "sent" ELSE "unsent"]
  /\ UNCHANGED <<pending, future, sentOn>>

\* The future is registered before the frame is written, so that no answer can
\* come too early.  On a socket that went down the write fails a moment later.
Registered(i) ==
  /\ link # "none"
  /\ pending' = pending \cup {i}
  /\ future' = [future EXCEPT ![i] = "pending"]
  /\ pc' = [pc EXCEPT ![i] = "sending"]
  /\ sentOn' = [sentOn EXCEPT ![i] = IF link = "up" THEN socket ELSE 0]
  /\ UNCHANGED outcome

Issue ==
  /\ requestId < MaxId
  /\ requestId' = requestId + 1
  /\ Unawaited(requestId + 1) \/ Registered(requestId + 1)
  /\ UNCHANGED <<interrupted, linkVars, verdict>>

Writable(i) == link = "up" /\ sentOn[i] = socket

Sent(i) ==
  /\ pc[i] = "sending" /\ interrupted[i] = "no" /\ Writable(i)
  /\ pc' = [pc EXCEPT ![i] = "waiting"]
  /\ UNCHANGED <<requestId, pending, future, interrupted, outcome, sentOn, linkVars, verdict>>

SendFails(i) ==
  /\ pc[i] = "sending"
  /\ ~Writable(i) \/ interrupted[i] # "no"
  /\ Return(i, IF interrupted[i] = "no" THEN "unsent" ELSE interrupted[i])
  /\ UNCHANGED future

\* The wait is over: the future is done, or was cancelled with the wait.  An
\* interruption that comes after the answer but before this step wins.
Wake(i) ==
  /\ pc[i] = "waiting" /\ future[i] # "pending"
  /\ Return(i, Result(i))
  /\ UNCHANGED future

\* The timeout covers the wait for the answer, not the write.
MayInterruptFaulty(i, how) == pc[i] \in Active /\ how = "cancelled"
MayInterrupt(i, how) == pc[i] = "waiting" \/ (pc[i] = "sending" /\ how = "cancelled")

\* The timeout of wait_for, or somebody cancels the caller.
Interrupt(i, how) ==
  /\ interrupted[i] = "no"
  /\ MayInterrupt(i, how)
  /\ interrupted' = [interrupted EXCEPT ![i] = how]
  /\ future' = IF pc[i] = "waiting" /\ future[i] = "pending"
               THEN [future EXCEPT ![i] = "cancelled"] ELSE future
  /\ UNCHANGED <<requestId, pending, pc, outcome, sentOn, linkVars, verdict>>

-----------------------------------------------------------------------------
(* The reader. *)

\* One spelling for a request id: the key under which an answer finds its
\* command, none for an answer that finds nothing.
CorrelatesFaulty(i, spelling) == spelling = "integer" /\ i \in pending
Correlates(i, spelling) == spelling \in Spellings /\ i \in pending

\* Only a future that nobody has finished takes the answer.
Takes(i) == future[i] = "pending"

\* The charger answers a command it received, perhaps late or once more, with
\* the verdict it has about it.  What it sent before the socket closed is still
\* read, until the reader moves on to the next connection.
Response(i, spelling, ok) ==
  /\ link # "none" /\ ~begun /\ sentOn[i] = socket /\ pc[i] # "new"
  /\ verdict[i] \in {"none", ok}
  /\ verdict' = [verdict EXCEPT ![i] = ok]
  /\ future' = IF Correlates(i, spelling) /\ Takes(i)
               THEN [future EXCEPT ![i] = ok] ELSE future
  /\ UNCHANGED <<requestId, pending, pc, interrupted, outcome, sentOn, linkVars>>

\* _fail_pending_commands: every command under way is told that no answer can
\* come any more.
AbandonFaulty == UNCHANGED <<pending, future>>
Abandon ==
  /\ future' = [i \in Ids |->
                  IF i \in pending /\ future[i] = "pending" THEN "abandoned" ELSE future[i]]
  /\ pending' = {}

-----------------------------------------------------------------------------
(* The connection, as far as commands notice it. *)

Lose ==
  /\ link = "up"
  /\ link' = "down"
  /\ UNCHANGED <<requestId, pending, future, pc, interrupted, outcome, sentOn,
                 socket, begun, verdict>>

\* begin(): called by the reader with the lost socket still in its field, and
\* by an open() without one.
Begin ==
  /\ link # "up" /\ ~begun
  /\ begun' = TRUE
  /\ Abandon
  /\ UNCHANGED <<requestId, pc, interrupted, outcome, sentOn, link, socket, verdict>>

Connect ==
  /\ begun /\ socket < MaxSocket
  /\ begun' = FALSE /\ link' = "up" /\ socket' = socket + 1
  /\ UNCHANGED <<requestId, pending, future, pc, interrupted, outcome, sentOn, verdict>>

ConnectFails ==
  /\ begun
  /\ begun' = FALSE
  /\ UNCHANGED <<requestId, pending, future, pc, interrupted, outcome, sentOn,
                 link, socket, verdict>>

\* The end of _close().
Close ==
  /\ link # "none"
  /\ link' = "none" /\ begun' = FALSE
  /\ Abandon
  /\ UNCHANGED <<requestId, pc, interrupted, outcome, sentOn, socket, verdict>>

-----------------------------------------------------------------------------
Caller(i) ==
  Sent(i) \/ SendFails(i) \/ Wake(i) \/ \E how \in {"timeout", "cancelled"} : Interrupt(i, how)

Network == Lose \/ Begin \/ Connect \/ ConnectFails \/ Close

Next ==
  \/ Issue
  \/ \E i \in Ids : Caller(i)
  \/ \E i \in Ids, spelling \in Spellings, ok \in {"accepted", "rejected"} :
       Response(i, spelling, ok)
  \/ Network

Spec == Init /\ [][Next]_vars

\* A write ends (the library's keepalive closes a socket that no longer takes
\* any), a queued step runs and the timer of a wait fires.
Fairness ==
  \A i \in Ids : /\ WF_vars(Sent(i) \/ SendFails(i)) /\ WF_vars(Wake(i))
                 /\ WF_vars(Interrupt(i, "timeout"))

FairSpec == Spec /\ Fairness

-----------------------------------------------------------------------------
(* Properties. *)

\* A write reported as done was accepted by the charger, and one reported as
\* refused was refused: never by the answer to another command.
OutcomeIsVerdict ==
  \A i \in Ids : outcome[i] \in {"accepted", "rejected"} => outcome[i] = verdict[i]

\* Nobody waits on for an answer that has already been read (the docstring of
\* _correlation_key), whatever spelling, timeout or reset came in between.
AnswerEndsWait ==
  \A i \in Ids : pc[i] \in Active /\ future[i] = "pending" => verdict[i] = "none"

\* The table of pending commands holds exactly those whose answer could still
\* come: none leaks, and none that waits is missing from it.
PendingIsAwaited ==
  /\ \A i \in pending : pc[i] \in Active
  /\ \A i \in Ids : pc[i] \in Active /\ future[i] = "pending" => i \in pending

\* No command waits on a socket that has been replaced or dropped (the comment
\* in begin).
NoWaitOnGoneSocket ==
  \A i \in Ids : pc[i] = "waiting" /\ future[i] = "pending" => link # "none" /\ sentOn[i] = socket

\* A future is finished once: a late answer, a reset and a timeout never
\* overwrite one another.
FinishedOnce ==
  [][\A i \in Ids : future[i] \notin {"none", "pending"} => future'[i] = future[i]]_vars

\* Every command comes back, whatever becomes of the connection.
CommandReturns == \A i \in Ids : pc[i] \in Active ~> pc[i] = "returned"

-----------------------------------------------------------------------------
(* The inductive invariant behind the safety properties. *)

\* A command that was not issued yet has left no trace, and ids are not reused.
UnissuedPart ==
  \A i \in Ids : (i > requestId <=> pc[i] = "new") /\
    (pc[i] = "new" => /\ future[i] = "none" /\ outcome[i] = "none" /\ i \notin pending
                      /\ verdict[i] = "none" /\ interrupted[i] = "no")

\* A future says what the charger said.
VerdictPart ==
  \A i \in Ids : /\ future[i] \in {"accepted", "rejected"} => verdict[i] = future[i]
                 /\ pc[i] \in Active => future[i] # "none" /\ outcome[i] = "none"

\* While a connect is pending there is no working socket, and no command waits
\* for an answer.
BegunPart ==
  begun => link # "up" /\ \A i \in Ids : pc[i] = "waiting" => future[i] # "pending"

Inv ==
  /\ TypeOK /\ UnissuedPart /\ VerdictPart /\ BegunPart
  /\ OutcomeIsVerdict /\ AnswerEndsWait /\ PendingIsAwaited /\ NoWaitOnGoneSocket
=============================================================================
