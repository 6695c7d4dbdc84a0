--------------------------- MODULE CommandsProofs ---------------------------
(***************************************************************************)
(* Proofs about Commands, for any number of commands and sockets: Inv is   *)
(* inductive, and the safety properties are among its conjuncts.           *)
(***************************************************************************)
EXTENDS Commands, TLAPS

USE BoundsAssumption DEF Ids, Spellings, linkVars, Futures, Outcomes, Active

LEMMA InvInit == Init => Inv
<1>. SUFFICES ASSUME Init PROVE Inv
  OBVIOUS
<1>1. CommandTypes
  BY DEF Init, CommandTypes
<1>2. LinkTypes
  <2>1. socket \in 0 .. MaxSocket
    BY DEF Init
  <2>. QED
    BY <2>1 DEF Init, LinkTypes
<1>3. UnissuedPart /\ VerdictPart /\ BegunPart
  BY DEF Init, UnissuedPart, VerdictPart, BegunPart
<1>4. OutcomeIsVerdict /\ AnswerEndsWait /\ PendingIsAwaited /\ NoWaitOnGoneSocket
  BY DEF Init, OutcomeIsVerdict, AnswerEndsWait, PendingIsAwaited, NoWaitOnGoneSocket
<1>. QED
  BY <1>1, <1>2, <1>3, <1>4 DEF Inv, TypeOK

\* A new command.
LEMMA IssueKeeps == ASSUME Inv, Issue PROVE Inv'
<1>. DEFINE new == requestId + 1
<1>1. /\ new \in Ids /\ requestId' = new /\ new = requestId + 1 /\ requestId \in Nat
      /\ UNCHANGED <<interrupted, linkVars, verdict>>
  BY DEF Inv, TypeOK, CommandTypes, Issue
<1>2. pc[new] = "new" /\ verdict[new] = "none" /\ interrupted[new] = "no"
  BY <1>1 DEF Inv, UnissuedPart
<1>3. Unawaited(new) \/ Registered(new)
  BY DEF Issue
<1>. HIDE DEF new
<1>4. ASSUME Unawaited(new) PROVE Inv'
  <2>. USE <1>4
  <2>1. CommandTypes'
    BY <1>1, <1>2, <1>3 DEF Inv, TypeOK, CommandTypes, LinkTypes, Unawaited
  <2>2. LinkTypes'
    BY <1>1 DEF Inv, TypeOK, LinkTypes
  <2>3. UnissuedPart'
    BY <1>1, <1>2, <1>3 DEF Inv, TypeOK, CommandTypes, UnissuedPart, Unawaited
  <2>4. VerdictPart'
    BY <1>1, <1>2, <1>3 DEF Inv, TypeOK, CommandTypes, UnissuedPart, VerdictPart, Unawaited
  <2>5. BegunPart'
    BY <1>1, <1>2, <1>3 DEF Inv, TypeOK, CommandTypes, UnissuedPart, BegunPart, Unawaited
  <2>6. OutcomeIsVerdict'
    BY <1>1, <1>2, <1>3 DEF Inv, TypeOK, CommandTypes, UnissuedPart, OutcomeIsVerdict, Unawaited
  <2>7. AnswerEndsWait'
    BY <1>1, <1>2, <1>3 DEF Inv, TypeOK, CommandTypes, UnissuedPart, AnswerEndsWait, Unawaited
  <2>8. PendingIsAwaited'
    BY <1>1, <1>2, <1>3 DEF Inv, TypeOK, CommandTypes, UnissuedPart, PendingIsAwaited, Unawaited
  <2>9. NoWaitOnGoneSocket'
    BY <1>1, <1>2, <1>3 DEF Inv, TypeOK, CommandTypes, UnissuedPart, NoWaitOnGoneSocket, Unawaited
  <2>. QED
    BY <2>1, <2>2, <2>3, <2>4, <2>5, <2>6, <2>7, <2>8, <2>9 DEF Inv, TypeOK
<1>5. ASSUME Registered(new) PROVE Inv'
  <2>. USE <1>5
  <2>1. CommandTypes'
    BY <1>1, <1>2, <1>3 DEF Inv, TypeOK, CommandTypes, LinkTypes, Registered
  <2>2. LinkTypes'
    BY <1>1 DEF Inv, TypeOK, LinkTypes
  <2>3. UnissuedPart'
    BY <1>1, <1>2, <1>3 DEF Inv, TypeOK, CommandTypes, UnissuedPart, Registered
  <2>4. VerdictPart'
    BY <1>1, <1>2, <1>3 DEF Inv, TypeOK, CommandTypes, UnissuedPart, VerdictPart, Registered
  <2>5. BegunPart'
    BY <1>1, <1>2, <1>3 DEF Inv, TypeOK, CommandTypes, UnissuedPart, BegunPart, Registered
  <2>6. OutcomeIsVerdict'
    BY <1>1, <1>2, <1>3 DEF Inv, TypeOK, CommandTypes, UnissuedPart, OutcomeIsVerdict, Registered
  <2>7. AnswerEndsWait'
    BY <1>1, <1>2, <1>3 DEF Inv, TypeOK, CommandTypes, UnissuedPart, AnswerEndsWait, Registered
  <2>8. PendingIsAwaited'
    BY <1>1, <1>2, <1>3 DEF Inv, TypeOK, CommandTypes, UnissuedPart, PendingIsAwaited, Registered
  <2>9. NoWaitOnGoneSocket'
    BY <1>1, <1>2, <1>3 DEF Inv, TypeOK, CommandTypes, UnissuedPart, NoWaitOnGoneSocket, Registered
  <2>. QED
    BY <2>1, <2>2, <2>3, <2>4, <2>5, <2>6, <2>7, <2>8, <2>9 DEF Inv, TypeOK
<1>. QED
  BY <1>3, <1>4, <1>5

\* Its frame is written.
LEMMA SentKeeps == ASSUME Inv, NEW i \in Ids, Sent(i) PROVE Inv'
<1>1. CommandTypes'
  BY DEF Inv, TypeOK, CommandTypes, UnissuedPart, VerdictPart, Sent, Writable
<1>2. LinkTypes'
  BY DEF Inv, TypeOK, LinkTypes, Sent, Writable
<1>3. UnissuedPart'
  BY DEF Inv, TypeOK, CommandTypes, UnissuedPart, Sent, Writable
<1>4. VerdictPart'
  BY DEF Inv, TypeOK, CommandTypes, UnissuedPart, VerdictPart, AnswerEndsWait, PendingIsAwaited, Sent, Writable
<1>5. BegunPart'
  BY DEF Inv, TypeOK, CommandTypes, UnissuedPart, PendingIsAwaited, BegunPart, NoWaitOnGoneSocket, Sent, Writable
<1>6. OutcomeIsVerdict'
  BY DEF Inv, TypeOK, CommandTypes, UnissuedPart, VerdictPart, OutcomeIsVerdict, Sent, Writable
<1>7. AnswerEndsWait'
  BY DEF Inv, TypeOK, CommandTypes, UnissuedPart, PendingIsAwaited, AnswerEndsWait, Sent, Writable
<1>8. PendingIsAwaited'
  BY DEF Inv, TypeOK, CommandTypes, UnissuedPart, PendingIsAwaited, Sent, Writable
<1>9. NoWaitOnGoneSocket'
  BY DEF Inv, TypeOK, CommandTypes, UnissuedPart, PendingIsAwaited, BegunPart, NoWaitOnGoneSocket, Sent, Writable
<1>. QED
  BY <1>1, <1>2, <1>3, <1>4, <1>5, <1>6, <1>7, <1>8, <1>9 DEF Inv, TypeOK

\* Its frame cannot be written.
LEMMA SendFailsKeeps == ASSUME Inv, NEW i \in Ids, SendFails(i) PROVE Inv'
<1>1. CommandTypes'
  BY DEF Inv, TypeOK, CommandTypes, UnissuedPart, VerdictPart, SendFails, Writable, Return
<1>2. LinkTypes'
  BY DEF Inv, TypeOK, LinkTypes, SendFails, Writable, Return
<1>3. UnissuedPart'
  BY DEF Inv, TypeOK, CommandTypes, UnissuedPart, SendFails, Writable, Return
<1>4. VerdictPart'
  BY DEF Inv, TypeOK, CommandTypes, UnissuedPart, VerdictPart, AnswerEndsWait, PendingIsAwaited, SendFails, Writable, Return
<1>5. BegunPart'
  BY DEF Inv, TypeOK, CommandTypes, UnissuedPart, PendingIsAwaited, BegunPart, NoWaitOnGoneSocket, SendFails, Writable, Return
<1>6. OutcomeIsVerdict'
  BY DEF Inv, TypeOK, CommandTypes, UnissuedPart, VerdictPart, OutcomeIsVerdict, SendFails, Writable, Return
<1>7. AnswerEndsWait'
  BY DEF Inv, TypeOK, CommandTypes, UnissuedPart, PendingIsAwaited, AnswerEndsWait, SendFails, Writable, Return
<1>8. PendingIsAwaited'
  BY DEF Inv, TypeOK, CommandTypes, UnissuedPart, PendingIsAwaited, SendFails, Writable, Return
<1>9. NoWaitOnGoneSocket'
  BY DEF Inv, TypeOK, CommandTypes, UnissuedPart, PendingIsAwaited, BegunPart, NoWaitOnGoneSocket, SendFails, Writable, Return
<1>. QED
  BY <1>1, <1>2, <1>3, <1>4, <1>5, <1>6, <1>7, <1>8, <1>9 DEF Inv, TypeOK

\* Its wait is over.
LEMMA WakeKeeps == ASSUME Inv, NEW i \in Ids, Wake(i) PROVE Inv'
<1>1. CommandTypes'
  BY DEF Inv, TypeOK, CommandTypes, UnissuedPart, VerdictPart, Wake, Return, Result
<1>2. LinkTypes'
  BY DEF Inv, TypeOK, LinkTypes, Wake, Return, Result
<1>3. UnissuedPart'
  BY DEF Inv, TypeOK, CommandTypes, UnissuedPart, Wake, Return, Result
<1>4. VerdictPart'
  BY DEF Inv, TypeOK, CommandTypes, UnissuedPart, VerdictPart, AnswerEndsWait, PendingIsAwaited, Wake, Return, Result
<1>5. BegunPart'
  BY DEF Inv, TypeOK, CommandTypes, UnissuedPart, PendingIsAwaited, BegunPart, NoWaitOnGoneSocket, Wake, Return, Result
<1>6. OutcomeIsVerdict'
  BY DEF Inv, TypeOK, CommandTypes, UnissuedPart, VerdictPart, OutcomeIsVerdict, Wake, Return, Result
<1>7. AnswerEndsWait'
  BY DEF Inv, TypeOK, CommandTypes, UnissuedPart, PendingIsAwaited, AnswerEndsWait, Wake, Return, Result
<1>8. PendingIsAwaited'
  BY DEF Inv, TypeOK, CommandTypes, UnissuedPart, PendingIsAwaited, Wake, Return, Result
<1>9. NoWaitOnGoneSocket'
  BY DEF Inv, TypeOK, CommandTypes, UnissuedPart, PendingIsAwaited, BegunPart, NoWaitOnGoneSocket, Wake, Return, Result
<1>. QED
  BY <1>1, <1>2, <1>3, <1>4, <1>5, <1>6, <1>7, <1>8, <1>9 DEF Inv, TypeOK

\* Its wait is ended from outside.
LEMMA InterruptKeeps == ASSUME Inv, NEW i \in Ids, NEW how \in {"timeout", "cancelled"}, Interrupt(i, how) PROVE Inv'
<1>1. CommandTypes'
  BY DEF Inv, TypeOK, CommandTypes, UnissuedPart, VerdictPart, Interrupt, MayInterrupt
<1>2. LinkTypes'
  BY DEF Inv, TypeOK, LinkTypes, Interrupt, MayInterrupt
<1>3. UnissuedPart'
  BY DEF Inv, TypeOK, CommandTypes, UnissuedPart, Interrupt, MayInterrupt
<1>4. VerdictPart'
  BY DEF Inv, TypeOK, CommandTypes, UnissuedPart, VerdictPart, AnswerEndsWait, PendingIsAwaited, Interrupt, MayInterrupt
<1>5. BegunPart'
  BY DEF Inv, TypeOK, CommandTypes, UnissuedPart, PendingIsAwaited, BegunPart, NoWaitOnGoneSocket, Interrupt, MayInterrupt
<1>6. OutcomeIsVerdict'
  BY DEF Inv, TypeOK, CommandTypes, UnissuedPart, VerdictPart, OutcomeIsVerdict, Interrupt, MayInterrupt
<1>7. AnswerEndsWait'
  BY DEF Inv, TypeOK, CommandTypes, UnissuedPart, PendingIsAwaited, AnswerEndsWait, Interrupt, MayInterrupt
<1>8. PendingIsAwaited'
  BY DEF Inv, TypeOK, CommandTypes, UnissuedPart, PendingIsAwaited, Interrupt, MayInterrupt
<1>9. NoWaitOnGoneSocket'
  BY DEF Inv, TypeOK, CommandTypes, UnissuedPart, PendingIsAwaited, BegunPart, NoWaitOnGoneSocket, Interrupt, MayInterrupt
<1>. QED
  BY <1>1, <1>2, <1>3, <1>4, <1>5, <1>6, <1>7, <1>8, <1>9 DEF Inv, TypeOK

\* The charger answers.
LEMMA ResponseKeeps == ASSUME Inv, NEW i \in Ids, NEW spelling \in Spellings, NEW ok \in {"accepted", "rejected"},
         Response(i, spelling, ok) PROVE Inv'
<1>1. CommandTypes'
  BY DEF Inv, TypeOK, CommandTypes, UnissuedPart, VerdictPart, Response, Correlates, Takes
<1>2. LinkTypes'
  BY DEF Inv, TypeOK, LinkTypes, Response, Correlates, Takes
<1>3. UnissuedPart'
  BY DEF Inv, TypeOK, CommandTypes, UnissuedPart, Response, Correlates, Takes
<1>4. VerdictPart'
  BY DEF Inv, TypeOK, CommandTypes, UnissuedPart, VerdictPart, AnswerEndsWait, PendingIsAwaited, Response, Correlates, Takes
<1>5. BegunPart'
  BY DEF Inv, TypeOK, CommandTypes, UnissuedPart, PendingIsAwaited, BegunPart, NoWaitOnGoneSocket, Response, Correlates, Takes
<1>6. OutcomeIsVerdict'
  BY DEF Inv, TypeOK, CommandTypes, UnissuedPart, VerdictPart, OutcomeIsVerdict, Response, Correlates, Takes
<1>7. AnswerEndsWait'
  BY DEF Inv, TypeOK, CommandTypes, UnissuedPart, PendingIsAwaited, AnswerEndsWait, Response, Correlates, Takes
<1>8. PendingIsAwaited'
  BY DEF Inv, TypeOK, CommandTypes, UnissuedPart, PendingIsAwaited, Response, Correlates, Takes
<1>9. NoWaitOnGoneSocket'
  BY DEF Inv, TypeOK, CommandTypes, UnissuedPart, PendingIsAwaited, BegunPart, NoWaitOnGoneSocket, Response, Correlates, Takes
<1>. QED
  BY <1>1, <1>2, <1>3, <1>4, <1>5, <1>6, <1>7, <1>8, <1>9 DEF Inv, TypeOK

\* The socket is lost.
LEMMA LoseKeeps == ASSUME Inv, Lose PROVE Inv'
<1>1. CommandTypes'
  BY DEF Inv, TypeOK, CommandTypes, UnissuedPart, VerdictPart, Lose
<1>2. LinkTypes'
  BY DEF Inv, TypeOK, LinkTypes, Lose
<1>3. UnissuedPart'
  BY DEF Inv, TypeOK, CommandTypes, UnissuedPart, Lose
<1>4. VerdictPart'
  BY DEF Inv, TypeOK, CommandTypes, UnissuedPart, VerdictPart, AnswerEndsWait, PendingIsAwaited, Lose
<1>5. BegunPart'
  BY DEF Inv, TypeOK, CommandTypes, UnissuedPart, PendingIsAwaited, BegunPart, NoWaitOnGoneSocket, Lose
<1>6. OutcomeIsVerdict'
  BY DEF Inv, TypeOK, CommandTypes, UnissuedPart, VerdictPart, OutcomeIsVerdict, Lose
<1>7. AnswerEndsWait'
  BY DEF Inv, TypeOK, CommandTypes, UnissuedPart, PendingIsAwaited, AnswerEndsWait, Lose
<1>8. PendingIsAwaited'
  BY DEF Inv, TypeOK, CommandTypes, UnissuedPart, PendingIsAwaited, Lose
<1>9. NoWaitOnGoneSocket'
  BY DEF Inv, TypeOK, CommandTypes, UnissuedPart, PendingIsAwaited, BegunPart, NoWaitOnGoneSocket, Lose
<1>. QED
  BY <1>1, <1>2, <1>3, <1>4, <1>5, <1>6, <1>7, <1>8, <1>9 DEF Inv, TypeOK

\* A connection attempt starts.
LEMMA BeginKeeps == ASSUME Inv, Begin PROVE Inv'
<1>1. CommandTypes'
  BY DEF Inv, TypeOK, CommandTypes, UnissuedPart, VerdictPart, Begin, Abandon
<1>2. LinkTypes'
  BY DEF Inv, TypeOK, LinkTypes, Begin, Abandon
<1>3. UnissuedPart'
  BY DEF Inv, TypeOK, CommandTypes, UnissuedPart, Begin, Abandon
<1>4. VerdictPart'
  BY DEF Inv, TypeOK, CommandTypes, UnissuedPart, VerdictPart, AnswerEndsWait, PendingIsAwaited, Begin, Abandon
<1>5. BegunPart'
  BY DEF Inv, TypeOK, CommandTypes, UnissuedPart, PendingIsAwaited, BegunPart, NoWaitOnGoneSocket, Begin, Abandon
<1>6. OutcomeIsVerdict'
  BY DEF Inv, TypeOK, CommandTypes, UnissuedPart, VerdictPart, OutcomeIsVerdict, Begin, Abandon
<1>7. AnswerEndsWait'
  BY DEF Inv, TypeOK, CommandTypes, UnissuedPart, PendingIsAwaited, AnswerEndsWait, Begin, Abandon
<1>8. PendingIsAwaited'
  BY DEF Inv, TypeOK, CommandTypes, UnissuedPart, PendingIsAwaited, Begin, Abandon
<1>9. NoWaitOnGoneSocket'
  BY DEF Inv, TypeOK, CommandTypes, UnissuedPart, PendingIsAwaited, BegunPart, NoWaitOnGoneSocket, Begin, Abandon
<1>. QED
  BY <1>1, <1>2, <1>3, <1>4, <1>5, <1>6, <1>7, <1>8, <1>9 DEF Inv, TypeOK

\* It has a socket.
LEMMA ConnectKeeps == ASSUME Inv, Connect PROVE Inv'
<1>1. CommandTypes'
  BY DEF Inv, TypeOK, CommandTypes, UnissuedPart, VerdictPart, Connect
<1>2. LinkTypes'
  <2>1. socket' \in 0 .. MaxSocket
    BY DEF Inv, TypeOK, LinkTypes, Connect
  <2>. QED
    BY <2>1 DEF Inv, TypeOK, LinkTypes, Connect
<1>3. UnissuedPart'
  BY DEF Inv, TypeOK, CommandTypes, UnissuedPart, Connect
<1>4. VerdictPart'
  BY DEF Inv, TypeOK, CommandTypes, UnissuedPart, VerdictPart, AnswerEndsWait, PendingIsAwaited, Connect
<1>5. BegunPart'
  BY DEF Inv, TypeOK, CommandTypes, UnissuedPart, PendingIsAwaited, BegunPart, NoWaitOnGoneSocket, Connect
<1>6. OutcomeIsVerdict'
  BY DEF Inv, TypeOK, CommandTypes, UnissuedPart, VerdictPart, OutcomeIsVerdict, Connect
<1>7. AnswerEndsWait'
  BY DEF Inv, TypeOK, CommandTypes, UnissuedPart, PendingIsAwaited, AnswerEndsWait, Connect
<1>8. PendingIsAwaited'
  BY DEF Inv, TypeOK, CommandTypes, UnissuedPart, PendingIsAwaited, Connect
<1>9. NoWaitOnGoneSocket'
  BY DEF Inv, TypeOK, CommandTypes, UnissuedPart, PendingIsAwaited, BegunPart, NoWaitOnGoneSocket, Connect
<1>. QED
  BY <1>1, <1>2, <1>3, <1>4, <1>5, <1>6, <1>7, <1>8, <1>9 DEF Inv, TypeOK

\* It has none.
LEMMA ConnectFailsKeeps == ASSUME Inv, ConnectFails PROVE Inv'
<1>1. CommandTypes'
  BY DEF Inv, TypeOK, CommandTypes, UnissuedPart, VerdictPart, ConnectFails
<1>2. LinkTypes'
  BY DEF Inv, TypeOK, LinkTypes, ConnectFails
<1>3. UnissuedPart'
  BY DEF Inv, TypeOK, CommandTypes, UnissuedPart, ConnectFails
<1>4. VerdictPart'
  BY DEF Inv, TypeOK, CommandTypes, UnissuedPart, VerdictPart, AnswerEndsWait, PendingIsAwaited, ConnectFails
<1>5. BegunPart'
  BY DEF Inv, TypeOK, CommandTypes, UnissuedPart, PendingIsAwaited, BegunPart, NoWaitOnGoneSocket, ConnectFails
<1>6. OutcomeIsVerdict'
  BY DEF Inv, TypeOK, CommandTypes, UnissuedPart, VerdictPart, OutcomeIsVerdict, ConnectFails
<1>7. AnswerEndsWait'
  BY DEF Inv, TypeOK, CommandTypes, UnissuedPart, PendingIsAwaited, AnswerEndsWait, ConnectFails
<1>8. PendingIsAwaited'
  BY DEF Inv, TypeOK, CommandTypes, UnissuedPart, PendingIsAwaited, ConnectFails
<1>9. NoWaitOnGoneSocket'
  BY DEF Inv, TypeOK, CommandTypes, UnissuedPart, PendingIsAwaited, BegunPart, NoWaitOnGoneSocket, ConnectFails
<1>. QED
  BY <1>1, <1>2, <1>3, <1>4, <1>5, <1>6, <1>7, <1>8, <1>9 DEF Inv, TypeOK

\* The connection is closed.
LEMMA CloseKeeps == ASSUME Inv, Close PROVE Inv'
<1>1. CommandTypes'
  BY DEF Inv, TypeOK, CommandTypes, UnissuedPart, VerdictPart, Close, Abandon
<1>2. LinkTypes'
  BY DEF Inv, TypeOK, LinkTypes, Close, Abandon
<1>3. UnissuedPart'
  BY DEF Inv, TypeOK, CommandTypes, UnissuedPart, Close, Abandon
<1>4. VerdictPart'
  BY DEF Inv, TypeOK, CommandTypes, UnissuedPart, VerdictPart, AnswerEndsWait, PendingIsAwaited, Close, Abandon
<1>5. BegunPart'
  BY DEF Inv, TypeOK, CommandTypes, UnissuedPart, PendingIsAwaited, BegunPart, NoWaitOnGoneSocket, Close, Abandon
<1>6. OutcomeIsVerdict'
  BY DEF Inv, TypeOK, CommandTypes, UnissuedPart, VerdictPart, OutcomeIsVerdict, Close, Abandon
<1>7. AnswerEndsWait'
  BY DEF Inv, TypeOK, CommandTypes, UnissuedPart, PendingIsAwaited, AnswerEndsWait, Close, Abandon
<1>8. PendingIsAwaited'
  BY DEF Inv, TypeOK, CommandTypes, UnissuedPart, PendingIsAwaited, Close, Abandon
<1>9. NoWaitOnGoneSocket'
  BY DEF Inv, TypeOK, CommandTypes, UnissuedPart, PendingIsAwaited, BegunPart, NoWaitOnGoneSocket, Close, Abandon
<1>. QED
  BY <1>1, <1>2, <1>3, <1>4, <1>5, <1>6, <1>7, <1>8, <1>9 DEF Inv, TypeOK

\* Nothing happens.
LEMMA StutterKeeps == ASSUME Inv, UNCHANGED vars PROVE Inv'
<1>1. CommandTypes'
  BY DEF Inv, TypeOK, CommandTypes, UnissuedPart, VerdictPart, vars
<1>2. LinkTypes'
  BY DEF Inv, TypeOK, LinkTypes, vars
<1>3. UnissuedPart'
  BY DEF Inv, TypeOK, CommandTypes, UnissuedPart, vars
<1>4. VerdictPart'
  BY DEF Inv, TypeOK, CommandTypes, UnissuedPart, VerdictPart, AnswerEndsWait, PendingIsAwaited, vars
<1>5. BegunPart'
  BY DEF Inv, TypeOK, CommandTypes, UnissuedPart, PendingIsAwaited, BegunPart, NoWaitOnGoneSocket, vars
<1>6. OutcomeIsVerdict'
  BY DEF Inv, TypeOK, CommandTypes, UnissuedPart, VerdictPart, OutcomeIsVerdict, vars
<1>7. AnswerEndsWait'
  BY DEF Inv, TypeOK, CommandTypes, UnissuedPart, PendingIsAwaited, AnswerEndsWait, vars
<1>8. PendingIsAwaited'
  BY DEF Inv, TypeOK, CommandTypes, UnissuedPart, PendingIsAwaited, vars
<1>9. NoWaitOnGoneSocket'
  BY DEF Inv, TypeOK, CommandTypes, UnissuedPart, PendingIsAwaited, BegunPart, NoWaitOnGoneSocket, vars
<1>. QED
  BY <1>1, <1>2, <1>3, <1>4, <1>5, <1>6, <1>7, <1>8, <1>9 DEF Inv, TypeOK

LEMMA InvStep == ASSUME Inv, [Next]_vars PROVE Inv'
<1>1. ASSUME NEW i \in Ids, Caller(i) PROVE Inv'
  BY <1>1, SentKeeps, SendFailsKeeps, WakeKeeps, InterruptKeeps DEF Caller
<1>2. CASE Network
  BY <1>2, LoseKeeps, BeginKeeps, ConnectKeeps, ConnectFailsKeeps, CloseKeeps DEF Network
<1>. QED
  BY <1>1, <1>2, IssueKeeps, ResponseKeeps, StutterKeeps DEF Next

\* Inv holds of every reachable state.
THEOREM Invariance == Spec => []Inv
BY InvInit, InvStep, PTL DEF Spec

\* Every field of the command table stays within its type.
THEOREM TypeCorrect == Spec => []TypeOK
<1>1. Inv => TypeOK
  BY DEF Inv
<1>. QED
  BY <1>1, Invariance, PTL

\* _send_command reports done only what the charger accepted, and refused only
\* what it refused.
THEOREM OutcomesAreVerdicts == Spec => []OutcomeIsVerdict
<1>1. Inv => OutcomeIsVerdict
  BY DEF Inv
<1>. QED
  BY <1>1, Invariance, PTL

\* _on_response leaves nobody waiting for an answer that has been read.
THEOREM AnswersEndWaits == Spec => []AnswerEndsWait
<1>1. Inv => AnswerEndsWait
  BY DEF Inv
<1>. QED
  BY <1>1, Invariance, PTL

\* The table of pending commands neither leaks an entry nor misses a waiter.
THEOREM PendingAreAwaited == Spec => []PendingIsAwaited
<1>1. Inv => PendingIsAwaited
  BY DEF Inv
<1>. QED
  BY <1>1, Invariance, PTL

\* begin() and _close() leave no command waiting on the socket they replace.
THEOREM NoWaitOutlivesSocket == Spec => []NoWaitOnGoneSocket
<1>1. Inv => NoWaitOnGoneSocket
  BY DEF Inv
<1>. QED
  BY <1>1, Invariance, PTL

LEMMA FinishedStep ==
  ASSUME Inv, [Next]_vars
  PROVE  [\A i \in Ids : future[i] \notin {"none", "pending"} => future'[i] = future[i]]_vars
<1>. SUFFICES ASSUME Next, NEW j \in Ids, future[j] \notin {"none", "pending"}
              PROVE  future'[j] = future[j]
  OBVIOUS
<1>. USE DEF Inv, TypeOK, CommandTypes
<1>1. CASE Issue
  <2>1. pc[requestId + 1] = "new" /\ future[requestId + 1] = "none" /\ requestId + 1 \in Ids
    BY <1>1 DEF Issue, UnissuedPart
  <2>. QED
    BY <1>1, <2>1 DEF Issue, Unawaited, Registered
<1>2. ASSUME NEW i \in Ids, Caller(i) PROVE future'[j] = future[j]
  BY <1>2 DEF Caller, Sent, SendFails, Wake, Interrupt
<1>3. ASSUME NEW i \in Ids, NEW spelling \in Spellings, NEW ok \in {"accepted", "rejected"},
             Response(i, spelling, ok)
      PROVE  future'[j] = future[j]
  BY <1>3 DEF Response, Takes
<1>4. CASE Network
  BY <1>4 DEF Network, Lose, Begin, Connect, ConnectFails, Close, Abandon
<1>. QED
  BY <1>1, <1>2, <1>3, <1>4 DEF Next

\* No future is finished twice: Takes, Abandon and the timeout exclude one another.
THEOREM FuturesFinishOnce == Spec => FinishedOnce
BY Invariance, FinishedStep, PTL DEF Spec, FinishedOnce
=============================================================================
