----------------------------- MODULE Connection -----------------------------
(***************************************************************************)
(* The lifecycle of one Connection (api/connection.py): the asyncio tasks  *)
(* that share its fields, and the callers of open(), close() and           *)
(* resume_reconnecting().  The tasks are the open attempt (_opening, the   *)
(* coroutine _open), the deliberate close (_closing, _cancel_and_close),   *)
(* the readers (_message_loop) and the readiness guard.  An action is what *)
(* one task does between two suspension points; between them any ready     *)
(* task may run, so the model allows every order, not only asyncio's FIFO. *)
(* Where FIFO order matters (a timer or the network is answered only after *)
(* the callbacks that are already queued) the guard Quiet says so.         *)
(*                                                                         *)
(* Frames are abstracted to what they do here: sign in, complete the       *)
(* status, refuse (finally: wrong charger or password; transiently: an     *)
(* unusable handshake).                                                    *)
(*                                                                         *)
(* A definition whose name ends in Faulty is a slip the code does not      *)
(* make; nothing uses it but the tests of the properties.                  *)
(***************************************************************************)
EXTENDS FiniteSets

CONSTANTS
  Callers,        \* the coroutines that call open()
  Readers,        \* names for the _message_loop tasks
  Sockets,        \* names for the WebSocket connections
  None,           \* Python's None
  AutoReconnect   \* the constructor argument auto_reconnect

ASSUME NoneAssumption == None \notin Readers \cup Sockets
ASSUME AutoReconnectAssumption == AutoReconnect \in BOOLEAN

VARIABLES
  socket,              \* self.socket
  link,                \* what each WebSocket is doing, see LinkStates
  messageLoopTask,     \* self.message_loop_task: a reader, perhaps a finished one
  reader,              \* where each reader is suspended, see ReaderStates
  readerSocket,        \* the socket a reader iterates over in _read_frames
  doomed,              \* readers cancelled whose last step is still queued
  readinessGuard,      \* whether a _readiness_guard task waits for the status
  authenticated,       \* self._authenticated
  authenticatedEvent,  \* self._authenticated_event.is_set()
  initialized,         \* self._initialized
  initializedEvent,    \* self._initialized_event.is_set()
  fatalError,          \* self.fatal_error, by its attribute `final`
  stopped,             \* self._stopped
  opening,             \* self._opening: where the attempt is suspended
  hadReader,           \* the attempt's local had_reader
  error,               \* what the attempt is raising, "none" while it is well
  cancelled,           \* the attempt was cancelled and has not yet noticed
  closing,             \* self._closing: where the close is suspended
  caller,              \* where each call of open() is suspended
  gaveUp               \* callers that were themselves cancelled

network     == <<socket, link>>
flags       == <<authenticated, authenticatedEvent, initialized, initializedEvent, fatalError>>
signals     == <<readinessGuard, flags>>
readerVars  == <<messageLoopTask, reader, readerSocket, doomed>>
attemptVars == <<opening, hadReader, error, cancelled>>
closeVars   == <<stopped, closing>>
callerVars  == <<caller, gaveUp>>
vars == <<network, signals, readerVars, attemptVars, closeVars, callerVars>>

\* "closed" may still hold frames that nobody read; "spent" holds none.
LinkStates   == {"spent", "open", "closing", "closed"}
ReaderStates == {"off", "start", "reading", "sleeping", "connecting"}
ErrorStates  == {"none", "transient", "final"}
\* "stopping" and "shutting" are the two awaits of _close: for the reader it
\* cancelled, then for the socket.  "authenticated" and "loaded" are waits
\* whose event has woken them.  "done" is finished but not yet forgotten.
AttemptLive  == {"start", "stopping", "shutting", "connecting", "authenticating",
                 "authenticated", "loading", "loaded"}
ClosingLive  == {"start", "cancelling", "stopping", "shutting"}
Outcomes     == {"succeeded", "failed", "closed"}

TaskTypes ==
  /\ socket \in Sockets \cup {None}
  /\ link \in [Sockets -> LinkStates]
  /\ messageLoopTask \in Readers \cup {None}
  /\ reader \in [Readers -> ReaderStates]
  /\ readerSocket \in [Readers -> Sockets \cup {None}]
  /\ doomed \subseteq Readers
  /\ fatalError \in ErrorStates
  /\ opening \in AttemptLive \cup {"none", "done"}
  /\ error \in {"none", "failed", "cancelled"}
  /\ closing \in ClosingLive \cup {"none", "done"}
  /\ caller \in [Callers -> {"idle", "queued", "opening"} \cup Outcomes]
  /\ gaveUp \subseteq Callers

FlagTypes ==
  /\ readinessGuard \in BOOLEAN
  /\ authenticated \in BOOLEAN /\ authenticatedEvent \in BOOLEAN
  /\ initialized \in BOOLEAN /\ initializedEvent \in BOOLEAN
  /\ stopped \in BOOLEAN
  /\ hadReader \in BOOLEAN
  /\ cancelled \in BOOLEAN

TypeOK == TaskTypes /\ FlagTypes

Init ==
  /\ socket = None
  /\ link = [s \in Sockets |-> "spent"]
  /\ messageLoopTask = None
  /\ reader = [r \in Readers |-> "off"]
  /\ readerSocket = [r \in Readers |-> None]
  /\ doomed = {}
  /\ readinessGuard = FALSE
  /\ authenticated = FALSE /\ authenticatedEvent = FALSE
  /\ initialized = FALSE /\ initializedEvent = FALSE
  /\ fatalError = "none"
  /\ stopped = FALSE
  /\ opening = "none" /\ hadReader = FALSE /\ error = "none" /\ cancelled = FALSE
  /\ closing = "none"
  /\ caller = [c \in Callers |-> "idle"]
  /\ gaveUp = {}

-----------------------------------------------------------------------------
(* What the steps below share. *)

AttemptIsLive == opening \in AttemptLive
CloseIsLive   == closing \in ClosingLive

\* No callback is queued, so the loop turns to timers and to the network.
Quiet ==
  /\ doomed = {}
  /\ \A r \in Readers : reader[r] # "start"
  /\ ~cancelled
  /\ opening \in {"none", "shutting", "connecting", "authenticating", "loading"}
  /\ \/ closing \in {"none", "shutting"}
     \/ closing = "cancelling" /\ opening = "shutting"

SetAuthenticated(value) == authenticated' = value /\ authenticatedEvent' = value

\* socket.close() sends the close frame; the await ends once the link is closed.
CloseSentFaulty == link
CloseSent == [s \in Sockets |-> IF s = socket /\ link[s] = "open" THEN "closing" ELSE link[s]]
SocketShut == socket # None => link[socket] \in {"closed", "spent"}

FreshSocket(s) == link[s] = "spent" /\ s # socket /\ \A r \in Readers : readerSocket[r] # s

\* A socket that self.socket stops naming has no further effect unless it is
\* open: what is left of it, unread frames or an unfinished close, is dropped.
Unnamed == [s \in Sockets |-> IF s = socket /\ link[s] # "open" THEN "spent" ELSE link[s]]

NewReader(r) == reader[r] = "off" /\ r # messageLoopTask /\ r \notin doomed

StartReader(r) ==
  /\ NewReader(r)
  /\ messageLoopTask' = r
  /\ reader' = [reader EXCEPT ![r] = "start"]
  /\ UNCHANGED <<readerSocket, doomed>>

\* begin(): nothing of the previous connection is carried over -- except
\* `authenticated`, which every caller has already reset.
BeginFaulty ==
  /\ readinessGuard' = FALSE /\ initialized' = FALSE
  /\ authenticatedEvent' = FALSE
  /\ fatalError' = "none"
  /\ UNCHANGED <<authenticated, initializedEvent>>
Begin ==
  /\ readinessGuard' = FALSE
  /\ authenticatedEvent' = FALSE
  /\ initialized' = FALSE /\ initializedEvent' = FALSE
  /\ fatalError' = "none"
  /\ UNCHANGED authenticated

\* _close() up to its first await: the guard and the reader are cancelled.
StopReaderFaulty ==
  /\ readinessGuard' = FALSE
  /\ messageLoopTask' = None
  /\ UNCHANGED <<doomed, reader, readerSocket>>
StopReader ==
  /\ readinessGuard' = FALSE
  /\ messageLoopTask' = None
  /\ doomed' = doomed \cup {r \in Readers : r = messageLoopTask /\ reader[r] # "off"}
  /\ UNCHANGED <<reader, readerSocket>>

AfterStopReader == IF messageLoopTask = None THEN "shutting" ELSE "stopping"

\* The end of _close(), in its `finally`.
ForgetSocket ==
  /\ socket' = None
  /\ link' = Unnamed
  /\ SetAuthenticated(FALSE)
  /\ initializedEvent' = FALSE
  /\ UNCHANGED <<initialized, fatalError>>

MayResumeFaulty == fatalError # "final" /\ messageLoopTask = None /\ AutoReconnect
MayResume ==
  ~stopped /\ fatalError # "final" /\ messageLoopTask = None /\ AutoReconnect

\* The `except BaseException` of _open: the attempt had begun and taken over
\* from a reader.
HandsBackFaulty(e) == e = "failed" /\ opening # "start" /\ hadReader
HandsBack(e) == e # "none" /\ opening # "start" /\ hadReader

\* The attempt finishes with an error or "none" and wakes its callers.
AttemptEnds(e) ==
  /\ opening' = "done" /\ error' = e /\ cancelled' = FALSE
  /\ caller' = [c \in Callers |->
                  IF caller[c] # "opening" THEN caller[c]
                  ELSE CASE e = "none" -> "succeeded"
                         [] e = "failed" -> "failed"
                         [] e = "cancelled" -> "closed"]
  /\ IF HandsBack(e) /\ MayResume
     THEN \E r \in Readers : StartReader(r)
     ELSE UNCHANGED readerVars
  /\ UNCHANGED gaveUp

-----------------------------------------------------------------------------
(* Callers. *)

\* The part of open() behind its wait for a close: it undoes an earlier
\* close() and joins the attempt that runs, or starts one.
JoinAttempt(c) ==
  /\ ~CloseIsLive
  /\ stopped' = FALSE
  /\ caller' = [caller EXCEPT ![c] = "opening"]
  /\ IF AttemptIsLive
     THEN UNCHANGED <<opening, error>>
     ELSE opening' = "start" /\ error' = "none"
  /\ UNCHANGED <<network, signals, readerVars, hadReader, cancelled, closing, gaveUp>>

Open(c) == caller[c] = "idle" /\ JoinAttempt(c)

OpenAfterClose(c) == caller[c] = "queued" /\ JoinAttempt(c)

OpenWaitsForClose(c) ==
  /\ caller[c] = "idle" /\ CloseIsLive
  /\ caller' = [caller EXCEPT ![c] = "queued"]
  /\ UNCHANGED <<network, signals, readerVars, attemptVars, closeVars, gaveUp>>

\* Task.cancel() on a caller: it reaches the attempt the caller awaits.
CancelCaller(c) ==
  /\ caller[c] # "idle" /\ c \notin gaveUp
  /\ IF caller[c] = "queued"
     THEN /\ caller' = [caller EXCEPT ![c] = "idle"]
          /\ UNCHANGED <<cancelled, gaveUp>>
     ELSE /\ gaveUp' = gaveUp \cup {c}
          /\ cancelled' = (cancelled \/ caller[c] = "opening")
          /\ UNCHANGED caller
  /\ UNCHANGED <<network, signals, readerVars, opening, hadReader, error, closeVars>>

\* open() raises CancelledError to a caller that gave up, else its outcome.
OpenReturns(c) ==
  /\ caller[c] \in Outcomes
  /\ caller' = [caller EXCEPT ![c] = "idle"]
  /\ gaveUp' = gaveUp \ {c}
  /\ UNCHANGED <<network, signals, readerVars, attemptVars, closeVars>>

Close ==
  /\ stopped' = TRUE
  /\ closing' = IF CloseIsLive THEN closing ELSE "start"
  /\ UNCHANGED <<network, signals, readerVars, attemptVars, callerVars>>

\* resume_reconnecting() called by the wait for a firmware reboot.
ResumeReconnecting ==
  /\ MayResume /\ ~AttemptIsLive
  /\ \E r \in Readers : StartReader(r)
  /\ UNCHANGED <<network, signals, attemptVars, closeVars, callerVars>>

-----------------------------------------------------------------------------
(* The attempt, _open().  A reader cancelled by an earlier attempt has its   *)
(* last step queued ahead of the first step of this one.                    *)

AttemptStart ==
  /\ opening = "start" /\ ~cancelled /\ doomed = {}
  /\ ~(authenticated /\ initialized)
  /\ hadReader' = (messageLoopTask # None)
  /\ \/ /\ authenticated
        /\ opening' = IF initializedEvent THEN "loaded" ELSE "loading"
        /\ UNCHANGED <<signals, readerVars>>
     \/ /\ ~authenticated /\ messageLoopTask # None
        /\ opening' = "stopping"
        /\ StopReader
        /\ UNCHANGED flags
     \/ /\ ~authenticated /\ messageLoopTask = None
        /\ opening' = "connecting"
        /\ Begin
        /\ UNCHANGED readerVars
  /\ UNCHANGED <<network, error, cancelled, closeVars, callerVars>>

AttemptFindsConnection ==
  /\ opening = "start" /\ ~cancelled /\ doomed = {}
  /\ authenticated /\ initialized
  /\ hadReader' = (messageLoopTask # None)
  /\ AttemptEnds("none")
  /\ UNCHANGED <<network, signals, closeVars>>

\* Cancelled before its first step: the coroutine never runs.
AttemptNeverStarts ==
  /\ opening = "start" /\ cancelled
  /\ AttemptEnds("cancelled")
  /\ UNCHANGED <<network, signals, hadReader, closeVars>>

\* The first await of _close() ends, by the reader's end or by a cancellation.
AttemptStopped ==
  /\ opening = "stopping" /\ (doomed = {} \/ cancelled)
  /\ opening' = "shutting"
  /\ error' = IF cancelled THEN "cancelled" ELSE error
  /\ cancelled' = FALSE
  /\ link' = CloseSent
  /\ UNCHANGED <<socket, signals, readerVars, hadReader, closeVars, callerVars>>

\* The second await of _close() ends.  After the close that makes room for a
\* new connection the attempt goes on to it, otherwise it raises.
AttemptShut ==
  /\ opening = "shutting" /\ (SocketShut \/ cancelled)
  /\ IF error = "none" /\ ~cancelled
     THEN /\ opening' = "connecting"
          /\ socket' = None /\ link' = Unnamed
          /\ authenticated' = FALSE
          /\ readinessGuard' = FALSE
          /\ authenticatedEvent' = FALSE
          /\ initialized' = FALSE /\ initializedEvent' = FALSE
          /\ fatalError' = "none"
          /\ UNCHANGED <<readerVars, hadReader, error, cancelled, callerVars>>
     ELSE /\ ForgetSocket
          /\ AttemptEnds(IF cancelled THEN "cancelled" ELSE error)
          /\ UNCHANGED <<readinessGuard, hadReader>>
  /\ UNCHANGED closeVars

\* socket.close() raises instead, which counts as the attempt's own failure; the
\* socket is forgotten all the same.
AttemptShutRaises ==
  /\ opening = "shutting" /\ ~cancelled /\ socket # None
  /\ ForgetSocket
  /\ AttemptEnds("failed")
  /\ UNCHANGED <<readinessGuard, hadReader, closeVars>>

AttemptConnected(s, r) ==
  /\ opening = "connecting" /\ Quiet
  /\ FreshSocket(s)
  /\ socket' = s
  /\ link' = [link EXCEPT ![s] = "open"]
  /\ StartReader(r)
  /\ opening' = IF authenticatedEvent THEN "authenticated" ELSE "authenticating"
  /\ UNCHANGED <<signals, hadReader, error, cancelled, closeVars, callerVars>>

AttemptConnectFails ==
  /\ opening = "connecting" /\ (Quiet \/ cancelled)
  /\ AttemptEnds(IF cancelled THEN "cancelled" ELSE "failed")
  /\ UNCHANGED <<network, signals, hadReader, closeVars>>

AttemptAuthenticated ==
  /\ opening = "authenticated" /\ ~cancelled /\ fatalError = "none"
  /\ opening' = IF initializedEvent THEN "loaded" ELSE "loading"
  /\ UNCHANGED <<network, signals, readerVars, hadReader, error, cancelled,
                 closeVars, callerVars>>

AttemptLoaded ==
  /\ opening = "loaded" /\ ~cancelled /\ fatalError = "none"
  /\ AttemptEnds("none")
  /\ UNCHANGED <<network, signals, hadReader, closeVars>>

\* _wait_for raises: refused, timed out or cancelled.
WaitFailsFaulty ==
  \/ opening \in {"authenticating", "loading"} /\ cancelled
  \/ opening \in {"authenticated", "loaded"} /\ (fatalError # "none" \/ cancelled)
WaitFails ==
  \/ opening \in {"authenticating", "loading"} /\ (Quiet \/ cancelled)
  \/ opening \in {"authenticated", "loaded"} /\ (fatalError # "none" \/ cancelled)

\* _cleanup_on_failure then hands back socket and reader.
AttemptWaitFails ==
  /\ WaitFails
  /\ opening' = AfterStopReader
  /\ error' = IF cancelled THEN "cancelled" ELSE "failed"
  /\ cancelled' = FALSE
  /\ StopReader
  /\ link' = IF messageLoopTask = None THEN CloseSent ELSE link
  /\ UNCHANGED <<socket, flags, hadReader, closeVars, callerVars>>

ForgetAttempt ==
  /\ opening = "done"
  /\ opening' = "none" /\ error' = "none"
  /\ UNCHANGED <<network, signals, readerVars, hadReader, cancelled, closeVars, callerVars>>

-----------------------------------------------------------------------------
(* The deliberate close, _cancel_and_close(). *)

ClosingCancels ==
  /\ closing = "start" /\ opening # "none"
  /\ closing' = "cancelling"
  /\ cancelled' = AttemptIsLive
  /\ UNCHANGED <<network, signals, readerVars, opening, hadReader, error, stopped,
                 callerVars>>

\* There is no attempt, or the cancelled one has ended.
ClosingMayStop ==
  \/ closing = "start" /\ opening = "none"
  \/ closing = "cancelling" /\ ~AttemptIsLive

ClosingStops ==
  /\ ClosingMayStop
  /\ closing' = AfterStopReader
  /\ StopReader
  /\ link' = IF messageLoopTask = None THEN CloseSent ELSE link
  /\ UNCHANGED <<socket, flags, attemptVars, stopped, callerVars>>

ClosingStopped ==
  /\ closing = "stopping" /\ doomed = {}
  /\ closing' = "shutting"
  /\ link' = CloseSent
  /\ UNCHANGED <<socket, signals, readerVars, attemptVars, stopped, callerVars>>

ClosingShut ==
  /\ closing = "shutting" /\ SocketShut
  /\ closing' = "done"
  /\ ForgetSocket
  /\ UNCHANGED <<readinessGuard, readerVars, attemptVars, stopped, callerVars>>

ClosingShutRaises ==
  /\ closing = "shutting" /\ socket # None
  /\ closing' = "done"
  /\ ForgetSocket
  /\ UNCHANGED <<readinessGuard, readerVars, attemptVars, stopped, callerVars>>

ForgetClosing ==
  /\ closing = "done"
  /\ closing' = "none"
  /\ UNCHANGED <<network, signals, readerVars, attemptVars, stopped, callerVars>>

-----------------------------------------------------------------------------
(* A reader, _message_loop(). *)

Running(r) == r \notin doomed

\* Whether the loop goes round again: not after a final refusal.
RetriesFaulty == AutoReconnect
RetriesOnlyUnrefusedFaulty == AutoReconnect /\ fatalError = "none"
Retries == AutoReconnect /\ fatalError # "final"

\* _read_frames() has returned: sign out, then the backoff or the end.
EndReading(r) ==
  /\ SetAuthenticated(FALSE)
  /\ reader' = [reader EXCEPT ![r] = IF Retries THEN "sleeping" ELSE "off"]
  /\ readerSocket' = [readerSocket EXCEPT ![r] = None]
  /\ UNCHANGED <<initialized, initializedEvent, fatalError, messageLoopTask, doomed>>

\* The top of the loop: _read_frames() on whatever self.socket is now.
StartReading(r) ==
  \/ /\ socket = None
     /\ EndReading(r)
  \/ /\ socket # None
     /\ reader' = [reader EXCEPT ![r] = "reading"]
     /\ readerSocket' = [readerSocket EXCEPT ![r] = socket]
     /\ UNCHANGED <<flags, messageLoopTask, doomed>>

ReaderStart(r) ==
  /\ reader[r] = "start" /\ Running(r)
  /\ StartReading(r)
  /\ UNCHANGED <<network, readinessGuard, attemptVars, closeVars, callerVars>>

\* A frame is at hand: from a live link, or still unread on a closed one.
Receives(r) ==
  /\ reader[r] = "reading" /\ Running(r)
  /\ link[readerSocket[r]] # "spent"

SignIn(r) ==
  /\ Receives(r) /\ fatalError = "none"
  /\ SetAuthenticated(TRUE)
  /\ opening' = IF opening = "authenticating" THEN "authenticated" ELSE opening
  /\ UNCHANGED <<network, readinessGuard, initialized, initializedEvent, fatalError,
                 readerVars, hadReader, error, cancelled, closeVars, callerVars>>

\* The last frame of the full status, or a delta outside a stream of chunks.
\* The event also ends the readiness guard's wait.
MarkInitialized(r) ==
  /\ Receives(r) /\ fatalError = "none"
  /\ initialized' = TRUE /\ initializedEvent' = TRUE
  /\ readinessGuard' = FALSE
  /\ opening' = IF opening = "loading" THEN "loaded" ELSE opening
  /\ UNCHANGED <<network, authenticated, authenticatedEvent, fatalError, readerVars,
                 hadReader, error, cancelled, closeVars, callerVars>>

\* reject(): both waits are woken to find the refusal, and the socket goes.
\* The reader awaits the close, so it looks at no frame before the link shut.
Reject(r, kind) ==
  /\ Receives(r) /\ fatalError = "none"
  /\ fatalError' = kind
  /\ authenticated' = FALSE /\ authenticatedEvent' = TRUE
  /\ initializedEvent' = TRUE
  /\ readinessGuard' = FALSE
  /\ opening' = CASE opening = "authenticating" -> "authenticated"
                  [] opening = "loading" -> "loaded"
                  [] OTHER -> opening
  /\ link' = CloseSent
  /\ UNCHANGED <<socket, initialized, readerVars, hadReader, error, cancelled,
                 closeVars, callerVars>>

\* The iteration ends with the socket, or breaks on a frame behind a refusal,
\* which leaves what lies behind that frame unread.
ReaderEnds(r) ==
  /\ reader[r] = "reading" /\ Running(r)
  /\ \/ link[readerSocket[r]] = "spent" /\ UNCHANGED link
     \/ /\ link[readerSocket[r]] = "closed"
        /\ link' = [link EXCEPT ![readerSocket[r]] = "spent"]
     \/ /\ link[readerSocket[r]] = "closed" /\ fatalError # "none"
        /\ UNCHANGED link
  /\ EndReading(r)
  /\ UNCHANGED <<socket, readinessGuard, attemptVars, closeVars, callerVars>>

ReaderReconnects(r) ==
  /\ reader[r] = "sleeping" /\ Running(r) /\ Quiet
  /\ reader' = [reader EXCEPT ![r] = "connecting"]
  /\ Begin
  /\ UNCHANGED <<network, messageLoopTask, readerSocket, doomed, attemptVars,
                 closeVars, callerVars>>

ReaderConnected(r, s) ==
  /\ reader[r] = "connecting" /\ Running(r) /\ Quiet
  /\ FreshSocket(s)
  /\ socket' = s
  /\ link' = [Unnamed EXCEPT ![s] = "open"]
  /\ readinessGuard' = TRUE
  /\ reader' = [reader EXCEPT ![r] = "reading"]
  /\ readerSocket' = [readerSocket EXCEPT ![r] = s]
  /\ UNCHANGED <<flags, messageLoopTask, doomed, attemptVars, closeVars, callerVars>>

\* The loop starts over with the socket it had.
ReaderConnectFails(r) ==
  /\ reader[r] = "connecting" /\ Running(r) /\ Quiet
  /\ StartReading(r)
  /\ UNCHANGED <<network, readinessGuard, attemptVars, closeVars, callerVars>>

\* CancelledError reaches the reader; its `finally` signs out -- unless it was
\* cancelled before its first step and never ran.
DoomedEnds(r) ==
  /\ r \in doomed
  /\ doomed' = doomed \ {r}
  /\ reader' = [reader EXCEPT ![r] = "off"]
  /\ readerSocket' = [readerSocket EXCEPT ![r] = None]
  /\ IF reader[r] = "start"
     THEN UNCHANGED <<authenticated, authenticatedEvent>>
     ELSE SetAuthenticated(FALSE)
  /\ UNCHANGED <<network, readinessGuard, initialized, initializedEvent, fatalError,
                 messageLoopTask, attemptVars, closeVars, callerVars>>

-----------------------------------------------------------------------------
(* The readiness guard, and the network. *)

GuardTimeoutFaulty ==
  /\ readinessGuard /\ Quiet
  /\ readinessGuard' = FALSE
  /\ UNCHANGED <<network, flags, readerVars, attemptVars, closeVars, callerVars>>
GuardTimeout ==
  /\ readinessGuard /\ Quiet
  /\ readinessGuard' = FALSE
  /\ link' = CloseSent
  /\ UNCHANGED <<socket, flags, readerVars, attemptVars, closeVars, callerVars>>

LinkCloses(s) ==
  /\ link[s] = "closing"
  /\ link' = [link EXCEPT ![s] = "closed"]
  /\ UNCHANGED <<socket, signals, readerVars, attemptVars, closeVars, callerVars>>

LinkDrops(s) ==
  /\ link[s] = "open"
  /\ link' = [link EXCEPT ![s] = "closed"]
  /\ UNCHANGED <<socket, signals, readerVars, attemptVars, closeVars, callerVars>>

-----------------------------------------------------------------------------
CallerNext ==
  \/ \E c \in Callers : \/ Open(c) \/ OpenAfterClose(c) \/ OpenWaitsForClose(c)
                        \/ CancelCaller(c) \/ OpenReturns(c)
  \/ Close
  \/ ResumeReconnecting

AttemptNext ==
  \/ AttemptStart \/ AttemptFindsConnection \/ AttemptNeverStarts
  \/ AttemptStopped \/ AttemptShut
  \/ \E s \in Sockets, r \in Readers : AttemptConnected(s, r)
  \/ AttemptConnectFails
  \/ AttemptAuthenticated \/ AttemptLoaded \/ AttemptWaitFails
  \/ ForgetAttempt

ClosingNext ==
  ClosingCancels \/ ClosingStops \/ ClosingStopped \/ ClosingShut \/ ForgetClosing

\* The reader's own steps, as opposed to what the charger sends it.
ReaderTask(r) ==
  \/ ReaderStart(r) \/ ReaderEnds(r) \/ DoomedEnds(r)
  \/ ReaderReconnects(r)
  \/ \E s \in Sockets : ReaderConnected(r, s)
  \/ ReaderConnectFails(r)

Frame(r) ==
  SignIn(r) \/ MarkInitialized(r) \/ \E kind \in {"transient", "final"} : Reject(r, kind)

\* Nothing waits for a close to raise: it is part of no fairness.
ShutRaises == AttemptShutRaises \/ ClosingShutRaises

Next ==
  \/ CallerNext
  \/ AttemptNext
  \/ ClosingNext
  \/ ShutRaises
  \/ \E r \in Readers : ReaderTask(r) \/ Frame(r)
  \/ GuardTimeout
  \/ \E s \in Sockets : LinkCloses(s) \/ LinkDrops(s)

Spec == Init /\ [][Next]_vars

\* What the event loop, the library and the timers owe every task: a queued
\* step runs, a closing link shuts, a connect and a timed wait end some day.
\* A timer waits for Quiet, which callers can interrupt again and again, so the
\* tasks with timers are strongly fair.  Frames are owed by nobody, nor is
\* anything by the callers.
Fairness ==
  /\ SF_vars(AttemptNext) /\ SF_vars(ForgetAttempt)
  /\ WF_vars(ClosingNext)
  /\ SF_vars(\E r \in Readers : ReaderTask(r))
  /\ SF_vars(GuardTimeout)
  /\ WF_vars(\E s \in Sockets : LinkCloses(s))
  /\ WF_vars(\E c \in Callers : OpenAfterClose(c) \/ OpenReturns(c))

FairSpec == Spec /\ Fairness

-----------------------------------------------------------------------------
(* Safety. *)

Alive(r) == reader[r] # "off" /\ Running(r)

\* One transition at a time (the comment at _opening): a close tears nothing
\* down while an attempt still runs, and no open() lifts the stop meanwhile.
TransitionsExclusive ==
  /\ closing \in {"stopping", "shutting"} => ~AttemptIsLive
  /\ CloseIsLive => stopped

\* After a deliberate close and until the next open() nothing runs and nothing
\* is connected, whatever was opening, resuming or reconnecting at the time.
ClosedIsQuiet ==
  stopped /\ ~CloseIsLive =>
    /\ ~AttemptIsLive
    /\ \A r \in Readers : ~Alive(r)
    /\ ~readinessGuard
    /\ socket = None /\ ~authenticated
    /\ \A s \in Sockets : link[s] # "open"

\* Never two readers racing (the comment in _open): a reader that is not on
\* its way out is the one the connection knows and can cancel.
OneReader == \A r \in Readers : Alive(r) => r = messageLoopTask

\* No socket is left open behind the connection's back, or without a reader
\* that would notice its end, unless the tear-down has it.
OpenSocketIsRead ==
  \A s \in Sockets : link[s] = "open" =>
    /\ s = socket
    /\ \/ \E r \in Readers : Alive(r) /\ (reader[r] = "start" \/ readerSocket[r] = s)
       \/ "stopping" \in {opening, closing}

\* `connected` is never left standing without a reader on a socket, which is
\* what takes it back when the charger goes away.
ConnectedIsRead ==
  authenticated =>
    \/ \E r \in Readers : reader[r] = "reading" /\ readerSocket[r] = socket
    \/ "stopping" \in {opening, closing} \/ "shutting" \in {opening, closing}

\* A refused connection is signed out, and after a final refusal no reader
\* tries again by itself.
RefusalHolds ==
  /\ fatalError # "none" => ~authenticated
  /\ fatalError = "final" =>
       \A r \in Readers : Alive(r) => reader[r] \notin {"sleeping", "connecting"}

-----------------------------------------------------------------------------
(* What the client and the hub see of all this. *)

Promise == INSTANCE ConnectionPromise WITH
  phase <- IF ~stopped THEN "running" ELSE IF CloseIsLive THEN "stopping" ELSE "stopped",
  connected <- authenticated,
  refusal <- fatalError,
  trying <- AttemptIsLive

\* The tasks together keep the promise: a stopped connection stays as it is,
\* and a final refusal stands until somebody calls open().
KeepsPromise == Promise!Spec

-----------------------------------------------------------------------------
(* The inductive invariant behind the safety properties, by its parts. *)

InTearDown(pc) == pc \in {"stopping", "shutting"}
TearingDown == InTearDown(opening) \/ InTearDown(closing)

\* The reader named by messageLoopTask is the only one that goes on.
ReaderPart ==
  /\ OneReader
  /\ messageLoopTask \notin doomed
  /\ TearingDown \/ opening = "connecting" => messageLoopTask = None
  /\ readinessGuard => messageLoopTask # None

\* The socket belongs to that reader, which reads it while it is open.
SocketPart ==
  /\ \A s \in Sockets : link[s] = "open" => s = socket
  /\ socket # None => messageLoopTask # None \/ TearingDown
  /\ messageLoopTask # None =>
       LET where == reader[messageLoopTask] IN
       /\ where = "reading" => socket # None /\ readerSocket[messageLoopTask] = socket
       /\ where \notin {"start", "reading"} => socket = None \/ link[socket] # "open"
  /\ "shutting" \in {opening, closing} => socket = None \/ link[socket] # "open"

SignedInPart ==
  authenticated =>
    TearingDown \/ (messageLoopTask # None /\ reader[messageLoopTask] = "reading")

LoadedPart ==
  /\ initializedEvent /\ fatalError = "none" => initialized
  /\ opening = "loaded" /\ fatalError = "none" => initialized

ClosedPart ==
  stopped /\ ~CloseIsLive =>
    ~AttemptIsLive /\ messageLoopTask = None /\ socket = None /\ ~authenticated

\* Together they imply every safety property above.  None of those is
\* inductive alone: that a closed connection is quiet rests on who may start
\* a reader when, that rests on the transitions excluding one another.
Inv ==
  /\ TypeOK /\ TransitionsExclusive /\ ReaderPart /\ SocketPart /\ SignedInPart
  /\ RefusalHolds /\ LoadedPart /\ ClosedPart

-----------------------------------------------------------------------------
(* Action properties. *)

AttemptFinishes == AttemptIsLive /\ opening' = "done"

\* open() returns only when the full status of this very connection arrived:
\* no event of an earlier socket lets it through (the docstring of begin).
OpenMeansLoaded == [][AttemptFinishes /\ error' = "none" => initialized']_vars

\* An attempt that took over from a reader and came to nothing leaves a reader
\* behind that goes on retrying, unless someone closed or the charger refused.
RecoveryKept ==
  [][ /\ AttemptFinishes /\ error' # "none" /\ hadReader /\ opening # "start"
      /\ AutoReconnect /\ ~stopped' /\ fatalError' # "final"
      => \E r \in Readers : Alive(r)' ]_vars

\* A caller that is given up on takes down the attempt it awaited, socket and
\* reader included (the comment in open), if that attempt made them.  Stated
\* for a single caller.  The code does not keep this: see the README.
GivenUpOpenLeavesNothing ==
  [][\A c \in Callers :
       caller[c] = "succeeded" /\ caller'[c] = "idle" /\ c \in gaveUp /\ ~hadReader
       => socket = None]_vars

-----------------------------------------------------------------------------
(* Liveness. *)

\* Every open() is answered, even by a charger that accepts and stays silent,
\* unless closes follow on one another forever.
OpenAnswered ==
  <>[](closing = "none") => \A c \in Callers : caller[c] # "idle" ~> caller[c] = "idle"

\* close() comes to its end although readers, attempts and sockets are in
\* every possible state when it is called.
CloseCompletes == closing = "start" ~> closing = "done"

\* A socket on which the charger never completes the handshake or the status
\* is given up: by the open's timeout, or after a reconnect by the guard.
Stalled == socket # None /\ link[socket] = "open" /\ ~initialized

NoSocketStalls == Stalled ~> ~Stalled

\* A connect that is tried again and again succeeds.
ChargerIsReachable == SF_vars(\E r \in Readers, s \in Sockets : ReaderConnected(r, s))

\* Left alone by callers, and with a charger that can be reached, a connection
\* that once had a reader gets a socket again after every loss, unless it was
\* closed or refused for good.
Recovers ==
  ChargerIsReachable /\ <>[](opening = "none" /\ closing = "none") =>
     [](messageLoopTask # None /\ AutoReconnect
          => <>(fatalError = "final" \/ messageLoopTask = None
                \/ (socket # None /\ link[socket] = "open")))
=============================================================================
