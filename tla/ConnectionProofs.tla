-------------------------- MODULE ConnectionProofs --------------------------
(***************************************************************************)
(* Proofs about Connection, for any sets of callers, readers and sockets   *)
(* and with or without automatic reconnects.  Inv is inductive: one step   *)
(* per action shows that it is preserved, and every safety property of     *)
(* Connection and both its action properties follow from it.  The types of *)
(* the flags are proved apart from the rest: the SMT solver handles flags  *)
(* best when their type is not among the facts it is given.                *)
(***************************************************************************)
EXTENDS Connection, TLAPS

USE NoneAssumption, AutoReconnectAssumption
USE DEF network, flags, signals, readerVars, attemptVars, closeVars, callerVars,
        LinkStates, ReaderStates, ErrorStates, AttemptLive, ClosingLive, Outcomes,
        AttemptIsLive, CloseIsLive, Running, Alive

-----------------------------------------------------------------------------
(* Type correctness. *)

\* Every step keeps the types: the shapes of tasks, sockets and callers first,
\* then the flags.
LEMMA TypeStep == ASSUME TypeOK, [Next]_vars PROVE TypeOK'
<1>1. ASSUME NEW c \in Callers, Open(c)
      PROVE  TypeOK'
  <2>1. TaskTypes' BY <1>1 DEF TypeOK, TaskTypes, FlagTypes, Open, JoinAttempt
  <2>2. FlagTypes' BY <1>1 DEF TypeOK, TaskTypes, FlagTypes, Open, JoinAttempt
  <2>. QED BY <2>1, <2>2 DEF TypeOK
<1>2. ASSUME NEW c \in Callers, OpenAfterClose(c)
      PROVE  TypeOK'
  <2>1. TaskTypes' BY <1>2 DEF TypeOK, TaskTypes, FlagTypes, OpenAfterClose,
      JoinAttempt
  <2>2. FlagTypes' BY <1>2 DEF TypeOK, TaskTypes, FlagTypes, OpenAfterClose,
      JoinAttempt
  <2>. QED BY <2>1, <2>2 DEF TypeOK
<1>3. ASSUME NEW c \in Callers, OpenWaitsForClose(c)
      PROVE  TypeOK'
  <2>1. TaskTypes' BY <1>3 DEF TypeOK, TaskTypes, FlagTypes, OpenWaitsForClose
  <2>2. FlagTypes' BY <1>3 DEF TypeOK, TaskTypes, FlagTypes, OpenWaitsForClose
  <2>. QED BY <2>1, <2>2 DEF TypeOK
<1>4. ASSUME NEW c \in Callers, CancelCaller(c)
      PROVE  TypeOK'
  <2>1. TaskTypes' BY <1>4 DEF TypeOK, TaskTypes, FlagTypes, CancelCaller
  <2>2. FlagTypes' BY <1>4 DEF TypeOK, TaskTypes, FlagTypes, CancelCaller
  <2>. QED BY <2>1, <2>2 DEF TypeOK
<1>5. ASSUME NEW c \in Callers, OpenReturns(c)
      PROVE  TypeOK'
  <2>1. TaskTypes' BY <1>5 DEF TypeOK, TaskTypes, FlagTypes, OpenReturns
  <2>2. FlagTypes' BY <1>5 DEF TypeOK, TaskTypes, FlagTypes, OpenReturns
  <2>. QED BY <2>1, <2>2 DEF TypeOK
<1>6. CASE Close
  <2>1. TaskTypes' BY <1>6 DEF TypeOK, TaskTypes, FlagTypes, Close
  <2>2. FlagTypes' BY <1>6 DEF TypeOK, TaskTypes, FlagTypes, Close
  <2>. QED BY <2>1, <2>2 DEF TypeOK
<1>7. CASE ResumeReconnecting
  <2>1. TaskTypes' BY <1>7 DEF TypeOK, TaskTypes, FlagTypes,
      ResumeReconnecting, MayResume, StartReader, NewReader
  <2>2. FlagTypes' BY <1>7 DEF TypeOK, TaskTypes, FlagTypes,
      ResumeReconnecting, MayResume, StartReader, NewReader
  <2>. QED BY <2>1, <2>2 DEF TypeOK
<1>8. CASE AttemptStart
  <2>1. TaskTypes' BY <1>8 DEF TypeOK, TaskTypes, FlagTypes, AttemptStart,
      StopReader, Begin
  <2>2. FlagTypes' BY <1>8 DEF TypeOK, TaskTypes, FlagTypes, AttemptStart,
      StopReader, Begin
  <2>. QED BY <2>1, <2>2 DEF TypeOK
<1>9. CASE AttemptFindsConnection
  <2>1. TaskTypes' BY <1>9 DEF TypeOK, TaskTypes, FlagTypes,
      AttemptFindsConnection, AttemptEnds, HandsBack
  <2>2. FlagTypes' BY <1>9 DEF TypeOK, TaskTypes, FlagTypes,
      AttemptFindsConnection, AttemptEnds, HandsBack
  <2>. QED BY <2>1, <2>2 DEF TypeOK
<1>10. CASE AttemptNeverStarts
  <2>1. TaskTypes' BY <1>10 DEF TypeOK, TaskTypes, FlagTypes,
      AttemptNeverStarts, AttemptEnds, HandsBack
  <2>2. FlagTypes' BY <1>10 DEF TypeOK, TaskTypes, FlagTypes,
      AttemptNeverStarts, AttemptEnds, HandsBack
  <2>. QED BY <2>1, <2>2 DEF TypeOK
<1>11. CASE AttemptStopped
  <2>1. TaskTypes' BY <1>11 DEF TypeOK, TaskTypes, FlagTypes, AttemptStopped,
      CloseSent
  <2>2. FlagTypes' BY <1>11 DEF TypeOK, TaskTypes, FlagTypes, AttemptStopped,
      CloseSent
  <2>. QED BY <2>1, <2>2 DEF TypeOK
<1>12. CASE AttemptShut
  <2>1. TaskTypes' BY <1>12 DEF TypeOK, TaskTypes, FlagTypes, AttemptShut,
      SocketShut, Unnamed, ForgetSocket, SetAuthenticated, AttemptEnds,
      HandsBack, MayResume, StartReader, NewReader
  <2>2. FlagTypes' BY <1>12 DEF TypeOK, TaskTypes, FlagTypes, AttemptShut,
      SocketShut, Unnamed, ForgetSocket, SetAuthenticated, AttemptEnds,
      HandsBack, MayResume, StartReader, NewReader
  <2>. QED BY <2>1, <2>2 DEF TypeOK
<1>13. ASSUME NEW s \in Sockets, NEW r \in Readers, AttemptConnected(s, r)
      PROVE  TypeOK'
  <2>1. TaskTypes' BY <1>13 DEF TypeOK, TaskTypes, FlagTypes, AttemptConnected,
      FreshSocket, StartReader, NewReader, Quiet
  <2>2. FlagTypes' BY <1>13 DEF TypeOK, TaskTypes, FlagTypes, AttemptConnected,
      FreshSocket, StartReader, NewReader, Quiet
  <2>. QED BY <2>1, <2>2 DEF TypeOK
<1>14. CASE AttemptConnectFails
  <2>1. TaskTypes' BY <1>14 DEF TypeOK, TaskTypes, FlagTypes,
      AttemptConnectFails, AttemptEnds, HandsBack, MayResume, StartReader,
      NewReader
  <2>2. FlagTypes' BY <1>14 DEF TypeOK, TaskTypes, FlagTypes,
      AttemptConnectFails, AttemptEnds, HandsBack, MayResume, StartReader,
      NewReader
  <2>. QED BY <2>1, <2>2 DEF TypeOK
<1>15. CASE AttemptAuthenticated
  <2>1. TaskTypes' BY <1>15 DEF TypeOK, TaskTypes, FlagTypes,
      AttemptAuthenticated
  <2>2. FlagTypes' BY <1>15 DEF TypeOK, TaskTypes, FlagTypes,
      AttemptAuthenticated
  <2>. QED BY <2>1, <2>2 DEF TypeOK
<1>16. CASE AttemptLoaded
  <2>1. TaskTypes' BY <1>16 DEF TypeOK, TaskTypes, FlagTypes, AttemptLoaded,
      AttemptEnds, HandsBack
  <2>2. FlagTypes' BY <1>16 DEF TypeOK, TaskTypes, FlagTypes, AttemptLoaded,
      AttemptEnds, HandsBack
  <2>. QED BY <2>1, <2>2 DEF TypeOK
<1>17. CASE AttemptWaitFails
  <2>1. TaskTypes' BY <1>17 DEF TypeOK, TaskTypes, FlagTypes, AttemptWaitFails,
      WaitFails, AfterStopReader, StopReader, CloseSent
  <2>2. FlagTypes' BY <1>17 DEF TypeOK, TaskTypes, FlagTypes, AttemptWaitFails,
      WaitFails, AfterStopReader, StopReader, CloseSent
  <2>. QED BY <2>1, <2>2 DEF TypeOK
<1>18. CASE ForgetAttempt
  <2>1. TaskTypes' BY <1>18 DEF TypeOK, TaskTypes, FlagTypes, ForgetAttempt
  <2>2. FlagTypes' BY <1>18 DEF TypeOK, TaskTypes, FlagTypes, ForgetAttempt
  <2>. QED BY <2>1, <2>2 DEF TypeOK
<1>19. CASE ClosingCancels
  <2>1. TaskTypes' BY <1>19 DEF TypeOK, TaskTypes, FlagTypes, ClosingCancels
  <2>2. FlagTypes' BY <1>19 DEF TypeOK, TaskTypes, FlagTypes, ClosingCancels
  <2>. QED BY <2>1, <2>2 DEF TypeOK
<1>20. CASE ClosingStops
  <2>1. TaskTypes' BY <1>20 DEF TypeOK, TaskTypes, FlagTypes, ClosingStops,
      ClosingMayStop, AfterStopReader, StopReader, CloseSent
  <2>2. FlagTypes' BY <1>20 DEF TypeOK, TaskTypes, FlagTypes, ClosingStops,
      ClosingMayStop, AfterStopReader, StopReader, CloseSent
  <2>. QED BY <2>1, <2>2 DEF TypeOK
<1>21. CASE ClosingStopped
  <2>1. TaskTypes' BY <1>21 DEF TypeOK, TaskTypes, FlagTypes, ClosingStopped,
      CloseSent
  <2>2. FlagTypes' BY <1>21 DEF TypeOK, TaskTypes, FlagTypes, ClosingStopped,
      CloseSent
  <2>. QED BY <2>1, <2>2 DEF TypeOK
<1>22. CASE ClosingShut
  <2>1. TaskTypes' BY <1>22 DEF TypeOK, TaskTypes, FlagTypes, ClosingShut,
      SocketShut, ForgetSocket, Unnamed, SetAuthenticated
  <2>2. FlagTypes' BY <1>22 DEF TypeOK, TaskTypes, FlagTypes, ClosingShut,
      SocketShut, ForgetSocket, Unnamed, SetAuthenticated
  <2>. QED BY <2>1, <2>2 DEF TypeOK
<1>23. CASE ForgetClosing
  <2>1. TaskTypes' BY <1>23 DEF TypeOK, TaskTypes, FlagTypes, ForgetClosing
  <2>2. FlagTypes' BY <1>23 DEF TypeOK, TaskTypes, FlagTypes, ForgetClosing
  <2>. QED BY <2>1, <2>2 DEF TypeOK
<1>24. ASSUME NEW r \in Readers, ReaderStart(r)
      PROVE  TypeOK'
  <2>1. TaskTypes' BY <1>24 DEF TypeOK, TaskTypes, FlagTypes, ReaderStart,
      StartReading, EndReading, Retries, SetAuthenticated
  <2>2. FlagTypes' BY <1>24 DEF TypeOK, TaskTypes, FlagTypes, ReaderStart,
      StartReading, EndReading, Retries, SetAuthenticated
  <2>. QED BY <2>1, <2>2 DEF TypeOK
<1>25. ASSUME NEW r \in Readers, ReaderEnds(r)
      PROVE  TypeOK'
  <2>1. TaskTypes' BY <1>25 DEF TypeOK, TaskTypes, FlagTypes, ReaderEnds,
      EndReading, Retries, SetAuthenticated
  <2>2. FlagTypes' BY <1>25 DEF TypeOK, TaskTypes, FlagTypes, ReaderEnds,
      EndReading, Retries, SetAuthenticated
  <2>. QED BY <2>1, <2>2 DEF TypeOK
<1>26. ASSUME NEW r \in Readers, DoomedEnds(r)
      PROVE  TypeOK'
  <2>1. TaskTypes' BY <1>26 DEF TypeOK, TaskTypes, FlagTypes, DoomedEnds,
      SetAuthenticated
  <2>2. FlagTypes' BY <1>26 DEF TypeOK, TaskTypes, FlagTypes, DoomedEnds,
      SetAuthenticated
  <2>. QED BY <2>1, <2>2 DEF TypeOK
<1>27. ASSUME NEW r \in Readers, ReaderReconnects(r)
      PROVE  TypeOK'
  <2>1. TaskTypes' BY <1>27 DEF TypeOK, TaskTypes, FlagTypes, ReaderReconnects,
      Begin, Quiet
  <2>2. FlagTypes' BY <1>27 DEF TypeOK, TaskTypes, FlagTypes, ReaderReconnects,
      Begin, Quiet
  <2>. QED BY <2>1, <2>2 DEF TypeOK
<1>28. ASSUME NEW s \in Sockets, NEW r \in Readers, ReaderConnected(r, s)
      PROVE  TypeOK'
  <2>1. TaskTypes' BY <1>28 DEF TypeOK, TaskTypes, FlagTypes, ReaderConnected,
      FreshSocket, Unnamed
  <2>2. FlagTypes' BY <1>28 DEF TypeOK, TaskTypes, FlagTypes, ReaderConnected,
      FreshSocket, Unnamed
  <2>. QED BY <2>1, <2>2 DEF TypeOK
<1>29. ASSUME NEW r \in Readers, ReaderConnectFails(r)
      PROVE  TypeOK'
  <2>1. TaskTypes' BY <1>29 DEF TypeOK, TaskTypes, FlagTypes,
      ReaderConnectFails, StartReading, EndReading, Retries, SetAuthenticated
  <2>2. FlagTypes' BY <1>29 DEF TypeOK, TaskTypes, FlagTypes,
      ReaderConnectFails, StartReading, EndReading, Retries, SetAuthenticated
  <2>. QED BY <2>1, <2>2 DEF TypeOK
<1>30. ASSUME NEW r \in Readers, SignIn(r)
      PROVE  TypeOK'
  <2>1. TaskTypes' BY <1>30 DEF TypeOK, TaskTypes, FlagTypes, SignIn, Receives,
      SetAuthenticated
  <2>2. FlagTypes' BY <1>30 DEF TypeOK, TaskTypes, FlagTypes, SignIn, Receives,
      SetAuthenticated
  <2>. QED BY <2>1, <2>2 DEF TypeOK
<1>31. ASSUME NEW r \in Readers, MarkInitialized(r)
      PROVE  TypeOK'
  <2>1. TaskTypes' BY <1>31 DEF TypeOK, TaskTypes, FlagTypes, MarkInitialized,
      Receives
  <2>2. FlagTypes' BY <1>31 DEF TypeOK, TaskTypes, FlagTypes, MarkInitialized,
      Receives
  <2>. QED BY <2>1, <2>2 DEF TypeOK
<1>32. ASSUME NEW r \in Readers, NEW kind \in {"transient", "final"}, Reject(r, kind)
      PROVE  TypeOK'
  <2>1. TaskTypes' BY <1>32 DEF TypeOK, TaskTypes, FlagTypes, Reject, Receives,
      CloseSent
  <2>2. FlagTypes' BY <1>32 DEF TypeOK, TaskTypes, FlagTypes, Reject, Receives,
      CloseSent
  <2>. QED BY <2>1, <2>2 DEF TypeOK
<1>33. CASE GuardTimeout
  <2>1. TaskTypes' BY <1>33 DEF TypeOK, TaskTypes, FlagTypes, GuardTimeout,
      CloseSent
  <2>2. FlagTypes' BY <1>33 DEF TypeOK, TaskTypes, FlagTypes, GuardTimeout,
      CloseSent
  <2>. QED BY <2>1, <2>2 DEF TypeOK
<1>34. ASSUME NEW s \in Sockets, LinkCloses(s)
      PROVE  TypeOK'
  <2>1. TaskTypes' BY <1>34 DEF TypeOK, TaskTypes, FlagTypes, LinkCloses
  <2>2. FlagTypes' BY <1>34 DEF TypeOK, TaskTypes, FlagTypes, LinkCloses
  <2>. QED BY <2>1, <2>2 DEF TypeOK
<1>35. ASSUME NEW s \in Sockets, LinkDrops(s)
      PROVE  TypeOK'
  <2>1. TaskTypes' BY <1>35 DEF TypeOK, TaskTypes, FlagTypes, LinkDrops
  <2>2. FlagTypes' BY <1>35 DEF TypeOK, TaskTypes, FlagTypes, LinkDrops
  <2>. QED BY <2>1, <2>2 DEF TypeOK
<1>36. CASE UNCHANGED vars
  BY <1>36 DEF vars, TypeOK, TaskTypes, FlagTypes
<1>37. CASE AttemptShutRaises
  <2>1. TaskTypes' BY <1>37 DEF TypeOK, TaskTypes, FlagTypes, AttemptShutRaises,
      Unnamed, ForgetSocket, SetAuthenticated, AttemptEnds, HandsBack, MayResume,
      StartReader, NewReader
  <2>2. FlagTypes' BY <1>37 DEF TypeOK, TaskTypes, FlagTypes, AttemptShutRaises,
      ForgetSocket, SetAuthenticated, AttemptEnds
  <2>. QED BY <2>1, <2>2 DEF TypeOK
<1>38. CASE ClosingShutRaises
  <2>1. TaskTypes' BY <1>38 DEF TypeOK, TaskTypes, FlagTypes, ClosingShutRaises,
      ForgetSocket, Unnamed, SetAuthenticated
  <2>2. FlagTypes' BY <1>38 DEF TypeOK, TaskTypes, FlagTypes, ClosingShutRaises,
      ForgetSocket, SetAuthenticated
  <2>. QED BY <2>1, <2>2 DEF TypeOK
<1>. QED BY <1>1, <1>2, <1>3, <1>4, <1>5, <1>6, <1>7, <1>8, <1>9, <1>10, <1>11,
            <1>12, <1>13, <1>14, <1>15, <1>16, <1>17, <1>18, <1>19, <1>20,
            <1>21, <1>22, <1>23, <1>24, <1>25, <1>26, <1>27, <1>28, <1>29,
            <1>30, <1>31, <1>32, <1>33, <1>34, <1>35, <1>36, <1>37, <1>38
      DEF Next, CallerNext, AttemptNext, ClosingNext, ShutRaises, ReaderTask, Frame

LEMMA TypeInit == Init => TypeOK
BY DEF Init, TypeOK, TaskTypes, FlagTypes

\* Every field of a connection and of its tasks stays within its type, in
\* particular message_loop_task names a reader and socket a WebSocket or None.
THEOREM TypeCorrect == Spec => []TypeOK
BY TypeInit, TypeStep, PTL DEF Spec

-----------------------------------------------------------------------------
(* The inductive invariant. *)

\* Inv without the types.
Parts ==
  /\ TransitionsExclusive /\ ReaderPart /\ SocketPart /\ SignedInPart
  /\ RefusalHolds /\ LoadedPart /\ ClosedPart

LEMMA InvInit == Init => Inv
<1>. SUFFICES ASSUME Init PROVE Inv
  OBVIOUS
<1>1. TypeOK BY TypeInit
<1>2. Parts
  BY DEF Init, Parts, TransitionsExclusive, ReaderPart, OneReader, SocketPart,
         SignedInPart, RefusalHolds, LoadedPart, ClosedPart, TearingDown, InTearDown
<1>. QED BY <1>1, <1>2 DEF Inv, Parts

\* Every step keeps the invariant, whichever task takes it.
LEMMA InvStep == ASSUME Inv, [Next]_vars PROVE Inv'
<1>. USE DEF TaskTypes, Parts, TransitionsExclusive, ReaderPart, OneReader, SocketPart,
             SignedInPart, RefusalHolds, LoadedPart, ClosedPart, TearingDown, InTearDown
<1>0. TaskTypes /\ Parts
  BY DEF Inv, TypeOK
<1>1. ASSUME NEW c \in Callers, Open(c) PROVE Parts'
  BY <1>0, <1>1 DEF Open, JoinAttempt
<1>2. ASSUME NEW c \in Callers, OpenAfterClose(c) PROVE Parts'
  BY <1>0, <1>2 DEF OpenAfterClose, JoinAttempt
<1>3. ASSUME NEW c \in Callers, OpenWaitsForClose(c) PROVE Parts'
  BY <1>0, <1>3 DEF OpenWaitsForClose
<1>4. ASSUME NEW c \in Callers, CancelCaller(c) PROVE Parts'
  BY <1>0, <1>4 DEF CancelCaller
<1>5. ASSUME NEW c \in Callers, OpenReturns(c) PROVE Parts'
  BY <1>0, <1>5 DEF OpenReturns
<1>6. ASSUME Close PROVE Parts'
  BY <1>0, <1>6 DEF Close
<1>7. ASSUME ResumeReconnecting PROVE Parts'
  BY <1>0, <1>7 DEF ResumeReconnecting, MayResume, StartReader, NewReader
<1>8. ASSUME AttemptStart PROVE Parts'
  BY <1>0, <1>8 DEF AttemptStart, StopReader, Begin
<1>9. ASSUME AttemptFindsConnection PROVE Parts'
  BY <1>0, <1>9 DEF AttemptFindsConnection, AttemptEnds, HandsBack
<1>10. ASSUME AttemptNeverStarts PROVE Parts'
  BY <1>0, <1>10 DEF AttemptNeverStarts, AttemptEnds, HandsBack
<1>11. ASSUME AttemptStopped PROVE Parts'
  BY <1>0, <1>11 DEF AttemptStopped, CloseSent
<1>12. ASSUME AttemptShut PROVE Parts'
  BY <1>0, <1>12 DEF AttemptShut, SocketShut, Unnamed, ForgetSocket,
      SetAuthenticated, AttemptEnds, HandsBack, MayResume, StartReader,
      NewReader
<1>13. ASSUME NEW s \in Sockets, NEW r \in Readers, AttemptConnected(s, r) PROVE Parts'
  BY <1>0, <1>13 DEF AttemptConnected, FreshSocket, StartReader, NewReader,
      Quiet
<1>14. ASSUME AttemptConnectFails PROVE Parts'
  BY <1>0, <1>14 DEF AttemptConnectFails, AttemptEnds, HandsBack, MayResume,
      StartReader, NewReader
<1>15. ASSUME AttemptAuthenticated PROVE Parts'
  BY <1>0, <1>15 DEF AttemptAuthenticated
<1>16. ASSUME AttemptLoaded PROVE Parts'
  BY <1>0, <1>16 DEF AttemptLoaded, AttemptEnds, HandsBack
<1>17. ASSUME AttemptWaitFails PROVE Parts'
  BY <1>0, <1>17 DEF AttemptWaitFails, WaitFails, AfterStopReader, StopReader,
      CloseSent
<1>18. ASSUME ForgetAttempt PROVE Parts'
  BY <1>0, <1>18 DEF ForgetAttempt
<1>19. ASSUME ClosingCancels PROVE Parts'
  BY <1>0, <1>19 DEF ClosingCancels
<1>20. ASSUME ClosingStops PROVE Parts'
  BY <1>0, <1>20 DEF ClosingStops, ClosingMayStop, AfterStopReader, StopReader,
      CloseSent
<1>21. ASSUME ClosingStopped PROVE Parts'
  BY <1>0, <1>21 DEF ClosingStopped, CloseSent
<1>22. ASSUME ClosingShut PROVE Parts'
  BY <1>0, <1>22 DEF ClosingShut, SocketShut, ForgetSocket, Unnamed,
      SetAuthenticated
<1>23. ASSUME ForgetClosing PROVE Parts'
  BY <1>0, <1>23 DEF ForgetClosing
<1>24. ASSUME NEW r \in Readers, ReaderStart(r) PROVE Parts'
  BY <1>0, <1>24 DEF ReaderStart, StartReading, EndReading, Retries,
      SetAuthenticated
<1>25. ASSUME NEW r \in Readers, ReaderEnds(r) PROVE Parts'
  BY <1>0, <1>25 DEF ReaderEnds, EndReading, Retries, SetAuthenticated
<1>26. ASSUME NEW r \in Readers, DoomedEnds(r) PROVE Parts'
  BY <1>0, <1>26 DEF DoomedEnds, SetAuthenticated
<1>27. ASSUME NEW r \in Readers, ReaderReconnects(r) PROVE Parts'
  BY <1>0, <1>27 DEF ReaderReconnects, Begin, Quiet
<1>28. ASSUME NEW s \in Sockets, NEW r \in Readers, ReaderConnected(r, s) PROVE Parts'
  BY <1>0, <1>28 DEF ReaderConnected, FreshSocket, Unnamed
<1>29. ASSUME NEW r \in Readers, ReaderConnectFails(r) PROVE Parts'
  BY <1>0, <1>29 DEF ReaderConnectFails, StartReading, EndReading, Retries,
      SetAuthenticated
<1>30. ASSUME NEW r \in Readers, SignIn(r) PROVE Parts'
  BY <1>0, <1>30 DEF SignIn, Receives, SetAuthenticated
<1>31. ASSUME NEW r \in Readers, MarkInitialized(r) PROVE Parts'
  BY <1>0, <1>31 DEF MarkInitialized, Receives
<1>32. ASSUME NEW r \in Readers, NEW kind \in {"transient", "final"}, Reject(r, kind) PROVE Parts'
  BY <1>0, <1>32 DEF Reject, Receives, CloseSent
<1>33. ASSUME GuardTimeout PROVE Parts'
  BY <1>0, <1>33 DEF GuardTimeout, CloseSent
<1>34. ASSUME NEW s \in Sockets, LinkCloses(s) PROVE Parts'
  BY <1>0, <1>34 DEF LinkCloses
<1>35. ASSUME NEW s \in Sockets, LinkDrops(s) PROVE Parts'
  BY <1>0, <1>35 DEF LinkDrops
<1>36. ASSUME UNCHANGED vars PROVE Parts'
  BY <1>0, <1>36 DEF vars
<1>37. ASSUME AttemptShutRaises PROVE Parts'
  BY <1>0, <1>37 DEF AttemptShutRaises, Unnamed, ForgetSocket, SetAuthenticated,
      AttemptEnds, HandsBack, MayResume, StartReader, NewReader
<1>38. ASSUME ClosingShutRaises PROVE Parts'
  BY <1>0, <1>38 DEF ClosingShutRaises, ForgetSocket, Unnamed, SetAuthenticated
<1>39. Parts'
  BY <1>1, <1>2, <1>3, <1>4, <1>5, <1>6, <1>7, <1>8, <1>9, <1>10, <1>11, <1>12,
     <1>13, <1>14, <1>15, <1>16, <1>17, <1>18, <1>19, <1>20, <1>21, <1>22,
     <1>23, <1>24, <1>25, <1>26, <1>27, <1>28, <1>29, <1>30, <1>31, <1>32,
     <1>33, <1>34, <1>35, <1>36, <1>37, <1>38
     DEF Next, CallerNext, AttemptNext, ClosingNext, ShutRaises, ReaderTask, Frame
<1>40. TypeOK'
  BY TypeStep DEF Inv
<1>. QED BY <1>39, <1>40 DEF Inv

\* The invariant of the connection: its tasks exclude one another, one reader
\* goes on, it owns the socket, and `authenticated` hangs on it.
THEOREM Invariance == Spec => []Inv
BY InvInit, InvStep, PTL DEF Spec

-----------------------------------------------------------------------------
(* What the invariant implies. *)

\* While a close tears down no attempt runs, and nobody lifts the stop.
THEOREM TransitionsExclude == Spec => []TransitionsExclusive
<1>1. Inv => TransitionsExclusive
  BY DEF Inv
<1>. QED BY <1>1, Invariance, PTL

\* No two readers ever race for the connection.
THEOREM NoSecondReader == Spec => []OneReader
<1>1. Inv => OneReader
  BY DEF Inv, ReaderPart
<1>. QED BY <1>1, Invariance, PTL

\* After a close nothing runs and nothing is connected until the next open:
\* no reader can be alive, for it would be the one messageLoopTask names.
THEOREM ClosedStaysQuiet == Spec => []ClosedIsQuiet
<1>1. Inv => ClosedIsQuiet
  BY DEF Inv, TypeOK, TaskTypes, ReaderPart, OneReader, SocketPart, ClosedPart, ClosedIsQuiet
<1>. QED BY <1>1, Invariance, PTL

\* An open socket is the connection's own and has a reader, or is about to be
\* closed by the tear-down that stops this reader.
THEOREM OpenSocketsAreRead == Spec => []OpenSocketIsRead
<1>1. ASSUME Inv, NEW s \in Sockets, link[s] = "open", "stopping" \notin {opening, closing}
      PROVE  s = socket /\ \E r \in Readers :
               Alive(r) /\ (reader[r] = "start" \/ readerSocket[r] = s)
  <2>1. s = socket /\ socket # None
    BY <1>1 DEF Inv, SocketPart
  <2>2. messageLoopTask \in Readers /\ messageLoopTask \notin doomed
    BY <1>1, <2>1 DEF Inv, TypeOK, TaskTypes, ReaderPart, SocketPart, TearingDown, InTearDown
  <2>3. reader[messageLoopTask] \in {"start", "reading"}
    BY <1>1, <2>1, <2>2 DEF Inv, SocketPart
  <2>. QED BY <1>1, <2>1, <2>2, <2>3 DEF Inv, SocketPart
<1>2. Inv => OpenSocketIsRead
  BY <1>1 DEF OpenSocketIsRead, Inv, SocketPart
<1>. QED BY <1>2, Invariance, PTL

\* `connected` never stands without a reader that would take it back.
THEOREM ConnectedIsBacked == Spec => []ConnectedIsRead
<1>1. Inv => ConnectedIsRead
  BY DEF Inv, TypeOK, TaskTypes, SocketPart, SignedInPart, ConnectedIsRead,
         TearingDown, InTearDown
<1>. QED BY <1>1, Invariance, PTL

\* A refused connection is signed out and a final refusal is not retried.
THEOREM RefusalsHold == Spec => []RefusalHolds
<1>1. Inv => RefusalHolds
  BY DEF Inv
<1>. QED BY <1>1, Invariance, PTL

-----------------------------------------------------------------------------
(* Action properties. *)

\* open() succeeds only on the full status of the connection it reports.
THEOREM OpenedIsLoaded == Spec => OpenMeansLoaded
<1>1. ASSUME Inv, [Next]_vars, AttemptFinishes, error' = "none"
      PROVE  initialized'
  <2>1. AttemptFindsConnection \/ AttemptLoaded
    BY <1>1 DEF Inv, TypeOK, TaskTypes, AttemptFinishes, vars, Next, CallerNext, AttemptNext,
      ClosingNext, ReaderTask, Frame, Open, OpenAfterClose, JoinAttempt, OpenWaitsForClose,
      CancelCaller, OpenReturns, Close, ResumeReconnecting, AttemptStart, AttemptNeverStarts,
      AttemptStopped, AttemptShut, AttemptConnected, AttemptConnectFails,
      AttemptAuthenticated, AttemptWaitFails, AfterStopReader, ForgetAttempt,
      ClosingCancels, ClosingStops, ClosingStopped, ClosingShut, ForgetClosing, ShutRaises,
      AttemptShutRaises, ClosingShutRaises, ReaderStart,
      SignIn, MarkInitialized, Reject, ReaderEnds, ReaderReconnects, ReaderConnected,
      ReaderConnectFails, DoomedEnds, GuardTimeout, LinkCloses, LinkDrops, AttemptEnds
  <2>2. CASE AttemptFindsConnection
    BY <2>2 DEF AttemptFindsConnection
  <2>3. CASE AttemptLoaded
    BY <1>1, <2>3 DEF AttemptLoaded, Inv, LoadedPart
  <2>. QED BY <2>1, <2>2, <2>3
<1>. QED BY <1>1, Invariance, PTL DEF Spec, OpenMeansLoaded

\* A failed attempt that had stopped a reader leaves another one retrying.
THEOREM RecoveryIsKept == Spec => RecoveryKept
<1> DEFINE Owed == /\ AttemptFinishes /\ error' # "none" /\ hadReader /\ opening # "start"
                   /\ AutoReconnect /\ ~stopped' /\ fatalError' # "final"
<1>1. ASSUME Inv, [Next]_vars, Owed
      PROVE  \E r \in Readers : Alive(r)'
  <2>1. AttemptShut \/ AttemptShutRaises \/ AttemptConnectFails
    BY <1>1 DEF Inv, TypeOK, TaskTypes, AttemptFinishes, vars, Next, CallerNext, AttemptNext,
      ClosingNext, ReaderTask, Frame, Open, OpenAfterClose, JoinAttempt, OpenWaitsForClose,
      CancelCaller, OpenReturns, Close, ResumeReconnecting, AttemptStart, AttemptNeverStarts,
      AttemptFindsConnection, AttemptLoaded,
      AttemptStopped, AttemptConnected,
      AttemptAuthenticated, AttemptWaitFails, AfterStopReader, ForgetAttempt,
      ClosingCancels, ClosingStops, ClosingStopped, ClosingShut, ForgetClosing, ShutRaises,
      ClosingShutRaises, ReaderStart,
      SignIn, MarkInitialized, Reject, ReaderEnds, ReaderReconnects, ReaderConnected,
      ReaderConnectFails, DoomedEnds, GuardTimeout, LinkCloses, LinkDrops, AttemptEnds
  <2>2. messageLoopTask = None
    BY <1>1, <2>1 DEF Inv, ReaderPart, TearingDown, InTearDown, AttemptShut, AttemptShutRaises,
                        AttemptConnectFails
  <2>3. \E r \in Readers : StartReader(r)
    <3>1. CASE AttemptShut
      BY <1>1, <2>2, <3>1 DEF AttemptShut, ForgetSocket, AttemptEnds, HandsBack, MayResume, AttemptFinishes
    <3>2. CASE AttemptConnectFails
      BY <1>1, <2>2, <3>2 DEF AttemptConnectFails, AttemptEnds, HandsBack, MayResume
    <3>3. CASE AttemptShutRaises
      BY <1>1, <2>2, <3>3 DEF AttemptShutRaises, ForgetSocket, AttemptEnds, HandsBack, MayResume
    <3>. QED BY <2>1, <3>1, <3>2, <3>3
  <2>. QED BY <1>1, <2>3 DEF StartReader, NewReader, Inv, TypeOK, TaskTypes
<1>. QED BY <1>1, Invariance, PTL DEF Spec, RecoveryKept

-----------------------------------------------------------------------------
(* The refinement. *)

LEMMA PromiseInit == Init => Promise!Init
BY DEF Init, Promise!Init

\* Every step of a task is a step of the promise, or one it does not see.
LEMMA PromiseStep == ASSUME Inv, [Next]_vars PROVE [Promise!Next]_Promise!vars
<1>. USE DEF Promise!Next, Promise!vars, Promise!Open, Promise!OpenEnds, Promise!Close,
             Promise!Closed, Promise!SignIn, Promise!SignOut, Promise!Refuse, Promise!Retry,
             TaskTypes, TransitionsExclusive, ReaderPart, OneReader, SignedInPart,
             RefusalHolds, ClosedPart
<1>0. TaskTypes /\ TransitionsExclusive /\ ReaderPart /\ SignedInPart /\ RefusalHolds /\ ClosedPart
  BY DEF Inv, TypeOK
<1>1. ASSUME NEW c \in Callers, Open(c) PROVE [Promise!Next]_Promise!vars
  BY <1>0, <1>1 DEF Open, JoinAttempt
<1>2. ASSUME NEW c \in Callers, OpenAfterClose(c) PROVE [Promise!Next]_Promise!vars
  BY <1>0, <1>2 DEF OpenAfterClose, JoinAttempt
<1>3. ASSUME NEW c \in Callers, OpenWaitsForClose(c) PROVE [Promise!Next]_Promise!vars
  BY <1>0, <1>3 DEF OpenWaitsForClose
<1>4. ASSUME NEW c \in Callers, CancelCaller(c) PROVE [Promise!Next]_Promise!vars
  BY <1>0, <1>4 DEF CancelCaller
<1>5. ASSUME NEW c \in Callers, OpenReturns(c) PROVE [Promise!Next]_Promise!vars
  BY <1>0, <1>5 DEF OpenReturns
<1>6. ASSUME Close PROVE [Promise!Next]_Promise!vars
  BY <1>0, <1>6 DEF Close
<1>7. ASSUME ResumeReconnecting PROVE [Promise!Next]_Promise!vars
  BY <1>0, <1>7 DEF ResumeReconnecting, MayResume, StartReader, NewReader
<1>8. ASSUME AttemptStart PROVE [Promise!Next]_Promise!vars
  BY <1>0, <1>8 DEF AttemptStart, StopReader, Begin
<1>9. ASSUME AttemptFindsConnection PROVE [Promise!Next]_Promise!vars
  BY <1>0, <1>9 DEF AttemptFindsConnection, AttemptEnds, HandsBack
<1>10. ASSUME AttemptNeverStarts PROVE [Promise!Next]_Promise!vars
  BY <1>0, <1>10 DEF AttemptNeverStarts, AttemptEnds, HandsBack
<1>11. ASSUME AttemptStopped PROVE [Promise!Next]_Promise!vars
  BY <1>0, <1>11 DEF AttemptStopped, CloseSent
<1>12. ASSUME AttemptShut PROVE [Promise!Next]_Promise!vars
  BY <1>0, <1>12 DEF AttemptShut, SocketShut, Unnamed, ForgetSocket,
      SetAuthenticated, AttemptEnds, HandsBack, MayResume, StartReader,
      NewReader
<1>13. ASSUME NEW s \in Sockets, NEW r \in Readers, AttemptConnected(s, r) PROVE [Promise!Next]_Promise!vars
  BY <1>0, <1>13 DEF AttemptConnected, FreshSocket, StartReader, NewReader,
      Quiet
<1>14. ASSUME AttemptConnectFails PROVE [Promise!Next]_Promise!vars
  BY <1>0, <1>14 DEF AttemptConnectFails, AttemptEnds, HandsBack, MayResume,
      StartReader, NewReader
<1>15. ASSUME AttemptAuthenticated PROVE [Promise!Next]_Promise!vars
  BY <1>0, <1>15 DEF AttemptAuthenticated
<1>16. ASSUME AttemptLoaded PROVE [Promise!Next]_Promise!vars
  BY <1>0, <1>16 DEF AttemptLoaded, AttemptEnds, HandsBack
<1>17. ASSUME AttemptWaitFails PROVE [Promise!Next]_Promise!vars
  BY <1>0, <1>17 DEF AttemptWaitFails, WaitFails, AfterStopReader, StopReader,
      CloseSent
<1>18. ASSUME ForgetAttempt PROVE [Promise!Next]_Promise!vars
  BY <1>0, <1>18 DEF ForgetAttempt
<1>19. ASSUME ClosingCancels PROVE [Promise!Next]_Promise!vars
  BY <1>0, <1>19 DEF ClosingCancels
<1>20. ASSUME ClosingStops PROVE [Promise!Next]_Promise!vars
  BY <1>0, <1>20 DEF ClosingStops, ClosingMayStop, AfterStopReader, StopReader,
      CloseSent
<1>21. ASSUME ClosingStopped PROVE [Promise!Next]_Promise!vars
  BY <1>0, <1>21 DEF ClosingStopped, CloseSent
<1>22. ASSUME ClosingShut PROVE [Promise!Next]_Promise!vars
  BY <1>0, <1>22 DEF ClosingShut, SocketShut, ForgetSocket, Unnamed,
      SetAuthenticated
<1>23. ASSUME ForgetClosing PROVE [Promise!Next]_Promise!vars
  BY <1>0, <1>23 DEF ForgetClosing
<1>24. ASSUME NEW r \in Readers, ReaderStart(r) PROVE [Promise!Next]_Promise!vars
  BY <1>0, <1>24 DEF ReaderStart, StartReading, EndReading, Retries,
      SetAuthenticated
<1>25. ASSUME NEW r \in Readers, ReaderEnds(r) PROVE [Promise!Next]_Promise!vars
  BY <1>0, <1>25 DEF ReaderEnds, EndReading, Retries, SetAuthenticated
<1>26. ASSUME NEW r \in Readers, DoomedEnds(r) PROVE [Promise!Next]_Promise!vars
  BY <1>0, <1>26 DEF DoomedEnds, SetAuthenticated
<1>27. ASSUME NEW r \in Readers, ReaderReconnects(r) PROVE [Promise!Next]_Promise!vars
  BY <1>0, <1>27 DEF ReaderReconnects, Begin, Quiet
<1>28. ASSUME NEW s \in Sockets, NEW r \in Readers, ReaderConnected(r, s) PROVE [Promise!Next]_Promise!vars
  BY <1>0, <1>28 DEF ReaderConnected, FreshSocket, Unnamed
<1>29. ASSUME NEW r \in Readers, ReaderConnectFails(r) PROVE [Promise!Next]_Promise!vars
  BY <1>0, <1>29 DEF ReaderConnectFails, StartReading, EndReading, Retries,
      SetAuthenticated
<1>30. ASSUME NEW r \in Readers, SignIn(r) PROVE [Promise!Next]_Promise!vars
  BY <1>0, <1>30 DEF SignIn, Receives, SetAuthenticated
<1>31. ASSUME NEW r \in Readers, MarkInitialized(r) PROVE [Promise!Next]_Promise!vars
  BY <1>0, <1>31 DEF MarkInitialized, Receives
<1>32. ASSUME NEW r \in Readers, NEW kind \in {"transient", "final"}, Reject(r, kind) PROVE [Promise!Next]_Promise!vars
  BY <1>0, <1>32 DEF Reject, Receives, CloseSent
<1>33. ASSUME GuardTimeout PROVE [Promise!Next]_Promise!vars
  BY <1>0, <1>33 DEF GuardTimeout, CloseSent
<1>34. ASSUME NEW s \in Sockets, LinkCloses(s) PROVE [Promise!Next]_Promise!vars
  BY <1>0, <1>34 DEF LinkCloses
<1>35. ASSUME NEW s \in Sockets, LinkDrops(s) PROVE [Promise!Next]_Promise!vars
  BY <1>0, <1>35 DEF LinkDrops
<1>36. CASE UNCHANGED vars
  BY <1>36 DEF vars
<1>37. ASSUME AttemptShutRaises PROVE [Promise!Next]_Promise!vars
  BY <1>0, <1>37 DEF AttemptShutRaises, Unnamed, ForgetSocket, SetAuthenticated,
      AttemptEnds, HandsBack, MayResume, StartReader, NewReader
<1>38. ASSUME ClosingShutRaises PROVE [Promise!Next]_Promise!vars
  BY <1>0, <1>38 DEF ClosingShutRaises, ForgetSocket, Unnamed, SetAuthenticated
<1>. QED BY <1>1, <1>2, <1>3, <1>4, <1>5, <1>6, <1>7, <1>8, <1>9, <1>10, <1>11,
            <1>12, <1>13, <1>14, <1>15, <1>16, <1>17, <1>18, <1>19, <1>20,
            <1>21, <1>22, <1>23, <1>24, <1>25, <1>26, <1>27, <1>28, <1>29,
            <1>30, <1>31, <1>32, <1>33, <1>34, <1>35, <1>36, <1>37, <1>38
     DEF Next, CallerNext, AttemptNext, ClosingNext, ShutRaises, ReaderTask, Frame

\* The connection implements its promise to the client and the hub.
THEOREM PromiseKept == Spec => KeepsPromise
BY PromiseInit, PromiseStep, Invariance, PTL DEF Spec, KeepsPromise, Promise!Spec

=============================================================================
