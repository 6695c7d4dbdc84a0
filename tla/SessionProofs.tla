--------------------------- MODULE SessionProofs ---------------------------
(***************************************************************************)
(* Proofs about Session, for any chargers, properties and delays: Inv is   *)
(* inductive; the cache, the answers, the complete status and the pause    *)
(* between two tries follow.                                               *)
(***************************************************************************)
EXTENDS Session, TLAPS

USE NoneAssumption, DelayAssumption
USE DEF Readable, world, device, secret, flags, Hashes, Steps

-----------------------------------------------------------------------------
(* The inductive invariant: Init establishes it, each action keeps it. *)

LEMMA InvInit == Init => Inv
<1>. SUFFICES ASSUME Init PROVE Inv
  OBVIOUS
<1>. USE DEF Init
<1>1. TypeOK
  <2>1. cache \in [Keys -> Serials \cup {None}]
    OBVIOUS
  <2>2. reconnectDelay \in MinDelay .. MaxDelay
    OBVIOUS
  <2>. QED
    BY <2>1, <2>2 DEF TypeOK, WorldTypes, ReaderTypes, MemoryTypes
<1>2. PausePart /\ KnownPart /\ StreamPart /\ InitializedIsWhole
  BY DEF PausePart, KnownPart, StreamPart, InitializedIsWhole
<1>3. HashPart
  BY DEF HashPart
<1>4. CacheIsOwn
  BY DEF CacheIsOwn
<1>. QED
  BY <1>1, <1>2, <1>3, <1>4 DEF Inv

LEMMA HelloUnusableKeeps == ASSUME Inv, HelloUnusable PROVE Inv'
<1>. USE DEF Inv, TypeOK, HelloUnusable, Reads, Reject
<1>1. WorldTypes'
  BY DEF WorldTypes
<1>2. ReaderTypes'
  BY DEF ReaderTypes
<1>3. MemoryTypes'
  BY DEF MemoryTypes
<1>4. PausePart'
  BY DEF PausePart
<1>5. KnownPart'
  BY DEF KnownPart
<1>6. HashPart'
  BY DEF HashPart, Expects
<1>7. StreamPart'
  BY DEF StreamPart
<1>8. CacheIsOwn'
  BY DEF CacheIsOwn
<1>9. InitializedIsWhole'
  BY DEF InitializedIsWhole, Streams
<1>. QED
  BY <1>1, <1>2, <1>3, <1>4, <1>5, <1>6, <1>7, <1>8, <1>9

LEMMA HelloKeeps == ASSUME Inv, Hello PROVE Inv'
<1>. USE DEF Inv, TypeOK, Hello, Reads, Reject, NotRejected, IdentityAccepted, IsFlex
<1>1. WorldTypes'
  BY DEF WorldTypes
<1>2. ReaderTypes'
  BY DEF ReaderTypes
<1>3. MemoryTypes'
  BY DEF WorldTypes, MemoryTypes
<1>4. PausePart'
  BY DEF PausePart
<1>5. KnownPart'
  BY DEF KnownPart
<1>6. HashPart'
  BY DEF HashPart, Expects
<1>7. StreamPart'
  BY DEF StreamPart
<1>8. CacheIsOwn'
  BY DEF CacheIsOwn
<1>9. InitializedIsWhole'
  <2>. UNCHANGED <<initialized, unread, told, charger, make>>
    OBVIOUS
  <2>. QED
    BY DEF InitializedIsWhole, Streams
<1>. QED
  BY <1>1, <1>2, <1>3, <1>4, <1>5, <1>6, <1>7, <1>8, <1>9

LEMMA AuthRequiredUnusableKeeps == ASSUME Inv, AuthRequiredUnusable PROVE Inv'
<1>. USE DEF Inv, TypeOK, AuthRequiredUnusable, Reads, Reject
<1>1. WorldTypes'
  BY DEF WorldTypes
<1>2. ReaderTypes'
  BY DEF ReaderTypes
<1>3. MemoryTypes'
  BY DEF MemoryTypes
<1>4. PausePart'
  BY DEF PausePart
<1>5. KnownPart'
  BY DEF KnownPart
<1>6. HashPart'
  BY DEF HashPart, Expects
<1>7. StreamPart'
  BY DEF StreamPart
<1>8. CacheIsOwn'
  BY DEF CacheIsOwn
<1>9. InitializedIsWhole'
  BY DEF InitializedIsWhole, Streams
<1>. QED
  BY <1>1, <1>2, <1>3, <1>4, <1>5, <1>6, <1>7, <1>8, <1>9

LEMMA AuthRequiredUnsupportedKeeps == ASSUME Inv, AuthRequiredUnsupported PROVE Inv'
<1>. USE DEF Inv, TypeOK, AuthRequiredUnsupported, Reads, Reject
<1>1. WorldTypes'
  BY DEF WorldTypes
<1>2. ReaderTypes'
  BY DEF ReaderTypes
<1>3. MemoryTypes'
  BY DEF MemoryTypes
<1>4. PausePart'
  BY DEF PausePart
<1>5. KnownPart'
  BY DEF KnownPart
<1>6. HashPart'
  BY DEF HashPart, Expects
<1>7. StreamPart'
  BY DEF StreamPart
<1>8. CacheIsOwn'
  BY DEF CacheIsOwn
<1>9. InitializedIsWhole'
  BY DEF InitializedIsWhole, Streams
<1>. QED
  BY <1>1, <1>2, <1>3, <1>4, <1>5, <1>6, <1>7, <1>8, <1>9

LEMMA AuthRequiredKeeps == ASSUME Inv, AuthRequired PROVE Inv'
<1>. USE DEF Inv, TypeOK, AuthRequired, Inputs, Reads, HashType, Cached, Expects, IsFlex, Saying
<1>1. WorldTypes'
  BY DEF WorldTypes
<1>2. ReaderTypes'
  BY DEF ReaderTypes
<1>3. MemoryTypes'
  BY DEF MemoryTypes
<1>4. PausePart'
  BY DEF PausePart
<1>5. KnownPart'
  BY DEF KnownPart
<1>6. HashPart'
  BY DEF KnownPart, HashPart
<1>7. StreamPart'
  BY DEF StreamPart
<1>8. CacheIsOwn'
  BY DEF CacheIsOwn
<1>9. InitializedIsWhole'
  BY DEF InitializedIsWhole, Streams
<1>. QED
  BY <1>1, <1>2, <1>3, <1>4, <1>5, <1>6, <1>7, <1>8, <1>9

LEMMA HashedKeeps == ASSUME Inv, Hashed PROVE Inv'
<1>. USE DEF Inv, TypeOK, Hashed
<1>1. WorldTypes'
  BY DEF WorldTypes
<1>2. ReaderTypes'
  BY DEF ReaderTypes
<1>3. MemoryTypes'
  BY DEF MemoryTypes
<1>4. PausePart'
  BY DEF PausePart
<1>5. KnownPart'
  BY DEF KnownPart
<1>6. HashPart'
  BY DEF HashPart, Expects
<1>7. StreamPart'
  BY DEF StreamPart, Streams
<1>8. CacheIsOwn'
  BY DEF CacheIsOwn
<1>9. InitializedIsWhole'
  BY DEF InitializedIsWhole, Streams
<1>. QED
  BY <1>1, <1>2, <1>3, <1>4, <1>5, <1>6, <1>7, <1>8, <1>9

LEMMA HashFailsKeeps == ASSUME Inv, HashFails PROVE Inv'
<1>. USE DEF Inv, TypeOK, HashFails
<1>1. WorldTypes'
  BY DEF WorldTypes
<1>2. ReaderTypes'
  BY DEF ReaderTypes
<1>3. MemoryTypes'
  BY DEF MemoryTypes
<1>4. PausePart'
  BY DEF PausePart
<1>5. KnownPart'
  BY DEF KnownPart
<1>6. HashPart'
  BY DEF HashPart, Expects
<1>7. StreamPart'
  BY DEF StreamPart, Streams
<1>8. CacheIsOwn'
  BY DEF CacheIsOwn
<1>9. InitializedIsWhole'
  BY DEF InitializedIsWhole, Streams
<1>. QED
  BY <1>1, <1>2, <1>3, <1>4, <1>5, <1>6, <1>7, <1>8, <1>9

LEMMA SendAuthKeeps == ASSUME Inv, SendAuth PROVE Inv'
<1>. USE DEF Inv, TypeOK, SendAuth
<1>1. WorldTypes'
  BY DEF WorldTypes
<1>2. ReaderTypes'
  BY DEF ReaderTypes
<1>3. MemoryTypes'
  BY DEF MemoryTypes
<1>4. PausePart'
  BY DEF PausePart
<1>5. KnownPart'
  BY DEF KnownPart
<1>6. HashPart'
  BY DEF HashPart, Expects
<1>7. StreamPart'
  BY DEF StreamPart, Streams
<1>8. CacheIsOwn'
  BY DEF CacheIsOwn
<1>9. InitializedIsWhole'
  BY DEF InitializedIsWhole, Streams
<1>. QED
  BY <1>1, <1>2, <1>3, <1>4, <1>5, <1>6, <1>7, <1>8, <1>9

LEMMA AuthSuccessKeeps == ASSUME Inv, AuthSuccess PROVE Inv'
<1>. USE DEF Inv, TypeOK, AuthSuccess, Reads
<1>1. WorldTypes'
  BY DEF WorldTypes
<1>2. ReaderTypes'
  BY DEF ReaderTypes
<1>3. MemoryTypes'
  BY DEF MemoryTypes
<1>4. PausePart'
  BY DEF PausePart
<1>5. KnownPart'
  <2>. serial = charger
    BY DEF WorldTypes, HashPart
  <2>. charger # None
    BY NoneAssumption DEF MemoryTypes, Inputs
  <2>. QED
    BY DEF PausePart, KnownPart
<1>6. HashPart'
  BY DEF HashPart, Expects
<1>7. StreamPart'
  BY DEF KnownPart, StreamPart
<1>8. CacheIsOwn'
  BY DEF CacheIsOwn
<1>9. InitializedIsWhole'
  BY DEF InitializedIsWhole, Streams
<1>. QED
  BY <1>1, <1>2, <1>3, <1>4, <1>5, <1>6, <1>7, <1>8, <1>9

LEMMA AuthErrorKeeps == ASSUME Inv, AuthError PROVE Inv'
<1>. USE DEF Inv, TypeOK, AuthError, Reads, Reject
<1>1. WorldTypes'
  BY DEF WorldTypes
<1>2. ReaderTypes'
  BY DEF ReaderTypes
<1>3. MemoryTypes'
  BY DEF MemoryTypes
<1>4. PausePart'
  BY DEF PausePart
<1>5. KnownPart'
  BY DEF KnownPart
<1>6. HashPart'
  BY DEF HashPart, Expects
<1>7. StreamPart'
  BY DEF StreamPart, Streams
<1>8. CacheIsOwn'
  BY DEF CacheIsOwn
<1>9. InitializedIsWhole'
  BY DEF InitializedIsWhole, Streams
<1>. QED
  BY <1>1, <1>2, <1>3, <1>4, <1>5, <1>6, <1>7, <1>8, <1>9

LEMMA ChunkKeeps == ASSUME Inv, NEW keys \in SUBSET Keys \ {{}}, Chunk(keys) PROVE Inv'
<1>. USE DEF Inv, TypeOK, Chunk, Reads, ApplyStatus, MarkInitialized
<1>1. WorldTypes'
  BY DEF WorldTypes
<1>2. ReaderTypes'
  <2>1. reconnectDelay' \in MinDelay .. MaxDelay
    BY DEF ReaderTypes
  <2>. QED
    BY <2>1 DEF ReaderTypes
<1>3. MemoryTypes'
  BY DEF WorldTypes, MemoryTypes
<1>4. PausePart'
  BY DEF PausePart
<1>5. KnownPart'
  BY DEF KnownPart
<1>6. HashPart'
  BY DEF HashPart, Expects
<1>7. StreamPart'
  BY DEF StreamPart
<1>8. CacheIsOwn'
  BY DEF KnownPart, CacheIsOwn
<1>9. InitializedIsWhole'
  BY DEF InitializedIsWhole
<1>. QED
  BY <1>1, <1>2, <1>3, <1>4, <1>5, <1>6, <1>7, <1>8, <1>9

LEMMA ChunkUnreadKeeps == ASSUME Inv, NEW keys \in SUBSET Keys \ {{}}, ChunkUnread(keys) PROVE Inv'
<1>. USE DEF Inv, TypeOK, ChunkUnread, Reads
<1>1. WorldTypes'
  BY DEF WorldTypes
<1>2. ReaderTypes'
  BY DEF ReaderTypes
<1>3. MemoryTypes'
  BY DEF MemoryTypes
<1>4. PausePart'
  BY DEF PausePart
<1>5. KnownPart'
  BY DEF KnownPart
<1>6. HashPart'
  BY DEF HashPart, Expects
<1>7. StreamPart'
  BY DEF StreamPart
<1>8. CacheIsOwn'
  BY DEF CacheIsOwn
<1>9. InitializedIsWhole'
  BY DEF InitializedIsWhole
<1>. QED
  BY <1>1, <1>2, <1>3, <1>4, <1>5, <1>6, <1>7, <1>8, <1>9

LEMMA DeltaKeeps == ASSUME Inv, NEW keys \in SUBSET Keys \ {{}}, Delta(keys) PROVE Inv'
<1>. USE DEF Inv, TypeOK, Delta, Reads, ApplyStatus, DeltaCompletes, MarkInitialized
<1>1. WorldTypes'
  BY DEF WorldTypes
<1>2. ReaderTypes'
  <2>1. reconnectDelay' \in MinDelay .. MaxDelay
    BY DEF ReaderTypes
  <2>. QED
    BY <2>1 DEF ReaderTypes
<1>3. MemoryTypes'
  BY DEF WorldTypes, MemoryTypes
<1>4. PausePart'
  BY DEF PausePart
<1>5. KnownPart'
  BY DEF KnownPart
<1>6. HashPart'
  BY DEF HashPart, Expects
<1>7. StreamPart'
  BY DEF StreamPart, Streams
<1>8. CacheIsOwn'
  BY DEF KnownPart, CacheIsOwn
<1>9. InitializedIsWhole'
  BY DEF StreamPart, InitializedIsWhole, Streams
<1>. QED
  BY <1>1, <1>2, <1>3, <1>4, <1>5, <1>6, <1>7, <1>8, <1>9

LEMMA ResponseKeeps == ASSUME Inv, NEW keys \in SUBSET Keys \ {{}}, Response(keys) PROVE Inv'
<1>. USE DEF Inv, TypeOK, Response, Reads, ApplyStatus
<1>1. WorldTypes'
  BY DEF WorldTypes
<1>2. ReaderTypes'
  BY DEF ReaderTypes
<1>3. MemoryTypes'
  BY DEF WorldTypes, MemoryTypes
<1>4. PausePart'
  BY DEF PausePart
<1>5. KnownPart'
  BY DEF KnownPart
<1>6. HashPart'
  BY DEF HashPart, Expects
<1>7. StreamPart'
  BY DEF StreamPart, Streams
<1>8. CacheIsOwn'
  BY DEF KnownPart, CacheIsOwn
<1>9. InitializedIsWhole'
  BY DEF InitializedIsWhole, Streams
<1>. QED
  BY <1>1, <1>2, <1>3, <1>4, <1>5, <1>6, <1>7, <1>8, <1>9

LEMMA LoseKeeps == ASSUME Inv, Lose PROVE Inv'
<1>. USE DEF Inv, TypeOK, Lose
<1>1. WorldTypes'
  BY DEF WorldTypes
<1>2. ReaderTypes'
  BY DEF ReaderTypes
<1>3. MemoryTypes'
  BY DEF MemoryTypes
<1>4. PausePart'
  BY DEF PausePart
<1>5. KnownPart'
  BY DEF KnownPart, IsFlex
<1>6. HashPart'
  BY DEF HashPart, Expects
<1>7. StreamPart'
  BY DEF StreamPart, Streams
<1>8. CacheIsOwn'
  BY DEF CacheIsOwn
<1>9. InitializedIsWhole'
  BY DEF InitializedIsWhole, Streams
<1>. QED
  BY <1>1, <1>2, <1>3, <1>4, <1>5, <1>6, <1>7, <1>8, <1>9

LEMMA ReadEndsKeeps == ASSUME Inv, ReadEnds PROVE Inv'
<1>. USE DEF Inv, TypeOK, ReadEnds
<1>1. WorldTypes'
  BY DEF WorldTypes
<1>2. ReaderTypes'
  BY DEF ReaderTypes
<1>3. MemoryTypes'
  BY DEF MemoryTypes
<1>4. PausePart'
  BY DEF PausePart, KnownPart
<1>5. KnownPart'
  BY DEF KnownPart
<1>6. HashPart'
  BY DEF HashPart, Expects
<1>7. StreamPart'
  BY DEF StreamPart
<1>8. CacheIsOwn'
  BY DEF CacheIsOwn
<1>9. InitializedIsWhole'
  BY DEF InitializedIsWhole, Streams
<1>. QED
  BY <1>1, <1>2, <1>3, <1>4, <1>5, <1>6, <1>7, <1>8, <1>9

LEMMA OpenKeeps == ASSUME Inv, NEW s \in Serials, Open(s) PROVE Inv'
<1>. USE DEF Inv, TypeOK, Open, Begin, Connects
<1>1. WorldTypes'
  BY DEF WorldTypes
<1>2. ReaderTypes'
  <2>1. reconnectDelay' \in MinDelay .. MaxDelay
    BY DEF ReaderTypes
  <2>. QED
    BY <2>1 DEF ReaderTypes
<1>3. MemoryTypes'
  BY DEF MemoryTypes
<1>4. PausePart'
  BY DEF PausePart
<1>5. KnownPart'
  BY DEF KnownPart, HashPart
<1>6. HashPart'
  BY DEF HashPart, Expects
<1>7. StreamPart'
  BY DEF StreamPart
<1>8. CacheIsOwn'
  BY DEF CacheIsOwn
<1>9. InitializedIsWhole'
  BY DEF InitializedIsWhole
<1>. QED
  BY <1>1, <1>2, <1>3, <1>4, <1>5, <1>6, <1>7, <1>8, <1>9

LEMMA OpenFailsKeeps == ASSUME Inv, OpenFails PROVE Inv'
<1>. USE DEF Inv, TypeOK, OpenFails, Begin
<1>1. WorldTypes'
  BY DEF WorldTypes
<1>2. ReaderTypes'
  BY DEF ReaderTypes
<1>3. MemoryTypes'
  BY DEF MemoryTypes
<1>4. PausePart'
  BY DEF PausePart
<1>5. KnownPart'
  BY DEF KnownPart
<1>6. HashPart'
  BY DEF HashPart, Expects
<1>7. StreamPart'
  BY DEF StreamPart
<1>8. CacheIsOwn'
  BY DEF CacheIsOwn
<1>9. InitializedIsWhole'
  BY DEF InitializedIsWhole
<1>. QED
  BY <1>1, <1>2, <1>3, <1>4, <1>5, <1>6, <1>7, <1>8, <1>9

LEMMA RetryKeeps == ASSUME Inv, NEW s \in Serials, Retry(s) PROVE Inv'
<1>. USE DEF Inv, TypeOK, Retry, Pauses, Doubled, Begin, Connects
<1>1. WorldTypes'
  BY DEF WorldTypes
<1>2. ReaderTypes'
  <2>1. reconnectDelay' \in MinDelay .. MaxDelay
    BY DEF ReaderTypes
  <2>. QED
    BY <2>1 DEF ReaderTypes
<1>3. MemoryTypes'
  BY DEF MemoryTypes
<1>4. PausePart'
  BY DEF PausePart
<1>5. KnownPart'
  BY DEF PausePart, KnownPart
<1>6. HashPart'
  BY DEF PausePart, HashPart, Expects
<1>7. StreamPart'
  BY DEF StreamPart
<1>8. CacheIsOwn'
  BY DEF CacheIsOwn
<1>9. InitializedIsWhole'
  BY DEF InitializedIsWhole
<1>. QED
  BY <1>1, <1>2, <1>3, <1>4, <1>5, <1>6, <1>7, <1>8, <1>9

LEMMA RetryFailsKeeps == ASSUME Inv, RetryFails PROVE Inv'
<1>. USE DEF Inv, TypeOK, RetryFails, Pauses, Doubled, Begin
<1>1. WorldTypes'
  BY DEF WorldTypes
<1>2. ReaderTypes'
  <2>1. reconnectDelay' \in MinDelay .. MaxDelay
    BY DEF ReaderTypes
  <2>. QED
    BY <2>1 DEF ReaderTypes
<1>3. MemoryTypes'
  BY DEF MemoryTypes
<1>4. PausePart'
  BY DEF PausePart
<1>5. KnownPart'
  BY DEF PausePart, KnownPart
<1>6. HashPart'
  BY DEF HashPart, Expects
<1>7. StreamPart'
  BY DEF PausePart, StreamPart
<1>8. CacheIsOwn'
  BY DEF CacheIsOwn
<1>9. InitializedIsWhole'
  BY DEF InitializedIsWhole
<1>. QED
  BY <1>1, <1>2, <1>3, <1>4, <1>5, <1>6, <1>7, <1>8, <1>9

LEMMA ResumeKeeps == ASSUME Inv, Resume PROVE Inv'
<1>. USE DEF Inv, TypeOK, Resume
<1>1. WorldTypes'
  BY DEF WorldTypes
<1>2. ReaderTypes'
  BY DEF ReaderTypes
<1>3. MemoryTypes'
  BY DEF MemoryTypes
<1>4. PausePart'
  BY DEF PausePart
<1>5. KnownPart'
  BY DEF KnownPart
<1>6. HashPart'
  BY DEF HashPart, Expects
<1>7. StreamPart'
  BY DEF StreamPart
<1>8. CacheIsOwn'
  BY DEF CacheIsOwn
<1>9. InitializedIsWhole'
  BY DEF InitializedIsWhole, Streams
<1>. QED
  BY <1>1, <1>2, <1>3, <1>4, <1>5, <1>6, <1>7, <1>8, <1>9

LEMMA CloseKeeps == ASSUME Inv, Close PROVE Inv'
<1>. USE DEF Inv, TypeOK, Close
<1>1. WorldTypes'
  BY DEF WorldTypes
<1>2. ReaderTypes'
  BY DEF ReaderTypes
<1>3. MemoryTypes'
  BY DEF MemoryTypes
<1>4. PausePart'
  BY DEF PausePart
<1>5. KnownPart'
  BY DEF KnownPart
<1>6. HashPart'
  BY DEF HashPart, Expects
<1>7. StreamPart'
  BY DEF StreamPart
<1>8. CacheIsOwn'
  BY DEF CacheIsOwn
<1>9. InitializedIsWhole'
  BY DEF InitializedIsWhole, Streams
<1>. QED
  BY <1>1, <1>2, <1>3, <1>4, <1>5, <1>6, <1>7, <1>8, <1>9

LEMMA UpdateKeeps == ASSUME Inv, NEW s \in Serials, Update(s) PROVE Inv'
<1>. USE DEF Inv, TypeOK, Update, Streams, Saying, Makes
<1>1. WorldTypes'
  BY DEF WorldTypes
<1>2. ReaderTypes'
  BY DEF ReaderTypes
<1>3. MemoryTypes'
  BY DEF MemoryTypes
<1>4. PausePart'
  BY DEF PausePart
<1>5. KnownPart'
  BY DEF KnownPart, IsFlex
<1>6. HashPart'
  BY DEF HashPart, Expects
<1>7. StreamPart'
  BY DEF StreamPart
<1>8. CacheIsOwn'
  BY DEF CacheIsOwn
<1>9. InitializedIsWhole'
  BY DEF InitializedIsWhole
<1>. QED
  BY <1>1, <1>2, <1>3, <1>4, <1>5, <1>6, <1>7, <1>8, <1>9

LEMMA InvNext == ASSUME Inv, [Next]_vars PROVE Inv'
<1>1. CASE Handshake
  BY <1>1, HelloUnusableKeeps, HelloKeeps, AuthRequiredUnusableKeeps,
     AuthRequiredUnsupportedKeeps, AuthRequiredKeeps, HashedKeeps, HashFailsKeeps,
     SendAuthKeeps, AuthSuccessKeeps, AuthErrorKeeps DEF Handshake
<1>2. CASE Status
  BY <1>2, ChunkKeeps, ChunkUnreadKeeps, DeltaKeeps, ResponseKeeps DEF Status
<1>3. CASE Socket
  BY <1>3, LoseKeeps, ReadEndsKeeps, OpenKeeps, OpenFailsKeeps, RetryKeeps, RetryFailsKeeps,
     ResumeKeeps, CloseKeeps DEF Socket
<1>4. ASSUME NEW s \in Serials, Update(s) PROVE Inv'
  BY <1>4, UpdateKeeps
<1>5. CASE UNCHANGED vars
  BY <1>5 DEF vars, Inv, TypeOK, WorldTypes, ReaderTypes, MemoryTypes, PausePart, KnownPart,
       HashPart, StreamPart, CacheIsOwn, InitializedIsWhole, Expects, IsFlex, Streams
<1>. QED
  BY <1>1, <1>2, <1>3, <1>4, <1>5 DEF Next

-----------------------------------------------------------------------------
(* Theorems. *)

\* What the client and its connection keep true, whichever chargers answer and
\* however a socket ends.
THEOREM Invariance == Spec => []Inv
BY InvInit, InvNext, PTL DEF Spec

\* The cache that outlives a connection never mixes two chargers.
THEOREM CachesAreOwn == Spec => []CacheIsOwn
<1>1. Inv => CacheIsOwn
  BY DEF Inv
<1>. QED
  BY <1>1, Invariance, PTL

LEMMA InvAnswerFits == Inv => AnswerFits
BY DEF Inv, HashPart, AnswerFits

\* _update_hashed_password keeps a hash over connections, and an answer made
\* from it still fits the charger that asked.
THEOREM AnswersFit == Spec => []AnswerFits
BY Invariance, InvAnswerFits, PTL

\* Neither a delta between two chunks nor what an earlier socket left behind
\* completes the status.
THEOREM CompleteIsWhole == Spec => []InitializedIsWhole
<1>1. Inv => InitializedIsWhole
  BY DEF Inv
<1>. QED
  BY <1>1, Invariance, PTL

LEMMA SerialStep == ASSUME Inv, [Next]_vars PROVE [serial # None => serial' = serial]_vars
<1>. SUFFICES ASSUME Next, serial # None PROVE serial' = serial
  OBVIOUS
<1>. USE DEF device, secret, world, flags
<1>1. CASE Hello
  BY <1>1 DEF Hello, IdentityAccepted
<1>2. CASE Handshake /\ ~Hello
  BY <1>2 DEF Handshake, HelloUnusable, AuthRequiredUnusable, AuthRequiredUnsupported,
       AuthRequired, Hashed, HashFails, SendAuth, AuthSuccess, AuthError
<1>3. CASE Status
  BY <1>3 DEF Status, Chunk, ChunkUnread, Delta, Response
<1>4. CASE Socket
  BY <1>4 DEF Socket, Lose, ReadEnds, Open, OpenFails, Retry, RetryFails, Resume, Close
<1>5. ASSUME NEW s \in Serials, Update(s) PROVE serial' = serial
  BY <1>5 DEF Update
<1>. QED
  BY <1>1, <1>2, <1>3, <1>4, <1>5 DEF Next, Handshake

\* No charger replaces the known one.
THEOREM SerialsAreKept == Spec => SerialIsKept
BY Invariance, SerialStep, PTL DEF Spec, SerialIsKept

\* mark_initialized alone shortens the pause of a running reader, and between two
\* chunks the stream is noted.
LEMMA PauseStep ==
  ASSUME Inv, [Next]_vars
  PROVE  [reconnectDelay' < reconnectDelay
            => \/ loop = "none" \/ told' = Keys \/ unread
               \/ charger # None /\ ~Streams(charger)]_vars
<1>. SUFFICES ASSUME Next, reconnectDelay' < reconnectDelay
              PROVE  \/ loop = "none" \/ told' = Keys \/ unread
                     \/ charger # None /\ ~Streams(charger)
  OBVIOUS
<1>0. reconnectDelay \in MinDelay .. MaxDelay
  BY DEF Inv, TypeOK, ReaderTypes
<1>. USE DEF device, secret, world, flags
<1>1. CASE Handshake
  BY <1>0, <1>1 DEF Handshake, HelloUnusable, Hello, AuthRequiredUnusable, AuthRequiredUnsupported,
       AuthRequired, Hashed, HashFails, SendAuth, AuthSuccess, AuthError
<1>2. ASSUME NEW keys \in SUBSET Keys \ {{}}, Chunk(keys) PROVE told' = Keys
  BY <1>0, <1>2 DEF Chunk
<1>3. ASSUME NEW keys \in SUBSET Keys \ {{}}, Delta(keys)
      PROVE  told' = Keys \/ (charger # None /\ ~Streams(charger)) \/ unread
  <2>1. Readable /\ step = "signedIn" /\ told' = told /\ (Streams(charger) => told # {})
    BY <1>3 DEF Delta, Reads
  <2>2. ~streaming
    BY <1>0, <1>3 DEF Delta, DeltaCompletes
  <2>. QED
    BY <2>1, <2>2 DEF Inv, StreamPart, KnownPart
<1>4. CASE Status
  <2>1. PICK keys \in SUBSET Keys \ {{}} :
          Chunk(keys) \/ ChunkUnread(keys) \/ Delta(keys) \/ Response(keys)
    BY <1>4 DEF Status
  <2>2. ~ChunkUnread(keys) /\ ~Response(keys)
    BY <1>0 DEF ChunkUnread, Response
  <2>. QED
    BY <1>2, <1>3, <2>1, <2>2
<1>5. CASE Socket
  <2>1. Doubled \in Nat /\ Doubled >= reconnectDelay
    BY <1>0 DEF Doubled
  <2>2. ~Pauses
    BY <1>0, <2>1 DEF Pauses
  <2>3. ASSUME NEW s \in Serials, Open(s) PROVE loop = "none"
    BY <2>3 DEF Open
  <2>4. (\A s \in Serials : ~Retry(s)) /\ ~RetryFails
    BY <2>2 DEF Retry, RetryFails
  <2>5. ~(Lose \/ ReadEnds \/ OpenFails \/ Close)
    BY <1>0 DEF Lose, ReadEnds, OpenFails, Close
  <2>6. Resume => loop = "none"
    BY DEF Resume
  <2>. QED
    BY <1>5, <2>3, <2>4, <2>5, <2>6 DEF Socket
<1>6. ASSUME NEW s \in Serials, Update(s) PROVE FALSE
  BY <1>0, <1>6 DEF Update
<1>. QED
  BY <1>1, <1>4, <1>5, <1>6 DEF Next

\* A charger that accepts the connection and then stalls is asked ever more
\* rarely: neither a sign-in nor a delta on the way resets the pause.
THEOREM StallsKeepThePause == Spec => StallKeepsThePause
BY Invariance, PauseStep, PTL DEF Spec, StallKeepsThePause
=============================================================================
