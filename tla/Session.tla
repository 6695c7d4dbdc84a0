------------------------------ MODULE Session ------------------------------
(***************************************************************************)
(* What the client (api/client.py) and its Connection make of the frames   *)
(* of one charger after another: the handshake, the identity check, the    *)
(* hashed password, the chunks of the full status and the deltas between   *)
(* them, and the pause before the next try.                                *)
(*                                                                         *)
(* A charger greets, challenges, signs in and tells its properties, in     *)
(* this order; any charger may answer at the address on any socket.  A     *)
(* value in the cache is represented by the charger it came from, a hash   *)
(* by what it was made from.                                               *)
(*                                                                         *)
(* A definition whose name ends in Faulty is a slip the code does not      *)
(* make; nothing uses it but the tests of the properties.                  *)
(***************************************************************************)
EXTENDS Naturals

CONSTANTS
  Serials,   \* the chargers that may answer at the address, by serial
  Keys,      \* their properties
  None,      \* no serial, no hash, no value
  MinDelay,  \* reconnect_delay_min
  MaxDelay   \* reconnect_delay_max

ASSUME NoneAssumption == None \notin Serials
ASSUME DelayAssumption ==
  MinDelay \in Nat \ {0} /\ MaxDelay \in Nat /\ MinDelay <= MaxDelay

VARIABLES
  make,           \* external: what kind of charger each serial is, see Makes
  charger,        \* external: the serial at the other end of the socket
  step,           \* external: how far the charger is in the handshake
  told,           \* external: the properties it has sent since the sign-in
  link,           \* self.socket: "none", "open", "closed" or, read to its end, "spent"
  loop,           \* _message_loop: "none", "reading" or "sleeping"
  serial,         \* self._device.serial
  flex,           \* whether self._device.device_type is WPFLEX_DEVICE_TYPE
  authHashType,   \* self._auth_hash_type
  hashedFrom,     \* self._hashed_from, the inputs of self._hashed_password
  hashing,        \* the inputs in the thread that _update_hashed_password awaits
  sending,        \* whether the handler is about to send its auth message
  answer,         \* the inputs of the hash sent on this socket
  cache,          \* self._all_props: the charger each value came from
  authenticated,  \* Connection._authenticated
  initialized,    \* Connection._initialized
  streaming,      \* Connection._streaming_full_status
  fatalError,     \* Connection.fatal_error, by its attribute `final`
  unread,         \* whether a chunk on this socket was unreadable
  reconnectDelay  \* Connection._reconnect_delay

world     == <<make, charger, step, told>>
device    == <<serial, flex, authHashType>>
secret    == <<hashedFrom, hashing, sending, answer>>
flags     == <<authenticated, initialized, streaming, fatalError, unread>>
vars == <<world, link, loop, device, secret, cache, flags, reconnectDelay>>

\* "home" and "flex" name no hash in their challenge, the ones that say do; "plain"
\* names none and streams no status, only deltas.
Saying == {"says_bcrypt", "says_pbkdf2", "says_other"}
Makes  == {"home", "flex", "plain"} \cup Saying
Hashes == {"pbkdf2", "bcrypt"}
Inputs == Serials \X Hashes
Steps  == {"connected", "greeted", "challenged", "signedIn"}

WorldTypes ==
  /\ make \in [Serials -> Makes]
  /\ charger \in Serials \cup {None}
  /\ step \in Steps
  /\ told \subseteq Keys

ReaderTypes ==
  /\ link \in {"none", "open", "closed", "spent"}
  /\ loop \in {"none", "reading", "sleeping"}
  /\ authenticated \in BOOLEAN /\ initialized \in BOOLEAN /\ streaming \in BOOLEAN
  /\ fatalError \in {"none", "transient", "final"} /\ unread \in BOOLEAN
  /\ reconnectDelay \in MinDelay .. MaxDelay

MemoryTypes ==
  /\ serial \in Serials \cup {None} /\ flex \in BOOLEAN /\ authHashType \in Hashes
  /\ hashedFrom \in Inputs \cup {None} /\ hashing \in Inputs \cup {None}
  /\ sending \in BOOLEAN /\ answer \in Inputs \cup {None}
  /\ cache \in [Keys -> Serials \cup {None}]

TypeOK == WorldTypes /\ ReaderTypes /\ MemoryTypes

\* The serial is the entry's, or not known yet.
Init ==
  /\ make \in [Serials -> Makes] /\ charger = None /\ step = "connected" /\ told = {}
  /\ link = "none" /\ loop = "none"
  /\ serial \in Serials \cup {None} /\ flex = FALSE /\ authHashType = "pbkdf2"
  /\ hashedFrom = None /\ hashing = None /\ sending = FALSE /\ answer = None
  /\ cache = [k \in Keys |-> None]
  /\ authenticated = FALSE /\ initialized = FALSE /\ streaming = FALSE
  /\ fatalError = "none" /\ unread = FALSE
  /\ reconnectDelay = MinDelay

-----------------------------------------------------------------------------
(* Chargers. *)

\* There may be frames to read: in the open socket, and in one that closed.
Readable == link \in {"open", "closed"}

\* The type in the hello; without a say in the challenge it decides on the hash.
IsFlex(s)  == make[s] = "flex"
Streams(s) == make[s] # "plain"

\* A charger restarts into another firmware.  One that says which hash it wants
\* goes on doing so.
Update(s) ==
  /\ ~(charger = s /\ Readable) /\ Streams(s)
  /\ \E firmware \in Saying \ {make[s]} : make' = [make EXCEPT ![s] = firmware]
  /\ UNCHANGED <<charger, step, told, link, loop, device, secret, cache, flags, reconnectDelay>>

\* The hash a charger checks the answer with.
Expects(s) == IF make[s] \in {"flex", "says_bcrypt"} THEN "bcrypt" ELSE "pbkdf2"

-----------------------------------------------------------------------------
(* What the handlers share. *)

\* The reader hands frames to the handler one at a time, also those left behind
\* by a socket that closed, but none behind a refusal.
Reads ==
  /\ loop = "reading" /\ Readable /\ fatalError = "none"
  /\ hashing = None /\ ~sending

\* Connection.reject(): signed out at once, and the socket is closed.
Reject(error) ==
  /\ fatalError' = error /\ authenticated' = FALSE
  /\ link' = "closed"
  /\ UNCHANGED <<initialized, streaming, unread>>

NotRejected == UNCHANGED <<link, flags>>

\* Connection.mark_initialized(), for a complete status.
MarkInitialized ==
  /\ initialized' = TRUE
  /\ reconnectDelay' = MinDelay

\* _apply_status().
ApplyStatus(keys) == cache' = [k \in Keys |-> IF k \in keys THEN charger ELSE cache[k]]

\* _identity_accepted(): any charger will do until one is known.
IdentityAcceptedFaulty == TRUE
IdentityAccepted == serial \in {None, charger}

\* The hash a challenge asks for: named, or known from the type of the device,
\* or what it was before.
HashType ==
  CASE make[charger] = "says_bcrypt" -> "bcrypt"
    [] make[charger] = "says_pbkdf2" -> "pbkdf2"
    [] OTHER -> IF flex THEN "bcrypt" ELSE authHashType

\* Whether the hash in hand was made from these inputs.
CachedFaulty(inputs) == hashedFrom # None
Cached(inputs) == inputs = hashedFrom

-----------------------------------------------------------------------------
(* The handshake. *)

HelloUnusable ==
  /\ Reads /\ step = "connected"
  /\ step' = "greeted"
  /\ Reject("transient")
  /\ UNCHANGED <<make, charger, told, loop, device, secret, cache, reconnectDelay>>

Hello ==
  /\ Reads /\ step = "connected"
  /\ step' = "greeted"
  /\ \/ /\ IdentityAccepted
        /\ serial' = charger /\ flex' = IsFlex(charger)
        /\ NotRejected
     \/ /\ ~IdentityAccepted
        /\ Reject("final")
        /\ UNCHANGED <<serial, flex>>
  /\ UNCHANGED <<make, charger, told, loop, authHashType, secret, cache, reconnectDelay>>

\* A field is missing, or no hello has brought a serial to hash with.
AuthRequiredUnusable ==
  /\ Reads /\ step = "greeted"
  /\ step' = "challenged"
  /\ Reject("transient")
  /\ UNCHANGED <<make, charger, told, loop, device, secret, cache, reconnectDelay>>

AuthRequiredUnsupported ==
  /\ Reads /\ step = "greeted" /\ serial # None /\ make[charger] = "says_other"
  /\ step' = "challenged"
  /\ Reject("final")
  /\ UNCHANGED <<make, charger, told, loop, device, secret, cache, reconnectDelay>>

\* _on_auth_required up to the await of the thread, or of the send.
AuthRequired ==
  /\ Reads /\ step = "greeted" /\ serial # None /\ make[charger] # "says_other"
  /\ step' = "challenged"
  /\ authHashType' = HashType
  /\ LET inputs == <<serial, HashType>> IN
     /\ sending' = Cached(inputs)
     /\ hashing' = IF Cached(inputs) THEN None ELSE inputs
  /\ UNCHANGED <<make, charger, told, link, loop, serial, flex, hashedFrom, answer, cache,
                 flags, reconnectDelay>>

\* The thread is done, or it raised and the frame is skipped.
Hashed ==
  /\ hashing # None
  /\ hashing' = None /\ hashedFrom' = hashing /\ sending' = TRUE
  /\ UNCHANGED <<world, link, loop, device, answer, cache, flags, reconnectDelay>>

HashFails ==
  /\ hashing # None /\ hashing[2] = "bcrypt"
  /\ hashing' = None
  /\ UNCHANGED <<world, link, loop, device, hashedFrom, sending, answer, cache, flags, reconnectDelay>>

\* A write to a socket that has closed raises, and the frame is skipped.
SendAuth ==
  /\ sending
  /\ sending' = FALSE
  /\ answer' = IF link = "open" THEN hashedFrom ELSE answer
  /\ UNCHANGED <<world, link, loop, device, hashedFrom, hashing, cache, flags, reconnectDelay>>

\* The charger accepts the hash it expects.
AuthSuccess ==
  /\ Reads /\ step = "challenged" /\ answer # None /\ answer = <<charger, Expects(charger)>>
  /\ step' = "signedIn"
  /\ authenticated' = TRUE
  /\ UNCHANGED <<make, charger, told, link, loop, device, secret, cache, initialized,
                 streaming, fatalError, unread, reconnectDelay>>

\* It may also refuse one that was accepted before.
AuthError ==
  /\ Reads /\ answer # None
  /\ Reject("final")
  /\ UNCHANGED <<world, loop, device, secret, cache, reconnectDelay>>

-----------------------------------------------------------------------------
(* The status: _on_full_status, _on_delta_status, _on_response. *)

\* A chunk; the last one is not partial.
Chunk(keys) ==
  /\ Reads /\ step = "signedIn" /\ Streams(charger) /\ told # Keys
  /\ told' = told \cup keys
  /\ ApplyStatus(keys)
  /\ streaming' = (told' # Keys)
  /\ IF told' = Keys THEN MarkInitialized ELSE UNCHANGED <<initialized, reconnectDelay>>
  /\ UNCHANGED <<make, charger, step, link, loop, device, secret, authenticated,
                 fatalError, unread>>

\* A chunk without a status object is skipped before it is noted as one.
ChunkUnread(keys) ==
  /\ Reads /\ step = "signedIn" /\ Streams(charger) /\ told # Keys
  /\ told' = told \cup keys
  /\ unread' = TRUE
  /\ UNCHANGED <<make, charger, step, link, loop, device, secret, cache, authenticated,
                 initialized, streaming, fatalError, reconnectDelay>>

\* Whether a delta completes the status.
DeltaCompletesFaulty == TRUE
DeltaCompletes == ~streaming

\* What changed, once the status has begun.
Delta(keys) ==
  /\ Reads /\ step = "signedIn" /\ (Streams(charger) => told # {})
  /\ IF DeltaCompletes THEN MarkInitialized ELSE UNCHANGED <<initialized, reconnectDelay>>
  /\ ApplyStatus(keys)
  /\ UNCHANGED <<world, link, loop, device, secret, authenticated, streaming, fatalError,
                 unread>>

\* An answer to a command brings the new value along.
Response(keys) ==
  /\ Reads /\ step = "signedIn"
  /\ ApplyStatus(keys)
  /\ UNCHANGED <<world, link, loop, device, secret, flags, reconnectDelay>>

-----------------------------------------------------------------------------
(* The sockets: Connection, as far as frames notice it. *)

Lose ==
  /\ link = "open"
  /\ link' = "closed"
  /\ UNCHANGED <<world, loop, device, secret, cache, flags, reconnectDelay>>

\* The frames are read to the end, or up to the first behind a refusal, which is
\* dropped: behind an unusable hello that is the challenge.
ReadEnds ==
  /\ loop = "reading" /\ link # "open" /\ hashing = None /\ ~sending
  /\ \/ /\ link' = IF link = "closed" THEN "spent" ELSE link
        /\ UNCHANGED step
     \/ /\ fatalError # "none" /\ step = "greeted"
        /\ step' = "challenged"
        /\ UNCHANGED link
  /\ authenticated' = FALSE
  /\ loop' = IF fatalError = "final" THEN "none" ELSE "sleeping"
  /\ UNCHANGED <<make, charger, told, device, secret, cache, initialized, streaming,
                 fatalError, unread, reconnectDelay>>

\* Connection.begin().
Begin ==
  /\ fatalError' = "none" /\ initialized' = FALSE /\ streaming' = FALSE
  /\ unread' = FALSE
  /\ UNCHANGED authenticated

Connects(s) ==
  /\ link' = "open" /\ loop' = "reading"
  /\ charger' = s /\ step' = "connected" /\ told' = {}
  /\ answer' = None
  /\ UNCHANGED make

\* Connection.open() and a new _message_loop.
Open(s) ==
  /\ loop = "none" /\ link = "none"
  /\ Begin
  /\ Connects(s)
  /\ reconnectDelay' = MinDelay
  /\ UNCHANGED <<device, hashedFrom, hashing, sending, cache>>

\* Nobody answers the connection attempt.
OpenFails ==
  /\ loop = "none" /\ link = "none"
  /\ Begin
  /\ UNCHANGED <<world, link, loop, device, secret, cache, reconnectDelay>>

\* How long the next pause is.
DoubledFaulty == IF 2 * reconnectDelay > MaxDelay THEN MinDelay ELSE 2 * reconnectDelay
Doubled == IF 2 * reconnectDelay > MaxDelay THEN MaxDelay ELSE 2 * reconnectDelay

\* The pause of _message_loop is over.
Pauses ==
  /\ loop = "sleeping"
  /\ reconnectDelay' = Doubled
  /\ Begin

Retry(s) ==
  /\ Pauses
  /\ Connects(s)
  /\ UNCHANGED <<device, hashedFrom, hashing, sending, cache>>

\* The loop reads what it has of the last socket once more.
RetryFails ==
  /\ Pauses
  /\ loop' = "reading"
  /\ UNCHANGED <<world, link, device, secret, cache>>

\* Connection.resume_reconnecting(), behind an open that failed.
Resume ==
  /\ loop = "none" /\ link = "none" /\ fatalError # "final"
  /\ loop' = "reading"
  /\ reconnectDelay' = MinDelay
  /\ UNCHANGED <<world, link, device, secret, cache, flags>>

\* Connection._close(), of a failed open or a deliberate close: the reader is
\* cancelled where it is.
Close ==
  /\ loop # "none" \/ link # "none"
  /\ loop' = "none" /\ link' = "none"
  /\ authenticated' = FALSE
  /\ hashing' = None /\ sending' = FALSE
  /\ UNCHANGED <<world, device, hashedFrom, answer, cache, initialized, streaming, fatalError,
                 unread, reconnectDelay>>

-----------------------------------------------------------------------------
Handshake ==
  \/ HelloUnusable \/ Hello
  \/ AuthRequiredUnusable \/ AuthRequiredUnsupported \/ AuthRequired
  \/ Hashed \/ HashFails \/ SendAuth
  \/ AuthSuccess \/ AuthError

Status ==
  \E keys \in SUBSET Keys \ {{}} : Chunk(keys) \/ ChunkUnread(keys) \/ Delta(keys) \/ Response(keys)

Socket ==
  \/ Lose \/ ReadEnds \/ OpenFails \/ RetryFails \/ Resume \/ Close
  \/ \E s \in Serials : Open(s) \/ Retry(s)

Next == Handshake \/ Status \/ Socket \/ \E s \in Serials : Update(s)

Spec == Init /\ [][Next]_vars

-----------------------------------------------------------------------------
(* Safety. *)

\* The cache holds no value of another charger, whichever answered at the
\* address in between (the docstring of _identity_accepted).
CacheIsOwn == \A k \in Keys : cache[k] # None => cache[k] = serial

\* The hash that answers a challenge is made for the charger that asked and the
\* scheme it checks with, although hash and scheme are kept over connections and
\* the charger may have changed its firmware since.
AnswerFits == answer # None /\ Readable => answer = <<charger, Expects(charger)>>

\* A status that counts as complete is: no delta between two chunks, and no
\* chunk of an earlier socket, completes it.  A chunk nobody could read is the
\* exception, see DeltaCompletesNoStream.
InitializedIsWhole == initialized /\ Streams(charger) /\ ~unread => told = Keys

-----------------------------------------------------------------------------
(* The inductive invariant: SessionProofs. *)

\* A reader that pauses is between two frames and behind no final refusal; it
\* leaves a frame behind only past the challenge.
PausePart ==
  /\ loop # "reading" => hashing = None /\ ~sending
  /\ loop = "sleeping" => link # "open" /\ fatalError # "final"
  /\ loop = "sleeping" /\ link = "closed" => step = "challenged" /\ answer = None

\* Behind a hello that was not refused is the known charger.
KnownPart ==
  /\ step = "greeted" /\ fatalError = "none" /\ Readable
       => serial = charger /\ flex = IsFlex(charger)
  /\ step \in {"connected", "greeted"} => hashing = None /\ ~sending /\ answer = None
  /\ step = "signedIn" => serial = charger /\ charger # None
  /\ step # "signedIn" => told = {}

\* What is hashed, sent or about to be is made for the charger.
HashPart ==
  /\ authHashType # "pbkdf2"
       => serial # None /\ (Expects(serial) = authHashType \/ make[serial] \in Saying)
  /\ hashing # None \/ sending => Readable
  /\ Readable => \A inputs \in {hashing, answer} :
       inputs # None => inputs = <<charger, Expects(charger)>> /\ serial = charger
  /\ sending => hashedFrom = <<charger, Expects(charger)>> /\ serial = charger

\* Between two chunks that were read the stream is noted.
StreamPart ==
  Readable /\ step = "signedIn" /\ Streams(charger) /\ ~unread /\ told \notin {{}, Keys}
    => streaming

Inv ==
  /\ TypeOK
  /\ PausePart
  /\ KnownPart
  /\ HashPart
  /\ StreamPart
  /\ CacheIsOwn
  /\ InitializedIsWhole

-----------------------------------------------------------------------------
(* Action properties. *)

\* A charger that is known stays the one that is known.
SerialIsKept == [][serial # None => serial' = serial]_vars

\* The pause grows over the retries until a complete status has come, or the
\* reader is started anew: a socket that stalls on the way keeps it growing (the
\* docstring of mark_initialized).
StallKeepsThePause ==
  [][reconnectDelay' < reconnectDelay
       => \/ loop = "none" \/ told' = Keys \/ unread
          \/ charger # None /\ ~Streams(charger)]_vars

\* A delta completes only firmware that sends no stream (the docstring of
\* receive_delta_status).
\* The code does not keep this: see the README.
DeltaCompletesNoStream ==
  [][~initialized /\ initialized' /\ Streams(charger) => told' = Keys]_vars
=============================================================================
