---------------------------- MODULE RefusedFrames ----------------------------
(***************************************************************************)
(* Connection with a record of the sockets on which the charger has been   *)
(* refused, to say what becomes of the frames behind a refusal.  The       *)
(* record only observes: every step of Connection stays possible.          *)
(***************************************************************************)
EXTENDS Connection

VARIABLE refused   \* sockets whose current WebSocket has been refused

Opened(s) == link[s] = "spent" /\ link'[s] = "open"

Refusal == fatalError = "none" /\ fatalError' # "none"

RefusedInit == Init /\ refused = {}

RefusedNext ==
  /\ Next
  /\ refused' = (refused \cup (IF Refusal THEN {socket} ELSE {})) \ {s \in Sockets : Opened(s)}

RefusedSpec == RefusedInit /\ [][RefusedNext]_<<vars, refused>>

\* No frame is handled that lies behind a refusal on the same socket (the
\* comment in _read_frames, and two tests).  Here: none signs the client in or
\* completes its status.
\* The code does not keep this: the loop reads the refused socket again when
\* the connect after its backoff fails, and begin() has cleared the refusal.
RefusedSocketIsSilent ==
  [][ (~authenticated /\ authenticated') \/ (~initialized /\ initialized')
      => socket \notin refused ]_<<vars, refused>>
=============================================================================
