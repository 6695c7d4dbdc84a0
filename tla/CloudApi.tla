---- MODULE CloudApi ----
\* Switching the go-e cloud API on and off (client.py, enable_cloud_api and
\* disable_cloud_api; hub.py and services.py pass the calls on, several at a
\* time). The charger answers the write at once and sends the key when it has
\* one; the frames come in the charger's order, until the connection is lost.
EXTENDS Naturals, Sequences

CONSTANTS
  Callers,   \* service calls that may run at a time
  Keys,      \* the keys the charger may make
  NoKey,     \* an empty key, or null, in no case one of Keys
  Limit      \* at most so many frames, and so many commands, under way

VARIABLES
  enabled,    \* the charger's switch (cae)
  key,        \* the charger's key
  connected,  \* the connection stands
  commands,   \* the writes on their way to the charger
  link,       \* the frames on their way to the client
  cak,        \* Wattpilot._cak, the last key received
  pc,         \* where each call is
  callbacks,  \* the calls whose note_key is registered
  arrived,    \* the calls whose key_arrived is set
  result,     \* how each call last ended, with which key
  since       \* (history) the keys of the charger since it took the call's write

charger == <<enabled, key, since>>
vars == <<charger, connected, commands, link, cak, pc, callbacks, arrived, result>>

\* sending: the write is not answered yet; answered: it is, and the call has not
\* gone on; waiting: for the key. A call that disables knows the first two only.
Stages == {"idle", "sending", "answered", "waiting", "disabling", "disabled"}
Pending(c) == pc[c] \in {"sending", "disabling"}

\* `live`: the call still waits for its answer (the ids of two calls differ).
Command(c, value) == [caller |-> c, value |-> value, live |-> TRUE]
Answer(m, ok) == [type |-> "answer", caller |-> m.caller, live |-> m.live, ok |-> ok, key |-> NoKey]
KeyFrame(k) == [type |-> "key", caller |-> CHOOSE c \in Callers : TRUE, live |-> FALSE,
                ok |-> TRUE, key |-> k]
Forget(c, seq) ==
  [i \in DOMAIN seq |-> IF seq[i].caller = c THEN [seq[i] EXCEPT !.live = FALSE] ELSE seq[i]]

NoResult == [how |-> "none", key |-> NoKey]

\* The state before any call: the charger may be on already.
Init ==
  /\ enabled \in BOOLEAN
  /\ key \in Keys \cup {NoKey}
  /\ connected = TRUE
  /\ commands = <<>> /\ link = <<>>
  /\ cak = key
  /\ pc = [c \in Callers |-> "idle"]
  /\ callbacks = {} /\ arrived = {}
  /\ result = [c \in Callers |-> NoResult]
  /\ since = [c \in Callers |-> {}]

----
\* The end of enable_cloud_api: `finally: unsubscribe()`, and the event is gone.
End(c, how, k) ==
  /\ pc' = [pc EXCEPT ![c] = "idle"]
  /\ callbacks' = callbacks \ {c}
  /\ arrived' = arrived \ {c}
  /\ result' = [result EXCEPT ![c] = [how |-> how, key |-> k]]

\* The key as it is when the call goes on, which may be none again.
Take(c) == IF cak # NoKey THEN End(c, "enabled", cak) ELSE End(c, "empty", NoKey)

\* The callback is registered before the write is sent, so that no key is missed.
EnableFaulty(c) ==
  /\ pc[c] = "idle" /\ connected /\ Len(commands) < Limit
  /\ pc' = [pc EXCEPT ![c] = "sending"]
  /\ commands' = Append(commands, Command(c, TRUE))
  /\ since' = [since EXCEPT ![c] = {}]
  /\ result' = [result EXCEPT ![c] = NoResult]
  /\ UNCHANGED <<enabled, key, connected, link, cak, callbacks, arrived>>
Enable(c) ==
  /\ pc[c] = "idle" /\ connected /\ Len(commands) < Limit
  /\ pc' = [pc EXCEPT ![c] = "sending"]
  /\ callbacks' = callbacks \cup {c}
  /\ commands' = Append(commands, Command(c, TRUE))
  /\ since' = [since EXCEPT ![c] = {}]
  /\ result' = [result EXCEPT ![c] = NoResult]
  /\ UNCHANGED <<enabled, key, connected, link, cak, arrived>>

Disable(c) ==
  /\ pc[c] = "idle" /\ connected /\ Len(commands) < Limit
  /\ pc' = [pc EXCEPT ![c] = "disabling"]
  /\ commands' = Append(commands, Command(c, FALSE))
  /\ since' = [since EXCEPT ![c] = {}]
  /\ result' = [result EXCEPT ![c] = NoResult]
  /\ UNCHANGED <<enabled, key, connected, link, cak, callbacks, arrived>>

\* The write was accepted and the call goes on.
GoesOn(c) ==
  /\ pc[c] = "answered"
  /\ IF cak # NoKey THEN Take(c)
     ELSE pc' = [pc EXCEPT ![c] = "waiting"] /\ UNCHANGED <<callbacks, arrived, result>>
  /\ UNCHANGED <<charger, connected, commands, link, cak>>

Disabled(c) ==
  /\ pc[c] = "disabled"
  /\ pc' = [pc EXCEPT ![c] = "idle"]
  /\ UNCHANGED <<charger, connected, commands, link, cak, callbacks, arrived, result>>

\* key_arrived.wait() returns. An event set before the wait began counts.
Wakes(c) ==
  /\ pc[c] = "waiting" /\ c \in arrived
  /\ Take(c)
  /\ UNCHANGED <<charger, connected, commands, link, cak>>

\* asyncio.timeout, also in the turn in which the event was set
TimesOut(c) ==
  /\ pc[c] = "waiting"
  /\ End(c, "timeout", NoKey)
  /\ UNCHANGED <<charger, connected, commands, link, cak>>

\* The command had no answer in time: the write raises.
WriteTimesOut(c) ==
  /\ Pending(c)
  /\ End(c, "failed", NoKey)
  /\ commands' = Forget(c, commands) /\ link' = Forget(c, link)
  /\ UNCHANGED <<charger, connected, cak>>

----
\* The charger, which takes or refuses the writes in their order.
Takes ==
  LET m == Head(commands)
  IN  /\ commands # <<>> /\ Len(link) < Limit
      /\ commands' = Tail(commands)
      /\ \E ok \in BOOLEAN :
           /\ enabled' = IF ok THEN m.value ELSE enabled
           /\ link' = Append(link, Answer(m, ok))
           /\ since' = IF ok /\ m.value /\ m.live
                       THEN [since EXCEPT ![m.caller] = {key}] ELSE since
      /\ UNCHANGED <<key, connected, cak, pc, callbacks, arrived, result>>

\* It makes a key while the API is on and drops it while it is off, and pushes
\* either. The owner's app switches too.
ChangesKey ==
  /\ \/ enabled /\ key = NoKey /\ key' \in Keys
     \/ ~enabled /\ key # NoKey /\ key' = NoKey
  /\ IF connected THEN Len(link) < Limit /\ link' = Append(link, KeyFrame(key'))
     ELSE UNCHANGED link
  /\ since' = [c \in Callers |-> IF since[c] = {} THEN {} ELSE since[c] \cup {key'}]
  /\ UNCHANGED <<enabled, connected, commands, cak, pc, callbacks, arrived, result>>

AppSwitches ==
  /\ enabled' = ~enabled
  /\ UNCHANGED <<key, since, connected, commands, link, cak, pc, callbacks, arrived, result>>

\* With the connection go the frames and the writes, and every write that waits
\* for its answer fails. A call that waits for the key does not notice.
Fails(c) == Pending(c)
ConnectionLost ==
  /\ connected
  /\ connected' = FALSE
  /\ commands' = <<>> /\ link' = <<>>
  /\ pc' = [c \in Callers |-> IF Fails(c) THEN "idle" ELSE pc[c]]
  /\ callbacks' = {c \in callbacks : ~Fails(c)}
  /\ arrived' = {c \in arrived : ~Fails(c)}
  /\ result' = [c \in Callers |->
                  IF Fails(c) THEN [how |-> "failed", key |-> NoKey] ELSE result[c]]
  /\ UNCHANGED <<charger, cak>>

\* The full status of the new connection holds the key too.
Reconnects ==
  /\ ~connected
  /\ connected' = TRUE
  /\ link' = <<KeyFrame(key)>>
  /\ UNCHANGED <<charger, commands, cak, pc, callbacks, arrived, result>>

----
\* The client's reader.
\* _update_property: the cache first, then every registered note_key.
ReceivesKey ==
  LET k == Head(link).key
  IN  /\ link # <<>> /\ Head(link).type = "key"
      /\ link' = Tail(link)
      /\ cak' = k
      /\ arrived' = IF k # NoKey THEN arrived \cup callbacks ELSE arrived
      /\ UNCHANGED <<charger, connected, commands, pc, callbacks, result>>

\* An answer for a call that has ended finds nobody.
ReceivesAnswer ==
  LET a == Head(link)
      c == a.caller
  IN  /\ link # <<>> /\ a.type = "answer"
      /\ link' = Tail(link)
      /\ IF ~a.live \/ ~Pending(c) THEN UNCHANGED <<pc, callbacks, arrived, result>>
         ELSE IF ~a.ok THEN End(c, "failed", NoKey)
         ELSE /\ pc' = [pc EXCEPT ![c] = IF @ = "sending" THEN "answered" ELSE "disabled"]
              /\ UNCHANGED <<callbacks, arrived, result>>
      /\ UNCHANGED <<charger, connected, commands, cak>>

Next ==
  \/ \E c \in Callers : \/ Enable(c) \/ Disable(c) \/ GoesOn(c) \/ Disabled(c)
                        \/ Wakes(c) \/ TimesOut(c) \/ WriteTimesOut(c)
  \/ Takes \/ ChangesKey \/ AppSwitches
  \/ ConnectionLost \/ Reconnects \/ ReceivesKey \/ ReceivesAnswer

Spec == Init /\ [][Next]_vars

----
Frame == [type : {"answer", "key"}, caller : Callers, live : BOOLEAN, ok : BOOLEAN,
          key : Keys \cup {NoKey}]
Write == [caller : Callers, value : BOOLEAN, live : BOOLEAN]

TypeOK ==
  /\ enabled \in BOOLEAN /\ connected \in BOOLEAN
  /\ key \in Keys \cup {NoKey} /\ cak \in Keys \cup {NoKey}
  /\ commands \in Seq(Write) /\ link \in Seq(Frame)
  /\ pc \in [Callers -> Stages]
  /\ callbacks \subseteq Callers /\ arrived \subseteq Callers
  /\ result \in [Callers -> [how : {"none", "enabled", "empty", "timeout", "failed"},
                              key : Keys \cup {NoKey}]]
  /\ since \in [Callers -> SUBSET (Keys \cup {NoKey})]

\* A callback is registered for just as long as its call runs: none is left
\* behind by a call that failed, timed out or lost its connection, to be run
\* for every later push.
CallbacksFit ==
  /\ callbacks = {c \in Callers : pc[c] \in {"sending", "answered", "waiting"}}
  /\ arrived \subseteq callbacks
  /\ \A c \in Callers : pc[c] # "idle" => result[c] = NoResult

\* Each live write or answer belongs to a call that waits, and is its only one.
Same(a, b) == a.live /\ b.live /\ a.caller = b.caller
WritesFit ==
  /\ \A i \in DOMAIN commands : commands[i].live =>
       pc[commands[i].caller] = (IF commands[i].value THEN "sending" ELSE "disabling")
  /\ \A i \in DOMAIN link : link[i].live => link[i].type = "answer" /\ Pending(link[i].caller)
  /\ \A i, j \in DOMAIN commands : Same(commands[i], commands[j]) => i = j
  /\ \A i, j \in DOMAIN link : Same(link[i], link[j]) => i = j
  /\ \A i \in DOMAIN commands, j \in DOMAIN link : ~Same(commands[i], link[j])

\* A client with the key k that reads n of the frames has one of S, and keeps to
\* S over the frames behind them.
Settled(k, frames, n, S) ==
  /\ \/ k \in S /\ \A i \in 1..n : frames[i].type # "key"
     \/ \E i \in 1..n : /\ frames[i].type = "key" /\ frames[i].key \in S
                       /\ \A j \in (i + 1)..n : frames[j].type # "key"
  /\ \A i \in (n + 1)..Len(frames) : frames[i].type = "key" => frames[i].key \in S

\* The frames under way bring the client to the charger's key; a call whose
\* write was taken has one of its keys from the answer on.
KeysFit ==
  /\ connected => Settled(cak, link, Len(link), {key})
  /\ ~connected => commands = <<>> /\ link = <<>>
  /\ \A c \in Callers : since[c] # {} => key \in since[c]
  /\ \A c \in Callers : pc[c] \in {"answered", "waiting"} => Settled(cak, link, 0, since[c])
  /\ \A i \in DOMAIN link :
       (link[i].live /\ link[i].ok /\ pc[link[i].caller] = "sending") =>
         Settled(cak, link, i, since[link[i].caller])

\* The key that comes between the write and its answer, or right after, wakes
\* the call too: none waits for a key that the client already has.
NoLostWakeup == \A c \in Callers : pc[c] = "waiting" /\ cak # NoKey => c \in arrived

\* The key a call returns is one the charger had when it took the call's write, or
\* later: not the one a switch before had cleared.
KeyIsCurrent ==
  \A c \in Callers : result[c].how = "enabled" => result[c].key \in since[c]

Inv == TypeOK /\ CallbacksFit /\ WritesFit /\ KeysFit /\ NoLostWakeup /\ KeyIsCurrent

\* A switch gets the key it asked for, and gets it when it comes.
SwitchGetsItsKey == NoLostWakeup /\ KeyIsCurrent

\* enable_cloud_api "waits up to *timeout* seconds for the key" (its docstring): it
\* gives up on an empty key only when the charger has made one since it was
\* asked, not because of one from before.
WaitsForTheKey ==
  \A c \in Callers : result[c].how = "empty" => since[c] # {NoKey}

====
