---- MODULE Offers ----
\* The firmware update entity (update.py): the versions the charger offers
\* (onv) and the one it runs (fwv) reach it as two properties, through the hub's
\* buffer (hub.py), and a new firmware has the entry set up again (__init__.py).
\* The installation itself is in Firmware.
EXTENDS Integers, Sequences

CONSTANTS
  Lists,     \* what the charger may send as onv, a single text as a list of one
  None       \* no version

----
\* Spellings of versions, and how new packaging.version reads them: not at all
\* ("beta"), two of them alike. A blank stands for whatever is no text.
Versions == {"old", "current", "new", "newAgain", "beta"}
Spellings == Versions \cup {"blank"}
Rank == [v \in Spellings |->
           IF v = "old" THEN 1 ELSE IF v = "current" THEN 2 ELSE IF v \in {"new", "newAgain"} THEN 3 ELSE 0]
Parsed(v) == Rank[v] > 0

\* _is_version on each entry
Usable(l) == {l[i] : i \in DOMAIN l} \ {"blank"}

\* _newest_version: the first of the newest that parse, else the first.
Best(S) == {v \in S : Parsed(v) /\ \A w \in S : Rank[w] <= Rank[v]}
FirstOf(l, S) == l[CHOOSE i \in DOMAIN l : l[i] \in S /\ \A j \in DOMAIN l : j < i => l[j] \notin S]
Newest(l) ==
  IF Best(Usable(l)) # {} THEN FirstOf(l, Best(Usable(l)))
  ELSE IF Usable(l) # {} THEN FirstOf(l, Usable(l)) ELSE None

VARIABLES
  buffered,    \* an update interval is set: pushes wait for the next flush
  charger,     \* the firmware it runs, the versions it offers
  connected,
  link,        \* status frames on their way: the keys in their order, the values
  cache,       \* the client's last values
  pending,     \* keys the hub holds until the next flush, in order
  entity,      \* installed and latest version as shown, the offered ones
  known,       \* the version the reload compares with
  waiting,     \* a reload waits for the entry to settle
  installing,  \* an installation is under way
  oct          \* the version last written to the charger, None when taken

hub == <<buffered, pending, entity, known, waiting>>
vars == <<charger, connected, link, cache, hub, installing, oct>>

\* WattpilotUpdate._apply_value
ApplyValueFaulty(e, c) ==
  [installed |-> c.fwv, offered |-> Usable(c.onv),
   latest |-> IF Newest(c.onv) # None THEN Newest(c.onv)
              ELSE IF e.latest # None THEN e.latest ELSE c.fwv]
ApplyValue(e, c) ==
  [installed |-> c.fwv, offered |-> Usable(c.onv),
   latest |-> IF Newest(c.onv) = None THEN c.fwv ELSE Newest(c.onv)]

HandleInstalledPush(e, c) == [e EXCEPT !.installed = c.fwv]

\* The entity is added over a complete status.
NoEntity == [installed |-> None, latest |-> None, offered |-> {}]

Init ==
  /\ buffered \in BOOLEAN
  /\ charger \in [fwv : {"old", "current"}, onv : Lists]
  /\ connected = TRUE /\ link = <<>>
  /\ cache = charger
  /\ pending = <<>>
  /\ entity = ApplyValue(NoEntity, cache)
  /\ known = cache.fwv /\ waiting = FALSE
  /\ installing = FALSE /\ oct = None

----
\* What a frame or the hub's buffer holds, one of the two properties or both,
\* is applied in its order.
InTurn(Op(_, _), h, keys) ==
  LET once == Op(h, keys[1])
  IN  IF Len(keys) = 1 THEN once ELSE Op(once, keys[2])

\* A push reaches the entity and, for fwv, the watch over the firmware.
Push(h, key) ==
  IF key = "onv" THEN [h EXCEPT !.entity = ApplyValue(@, h.cache)]
  ELSE [h EXCEPT !.entity = HandleInstalledPush(@, h.cache),
                 !.known = h.cache.fwv,
                 !.waiting = @ \/ h.cache.fwv # h.known]

\* A property of a frame goes to the cache and on to the hub.
Applied(h, key) ==
  LET values == Head(link).values
      c == IF key = "onv" THEN [h EXCEPT !.cache.onv = values.onv]
           ELSE [h EXCEPT !.cache.fwv = values.fwv]
  IN  IF ~buffered THEN Push(c, key)
      ELSE IF \E i \in DOMAIN h.pending : h.pending[i] = key THEN c
      ELSE [c EXCEPT !.pending = Append(@, key)]

Client == [cache |-> cache, pending |-> pending, entity |-> entity,
           known |-> known, waiting |-> waiting]
Becomes(h) ==
  /\ cache' = h.cache /\ pending' = h.pending
  /\ entity' = h.entity /\ known' = h.known /\ waiting' = h.waiting

Receives ==
  /\ link # <<>>
  /\ link' = Tail(link)
  /\ Becomes(InTurn(Applied, Client, Head(link).keys))
  /\ UNCHANGED <<buffered, charger, connected, installing, oct>>

FlushPending ==
  /\ pending # <<>>
  /\ Becomes(InTurn(Push, [Client EXCEPT !.pending = <<>>], pending))
  /\ UNCHANGED <<buffered, charger, connected, link, installing, oct>>

\* The reload, once the entry has settled: the entry is set up anew over the
\* complete status of a connection of its own.
Reloads ==
  /\ waiting /\ connected /\ link = <<>> /\ ~installing
  /\ cache' = charger
  /\ pending' = <<>>
  /\ entity' = ApplyValue(NoEntity, charger)
  /\ known' = charger.fwv /\ waiting' = FALSE
  /\ UNCHANGED <<buffered, charger, connected, link, installing, oct>>

----
\* async_install: of any version the user names, or of the latest shown.
MayInstall(version) == version \in entity.offered
Installs(choice) ==
  LET version == IF choice = None THEN entity.latest ELSE choice
  IN  /\ ~installing /\ oct = None
      /\ MayInstall(version)
      /\ oct' = version /\ installing' = TRUE
      /\ UNCHANGED <<charger, connected, link, cache, hub>>

\* It ends with the charger back, or by its timeout.
InstallEnds ==
  /\ installing
  /\ installing' = FALSE
  /\ UNCHANGED <<charger, connected, link, cache, hub, oct>>

----
\* The charger takes what it is sent, or the owner's app has it install one of
\* its own: it restarts.
Restarts(version) ==
  /\ charger' = [charger EXCEPT !.fwv = version]
  /\ connected' = FALSE /\ link' = <<>>
  /\ UNCHANGED <<cache, hub, installing>>
TakesOrder == connected /\ oct # None /\ Restarts(oct) /\ oct' = None
Refuses == oct # None /\ oct' = None
           /\ UNCHANGED <<charger, connected, link, cache, hub, installing>>
AppInstalls(version) == connected /\ Restarts(version) /\ UNCHANGED oct

\* Its full status names both, in an order of its own.
Reconnects(keys) ==
  /\ ~connected
  /\ connected' = TRUE
  /\ link' = <<[keys |-> keys, values |-> charger]>>
  /\ UNCHANGED <<charger, cache, hub, installing, oct>>

\* A delta with another offer
OffersOthers(l) ==
  /\ l # charger.onv
  /\ charger' = [charger EXCEPT !.onv = l]
  /\ IF connected /\ link = <<>> THEN link' = <<[keys |-> <<"onv">>, values |-> charger']>>
     ELSE ~connected /\ UNCHANGED link
  /\ UNCHANGED <<connected, cache, hub, installing, oct>>

Next ==
  \/ Receives \/ FlushPending \/ Reloads
  \/ \E choice \in Versions \cup {None} : Installs(choice)
  \/ InstallEnds
  \/ TakesOrder \/ Refuses
  \/ \E version \in {"old", "current", "new"} : AppInstalls(version)
  \/ \E keys \in {<<"fwv", "onv">>, <<"onv", "fwv">>} : Reconnects(keys)
  \/ \E l \in Lists : OffersOthers(l)

Spec == Init /\ [][Next]_vars

----
Held(key) == \E i \in DOMAIN pending : pending[i] = key
\* Home Assistant's UpdateEntity.state: versions it cannot compare count as an
\* update.
ShowsUpdate ==
  /\ entity.latest # entity.installed
  /\ \/ ~Parsed(entity.latest) \/ ~Parsed(entity.installed)
     \/ Rank[entity.latest] > Rank[entity.installed]

Status == [fwv : Versions, onv : Lists]
Orders == {<<"onv">>, <<"fwv">>, <<"fwv", "onv">>, <<"onv", "fwv">>}

TypeOK ==
  /\ buffered \in BOOLEAN /\ connected \in BOOLEAN /\ waiting \in BOOLEAN
  /\ charger \in Status /\ cache \in Status
  /\ link \in Seq([keys : Orders, values : Status])
  /\ pending \in Orders \cup {<<>>}
  /\ entity \in [installed : Versions, latest : Versions, offered : SUBSET Versions]
  /\ known \in Versions /\ oct \in Versions \cup {None}

\* The watch over the firmware and the entity see the same one. Both and what
\* the entity offers follow the cache, but for what the hub still holds.
EntityFits ==
  /\ ~buffered => pending = <<>>
  /\ known = entity.installed
  /\ ~Held("fwv") => known = cache.fwv
  /\ ~Held("onv") => entity.offered = Usable(cache.onv)
  /\ entity.offered # {} =>
       /\ entity.latest \in entity.offered
       /\ \A v \in entity.offered : Rank[v] <= Rank[entity.latest]
  /\ entity.offered = {} => entity.latest = entity.installed \/ waiting

Inv == TypeOK /\ EntityFits

\* The latest version is one of the offered and none of them is newer, whatever
\* the order of the wire, and an update on show can be installed: its version is
\* offered, or the entry is about to be set up again.
UpdateIsInstallable ==
  pending = <<>> =>
    /\ Usable(cache.onv) # {} =>
         /\ \E i \in DOMAIN cache.onv : cache.onv[i] = entity.latest
         /\ \A i \in DOMAIN cache.onv : Rank[cache.onv[i]] <= Rank[entity.latest]
    /\ ShowsUpdate => waiting \/ MayInstall(entity.latest)

\* Nothing on offer: the latest version is the installed one.
\* This does NOT hold: the push of a new firmware leaves the latest as it was.
FallsBack == pending = <<>> /\ entity.offered = {} => entity.latest = entity.installed

====
