---- MODULE Settings ----
\* One writable property of the charger and the entity in front of it
\* (switch.py, number.py, select.py, time.py, button.py, binary_sensor.py): what
\* the user asks for, what the entity writes, what the client makes of it, what
\* the charger keeps, and what the entity shows of the charger's pushes. The
\* owner's app writes the same property. Numbers are in hundredths throughout.
EXTENDS Integers, Sequences

CONSTANTS
  Platforms,  \* the platforms whose entities a run looks at
  Limit,      \* at most so many frames on their way from the charger
  Amounts,    \* what a user may ask of a number, in hundredths
  Moments,    \* what a user may ask of a time, in seconds of the day
  Reports,    \* what the charger and its app may set, by platform
  Presets,    \* the lists of current presets the charger may have
  Largest,    \* the largest float, in hundredths
  None        \* Python's None as a state: unknown; and nobody's wish

ASSUME PlatformsAssumption == Platforms \subseteq
  {"switch", "number", "select", "preset", "time", "button", "binary"}
ASSUME LimitAssumption == Limit \in Nat \ {0}
ASSUME LargestAssumption == Largest \in Nat
ASSUME WishesAssumption ==
  Amounts \subseteq Int /\ \A m \in Moments : m \in Nat /\ m < 86400

----
\* Values of the wire, as Python's json has them. What is beyond the floats is
\* NaN (0) or one of the infinities, and what their texts say. A text of "digits"
\* is one that int() reads, a "decimal" one that only float() does, a plain
\* "text" says no number.
Value(type, num) == [type |-> type, num |-> num]
Bool(b) == Value("bool", IF b THEN 100 ELSE 0)
Whole(n) == Value("int", 100 * n)
Float(hundredths) == Value("float", hundredths)
Beyond(sign) == Value("beyond", sign)
Text(n) == Value("text", n)          \* the n-th text of a table; 0 is ""
Digits(n) == Value("digits", 100 * n)
Decimal(hundredths) == Value("decimal", hundredths)
BeyondText(sign) == Value("beyondText", sign)
Null == Value("null", 0)
Other == Value("other", 0)           \* a list or an object

IsFloat(num) == -Largest <= num /\ num <= Largest

Values ==
  {v \in [type : {"bool", "int", "float", "beyond", "text", "digits", "decimal", "beyondText",
                  "null", "other"}, num : Int] :
     /\ v.type = "bool" => v.num \in {0, 100}
     /\ v.type \in {"int", "digits"} => v.num % 100 = 0
     /\ v.type \in {"float", "decimal"} => IsFloat(v.num)
     /\ v.type \in {"beyond", "beyondText"} => v.num \in {-1, 0, 1}}
ASSUME ReportsAssumption ==
  /\ \A p \in Platforms : Reports[p] \subseteq Values
  /\ \A l \in Presets : l \subseteq Values

Numeric == {"bool", "int", "float"}
Texts == {"text", "digits", "decimal", "beyondText"}
\* `==` between a value of a table, never NaN, and another: a true equals 1
Equal(a, b) == a = b \/ (a.type \in Numeric /\ b.type \in Numeric /\ a.num = b.num)

----
\* The descriptions (descriptions.py). A label is named after what it says.
SWITCH_DESCRIPTIONS == {"bac", "ebe", "fap", "fre", "ful", "fup", "loe", "lse", "nmo",
                        "pdte", "su", "tse", "upo", "wda"}
Inverted == {"bac", "nmo"}

Number(uid, key, low, high, asInt, scale, zeroMeansNull) ==
  [uid |-> uid, key |-> key, low |-> low, high |-> high, asInt |-> asInt, scale |-> scale,
   zeroMeansNull |-> zeroMeansNull]
SecondsSetting(key) == Number(key, key, 0, 86400, TRUE, 1000, FALSE)

NUMBER_DESCRIPTIONS ==
  {Number("amp", "amp", 6, 16, TRUE, 1, FALSE),
   Number("amp_22kw", "amp", 6, 32, TRUE, 1, FALSE),
   Number("mca", "mca", 6, 16, TRUE, 1, FALSE),
   Number("mca_22kw", "mca", 6, 32, TRUE, 1, FALSE),
   Number("awp", "awp", -99999, 999999, FALSE, 1, FALSE),
   Number("ebt", "ebt", 0, 100, TRUE, 1, FALSE),
   Number("fam", "fam", 0, 100, TRUE, 1, FALSE),
   Number("fmt", "fmt", 1, 60, TRUE, 60000, FALSE),
   Number("fot", "fot", 0, 100, TRUE, 1, FALSE),
   Number("fst", "fst", 0, 999999, FALSE, 1, FALSE),
   Number("sh", "sh", 0, 999999, FALSE, 1, FALSE),
   Number("fte", "fte", 0, 999999, TRUE, 1, FALSE),
   Number("mpwst", "mpwst", 0, 1666, TRUE, 60000, FALSE),
   Number("mptwt", "mptwt", 0, 1666, TRUE, 60000, FALSE),
   Number("pdt", "pdt", 0, 100, TRUE, 1, FALSE),
   Number("spl3", "spl3", 0, 999999, TRUE, 1, FALSE),
   Number("cco", "cco", 0, 100, FALSE, 1, FALSE),
   Number("dwo", "dwo", 0, 999999, FALSE, 1, TRUE),
   SecondsSetting("mcpd"), SecondsSetting("mci"),
   SecondsSetting("psmd"), SecondsSetting("sumd")}

\* Wire value and label of each option; the countries and the car profiles by
\* three of theirs. The current presets have no table: the charger lists them.
\* `means` is what the empty string stands for.
Option(wireValue, label) == [wire |-> wireValue, label |-> label]
Select(uid, options, means) == [uid |-> uid, options |-> options, means |-> means]
SELECT_DESCRIPTIONS ==
  {Select("acs", {Option(Whole(0), "Open"), Option(Whole(1), "AuthenticationRequired")}, Text(0)),
   Select("awc", {Option(Whole(0), "Austria"), Option(Whole(1), "Germany"),
                  Option(Whole(10043), "Belgium")}, Text(0)),
   Select("bac", {Option(Whole(0), "AlwaysLocked"),
                  Option(Whole(1), "LockedWhenCarIsConnected"),
                  Option(Whole(3), "NeverLocked")}, Text(0)),
   Select("ebo", {Option(Bool(TRUE), "OneTime"), Option(Bool(FALSE), "Repeat")}, Text(0)),
   Select("lmo", {Option(Whole(3), "Default"), Option(Whole(4), "Eco"),
                  Option(Whole(5), "NextTrip")}, Text(0)),
   Select("psm", {Option(Whole(0), "Auto"), Option(Whole(1), "OnePhase"),
                  Option(Whole(2), "ThreePhases")}, Text(0)),
   Select("tds", {Option(Whole(0), "None"), Option(Whole(1), "EuropeanSummerTime"),
                  Option(Whole(2), "UsDaylightTime"),
                  Option(Whole(3), "AUEasternDaylightTime")}, Text(0)),
   Select("ust", {Option(Whole(0), "Normal"), Option(Whole(1), "AutoUnlock"),
                  Option(Whole(2), "AlwaysLock")}, Text(0)),
   Select("ct", {Option(Text(1), "Standard"), Option(Text(2), "KiaSoul"),
                 Option(Text(3), "RenaultZoe")}, Text(1)),
   Select("frc", {Option(Whole(0), "Neutral"), Option(Whole(1), "Off"),
                  Option(Whole(2), "On")}, Text(0))}

Button(uid, key, press) == [uid |-> uid, key |-> key, press |-> press]
BUTTON_DESCRIPTIONS ==
  {Button("frc0", "frc", Whole(0)), Button("frc1", "frc", Whole(1)),
   Button("frc2", "frc", Whole(2)), Button("rst", "rst", Whole(1)),
   Button("trx", "trx", Whole(0))}

BinarySensor(uid, on, off) == [uid |-> uid, on |-> on, off |-> off]
BINARY_SENSOR_DESCRIPTIONS ==
  {BinarySensor("car_plugged_in", {Whole(2), Whole(3), Whole(4)}, {Whole(1)}),
   BinarySensor("car_charging", {Whole(2)}, {Whole(1), Whole(3), Whole(4)})}

Uids(descriptions) == {d.uid : d \in descriptions}

InReach(n, x) == 100 * n.low <= x /\ x <= 100 * n.high
\* What may be asked of a number is far from the end of the floats, in wire units too.
ASSUME FloatAssumption ==
  \A n \in NUMBER_DESCRIPTIONS : \A x \in Amounts :
    InReach(n, x) => IsFloat(n.scale * x - 100) /\ IsFloat(n.scale * x + 100)

\* What wattpilot.yaml declares of the keys written here: any type for bac and
\* rst; the others have no definition, and are sent as they are just so. Null is a
\* value only of the optional ones.
JsonType(key) ==
  CASE key \in {"fap", "fre", "ful", "fup", "loe", "lse", "nmo", "su", "tse", "upo", "wda",
                "esk"} -> "boolean"
    [] key \in {"amp", "mca", "fam", "fmt", "fot", "fte", "ftt", "mpwst", "mptwt", "mcpd",
                "mci", "psmd", "sumd", "acs", "awc", "lmo", "psm", "tds", "ust", "frc",
                "trx"} -> "integer"
    [] key \in {"awp", "fst", "sh", "spl3", "cco", "dwo"} -> "float"
    [] key = "ct" -> "string"
    [] OTHER -> "any"
Optional == {"dwo", "trx"}

----
\* The client's conversion of a value to write: the value as the charger gets
\* it, or Refused (PropertyError).
Refused == Value("refused", 0)

\* The words it also takes are written by no entity.
AsBool(v) ==
  IF v.type \in Numeric /\ v.num \in {0, 100} THEN Bool(v.num = 100) ELSE Refused
\* _parse_number, of a text
Parsed(v) ==
  CASE v.type = "digits"     -> Value("int", v.num)
    [] v.type = "decimal"    -> Float(v.num)
    [] v.type = "beyondText" -> Beyond(v.num)
    [] OTHER                 -> v
AsInt(v) ==
  LET n == Parsed(v)
  IN  IF n.type \in Numeric /\ n.num % 100 = 0 THEN Value("int", n.num) ELSE Refused
\* An int past the floats raises as well.
AsFloat(v) ==
  LET n == Parsed(v)
  IN  IF n.type = "beyond" THEN n
      ELSE IF n.type \in Numeric /\ IsFloat(n.num) THEN Float(n.num) ELSE Refused
AsText(v) == IF v.type \in Texts THEN v ELSE Refused

CoerceToJsonType(v, json) ==
  CASE json = "boolean" -> AsBool(v)
    [] json = "integer" -> AsInt(v)
    [] json = "float"   -> AsFloat(v)
    [] json = "string"  -> AsText(v)
    [] OTHER            -> v

CoerceValue(key, v) ==
  IF v = Null /\ key \in Optional THEN v ELSE CoerceToJsonType(v, JsonType(key))

----
\* An entity of the run: its platform, its unique id's suffix, and the
\* charger's model, on which only the current presets depend.
Entity(platform, uids, variants) ==
  {[platform |-> platform, uid |-> u, variant |-> v] : u \in uids, v \in variants}
Settings ==
  {e \in UNION {Entity("switch", SWITCH_DESCRIPTIONS, {"22"}),
                Entity("number", Uids(NUMBER_DESCRIPTIONS), {"22"}),
                Entity("select", Uids(SELECT_DESCRIPTIONS), {"22"}),
                Entity("preset", {"amp_preset"}, {"11", "22", "unknown"}),
                Entity("time", {"ftt"}, {"22"}),
                Entity("button", Uids(BUTTON_DESCRIPTIONS), {"22"}),
                Entity("binary", Uids(BINARY_SENSOR_DESCRIPTIONS), {"22"})} :
     e.platform \in Platforms}

VARIABLES
  entity,    \* the entity looked at
  buffered,  \* an update interval is set: pushes wait for the next flush
  wire,      \* the charger's value of its property
  list,      \* the charger's list of current presets (clp)
  unit,      \* the charger's unit flag of the trip energy (esk)
  commands,  \* writes on their way to the charger
  link,      \* status frames on their way to the client
  cache,     \* the client's last known value and list
  pending,   \* the hub's pushes held until the next flush
  shown,     \* the entity's state and options
  call,      \* the write the platform waits for: what is still to be written
  refused,   \* (history) the client refused a value an entity wrote
  asked      \* (history) the wish behind the charger's value, if it was one

charger == <<wire, list, unit>>
vars == <<entity, buffered, charger, commands, link, cache, pending, shown, call, refused, asked>>

Is(platform) == entity.platform = platform
The(descriptions) == CHOOSE d \in descriptions : d.uid = entity.uid
TheNumber == The(NUMBER_DESCRIPTIONS)
ChargerKey ==
  CASE Is("number") -> TheNumber.key
    [] Is("button") -> The(BUTTON_DESCRIPTIONS).key
    [] Is("preset") -> "amp"
    [] Is("binary") -> "car"
    [] OTHER        -> entity.uid

----
\* What the entity shows of a value.
\* The range of the current's number on this model; none on an unknown one
CurrentRange ==
  {n \in NUMBER_DESCRIPTIONS :
     n.key = "amp" /\ n.uid = IF entity.variant = "11" THEN "amp"
                              ELSE IF entity.variant = "22" THEN "amp_22kw" ELSE "none"}
IsPreset(v) ==
  \E n \in CurrentRange : v.type = "int" /\ 100 * n.low <= v.num /\ v.num <= 100 * n.high

AmpereLabel(v) == <<v.num \div 100, "A">>
\* Wire value to label: the fixed table, or the charger's own list.
WireOptions(allowed) ==
  IF Is("preset") THEN {Option(v, AmpereLabel(v)) : v \in {w \in allowed : IsPreset(w)}}
  ELSE The(SELECT_DESCRIPTIONS).options
Labels(allowed) ==
  IF Is("preset") \/ Is("select") THEN {o.label : o \in WireOptions(allowed)} ELSE {}

\* A bool matches a bool key only.
Matches(k, v) == Equal(k, v) /\ ((k.type = "bool") = (v.type = "bool"))
MatchingLabel(table, v) ==
  LET found == {o \in table : Matches(o.wire, v)}
  IN  IF found = {} THEN None ELSE (CHOOSE o \in found : TRUE).label

ShowSwitch(v) ==
  IF v.type # "bool" THEN None
  ELSE (v.num = 100) # (entity.uid \in Inverted)
\* A fraction: what float() reads, in wire units, over wire units per shown unit;
\* over 0 an infinity or NaN. float() raises on an int past the floats, and reads
\* the same digits in a text as infinity.
ShowNumber(v) ==
  CASE v.type \in {"int", "float", "digits", "decimal"} /\ IsFloat(v.num) ->
         <<v.num, TheNumber.scale>>
    [] v.type = "digits" /\ ~IsFloat(v.num) -> <<IF v.num > 0 THEN 1 ELSE -1, 0>>
    [] v.type \in {"beyond", "beyondText"} -> <<v.num, 0>>
    [] v = Null /\ TheNumber.zeroMeansNull -> <<0, TheNumber.scale>>
    [] OTHER -> None
ShowOption(v, allowed) ==
  MatchingLabel(WireOptions(allowed),
                IF Is("select") /\ v = Text(0) THEN The(SELECT_DESCRIPTIONS).means ELSE v)
\* int() cuts towards zero and reads a text of digits, no other.
Cut(num) == IF num >= 0 THEN num \div 100 ELSE -((-num) \div 100)
ShowTime(v) ==
  LET seconds == Cut(v.num) % 86400
  IN  IF v.type \in {"int", "float", "digits"}
      THEN <<seconds \div 3600, (seconds % 3600) \div 60, seconds % 60>>
      ELSE None
ShowBinary(v) ==
  LET d == The(BINARY_SENSOR_DESCRIPTIONS)
  IN  IF \E w \in d.on : Equal(v, w) THEN TRUE
      ELSE IF \E w \in d.off : Equal(v, w) THEN FALSE ELSE None

\* _apply_value: the state, and with it the options on offer
Show(v, allowed) ==
  [state |-> CASE Is("switch") -> ShowSwitch(v)
               [] Is("number") -> ShowNumber(v)
               [] Is("time")   -> ShowTime(v)
               [] Is("binary") -> ShowBinary(v)
               [] Is("button") -> None
               [] OTHER        -> ShowOption(v, allowed),
   options |-> Labels(allowed)]

----
\* What the entity writes for a wish.
RoundHalfEven(p) ==
  LET low == p \div 100
  IN  IF p % 100 < 50 \/ (p % 100 = 50 /\ low % 2 = 0) THEN 100 * low ELSE 100 * (low + 1)

\* The product in floating point: exact, or a little beside it.
Products(n, x) ==
  LET exact == n.scale * x
  IN  IF n.scale = 1 \/ x % 100 = 0 THEN {exact} ELSE {exact - 1, exact, exact + 1}
Scaled(n, x) ==
  {IF n.asInt THEN Value("int", RoundHalfEven(p)) ELSE Value("float", p) :
   p \in Products(n, x)}
WireNumber(n, x) == IF n.zeroMeansNull /\ x = 0 THEN {Null} ELSE Scaled(n, x)

\* The values that may be written for the wish, none for an unknown option.
WireSwitchFaulty(wish) == {Bool(wish)}
WireSwitch(wish) == {Bool(wish # (entity.uid \in Inverted))}
WireValues(wish) ==
  CASE Is("switch") -> WireSwitch(wish)
    [] Is("number") -> WireNumber(TheNumber, wish)
    [] Is("time")   -> {Whole(wish)}
    [] Is("button") -> {The(BUTTON_DESCRIPTIONS).press}
    [] OTHER        -> {o.wire : o \in {p \in WireOptions(cache.list) : p.label = wish}}

\* The properties written for the wish, in their order.
WritesFaulty(v) ==
  IF ChargerKey = "fte" THEN <<[key |-> "fte", value |-> v],
                               [key |-> "esk", value |-> Bool(TRUE)]>>
  ELSE <<[key |-> ChargerKey, value |-> v]>>
Writes(v) ==
  IF ChargerKey = "fte" THEN <<[key |-> "esk", value |-> Bool(TRUE)],
                               [key |-> "fte", value |-> v]>>
  ELSE <<[key |-> ChargerKey, value |-> v]>>

----
\* The wishes of each kind; Home Assistant has checked the range and the
\* options on show, and the entity that the number is finite.
Wishes ==
  CASE Is("switch") -> BOOLEAN
    [] Is("number") -> {x \in Amounts : InReach(TheNumber, x)}
    [] Is("time")   -> Moments
    [] Is("button") -> {"press"}
    [] Is("binary") -> {}
    [] OTHER        -> shown.options

\* What the charger or the app may set
Foreign ==
  Reports[entity.platform] \cup
  (IF Is("select") THEN {o.wire : o \in The(SELECT_DESCRIPTIONS).options} ELSE {})
Lists == IF Is("preset") THEN Presets ELSE {{}}

CallLimit == 2
Idle == [at |-> "idle", todo |-> <<>>, wish |-> None]
NothingPending == [value |-> {}, list |-> FALSE]
ValueFrame(v) == [key |-> "value", content |-> v]
ListFrame(l) == [key |-> "list", content |-> l]
NEVER_ACKNOWLEDGED == {"rst"}

\* The entity has been added, over a complete status.
Init ==
  /\ entity \in Settings
  /\ buffered \in BOOLEAN
  /\ wire \in Foreign
  /\ list \in Lists
  /\ unit \in BOOLEAN /\ (ChargerKey # "fte" => unit)
  /\ commands = <<>> /\ link = <<>>
  /\ cache = [value |-> wire, list |-> list]
  /\ pending = NothingPending
  /\ shown = Show(wire, list)
  /\ call = Idle
  /\ refused = FALSE
  /\ asked = None

----
Command(key, value, wish, live) == [key |-> key, value |-> value, wish |-> wish, live |-> live]

\* Wattpilot.set_property for the next of the writes
SetProperty(todo, wish) ==
  LET key == Head(todo).key
      value == CoerceValue(key, Head(todo).value)
  IN  IF value = Refused
      THEN call' = Idle /\ refused' = TRUE /\ UNCHANGED commands
      ELSE /\ commands' = Append(commands,
                Command(key, value, wish, key \notin NEVER_ACKNOWLEDGED))
           /\ call' = IF key \in NEVER_ACKNOWLEDGED THEN Idle
                      ELSE [at |-> "waiting", todo |-> Tail(todo), wish |-> wish]
           /\ UNCHANGED refused

\* The platform makes one write at a time (PARALLEL_UPDATES).
UserAsks(wish) ==
  /\ call = Idle
  /\ Len(commands) < CallLimit
  /\ \E v \in WireValues(wish) : SetProperty(Writes(v), wish)
  /\ UNCHANGED <<entity, buffered, charger, link, cache, pending, shown, asked>>

\* The write was accepted: the next one, or the end of the call.
GoesOn ==
  /\ call.at = "accepted"
  /\ Len(commands) < CallLimit
  /\ IF call.todo = <<>> THEN call' = Idle /\ UNCHANGED <<commands, refused>>
     ELSE SetProperty(call.todo, call.wish)
  /\ UNCHANGED <<entity, buffered, charger, link, cache, pending, shown, asked>>

\* No answer in time, or the connection is gone with the answer. The command
\* may still reach the charger.
TimesOut ==
  /\ call.at \in {"waiting", "accepted"}
  /\ call' = Idle
  /\ commands' = [i \in DOMAIN commands |-> [commands[i] EXCEPT !.live = FALSE]]
  /\ UNCHANGED <<entity, buffered, charger, link, cache, pending, shown, refused, asked>>

----
\* The charger.
Accepts ==
  LET c == Head(commands)
  IN  /\ commands # <<>>
      /\ commands' = Tail(commands)
      /\ call' = IF c.live THEN [call EXCEPT !.at = "accepted"] ELSE call
      /\ CASE c.key = "esk" -> unit' = TRUE /\ UNCHANGED <<wire, link, asked>>
           [] c.key = "rst" -> UNCHANGED <<wire, unit, link, asked>>
           [] OTHER -> /\ Len(link) < Limit
                       /\ wire' = c.value /\ asked' = c.wish
                       /\ link' = Append(link, ValueFrame(c.value))
                       /\ UNCHANGED unit
      /\ UNCHANGED <<entity, buffered, list, cache, pending, shown, refused>>

Rejects ==
  /\ commands # <<>>
  /\ commands' = Tail(commands)
  /\ call' = IF Head(commands).live THEN Idle ELSE call
  /\ UNCHANGED <<entity, buffered, charger, link, cache, pending, shown, refused, asked>>

\* The owner's app, or the charger of its own accord
AppSets(v) ==
  /\ Len(link) < Limit
  /\ wire' = v /\ asked' = None
  /\ link' = Append(link, ValueFrame(v))
  /\ UNCHANGED <<entity, buffered, list, unit, commands, cache, pending, shown, call, refused>>

AppLists(l) ==
  /\ Is("preset") /\ Len(link) < Limit
  /\ list' = l
  /\ link' = Append(link, ListFrame(l))
  /\ UNCHANGED <<entity, buffered, wire, unit, commands, cache, pending, shown, call, refused, asked>>

\* Not while a trip energy is being written: that call is two commands.
AppSetsUnit ==
  /\ ChargerKey = "fte"
  /\ call = Idle /\ commands = <<>>
  /\ unit' = ~unit /\ asked' = None
  /\ UNCHANGED <<entity, buffered, wire, list, commands, link, cache, pending, shown, call, refused>>

----
\* A status frame: the client's cache first, then the hub's push.
HandlePushFaulty(v, allowed) ==
  IF Is("button") \/ v = Null THEN shown ELSE Show(v, allowed)
HandlePush(v, allowed) == IF Is("button") THEN shown ELSE Show(v, allowed)
HandleCompanionPush(v, allowed) == Show(v, allowed)

ReceivesValue ==
  LET v == Head(link).content
  IN  /\ link # <<>> /\ Head(link).key = "value"
      /\ link' = Tail(link)
      /\ cache' = [cache EXCEPT !.value = v]
      /\ IF buffered THEN pending' = [pending EXCEPT !.value = {v}] /\ UNCHANGED shown
         ELSE shown' = HandlePush(v, cache.list) /\ UNCHANGED pending
      /\ UNCHANGED <<entity, buffered, charger, commands, call, refused, asked>>

ReceivesList ==
  LET l == Head(link).content
  IN  /\ link # <<>> /\ Head(link).key = "list"
      /\ link' = Tail(link)
      /\ cache' = [cache EXCEPT !.list = l]
      /\ IF buffered THEN pending' = [pending EXCEPT !.list = TRUE] /\ UNCHANGED shown
         ELSE shown' = HandleCompanionPush(cache.value, l) /\ UNCHANGED pending
      /\ UNCHANGED <<entity, buffered, charger, commands, call, refused, asked>>

\* The value buffered last is the cached one, so the order of the two is moot.
FlushPending ==
  /\ pending # NothingPending
  /\ shown' = IF pending.list THEN HandleCompanionPush(cache.value, cache.list)
              ELSE HandlePush(CHOOSE v \in pending.value : TRUE, cache.list)
  /\ pending' = NothingPending
  /\ UNCHANGED <<entity, buffered, charger, commands, link, cache, call, refused, asked>>

Next ==
  \/ \E wish \in Wishes : UserAsks(wish)
  \/ GoesOn \/ TimesOut
  \/ Accepts \/ Rejects
  \/ \E v \in Foreign : AppSets(v)
  \/ \E l \in Lists : AppLists(l)
  \/ AppSetsUnit
  \/ ReceivesValue \/ ReceivesList \/ FlushPending

Spec == Init /\ [][Next]_vars

----
Settled == link = <<>> /\ pending = NothingPending

\* The kinds of value an entity shows. A number and a time also read texts; what
\* shows as a number must not be a bool, a null, a list or a word.
Kinds ==
  CASE Is("switch") -> {"bool"}
    [] Is("number") -> {"int", "float", "beyond", "digits", "decimal", "beyondText"}
    [] Is("time")   -> {"int", "float", "digits"}
    [] Is("select") -> {o.wire.type : o \in The(SELECT_DESCRIPTIONS).options} \cup
                       (IF entity.uid = "ebo" THEN {} ELSE {"float"})
    [] Is("binary") -> Numeric
    [] OTHER        -> {"int", "float"}

\* Once the pushes are through, the entity shows the charger's value under the
\* charger's own options, whichever of the two changed last, and a value of
\* another kind as unknown: a true is not 1 A, nor the option numbered 1, and a
\* text that says no number is none.
ShownIsCharger ==
  Settled =>
    /\ ~Is("button") => shown = Show(wire, list)
    /\ wire.type \notin Kinds =>
         shown.state = None \/ (wire = Null /\ Is("number") /\ TheNumber.zeroMeansNull)

\* The wish as nearly as the wire can hold it
Nearest(n, state, wish) ==
  LET exact == wish * n.scale
      off == state[1] - exact
  IN  /\ state[2] = n.scale
      /\ IF exact % 100 = 0 \/ ~n.asInt THEN off = 0 ELSE -50 <= off /\ off <= 50

\* What the charger stored of a wish reads back as that wish, exactly where the
\* wire can hold it and else as the nearest it can hold: no entity writes one
\* thing and shows another, and none writes another option than the chosen one.
ReadsBack(s, wish) ==
  /\ Is("number") => Nearest(TheNumber, s.state, wish)
  /\ Is("time") => 3600 * s.state[1] + 60 * s.state[2] + s.state[3] = wish
  /\ Is("preset") => (wish \in s.options => s.state = wish)
  /\ Is("switch") \/ Is("select") => s.state = wish

\* The client refuses nothing an entity lets the user choose ("a number written
\* to an integer key has to be whole already"), and what the charger took of it
\* is what the entity shows.
AskedIsShown == ~refused /\ (Settled /\ asked # None => ReadsBack(shown, asked))

\* The trip energy that Home Assistant stored stands in Wh: the unit went first,
\* and a write that fails in between leaves the old energy.
EnergyHasItsUnit == ChargerKey = "fte" /\ asked # None => unit

----
\* What a write leaves at the charger, whatever list it has then
Reads(v, wish) ==
  /\ v \in Values
  /\ IF Is("preset") THEN IsPreset(v) /\ AmpereLabel(v) = wish ELSE ReadsBack(Show(v, {}), wish)
Writable(v, wish) ==
  LET value == CoerceValue(ChargerKey, v)
  IN  value # Refused /\ Reads(value, wish)

\* The last frame of a kind, or without one what the client has, is what the
\* charger has.
Settles(frames, key, before, now) ==
  \/ before = now /\ \A i \in DOMAIN frames : frames[i].key # key
  \/ \E i \in DOMAIN frames :
       /\ frames[i].key = key /\ frames[i].content = now
       /\ \A j \in DOMAIN frames : j > i => frames[j].key # key

Valued == [key : {"value"}, content : Values]
Listed == [key : {"list"}, content : SUBSET Values]

TypeOK ==
  /\ entity \in Settings
  /\ buffered \in BOOLEAN /\ unit \in BOOLEAN /\ refused \in BOOLEAN
  /\ wire \in Values /\ cache \in [value : Values, list : SUBSET Values]
  /\ list \in SUBSET Values
  /\ link \in Seq(Valued \cup Listed)
  /\ commands \in Seq({commands[i] : i \in DOMAIN commands})
  /\ pending.value \subseteq {cache.value} /\ pending.list \in BOOLEAN
  /\ pending = [value |-> pending.value, list |-> pending.list]

\* A command on its way: its answer is waited for only if it is live, never for
\* the restart, which the charger does not answer.
CommandFits(c, live) ==
  /\ c = Command(c.key, c.value, c.wish, c.live)
  /\ (c.live <=> live) /\ (live => c.key # "rst")
  /\ c.key = "esk" \/ (c.key = ChargerKey /\ Reads(c.value, c.wish))

\* Only a trip energy has a second write.
TodoFits(todo, wish) ==
  todo # <<>> => /\ ChargerKey = "fte" /\ todo = <<todo[1]>>
                 /\ todo[1].key = "fte" /\ Writable(todo[1].value, wish)

\* The platform waits for one command at most, the last it sent.
CallFits ==
  /\ Len(commands) <= CallLimit /\ Len(link) <= Limit
  /\ call = [at |-> call.at, todo |-> call.todo, wish |-> call.wish]
  /\ call.at \in {"idle", "waiting", "accepted"} /\ (call.at = "idle" => call = Idle)
  /\ call.at = "waiting" => commands # <<>>
  /\ \A i \in DOMAIN commands :
       CommandFits(commands[i], call.at = "waiting" /\ i = Len(commands))
  /\ TodoFits(call.todo, call.wish)
  /\ call.todo # <<>> /\ call.at = "waiting" => commands[Len(commands)].key = "esk"
  /\ ~refused
  /\ asked # None => Reads(wire, asked)

\* A trip energy is not on its way before its unit is set.
UnitFits ==
  ChargerKey = "fte" =>
    /\ asked # None => unit
    /\ \A i \in DOMAIN commands : commands[i].key = "fte" => unit
    /\ call.at = "accepted" /\ call.todo # <<>> => unit

ShownFits ==
  /\ ~buffered => pending = NothingPending
  /\ Settles(link, "value", cache.value, wire) /\ Settles(link, "list", cache.list, list)
  /\ pending = NothingPending \/ Is("button") => shown = Show(cache.value, cache.list)

Inv == TypeOK /\ CallFits /\ UnitFits /\ ShownFits

====
