--------------------------- MODULE SettingsProofs ---------------------------
(***************************************************************************)
(* Proofs about Settings: for every wish Home Assistant lets through, every *)
(* value the charger reports, every list of presets and any number of      *)
(* frames on their way.                                                    *)
(***************************************************************************)
EXTENDS Settings, SequenceTheorems, TLAPS

-----------------------------------------------------------------------------
(* Values *)

LEMMA ValuesFit ==
  /\ \A b \in BOOLEAN : Bool(b) \in Values
  /\ \A n \in Int : Whole(n) \in Values /\ Text(n) \in Values
  /\ Null \in Values /\ Other \in Values /\ Refused \notin Values
  <1>1. \A n \in Int : (100 * n) \in Int /\ (100 * n) % 100 = 0
    OBVIOUS
  <1>2. \A n \in Int : Whole(n) \in Values
    BY <1>1 DEF Values, Whole, Value
  <1> QED
    BY <1>2 DEF Values, Bool, Text, Null, Other, Refused, Value

\* What the client makes of a number, as integer and as float.
LEMMA NumbersCoerce ==
  ASSUME NEW type \in Numeric, NEW k \in Int
  PROVE  LET v == Value(type, k)
         IN  /\ k % 100 = 0 => AsInt(v) = Value("int", k)
             /\ IsFloat(k) => AsFloat(v) = Value("float", k)
  <1> DEFINE v == Value(type, k)
  <1>1. v.type \in {"bool", "int", "float"} /\ v.type = type /\ v.num = k
    BY DEF Value, Numeric
  <1> HIDE DEF v
  <1>2. Parsed(v) = v
    BY <1>1 DEF Parsed
  <1>3. k % 100 = 0 => AsInt(v) = Value("int", k)
    BY <1>1, <1>2 DEF AsInt
  <1>4. IsFloat(k) => AsFloat(v) = Value("float", k)
    BY <1>1, <1>2 DEF AsFloat, Float
  <1> QED
    BY <1>3, <1>4 DEF v

\* Two values are one when their type and number are.
LEMMA ValueIs ==
  ASSUME NEW v \in Values, NEW w \in Values, v.type = w.type, v.num = w.num PROVE v = w
  BY DEF Values

LEMMA Rounds ==
  ASSUME NEW p \in Int
  PROVE  /\ RoundHalfEven(p) \in Int /\ RoundHalfEven(p) % 100 = 0
         /\ -50 <= RoundHalfEven(p) - p /\ RoundHalfEven(p) - p <= 50
         /\ p % 100 = 0 => RoundHalfEven(p) = p
  BY DEF RoundHalfEven

LEMMA RoundsBeside ==
  ASSUME NEW p \in Int, p % 100 = 0, NEW q \in {p - 1, p, p + 1} PROVE RoundHalfEven(q) = p
  BY DEF RoundHalfEven

-----------------------------------------------------------------------------
(* The descriptions of the numbers *)

NumberFits(n) ==
  /\ n.scale \in {1, 1000, 60000}
  /\ n.low \in Int /\ n.high \in Int
  /\ n.asInt => JsonType(n.key) \in {"integer", "float", "any"}
  /\ ~n.asInt => n.scale = 1 /\ JsonType(n.key) \in {"float", "any"}
  /\ n.zeroMeansNull => n.key \in Optional
  /\ n.key \notin {"esk", "rst"}

LEMMA NumbersFit == \A n \in NUMBER_DESCRIPTIONS : NumberFits(n)
  <1>1. \A n \in NUMBER_DESCRIPTIONS : n.scale \in {1, 1000, 60000}
    BY DEF NUMBER_DESCRIPTIONS, SecondsSetting, Number
  <1>2. \A n \in NUMBER_DESCRIPTIONS : n.low \in Int /\ n.high \in Int
    BY DEF NUMBER_DESCRIPTIONS, SecondsSetting, Number
  <1>3. \A n \in NUMBER_DESCRIPTIONS : n.asInt \/ n.scale = 1
    BY DEF NUMBER_DESCRIPTIONS, SecondsSetting, Number
  <1>4. \A n \in NUMBER_DESCRIPTIONS : n.asInt \/ n.key \in {"awp", "fst", "sh", "cco", "dwo"}
    BY DEF NUMBER_DESCRIPTIONS, SecondsSetting, Number
  <1>5. \A n \in NUMBER_DESCRIPTIONS : n.zeroMeansNull => n.key = "dwo"
    BY DEF NUMBER_DESCRIPTIONS, SecondsSetting, Number
  <1>6. \A n \in NUMBER_DESCRIPTIONS :
          n.key \in {"amp", "mca", "awp", "ebt", "fam", "fmt", "fot", "fst", "sh", "fte", "mpwst",
                     "mptwt", "pdt", "spl3", "cco", "dwo", "mcpd", "mci", "psmd", "sumd"}
    BY DEF NUMBER_DESCRIPTIONS, SecondsSetting, Number
  <1>7. SUFFICES ASSUME NEW n \in NUMBER_DESCRIPTIONS PROVE NumberFits(n)
    OBVIOUS
  <1>8. /\ n.key \in {"awp", "fst", "sh", "cco", "dwo"} => JsonType(n.key) \in {"float", "any"}
        /\ JsonType(n.key) \in {"integer", "float", "any"}
    BY <1>6 DEF JsonType
  <1>9. n.zeroMeansNull => n.key \in Optional
    BY <1>5 DEF Optional
  <1>10. n.key \notin {"esk", "rst"}
    BY <1>6
  <1> QED
    BY <1>1, <1>2, <1>3, <1>4, <1>8, <1>9, <1>10 DEF NumberFits

-----------------------------------------------------------------------------
(* The tables of the selects *)

SelectFits(d) ==
  /\ \A o \in d.options : /\ o.wire \in Values /\ o.wire # Text(0)
                           /\ CoerceValue(d.uid, o.wire) = o.wire
  /\ \A o \in d.options, p \in d.options : Matches(o.wire, p.wire) => o = p
  /\ d.uid = "ebo" => \A o \in d.options : o.wire.type = "bool"
  /\ d.uid # "ebo" => \A o \in d.options : o.wire.type # "bool"
  /\ d.means # Text(0) => d.means.type = "text" /\ \E o \in d.options : o.wire.type = "text"
  /\ d.uid \notin {"fte", "esk", "rst"}

LEMMA OptionsAreValues == \A d \in SELECT_DESCRIPTIONS : \A o \in d.options : o.wire.num \in Int
  BY SMTT(20) DEF SELECT_DESCRIPTIONS, Select, Option, Whole, Bool, Text, Value

LEMMA OptionsAreRecords ==
  \A d \in SELECT_DESCRIPTIONS :
    \A o \in d.options : o.wire = [type |-> o.wire.type, num |-> o.wire.num]
  BY SMTT(20) DEF SELECT_DESCRIPTIONS, Select, Option, Whole, Bool, Text, Value

LEMMA NumberedOptions ==
  \A d \in SELECT_DESCRIPTIONS :
    d.uid \in {"acs", "awc", "bac", "lmo", "psm", "tds", "ust", "frc"} =>
      \A o \in d.options : o.wire.type = "int" /\ o.wire.num % 100 = 0
  BY SMTT(20) DEF SELECT_DESCRIPTIONS, Select, Option, Whole, Bool, Text, Value

LEMMA TextOptions ==
  /\ \A d \in SELECT_DESCRIPTIONS : d.means = Text(0) \/ d.uid \in {"ct"}
  /\ \A d \in SELECT_DESCRIPTIONS : d.means.type = "text"
  /\ \A d \in SELECT_DESCRIPTIONS :
       d.uid \in {"ct"} => \E o \in d.options : o.wire.type = "text"
  <1>1. \A d \in SELECT_DESCRIPTIONS : d.means.num = 0 \/ d.uid \in {"ct"}
    BY SMTT(20) DEF SELECT_DESCRIPTIONS, Select, Option, Whole, Bool, Text, Value
  <1>2. \A d \in SELECT_DESCRIPTIONS : d.means = Value("text", d.means.num)
    BY SMTT(20) DEF SELECT_DESCRIPTIONS, Select, Option, Whole, Bool, Text, Value
  <1>3. \A d \in SELECT_DESCRIPTIONS :
          d.uid \in {"ct"} => \E l \in {"Standard"}, w \in {Text(1)} : Option(w, l) \in d.options
    BY SMTT(20) DEF SELECT_DESCRIPTIONS, Select, Option, Whole, Bool, Text, Value
  <1>4. \A l : Option(Text(1), l).wire.type = "text"
    BY DEF Option, Text, Value
  <1>5. \A d \in SELECT_DESCRIPTIONS : d.means.type = "text"
    BY SMTT(20) DEF SELECT_DESCRIPTIONS, Select, Option, Whole, Bool, Text, Value
  <1> QED
    BY <1>1, <1>2, <1>3, <1>4, <1>5 DEF Text

LEMMA NoFloats ==
  \A d \in SELECT_DESCRIPTIONS : \A o \in d.options : o.wire.type \in {"bool", "int", "text"}
  BY SMTT(20) DEF SELECT_DESCRIPTIONS, Select, Option, Whole, Bool, Text, Value

LEMMA SelectsFit == \A d \in SELECT_DESCRIPTIONS : SelectFits(d)
  <1>2. \A d \in SELECT_DESCRIPTIONS :
          d.uid \in {"acs", "awc", "bac", "ebo", "lmo", "psm", "tds", "ust", "ct", "frc"}
    BY SMTT(20) DEF SELECT_DESCRIPTIONS, Select, Option, Whole, Bool, Text, Value
  <1>3. \A d \in SELECT_DESCRIPTIONS :
          d.uid \in {"ebo"} => \A o \in d.options : o.wire.type = "bool" /\ o.wire.num \in {0, 100}
    BY SMTT(20) DEF SELECT_DESCRIPTIONS, Select, Option, Whole, Bool, Text, Value
  <1>4. \A d \in SELECT_DESCRIPTIONS :
          d.uid \in {"ct"} => \A o \in d.options : o.wire.type = "text" /\ o.wire.num # 0
    BY SMTT(20) DEF SELECT_DESCRIPTIONS, Select, Option, Whole, Bool, Text, Value
  <1>6. \A d \in SELECT_DESCRIPTIONS :
          \A o \in d.options, p \in d.options : o.wire.num = p.wire.num => o = p
    BY DEF SELECT_DESCRIPTIONS, Select, Option, Whole, Bool, Text, Value
  <1>8. SUFFICES ASSUME NEW d \in SELECT_DESCRIPTIONS PROVE SelectFits(d)
    OBVIOUS
  <1>9. ASSUME NEW o \in d.options
        PROVE  o.wire \in Values /\ o.wire # Text(0) /\ CoerceValue(d.uid, o.wire) = o.wire
    <2> DEFINE v == o.wire
    <2>1. v = [type |-> v.type, num |-> v.num] /\ v.num \in Int
      BY OptionsAreValues, OptionsAreRecords, <1>9
    <2>2. \/ d.uid = "ebo" /\ v.type = "bool" /\ v.num \in {0, 100}
          \/ d.uid = "ct" /\ v.type = "text" /\ v.num # 0
          \/ d.uid \in {"acs", "awc", "lmo", "psm", "tds", "ust", "frc"} /\ v.type = "int" /\ v.num % 100 = 0
          \/ d.uid = "bac" /\ v.type = "int" /\ v.num % 100 = 0
      BY <1>2, <1>3, <1>4, NumberedOptions, <1>9
    <2> HIDE DEF v
    <2>3. v \in Values /\ v # Text(0)
      BY <2>1, <2>2 DEF Values, Text, Value
    <2>4. \/ JsonType(d.uid) = "any"
          \/ JsonType(d.uid) = "string" /\ v.type = "text"
          \/ JsonType(d.uid) = "integer" /\ v.type = "int" /\ v.num % 100 = 0
      BY <2>2 DEF JsonType
    <2>5. CoerceValue(d.uid, v) = v
      <3>1. v = Value(v.type, v.num)
        BY <2>1 DEF Value
      <3>2. v.type = "int" /\ v.num % 100 = 0 => AsInt(v) = v
        BY <2>1, <3>1, NumbersCoerce DEF Numeric
      <3>3. v.type = "text" => AsText(v) = v
        BY DEF AsText, Texts
      <3> QED
        BY <2>4, <3>2, <3>3 DEF CoerceValue, CoerceToJsonType
    <2> QED
      BY <2>3, <2>5 DEF v
  <1>10. \A o \in d.options, p \in d.options : Matches(o.wire, p.wire) => o = p
    BY <1>6 DEF Matches, Equal
  <1>11. d.uid # "ebo" => \A o \in d.options : o.wire.type # "bool"
    BY <1>2, <1>4, NumberedOptions
  <1>12. d.uid \notin {"fte", "esk", "rst"}
    BY <1>2
  <1> QED
    BY <1>3, TextOptions, <1>9, <1>10, <1>11, <1>12 DEF SelectFits

-----------------------------------------------------------------------------
(* The entities *)

ButtonFits(b) ==
  /\ b.press \in Values /\ CoerceValue(b.key, b.press) = b.press
  /\ b.key \in {"frc", "rst", "trx"}

LEMMA ButtonsFit == \A b \in BUTTON_DESCRIPTIONS : ButtonFits(b)
  <1>1. \A b \in BUTTON_DESCRIPTIONS :
          /\ b.press = [type |-> "int", num |-> b.press.num] /\ b.press.num \in Int /\ b.press.num % 100 = 0
          /\ b.key \in {"frc", "rst", "trx"}
    BY DEF BUTTON_DESCRIPTIONS, Button, Whole, Value
  <1>2. SUFFICES ASSUME NEW b \in BUTTON_DESCRIPTIONS PROVE ButtonFits(b)
    OBVIOUS
  <1> DEFINE v == b.press
  <1>3. v = [type |-> "int", num |-> v.num] /\ v.num \in Int /\ v.num % 100 = 0 /\ b.key \in {"frc", "rst", "trx"}
    BY <1>1
  <1> HIDE DEF v
  <1>4. v \in Values
    BY <1>3 DEF Values
  <1>5. JsonType(b.key) \in {"integer", "any"}
    BY <1>3 DEF JsonType
  <1>6. CoerceValue(b.key, v) = v
    <2>1. v = Value("int", v.num)
      BY <1>3 DEF Value
    <2>2. AsInt(v) = v
      BY <1>3, <2>1, NumbersCoerce DEF Numeric
    <2> QED
      BY <1>5, <2>2 DEF CoerceValue, CoerceToJsonType
  <1> QED
    BY <1>3, <1>4, <1>6 DEF ButtonFits, v

LEMMA BinariesFit ==
  \A d \in BINARY_SENSOR_DESCRIPTIONS : \A w \in d.on \cup d.off : w.type = "int"
  BY DEF BINARY_SENSOR_DESCRIPTIONS, BinarySensor, Whole, Value

LEMMA Chosen ==
  ASSUME NEW ds, entity.uid \in Uids(ds) PROVE The(ds) \in ds /\ The(ds).uid = entity.uid
  BY DEF Uids, The

LEMMA EntitiesFit ==
  ASSUME entity \in Settings
  PROVE  /\ entity.platform \in Platforms
         /\ entity.platform \in {"switch", "number", "select", "preset", "time", "button", "binary"}
         /\ Is("switch") => entity.uid \in SWITCH_DESCRIPTIONS
         /\ Is("number") => TheNumber \in NUMBER_DESCRIPTIONS
         /\ Is("select") => The(SELECT_DESCRIPTIONS) \in SELECT_DESCRIPTIONS
                            /\ The(SELECT_DESCRIPTIONS).uid = entity.uid
         /\ Is("time") => entity.uid = "ftt"
         /\ Is("button") => The(BUTTON_DESCRIPTIONS) \in BUTTON_DESCRIPTIONS
         /\ Is("binary") => The(BINARY_SENSOR_DESCRIPTIONS) \in BINARY_SENSOR_DESCRIPTIONS
  <1> DEFINE P == entity.platform
             U == entity.uid
  <1>1. /\ P \in Platforms
        /\ \/ P = "switch" /\ U \in SWITCH_DESCRIPTIONS
           \/ P = "number" /\ U \in Uids(NUMBER_DESCRIPTIONS)
           \/ P = "select" /\ U \in Uids(SELECT_DESCRIPTIONS)
           \/ P = "preset"
           \/ P = "time" /\ U = "ftt"
           \/ P = "button" /\ U \in Uids(BUTTON_DESCRIPTIONS)
           \/ P = "binary" /\ U \in Uids(BINARY_SENSOR_DESCRIPTIONS)
    BY DEF Settings, Entity
  <1> QED
    BY <1>1, Chosen DEF Is, TheNumber

-----------------------------------------------------------------------------
(* What a write leaves at the charger reads back as what was asked *)

\* The platform decides which clause of each CASE counts.
LEMMA Platform ==
  ASSUME NEW p \in {"switch", "number", "select", "preset", "time", "button", "binary"}, Is(p)
  PROVE  \A q : Is(q) <=> q = p
  BY DEF Is

LEMMA SwitchIsWritable ==
  ASSUME entity \in Settings, Is("switch"), NEW wish \in Wishes, NEW v \in WireValues(wish)
  PROVE  Writable(v, wish)
  <1> DEFINE inverted == entity.uid \in Inverted
             b == wish # inverted
  <1>1. \A q : Is(q) <=> q = "switch"
    BY Platform
  <1>2. wish \in BOOLEAN /\ b \in BOOLEAN /\ v = Bool(b) /\ ChargerKey = entity.uid
    BY <1>1 DEF Wishes, WireValues, WireSwitch, ChargerKey
  <1>3. JsonType(entity.uid) \in {"boolean", "any"}
    BY <1>1, EntitiesFit DEF SWITCH_DESCRIPTIONS, JsonType
  <1>4. v \in Values /\ v.type = "bool" /\ v.num \in {0, 100} /\ (v.num = 100) = b
    <2> HIDE DEF b
    <2>1. v \in Values
      BY <1>2, ValuesFit
    <2>2. CASE b = TRUE
      BY <1>2, <2>1, <2>2 DEF Bool, Value
    <2>3. CASE b = FALSE
      BY <1>2, <2>1, <2>3 DEF Bool, Value
    <2> QED
      BY <1>2, <2>2, <2>3
  <1>5. AsBool(v) = v
    BY <1>2, <1>4 DEF AsBool, Numeric, Bool
  <1>6. v # Null
    BY <1>4 DEF Null, Value
  <1>7. CoerceValue(ChargerKey, v) = v
    BY <1>2, <1>3, <1>5, <1>6 DEF CoerceValue, CoerceToJsonType
  <1>8. ShowSwitch(v) = wish
    BY <1>2, <1>4 DEF ShowSwitch
  <1>9. Show(v, {}).state = wish
    BY <1>1, <1>8 DEF Show
  <1>10. Reads(v, wish)
    BY <1>1, <1>4, <1>9 DEF Reads, ReadsBack
  <1> QED
    BY <1>4, <1>7, <1>10, ValuesFit DEF Writable

LEMMA Seconds ==
  ASSUME NEW n \in Nat
  PROVE  3600 * (n \div 3600) + 60 * ((n % 3600) \div 60) + (n % 60) = n
  <1>1. PICK q \in Nat, r \in Nat : n = 3600 * q + r /\ r < 3600
    <2>1. n = 3600 * (n \div 3600) + (n % 3600) /\ n % 3600 \in 0..3599 /\ n \div 3600 \in Nat
      OBVIOUS
    <2> QED
      BY <2>1
  <1>2. PICK m \in Nat, s \in Nat : r = 60 * m + s /\ s < 60
    <2>1. r = 60 * (r \div 60) + (r % 60) /\ r % 60 \in 0..59 /\ r \div 60 \in Nat
      OBVIOUS
    <2> QED
      BY <2>1
  <1>3. n = 60 * (60 * q + m) + s
    BY <1>1, <1>2
  <1>4. n \div 3600 = q /\ n % 3600 = r
    BY <1>1
  <1>5. n % 60 = s
    BY <1>2, <1>3
  <1>6. r \div 60 = m
    BY <1>2
  <1> QED
    BY <1>1, <1>2, <1>4, <1>5, <1>6

LEMMA TimeIsWritable ==
  ASSUME entity \in Settings, Is("time"), NEW wish \in Wishes, NEW v \in WireValues(wish)
  PROVE  Writable(v, wish)
  <1>1. \A q : Is(q) <=> q = "time"
    BY Platform
  <1>2. wish \in Nat /\ wish < 86400 /\ v = Whole(wish) /\ ChargerKey = "ftt"
    BY <1>1, EntitiesFit, WishesAssumption DEF Wishes, WireValues, ChargerKey
  <1>3. v \in Values /\ v.type = "int" /\ v.num = 100 * wish
    BY <1>2, ValuesFit DEF Whole, Value
  <1>4. CoerceValue(ChargerKey, v) = v
    <2>1. JsonType("ftt") = "integer" /\ "ftt" \notin Optional
      BY DEF JsonType, Optional
    <2>2. AsInt(v) = v
      BY <1>2, <1>3, NumbersCoerce DEF Numeric, Whole
    <2> QED
      BY <1>2, <2>1, <2>2 DEF CoerceValue, CoerceToJsonType
  <1>5. ShowTime(v) = <<wish \div 3600, (wish % 3600) \div 60, wish % 60>>
    <2>1. v.num >= 0 /\ v.num \div 100 = wish
      BY <1>2, <1>3
    <2>2. Cut(v.num) % 86400 = wish
      BY <1>2, <2>1 DEF Cut
    <2> QED
      BY <1>3, <2>2 DEF ShowTime
  <1>6. Show(v, {}).state = <<wish \div 3600, (wish % 3600) \div 60, wish % 60>>
    BY <1>1, <1>5 DEF Show
  <1>7. 3600 * (wish \div 3600) + 60 * ((wish % 3600) \div 60) + (wish % 60) = wish
    BY <1>2, Seconds
  <1>8. ReadsBack(Show(v, {}), wish)
    BY <1>1, <1>6, <1>7 DEF ReadsBack
  <1> QED
    BY <1>1, <1>3, <1>4, <1>8, ValuesFit DEF Writable, Reads

LEMMA ButtonIsWritable ==
  ASSUME entity \in Settings, Is("button"), NEW wish \in Wishes, NEW v \in WireValues(wish)
  PROVE  Writable(v, wish)
  <1>1. \A q : Is(q) <=> q = "button"
    BY Platform
  <1>2. v = The(BUTTON_DESCRIPTIONS).press /\ ChargerKey = The(BUTTON_DESCRIPTIONS).key
    BY <1>1 DEF WireValues, ChargerKey
  <1>3. v \in Values /\ CoerceValue(ChargerKey, v) = v
    BY <1>1, <1>2, EntitiesFit, ButtonsFit DEF ButtonFits
  <1>4. Reads(v, wish)
    BY <1>1, <1>3 DEF Reads, ReadsBack
  <1> QED
    BY <1>3, <1>4, ValuesFit DEF Writable

LEMMA OptionShown ==
  ASSUME NEW table, NEW o \in table, \A p \in table : Matches(p.wire, o.wire) => p.label = o.label
  PROVE  MatchingLabel(table, o.wire) = o.label
  <1> DEFINE found == {p \in table : Matches(p.wire, o.wire)}
  <1>1. o \in found
    BY DEF Matches, Equal
  <1>2. (CHOOSE p \in found : TRUE) \in found
    BY <1>1
  <1> QED
    BY <1>1, <1>2 DEF MatchingLabel

LEMMA SelectIsWritable ==
  ASSUME entity \in Settings, Is("select"), NEW wish \in Wishes, NEW v \in WireValues(wish)
  PROVE  Writable(v, wish)
  <1> DEFINE d == The(SELECT_DESCRIPTIONS)
  <1>1. \A q : Is(q) <=> q = "select"
    BY Platform
  <1>2. d \in SELECT_DESCRIPTIONS /\ d.uid = entity.uid
    BY <1>1, EntitiesFit
  <1>3. SelectFits(d)
    BY <1>2, SelectsFit
  <1>4. \A a : WireOptions(a) = d.options
    BY <1>1 DEF WireOptions
  <1>5. PICK o \in d.options : o.wire = v /\ o.label = wish
    BY <1>1, <1>4 DEF WireValues
  <1>6. v \in Values /\ v # Text(0) /\ CoerceValue(d.uid, v) = v /\ ChargerKey = d.uid
    BY <1>1, <1>2, <1>3, <1>5 DEF SelectFits, ChargerKey
  <1> HIDE DEF d
  <1>7. \A p \in d.options : Matches(p.wire, o.wire) => p.label = o.label
    BY <1>3, <1>5 DEF SelectFits
  <1>8. MatchingLabel(d.options, v) = wish
    BY <1>5, <1>7, OptionShown
  <1>9. ShowOption(v, {}) = wish
    BY <1>4, <1>6, <1>8 DEF ShowOption
  <1>10. Show(v, {}).state = wish
    BY <1>1, <1>9 DEF Show
  <1>11. Reads(v, wish)
    BY <1>1, <1>6, <1>10 DEF Reads, ReadsBack
  <1> QED
    BY <1>6, <1>11, ValuesFit DEF Writable

LEMMA PresetIsWritable ==
  ASSUME entity \in Settings, Is("preset"), cache.list \subseteq Values,
         NEW wish \in Wishes, NEW v \in WireValues(wish)
  PROVE  Writable(v, wish)
  <1>1. \A q : Is(q) <=> q = "preset"
    BY Platform
  <1>2. WireOptions(cache.list) = {Option(w, AmpereLabel(w)) : w \in {x \in cache.list : IsPreset(x)}}
    BY <1>1 DEF WireOptions
  <1>3. PICK o \in WireOptions(cache.list) : o.wire = v /\ o.label = wish
    BY <1>1 DEF WireValues
  <1>4. PICK w \in cache.list : IsPreset(w) /\ o = Option(w, AmpereLabel(w))
    BY <1>2, <1>3
  <1>5. v = w /\ AmpereLabel(v) = wish
    BY <1>3, <1>4 DEF Option
  <1>6. v \in Values /\ IsPreset(v) /\ ChargerKey = "amp"
    BY <1>1, <1>4, <1>5 DEF ChargerKey
  <1>7. v.type = "int" /\ v = Value("int", v.num) /\ v.num % 100 = 0 /\ v # Null
    BY <1>6 DEF IsPreset, Values, Value, Null
  <1>8. JsonType("amp") = "integer"
    BY DEF JsonType
  <1>9. CoerceValue("amp", v) = v
    <2>1. v.num \in Int
      BY <1>6 DEF Values
    <2>2. AsInt(v) = v
      BY <1>7, <2>1, NumbersCoerce DEF Numeric
    <2> QED
      BY <1>8, <2>2, <1>7 DEF CoerceValue, CoerceToJsonType
  <1>10. Reads(v, wish)
    BY <1>1, <1>5, <1>6 DEF Reads
  <1> QED
    BY <1>6, <1>9, <1>10, ValuesFit DEF Writable

LEMMA ScaledReadsBack ==
  ASSUME NEW scale \in {1, 1000, 60000}, NEW x \in Int,
         NEW p \in Int, p = scale * x \/ (scale # 1 /\ x % 100 # 0 /\ p \in {scale * x - 1, scale * x + 1})
  PROVE  LET off == RoundHalfEven(p) - scale * x
         IN  IF (x * scale) % 100 = 0 THEN off = 0 ELSE -50 <= off /\ off <= 50
  <1>1. scale # 1 => (scale * x) % 100 = 0
    <2>1. (1000 * x) % 100 = 0 /\ (60000 * x) % 100 = 0
      OBVIOUS
    <2> QED
      BY <2>1
  <1>2. x * scale = scale * x /\ scale * x \in Int
    OBVIOUS
  <1> DEFINE e == scale * x
  <1>3. e \in Int /\ (p = e \/ (e % 100 = 0 /\ p \in {e - 1, e, e + 1}))
    BY <1>1
  <1> HIDE DEF e
  <1>4. e % 100 = 0 => RoundHalfEven(p) - e = 0
    BY <1>3, RoundsBeside
  <1>5. e % 100 # 0 => -50 <= RoundHalfEven(p) - e /\ RoundHalfEven(p) - e <= 50
    BY <1>3, Rounds
  <1> QED
    BY <1>2, <1>4, <1>5 DEF e

LEMMA NumberShows ==
  ASSUME NEW s, s.type \in {"int", "float"}, IsFloat(s.num)
  PROVE  ShowNumber(s) = <<s.num, TheNumber.scale>>
  <1>1. s # Null
    BY DEF Null, Value
  <1>2. s.type \notin {"beyond", "beyondText"} /\ ~(s.type = "digits" /\ ~IsFloat(s.num))
        /\ s.type \in {"int", "float", "digits", "decimal"}
    OBVIOUS
  <1> QED
    BY <1>1, <1>2 DEF ShowNumber

LEMMA NumberIsWritable ==
  ASSUME entity \in Settings, Is("number"), NEW wish \in Wishes, NEW v \in WireValues(wish)
  PROVE  Writable(v, wish)
  <1> DEFINE n == TheNumber
             exact == n.scale * wish
  <1>1. \A q : Is(q) <=> q = "number"
    BY Platform
  <1>2. n \in NUMBER_DESCRIPTIONS /\ NumberFits(n)
    BY <1>1, EntitiesFit, NumbersFit
  <1>3. wish \in Int /\ v \in WireNumber(n, wish) /\ ChargerKey = n.key /\ wish \in Amounts
        /\ InReach(n, wish)
    BY <1>1, WishesAssumption DEF Wishes, WireValues, ChargerKey
  <1>4. \A s : Reads(s, wish) <=> s \in Values /\ ReadsBack(Show(s, {}), wish)
    BY <1>1 DEF Reads
  <1>5. \A s : Show(s, {}).state = ShowNumber(s)
    BY <1>1 DEF Show
  <1>6. n.scale \in {1, 1000, 60000} /\ exact \in Int /\ wish * n.scale = exact
    BY <1>2, <1>3 DEF NumberFits
  <1>7. ASSUME NEW s, NEW num \in Int, ShowNumber(s) = <<num, n.scale>>,
               IF exact % 100 = 0 \/ ~n.asInt THEN num - exact = 0
               ELSE -50 <= num - exact /\ num - exact <= 50
        PROVE  ReadsBack(Show(s, {}), wish)
    BY <1>1, <1>5, <1>6, <1>7 DEF ReadsBack, Nearest
  <1>8. CASE n.zeroMeansNull /\ wish = 0
    <2>1. v = Null /\ CoerceValue(ChargerKey, v) = v
      BY <1>2, <1>3, <1>8 DEF WireNumber, NumberFits, CoerceValue
    <2>2. ShowNumber(v) = <<0, n.scale>>
      BY <1>8, <2>1 DEF ShowNumber, Null, Value
    <2>3. exact = 0
      BY <1>6, <1>8
    <2>4. ReadsBack(Show(v, {}), wish)
      BY <1>7, <2>2, <2>3
    <2> QED
      BY <1>4, <2>1, <2>4, ValuesFit DEF Writable
  <1>9. CASE ~(n.zeroMeansNull /\ wish = 0)
    <2>1. PICK p \in Products(n, wish) :
            v = IF n.asInt THEN Value("int", RoundHalfEven(p)) ELSE Value("float", p)
      BY <1>3, <1>9 DEF WireNumber, Scaled
    <2>2. p \in Int /\ (p = exact \/ (n.scale # 1 /\ wish % 100 # 0 /\ p \in {exact - 1, exact + 1}))
      BY <1>6 DEF Products
    <2>3. RoundHalfEven(p) \in Int /\ RoundHalfEven(p) % 100 = 0
      BY <2>2, Rounds
    <2> DEFINE num == IF n.asInt THEN RoundHalfEven(p) ELSE p
               c == CoerceValue(ChargerKey, v)
    <2>4. num \in Int /\ v.num = num /\ v.type = (IF n.asInt THEN "int" ELSE "float")
      BY <2>1, <2>2, <2>3 DEF Value
    <2>5. /\ n.asInt => JsonType(n.key) \in {"integer", "float", "any"} /\ num % 100 = 0
          /\ ~n.asInt => n.scale = 1 /\ JsonType(n.key) \in {"float", "any"}
      BY <1>2, <2>3 DEF NumberFits
    <2>6. v # Null /\ v = Value(v.type, num)
      BY <2>1, <2>4 DEF Null, Value
    <2> HIDE DEF num
    <2>7. IF exact % 100 = 0 \/ ~n.asInt THEN num - exact = 0
           ELSE -50 <= num - exact /\ num - exact <= 50
      <3>1. CASE n.asInt
        BY <1>3, <1>6, <2>2, <3>1, ScaledReadsBack DEF num
      <3>2. CASE ~n.asInt
        BY <1>3, <2>2, <2>5, <3>2 DEF num
      <3> QED
        BY <3>1, <3>2
    <2>8. IsFloat(num)
      <3>1. IsFloat(exact - 100) /\ IsFloat(exact + 100)
        BY <1>2, <1>3, FloatAssumption
      <3>2. exact - 100 <= num /\ num <= exact + 100
        BY <1>6, <2>4, <2>7
      <3> QED
        BY <1>6, <2>4, <3>1, <3>2, LargestAssumption DEF IsFloat
    <2>9. c = Value(c.type, num) /\ c.num = num /\ c.type \in {"int", "float"}
          /\ (c.type = "int" => num % 100 = 0)
      <3>1. v.type \in Numeric /\ (num % 100 = 0 => AsInt(v) = Value("int", num))
            /\ AsFloat(v) = Value("float", num)
        BY <2>4, <2>6, <2>8, NumbersCoerce DEF Numeric
      <3>2. c \in {v, AsInt(v), AsFloat(v)}
        BY <1>3, <2>5, <2>6 DEF CoerceValue, CoerceToJsonType
      <3>3. n.asInt => c \in {v, AsInt(v), AsFloat(v)} /\ num % 100 = 0
        BY <2>5, <3>2
      <3>4. ~n.asInt => c \in {v, AsFloat(v)}
        BY <1>3, <2>5, <2>6 DEF CoerceValue, CoerceToJsonType
      <3> QED
        BY <2>4, <2>6, <3>1, <3>3, <3>4 DEF Value
    <2>10. c \in Values
      BY <2>4, <2>8, <2>9 DEF Values, Value
    <2>11. ShowNumber(c) = <<num, n.scale>>
      BY <2>8, <2>9, NumberShows
    <2>12. ReadsBack(Show(c, {}), wish)
      BY <1>7, <2>4, <2>7, <2>11
    <2> QED
      BY <1>4, <2>10, <2>12, ValuesFit DEF Writable
  <1> QED
    BY <1>8, <1>9

LEMMA WishesAreWritable ==
  ASSUME entity \in Settings, cache.list \subseteq Values, NEW wish \in Wishes, NEW v \in WireValues(wish)
  PROVE  Writable(v, wish)
  <1>1. ~Is("binary")
    BY DEF Is, Wishes
  <1> QED
    BY <1>1, EntitiesFit, SwitchIsWritable, NumberIsWritable, SelectIsWritable, PresetIsWritable,
       TimeIsWritable, ButtonIsWritable DEF Is

\* Whatever list the charger has by then
LEMMA ReadIsShown ==
  ASSUME entity \in Settings, NEW l \in SUBSET Values, NEW v, NEW wish, Reads(v, wish)
  PROVE  ReadsBack(Show(v, l), wish)
  <1>1. CASE Is("preset")
    <2>1. \A q : Is(q) <=> q = "preset"
      BY <1>1, Platform
    <2>2. v \in Values /\ IsPreset(v) /\ AmpereLabel(v) = wish
      BY <1>1 DEF Reads
    <2>3. WireOptions(l) = {Option(w, AmpereLabel(w)) : w \in {x \in l : IsPreset(x)}}
      BY <1>1 DEF WireOptions
    <2>4. SUFFICES ASSUME wish \in Labels(l) PROVE MatchingLabel(WireOptions(l), v) = wish
      <3>1. Show(v, l).options = Labels(l) /\ Show(v, l).state = ShowOption(v, l)
        BY <2>1 DEF Show
      <3>2. ShowOption(v, l) = MatchingLabel(WireOptions(l), v)
        BY <2>1 DEF ShowOption
      <3> QED
        BY <2>1, <2>4, <3>1, <3>2 DEF ReadsBack
    <2>5. PICK w \in l : IsPreset(w) /\ AmpereLabel(w) = wish
      BY <2>1, <2>3, <2>4 DEF Labels, Option
    <2>6. w \in Values /\ w.type = "int" /\ v.type = "int" /\ w.num \div 100 = v.num \div 100
      BY <2>2, <2>5 DEF IsPreset, AmpereLabel
    <2>7. w.num \in Int /\ v.num \in Int /\ w.num % 100 = 0 /\ v.num % 100 = 0
      BY <2>2, <2>6 DEF Values
    <2>8. w = v
      BY <2>2, <2>6, <2>7, ValueIs
    <2> DEFINE o == Option(v, wish)
    <2>9. o \in WireOptions(l) /\ o.wire = v /\ o.label = wish
      BY <2>2, <2>3, <2>5, <2>8 DEF Option
    <2>10. ASSUME NEW p \in WireOptions(l), Matches(p.wire, v) PROVE p.label = wish
      <3>1. PICK x \in l : IsPreset(x) /\ p = Option(x, AmpereLabel(x))
        BY <2>3
      <3>2. p.wire = x /\ p.label = AmpereLabel(x) /\ x \in Values /\ x.type = "int"
        BY <3>1 DEF Option, IsPreset
      <3>3. x = v
        BY <2>2, <2>6, <2>10, <3>2, ValueIs DEF Matches, Equal
      <3> QED
        BY <2>2, <3>2, <3>3
    <2> HIDE DEF o
    <2> QED
      BY <2>9, <2>10, OptionShown
  <1>2. CASE ~Is("preset")
    <2>1. ReadsBack(Show(v, {}), wish)
      BY <1>2 DEF Reads
    <2>2. WireOptions(l) = WireOptions({})
      BY <1>2 DEF WireOptions
    <2>3. Show(v, l).state = Show(v, {}).state
      BY <2>2 DEF Show, ShowOption
    <2> QED
      BY <1>2, <2>1, <2>3 DEF ReadsBack
  <1> QED
    BY <1>1, <1>2

\* A value of another kind is shown as unknown.
LEMMA ForeignKindIsUnknown ==
  ASSUME entity \in Settings, NEW l \in SUBSET Values, NEW v \in Values, v.type \notin Kinds
  PROVE  Show(v, l).state = None \/ (v = Null /\ Is("number") /\ TheNumber.zeroMeansNull)
  <1>1. CASE Is("switch")
    BY <1>1, Platform DEF Kinds, Show, ShowSwitch
  <1>2. CASE Is("number")
    <2>1. \A q : Is(q) <=> q = "number"
      BY <1>2, Platform
    <2>2. v.type \notin {"int", "float", "beyond", "digits", "decimal", "beyondText"}
          /\ Show(v, l).state = ShowNumber(v)
      BY <2>1 DEF Kinds, Show
    <2> QED
      BY <1>2, <2>2 DEF ShowNumber
  <1>3. CASE Is("time")
    <2>1. \A q : Is(q) <=> q = "time"
      BY <1>3, Platform
    <2>2. v.type \notin {"int", "float", "digits"} /\ Show(v, l).state = ShowTime(v)
      BY <2>1 DEF Kinds, Show
    <2> QED
      BY <2>2 DEF ShowTime
  <1>4. CASE Is("button")
    <2>1. \A q : Is(q) <=> q = "button"
      BY <1>4, Platform
    <2> QED
      BY <2>1 DEF Show
  <1>5. CASE Is("binary")
    <2>1. \A q : Is(q) <=> q = "binary"
      BY <1>5, Platform
    <2> DEFINE d == The(BINARY_SENSOR_DESCRIPTIONS)
    <2>2. v.type \notin Numeric /\ Show(v, l).state = ShowBinary(v)
      BY <2>1 DEF Kinds, Show
    <2>3. \A w \in d.on \cup d.off : w.type = "int"
      BY <1>5, EntitiesFit, BinariesFit
    <2>4. \A w \in d.on \cup d.off : ~Equal(v, w)
      BY <2>2, <2>3 DEF Equal, Numeric
    <2> QED
      BY <2>2, <2>4 DEF ShowBinary
  <1>6. CASE Is("preset")
    <2>1. \A q : Is(q) <=> q = "preset"
      BY <1>6, Platform
    <2>2. v.type \notin {"int", "float"}
          /\ Show(v, l).state = MatchingLabel(WireOptions(l), v)
      BY <2>1 DEF Kinds, Show, ShowOption
    <2>3. \A o \in WireOptions(l) : o.wire.type = "int"
      BY <1>6 DEF WireOptions, Option, IsPreset
    <2>4. \A o \in WireOptions(l) : ~Matches(o.wire, v)
      BY <2>2, <2>3 DEF Matches, Equal, Numeric
    <2> QED
      BY <2>2, <2>4 DEF MatchingLabel
  <1>7. CASE Is("select")
    <2>1. \A q : Is(q) <=> q = "select"
      BY <1>7, Platform
    <2> DEFINE d == The(SELECT_DESCRIPTIONS)
               w == IF v = Text(0) THEN d.means ELSE v
    <2>2. d \in SELECT_DESCRIPTIONS /\ d.uid = entity.uid /\ SelectFits(d) /\ WireOptions(l) = d.options
      BY <1>7, EntitiesFit, SelectsFit DEF WireOptions, Is
    <2>3. Show(v, l).state = MatchingLabel(d.options, w)
      BY <2>1, <2>2 DEF Show, ShowOption
    <2>4. Kinds = {o.wire.type : o \in d.options} \cup (IF d.uid = "ebo" THEN {} ELSE {"float"})
      BY <2>1, <2>2 DEF Kinds
    <2> HIDE DEF d
    <2>5. v.type \notin {o.wire.type : o \in d.options}
      BY <2>4
    <2>6. w = v
      <3>1. SUFFICES ASSUME v = Text(0), d.means # Text(0) PROVE FALSE
        OBVIOUS
      <3>2. \E o \in d.options : o.wire.type = "text"
        BY <2>2, <3>1 DEF SelectFits
      <3> QED
        BY <2>5, <3>1, <3>2 DEF Text, Value
    <2>7. ASSUME NEW o \in d.options PROVE ~Matches(o.wire, v)
      <3>1. o.wire.type # v.type
        BY <2>5
      <3>2. o.wire.type = "bool" <=> d.uid = "ebo"
        BY <2>2 DEF SelectFits
      <3>3. d.uid # "ebo" => v.type # "float"
        BY <2>4
      <3>4. SUFFICES ASSUME Matches(o.wire, v) PROVE FALSE
        OBVIOUS
      <3>5. o.wire.type \in Numeric /\ v.type \in Numeric /\ (o.wire.type = "bool" <=> v.type = "bool")
        BY <3>1, <3>4 DEF Matches, Equal
      <3>6. o.wire.type = "float"
        BY <3>1, <3>2, <3>3, <3>5 DEF Numeric
      <3> QED
        BY <2>2, <3>6, NoFloats
    <2> HIDE DEF w
    <2> QED
      BY <2>3, <2>6, <2>7 DEF MatchingLabel
  <1> QED
    BY <1>1, <1>2, <1>3, <1>4, <1>5, <1>6, <1>7, EntitiesFit DEF Is

\* Nothing of this depends on more of the state than the entity.
LEMMA Frozen ==
  ASSUME entity' = entity
  PROVE  /\ \A p : Is(p)' <=> Is(p)
         /\ ChargerKey' = ChargerKey
         /\ \A v, a : Show(v, a)' = Show(v, a)
         /\ \A v, w : Reads(v, w)' <=> Reads(v, w)
         /\ \A c, b : CommandFits(c, b)' <=> CommandFits(c, b)
         /\ \A t, w : TodoFits(t, w)' <=> TodoFits(t, w)
  <1>1. \A p : Is(p)' <=> Is(p)
    BY DEF Is
  <1>2. \A ds : The(ds)' = The(ds)
    BY DEF The
  <1>3. TheNumber' = TheNumber
    BY <1>2 DEF TheNumber
  <1>3a. ChargerKey' = ChargerKey
    BY <1>1, <1>2, <1>3 DEF ChargerKey
  <1>4. CurrentRange' = CurrentRange
    BY DEF CurrentRange
  <1>5. \A v : IsPreset(v)' <=> IsPreset(v)
    BY <1>4 DEF IsPreset
  <1>6. \A a : WireOptions(a)' = WireOptions(a)
    BY <1>1, <1>2, <1>5 DEF WireOptions
  <1>7. \A a : Labels(a)' = Labels(a)
    BY <1>1, <1>6 DEF Labels
  <1>8. \A v : ShowSwitch(v)' = ShowSwitch(v)
    BY DEF ShowSwitch
  <1>9. \A v : ShowNumber(v)' = ShowNumber(v)
    BY <1>3 DEF ShowNumber
  <1>10. \A v, a : ShowOption(v, a)' = ShowOption(v, a)
    BY <1>1, <1>2, <1>6 DEF ShowOption
  <1>11. \A v : ShowBinary(v)' = ShowBinary(v)
    BY <1>2 DEF ShowBinary
  <1>12. \A v, a : Show(v, a)' = Show(v, a)
    BY <1>1, <1>7, <1>8, <1>9, <1>10, <1>11 DEF Show
  <1>13. \A s, w : ReadsBack(s, w)' <=> ReadsBack(s, w)
    BY <1>1, <1>3 DEF ReadsBack
  <1>14. \A v, w : Reads(v, w)' <=> Reads(v, w)
    BY <1>1, <1>5, <1>12, <1>13 DEF Reads
  <1>15. \A v, w : Writable(v, w)' <=> Writable(v, w)
    BY <1>3a, <1>14 DEF Writable
  <1>16. \A c, b : CommandFits(c, b)' <=> CommandFits(c, b)
    BY <1>3a, <1>14 DEF CommandFits
  <1>17. \A t, w : TodoFits(t, w)' <=> TodoFits(t, w)
    BY <1>3a, <1>15 DEF TodoFits
  <1> QED
    BY <1>1, <1>3a, <1>12, <1>14, <1>16, <1>17

-----------------------------------------------------------------------------
(* Frames and commands on their way *)

LEMMA SettlesAppend ==
  ASSUME NEW S, NEW s \in Seq(S), NEW f \in S, NEW key, NEW before, NEW now
  PROVE  /\ f.key = key => Settles(Append(s, f), key, before, f.content)
         /\ f.key # key /\ Settles(s, key, before, now) => Settles(Append(s, f), key, before, now)
  <1> DEFINE t == Append(s, f)
  <1>1. /\ Len(s) \in Nat /\ DOMAIN s = 1..Len(s) /\ DOMAIN t = 1..(Len(s) + 1)
        /\ \A i \in 1..Len(s) : t[i] = s[i]
        /\ t[Len(s) + 1] = f
    BY AppendProperties, LenProperties
  <1> HIDE DEF t
  <1>2. ASSUME f.key = key PROVE Settles(t, key, before, f.content)
    BY <1>1, <1>2 DEF Settles
  <1>3. ASSUME f.key # key, Settles(s, key, before, now) PROVE Settles(t, key, before, now)
    <2>1. CASE before = now /\ \A i \in DOMAIN s : s[i].key # key
      BY <1>1, <1>3, <2>1 DEF Settles
    <2>2. CASE \E i \in DOMAIN s : /\ s[i].key = key /\ s[i].content = now
                                   /\ \A j \in DOMAIN s : j > i => s[j].key # key
      <3>1. PICK i \in DOMAIN s : /\ s[i].key = key /\ s[i].content = now
                                  /\ \A j \in DOMAIN s : j > i => s[j].key # key
        BY <2>2
      <3>2. i \in DOMAIN t /\ t[i].key = key /\ t[i].content = now
        BY <1>1, <3>1
      <3>3. \A j \in DOMAIN t : j > i => t[j].key # key
        BY <1>1, <1>3, <3>1
      <3> QED
        BY <3>2, <3>3 DEF Settles
    <2> QED
      BY <1>3, <2>1, <2>2 DEF Settles
  <1> QED
    BY <1>2, <1>3 DEF t

LEMMA SettlesTail ==
  ASSUME NEW S, NEW s \in Seq(S), s # <<>>, NEW key, NEW before, NEW now, Settles(s, key, before, now)
  PROVE  Settles(Tail(s), key, IF Head(s).key = key THEN Head(s).content ELSE before, now)
  <1> DEFINE t == Tail(s)
             had == IF Head(s).key = key THEN Head(s).content ELSE before
  <1>1. /\ Len(s) \in Nat \ {0} /\ DOMAIN s = 1..Len(s) /\ DOMAIN t = 1..(Len(s) - 1)
        /\ \A i \in 1..(Len(s) - 1) : t[i] = s[i + 1]
        /\ Head(s) = s[1]
    BY HeadTailProperties, LenProperties, EmptySeq
  <1> HIDE DEF t
  <1>2. CASE before = now /\ \A i \in DOMAIN s : s[i].key # key
    <2>1. s[1].key # key /\ \A i \in DOMAIN t : t[i].key # key
      BY <1>1, <1>2
    <2> QED
      BY <1>1, <1>2, <2>1 DEF Settles, t
  <1>3. CASE \E i \in DOMAIN s : /\ s[i].key = key /\ s[i].content = now
                                 /\ \A j \in DOMAIN s : j > i => s[j].key # key
    <2>1. PICK i \in DOMAIN s : /\ s[i].key = key /\ s[i].content = now
                                /\ \A j \in DOMAIN s : j > i => s[j].key # key
      BY <1>3
    <2>2. CASE i = 1
      <3>1. had = now /\ \A j \in DOMAIN t : t[j].key # key
        BY <1>1, <2>1, <2>2
      <3> QED
        BY <3>1 DEF Settles, t
    <2>3. CASE i # 1
      <3>1. (i - 1) \in DOMAIN t /\ t[i - 1].key = key /\ t[i - 1].content = now
        BY <1>1, <2>1, <2>3
      <3>2. \A j \in DOMAIN t : j > i - 1 => t[j].key # key
        BY <1>1, <2>1
      <3> QED
        BY <3>1, <3>2 DEF Settles, t
    <2> QED
      BY <2>2, <2>3
  <1> QED
    BY <1>2, <1>3 DEF Settles

LEMMA SettledWhenEmpty ==
  ASSUME NEW key, NEW before, NEW now, Settles(<<>>, key, before, now) PROVE before = now
  BY DEF Settles

LEMMA SeqOfItsOwn ==
  ASSUME NEW S, NEW s \in Seq(S) PROVE s \in Seq({s[i] : i \in DOMAIN s})
  <1> DEFINE T == {s[i] : i \in DOMAIN s}
  <1>1. Len(s) \in Nat /\ DOMAIN s = 1..Len(s) /\ s \in [1..Len(s) -> S]
    BY LenProperties
  <1>2. s \in [1..Len(s) -> T]
    BY <1>1
  <1> HIDE DEF T
  <1>3. s \in Seq(T)
    BY <1>1, <1>2, SeqDef
  <1> QED
    BY <1>3 DEF T

LEMMA SeqOfMore ==
  ASSUME NEW S, NEW T, S \subseteq T, NEW s \in Seq(S) PROVE s \in Seq(T)
  <1>1. Len(s) \in Nat /\ DOMAIN s = 1..Len(s) /\ s \in [1..Len(s) -> S]
    BY LenProperties
  <1>2. s \in [1..Len(s) -> T]
    BY <1>1
  <1> QED
    BY <1>1, <1>2, SeqDef

\* The commands after a write and after an answer
LEMMA CommandsAppend ==
  ASSUME NEW S, NEW s \in Seq(S), NEW c, NEW t, t = Append(s, c)
  PROVE  /\ t \in Seq({t[i] : i \in DOMAIN t})
         /\ Len(s) \in Nat /\ Len(t) = Len(s) + 1
         /\ DOMAIN s = 1..Len(s) /\ DOMAIN t = 1..(Len(s) + 1)
         /\ \A i \in 1..Len(s) : t[i] = s[i]
         /\ t[Len(s) + 1] = c
  <1> DEFINE T == S \cup {c}
  <1>1. s \in Seq(T) /\ c \in T
    BY SeqOfMore
  <1> HIDE DEF T
  <1>2. t \in Seq(T)
    BY <1>1, AppendProperties
  <1>3. t \in Seq({t[i] : i \in DOMAIN t})
    BY <1>2, SeqOfItsOwn
  <1> QED
    BY <1>1, <1>3, AppendProperties, LenProperties

LEMMA CommandsTail ==
  ASSUME NEW S, NEW s \in Seq(S), s # <<>>, NEW t, t = Tail(s)
  PROVE  /\ t \in Seq({t[i] : i \in DOMAIN t})
         /\ Len(s) \in Nat \ {0} /\ Len(t) = Len(s) - 1
         /\ DOMAIN s = 1..Len(s) /\ DOMAIN t = 1..(Len(s) - 1)
         /\ \A i \in 1..(Len(s) - 1) : t[i] = s[i + 1]
         /\ Head(s) = s[1]
  <1>1. t \in Seq(S) /\ Len(s) \in Nat \ {0} /\ DOMAIN s = 1..Len(s) /\ Head(s) = s[1]
    BY HeadTailProperties, LenProperties, EmptySeq
  <1>2. /\ Len(t) = Len(s) - 1 /\ DOMAIN t = 1..(Len(s) - 1)
        /\ \A i \in 1..(Len(s) - 1) : t[i] = s[i + 1]
    BY <1>1, HeadTailProperties, LenProperties
  <1>3. t \in Seq({t[i] : i \in DOMAIN t})
    <2>1. \A x \in Seq(S) : x \in Seq({x[i] : i \in DOMAIN x})
      BY SeqOfItsOwn
    <2> QED
      BY <1>1, <2>1, Zenon
  <1> QED
    BY <1>1, <1>2, <1>3

-----------------------------------------------------------------------------
(* The invariant *)

LEMMA ForeignFits == ASSUME entity \in Settings PROVE Foreign \subseteq Values
  <1>1. Reports[entity.platform] \subseteq Values
    BY EntitiesFit, ReportsAssumption
  <1>2. Is("select") => \A o \in The(SELECT_DESCRIPTIONS).options : o.wire \in Values
    BY EntitiesFit, SelectsFit DEF SelectFits
  <1> QED
    BY <1>1, <1>2 DEF Foreign

LEMMA ListsFit == Lists \subseteq SUBSET Values
  BY ReportsAssumption DEF Lists

LEMMA InitInv == Init => Inv
  <1> SUFFICES ASSUME Init PROVE Inv
    OBVIOUS
  <1>1. entity \in Settings /\ wire \in Values /\ list \in SUBSET Values
    BY ForeignFits, ListsFit DEF Init
  <1>2. commands = <<>> /\ link = <<>> /\ DOMAIN commands = {} /\ Len(link) = 0 /\ Len(commands) = 0
    BY DEF Init
  <1>3. commands \in Seq({commands[i] : i \in DOMAIN commands}) /\ link \in Seq(Valued \cup Listed)
    BY <1>2
  <1>4. TypeOK
    BY <1>1, <1>3 DEF Init, TypeOK, NothingPending
  <1>5. CallFits
    BY <1>2, LimitAssumption DEF Init, CallFits, TodoFits, Idle, CallLimit
  <1>6. UnitFits
    BY <1>2 DEF Init, UnitFits, Idle
  <1>7. ShownFits
    BY <1>2 DEF Init, ShownFits, Settles
  <1> QED
    BY <1>4, <1>5, <1>6, <1>7 DEF Inv

\* Nothing happens to the commands and the call.
LEMMA CallStays ==
  ASSUME Inv, UNCHANGED <<entity, commands, call, refused>>, Len(link') <= Limit,
         asked' = None \/ UNCHANGED <<wire, asked>>
  PROVE  CallFits'
  <1>1. CallFits
    BY DEF Inv
  <1>2. /\ \A i \in DOMAIN commands' :
             CommandFits(commands[i], call.at = "waiting" /\ i = Len(commands))'
        /\ TodoFits(call.todo, call.wish)'
    BY <1>1, Frozen DEF CallFits
  <1>3. (asked # None => Reads(wire, asked))'
    BY <1>1, Frozen DEF CallFits
  <1> QED
    BY <1>1, <1>2, <1>3 DEF CallFits

\* The charger sends a frame with its new value.
LEMMA ValueSent ==
  ASSUME Inv, UNCHANGED <<entity, buffered, list, cache, pending, shown>>,
         NEW v \in Values, wire' = v, link' = Append(link, ValueFrame(v)), Len(link) < Limit
  PROVE  /\ ShownFits' /\ Len(link') <= Limit
         /\ link' \in Seq(Valued \cup Listed) /\ wire' \in Values
  <1> DEFINE f == ValueFrame(v)
             Frames == Valued \cup Listed
  <1>1. f \in Frames /\ f.key = "value" /\ f.content = v
    BY DEF ValueFrame, Valued
  <1>2. TypeOK /\ ShownFits
    BY DEF Inv
  <1>3. link \in Seq(Frames)
    BY <1>2 DEF TypeOK
  <1> HIDE DEF f, Frames
  <1>4. Append(link, f) \in Seq(Frames) /\ Len(Append(link, f)) = Len(link) + 1 /\ Len(link) \in Nat
    BY <1>1, <1>3, AppendProperties, LenProperties
  <1>5. Settles(Append(link, f), "value", cache.value, v) /\ Settles(Append(link, f), "list", cache.list, list)
    BY <1>1, <1>2, <1>3, SettlesAppend DEF ShownFits
  <1>6. (pending = NothingPending \/ Is("button") => shown = Show(cache.value, cache.list))'
    BY <1>2, Frozen DEF ShownFits
  <1>7. ShownFits'
    BY <1>2, <1>5, <1>6 DEF ShownFits, f
  <1> QED
    BY <1>4, <1>7, LimitAssumption DEF f, Frames

LEMMA ListSent ==
  ASSUME Inv, UNCHANGED <<entity, buffered, wire, cache, pending, shown>>,
         NEW l \in SUBSET Values, list' = l, link' = Append(link, ListFrame(l)), Len(link) < Limit
  PROVE  /\ ShownFits' /\ Len(link') <= Limit
         /\ link' \in Seq(Valued \cup Listed) /\ list' \in SUBSET Values
  <1> DEFINE f == ListFrame(l)
             Frames == Valued \cup Listed
  <1>1. f \in Frames /\ f.key = "list" /\ f.content = l
    BY DEF ListFrame, Listed
  <1>2. TypeOK /\ ShownFits
    BY DEF Inv
  <1>3. link \in Seq(Frames)
    BY <1>2 DEF TypeOK
  <1> HIDE DEF f, Frames
  <1>4. Append(link, f) \in Seq(Frames) /\ Len(Append(link, f)) = Len(link) + 1 /\ Len(link) \in Nat
    BY <1>1, <1>3, AppendProperties, LenProperties
  <1>5. Settles(Append(link, f), "value", cache.value, wire) /\ Settles(Append(link, f), "list", cache.list, l)
    BY <1>1, <1>2, <1>3, SettlesAppend DEF ShownFits
  <1>6. (pending = NothingPending \/ Is("button") => shown = Show(cache.value, cache.list))'
    BY <1>2, Frozen DEF ShownFits
  <1>7. ShownFits'
    BY <1>2, <1>5, <1>6 DEF ShownFits, f
  <1> QED
    BY <1>4, <1>7, LimitAssumption DEF f, Frames

LEMMA ShownStays ==
  ASSUME Inv, UNCHANGED <<entity, buffered, wire, list, link, cache, pending, shown>>
  PROVE  ShownFits'
  <1>1. ShownFits
    BY DEF Inv
  <1>2. (pending = NothingPending \/ Is("button") => shown = Show(cache.value, cache.list))'
    BY <1>1, Frozen DEF ShownFits
  <1> QED
    BY <1>1, <1>2 DEF ShownFits

LEMMA AppSetsInv == ASSUME Inv, NEW v \in Foreign, AppSets(v) PROVE Inv'
  <1>1. TypeOK /\ UnitFits
    BY DEF Inv
  <1>2. v \in Values
    BY <1>1, ForeignFits DEF TypeOK
  <1>3. /\ ShownFits' /\ Len(link') <= Limit
        /\ link' \in Seq(Valued \cup Listed) /\ wire' \in Values
    BY <1>2, ValueSent DEF AppSets
  <1>4. CallFits'
    BY <1>3, CallStays DEF AppSets
  <1>5. TypeOK'
    BY <1>1, <1>3 DEF AppSets, TypeOK
  <1>6. ChargerKey' = ChargerKey
    BY Frozen DEF AppSets
  <1>7. UnitFits'
    BY <1>1, <1>6 DEF AppSets, UnitFits
  <1> QED
    BY <1>3, <1>4, <1>5, <1>7 DEF Inv

LEMMA AppListsInv == ASSUME Inv, NEW l \in Lists, AppLists(l) PROVE Inv'
  <1>1. TypeOK /\ UnitFits
    BY DEF Inv
  <1>2. l \in SUBSET Values
    BY ListsFit
  <1>3. /\ ShownFits' /\ Len(link') <= Limit
        /\ link' \in Seq(Valued \cup Listed) /\ list' \in SUBSET Values
    BY <1>2, ListSent DEF AppLists
  <1>4. CallFits'
    BY <1>3, CallStays DEF AppLists
  <1>5. TypeOK'
    BY <1>1, <1>3 DEF AppLists, TypeOK
  <1>6. ChargerKey' = ChargerKey
    BY Frozen DEF AppLists
  <1>7. UnitFits'
    BY <1>1, <1>6 DEF AppLists, UnitFits
  <1> QED
    BY <1>3, <1>4, <1>5, <1>7 DEF Inv

LEMMA AppSetsUnitInv == ASSUME Inv, AppSetsUnit PROVE Inv'
  <1>1. TypeOK /\ CallFits /\ UnitFits
    BY DEF Inv
  <1>2. ShownFits'
    BY ShownStays DEF AppSetsUnit
  <1>3. CallFits'
    BY <1>1, CallStays DEF AppSetsUnit, CallFits
  <1>4. TypeOK'
    BY <1>1 DEF AppSetsUnit, TypeOK
  <1>5. UnitFits'
    BY DEF AppSetsUnit, UnitFits, Idle
  <1> QED
    BY <1>2, <1>3, <1>4, <1>5 DEF Inv

\* A frame is received: what the hub holds back is no older than the cache.
LEMMA ReceivesValueInv == ASSUME Inv, ReceivesValue PROVE Inv'
  <1> DEFINE v == Head(link).content
             Frames == Valued \cup Listed
  <1>1. TypeOK /\ CallFits /\ UnitFits /\ ShownFits /\ link \in Seq(Frames)
    BY DEF Inv, TypeOK
  <1>2. link # <<>> /\ Head(link).key = "value" /\ link' = Tail(link) /\ cache' = [cache EXCEPT !.value = v]
    BY DEF ReceivesValue
  <1>3. Head(link) \in Frames
    BY <1>1, <1>2, HeadTailProperties
  <1>4. v \in Values
    BY <1>2, <1>3 DEF Valued, Listed
  <1> HIDE DEF Frames
  <1>5. Tail(link) \in Seq(Frames) /\ Len(Tail(link)) = Len(link) - 1 /\ Len(link) \in Nat
    BY <1>1, <1>2, HeadTailProperties, LenProperties
  <1>6. Len(link') <= Limit
    BY <1>1, <1>2, <1>5, LimitAssumption DEF CallFits
  <1>7. cache \in [value : Values, list : SUBSET Values]
    BY <1>1 DEF TypeOK
  <1>8. cache' = [value |-> v, list |-> cache.list]
    BY <1>2, <1>7
  <1> HIDE DEF v
  <1>9. Settles(Tail(link), "value", v, wire) /\ Settles(Tail(link), "list", cache.list, list)
    BY <1>1, <1>2, SettlesTail DEF ShownFits, v
  <1>10. \/ buffered /\ pending' = [pending EXCEPT !.value = {v}] /\ shown' = shown
         \/ ~buffered /\ shown' = HandlePush(v, cache.list) /\ pending' = pending
    BY DEF ReceivesValue, v
  <1>11. pending = [value |-> pending.value, list |-> pending.list] /\ pending.list \in BOOLEAN
    BY <1>1 DEF TypeOK
  <1>12. UNCHANGED <<entity, buffered, wire, list, unit, commands, call, refused, asked>>
    BY DEF ReceivesValue, charger
  <1>13. /\ pending'.value \subseteq {v} /\ pending'.list \in BOOLEAN
         /\ pending' = [value |-> pending'.value, list |-> pending'.list]
    <2>1. CASE buffered
      BY <1>10, <1>11, <2>1
    <2>2. CASE ~buffered
      BY <1>1, <1>10, <1>11, <2>2 DEF ShownFits, NothingPending
    <2> QED
      BY <2>1, <2>2
  <1>14. TypeOK'
    <2>1. cache' \in [value : Values, list : SUBSET Values] /\ cache'.value = v
      BY <1>4, <1>7, <1>8
    <2>2. link' \in Seq(Valued \cup Listed)
      BY <1>2, <1>5 DEF Frames
    <2> QED
      BY <1>1, <1>12, <1>13, <2>1, <2>2 DEF TypeOK
  <1>15. CallFits'
    BY <1>6, <1>12, CallStays
  <1>16. ChargerKey' = ChargerKey /\ (Is("button")' <=> Is("button"))
         /\ \A x, a : Show(x, a)' = Show(x, a)
    BY <1>12, Frozen
  <1>17. UnitFits'
    BY <1>1, <1>12, <1>16 DEF UnitFits
  <1>18. Is("button") => Show(v, cache.list) = Show(cache.value, cache.list)
    <2>1. SUFFICES ASSUME Is("button") PROVE Show(v, cache.list) = Show(cache.value, cache.list)
      OBVIOUS
    <2>2. \A q : Is(q) <=> q = "button"
      BY <2>1, Platform
    <2> QED
      BY <2>2 DEF Show, Labels
  <1>19. pending' = NothingPending \/ Is("button") => shown' = Show(v, cache.list)
    <2>1. CASE Is("button")
      BY <1>1, <1>10, <1>18, <2>1 DEF ShownFits, HandlePush
    <2>2. CASE ~Is("button") /\ ~buffered
      BY <1>10, <2>2 DEF HandlePush
    <2>3. CASE ~Is("button") /\ buffered
      BY <1>10, <1>11, <2>3 DEF NothingPending
    <2> QED
      BY <2>1, <2>2, <2>3
  <1>20. (pending = NothingPending \/ Is("button") => shown = Show(cache.value, cache.list))'
    BY <1>8, <1>16, <1>19
  <1>21. ~buffered => pending' = NothingPending
    BY <1>1, <1>10 DEF ShownFits
  <1>22. ShownFits'
    BY <1>2, <1>8, <1>9, <1>12, <1>20, <1>21 DEF ShownFits
  <1> QED
    BY <1>14, <1>15, <1>17, <1>22 DEF Inv

LEMMA ReceivesListInv == ASSUME Inv, ReceivesList PROVE Inv'
  <1> DEFINE l == Head(link).content
             Frames == Valued \cup Listed
  <1>1. TypeOK /\ CallFits /\ UnitFits /\ ShownFits /\ link \in Seq(Frames)
    BY DEF Inv, TypeOK
  <1>2. link # <<>> /\ Head(link).key = "list" /\ link' = Tail(link) /\ cache' = [cache EXCEPT !.list = l]
    BY DEF ReceivesList
  <1>3. Head(link) \in Frames
    BY <1>1, <1>2, HeadTailProperties
  <1>4. l \in SUBSET Values
    BY <1>2, <1>3 DEF Valued, Listed
  <1> HIDE DEF Frames
  <1>5. Tail(link) \in Seq(Frames) /\ Len(Tail(link)) = Len(link) - 1 /\ Len(link) \in Nat
    BY <1>1, <1>2, HeadTailProperties, LenProperties
  <1>6. Len(link') <= Limit
    BY <1>1, <1>2, <1>5, LimitAssumption DEF CallFits
  <1>7. cache \in [value : Values, list : SUBSET Values]
    BY <1>1 DEF TypeOK
  <1>8. cache' = [value |-> cache.value, list |-> l]
    BY <1>2, <1>7
  <1> HIDE DEF l
  <1>9. Settles(Tail(link), "value", cache.value, wire) /\ Settles(Tail(link), "list", l, list)
    BY <1>1, <1>2, SettlesTail DEF ShownFits, l
  <1>10. \/ buffered /\ pending' = [pending EXCEPT !.list = TRUE] /\ shown' = shown
         \/ ~buffered /\ shown' = Show(cache.value, l) /\ pending' = pending
    BY DEF ReceivesList, HandleCompanionPush, l
  <1>11. pending = [value |-> pending.value, list |-> pending.list] /\ pending.list \in BOOLEAN
         /\ pending.value \subseteq {cache.value}
    BY <1>1 DEF TypeOK
  <1>12. UNCHANGED <<entity, buffered, wire, list, unit, commands, call, refused, asked>>
    BY DEF ReceivesList, charger
  <1>13. /\ pending'.value \subseteq {cache.value} /\ pending'.list \in BOOLEAN
         /\ pending' = [value |-> pending'.value, list |-> pending'.list]
    BY <1>10, <1>11
  <1>14. TypeOK'
    <2>1. cache' \in [value : Values, list : SUBSET Values] /\ cache'.value = cache.value
      BY <1>4, <1>7, <1>8
    <2>2. link' \in Seq(Valued \cup Listed)
      BY <1>2, <1>5 DEF Frames
    <2> QED
      BY <1>1, <1>12, <1>13, <2>1, <2>2 DEF TypeOK
  <1>15. CallFits'
    BY <1>6, <1>12, CallStays
  <1>16. ChargerKey' = ChargerKey /\ (Is("button")' <=> Is("button"))
         /\ \A x, a : Show(x, a)' = Show(x, a)
    BY <1>12, Frozen
  <1>17. UnitFits'
    BY <1>1, <1>12, <1>16 DEF UnitFits
  <1>18. Is("button") => Show(cache.value, l) = Show(cache.value, cache.list)
    <2>1. SUFFICES ASSUME Is("button") PROVE Show(cache.value, l) = Show(cache.value, cache.list)
      OBVIOUS
    <2>2. \A q : Is(q) <=> q = "button"
      BY <2>1, Platform
    <2> QED
      BY <2>2 DEF Show, Labels
  <1>19. pending' = NothingPending \/ Is("button") => shown' = Show(cache.value, l)
    <2>1. CASE ~buffered
      BY <1>10, <2>1
    <2>2. CASE buffered
      BY <1>1, <1>10, <1>11, <1>18, <2>2 DEF NothingPending, ShownFits
    <2> QED
      BY <2>1, <2>2
  <1>20. (pending = NothingPending \/ Is("button") => shown = Show(cache.value, cache.list))'
    BY <1>8, <1>16, <1>19
  <1>21. ~buffered => pending' = NothingPending
    BY <1>1, <1>10 DEF ShownFits
  <1>22. ShownFits'
    BY <1>2, <1>8, <1>9, <1>12, <1>20, <1>21 DEF ShownFits
  <1> QED
    BY <1>14, <1>15, <1>17, <1>22 DEF Inv

LEMMA FlushPendingInv == ASSUME Inv, FlushPending PROVE Inv'
  <1>1. TypeOK /\ CallFits /\ UnitFits /\ ShownFits
    BY DEF Inv
  <1>2. /\ pending # NothingPending /\ pending' = NothingPending
        /\ shown' = IF pending.list THEN HandleCompanionPush(cache.value, cache.list)
                    ELSE HandlePush(CHOOSE v \in pending.value : TRUE, cache.list)
        /\ UNCHANGED <<entity, buffered, wire, list, unit, commands, link, cache, call, refused, asked>>
    BY DEF FlushPending, charger
  <1>3. pending = [value |-> pending.value, list |-> pending.list] /\ pending.list \in BOOLEAN
        /\ pending.value \subseteq {cache.value}
    BY <1>1 DEF TypeOK
  <1>4. shown' = Show(cache.value, cache.list)
    <2>1. CASE pending.list
      BY <1>2, <2>1 DEF HandleCompanionPush
    <2>2. CASE ~pending.list
      <3>1. pending.value # {}
        BY <1>2, <1>3, <2>2 DEF NothingPending
      <3>2. (CHOOSE v \in pending.value : TRUE) = cache.value
        BY <1>3, <3>1
      <3> QED
        BY <1>1, <1>2, <2>2, <3>2 DEF HandlePush, ShownFits
    <2> QED
      BY <2>1, <2>2
  <1>5. TypeOK'
    BY <1>1, <1>2 DEF TypeOK, NothingPending
  <1>6. CallFits'
    BY <1>1, <1>2, CallStays DEF CallFits
  <1>7. ChargerKey' = ChargerKey /\ \A x, a : Show(x, a)' = Show(x, a)
    BY <1>2, Frozen
  <1>8. UnitFits'
    BY <1>1, <1>2, <1>7 DEF UnitFits
  <1>9. (pending = NothingPending \/ Is("button") => shown = Show(cache.value, cache.list))'
    BY <1>2, <1>4, <1>7
  <1>10. ShownFits'
    BY <1>1, <1>2, <1>9 DEF ShownFits
  <1> QED
    BY <1>5, <1>6, <1>8, <1>10 DEF Inv

\* A write that the client does not refuse is on its way, and waited for unless
\* it is the restart.
LEMMA SetPropertyFits ==
  ASSUME Inv, UNCHANGED <<entity, wire, link, asked>>,
         NEW todo, NEW wish, SetProperty(todo, wish), call.at # "waiting", Len(commands) < CallLimit,
         CoerceValue(Head(todo).key, Head(todo).value) # Refused,
         Head(todo).key = "esk"
           \/ (Head(todo).key = ChargerKey
               /\ Reads(CoerceValue(Head(todo).key, Head(todo).value), wish)),
         TodoFits(Tail(todo), wish), Tail(todo) # <<>> => Head(todo).key = "esk"
  PROVE  /\ CallFits' /\ refused' = refused /\ call'.at # "accepted"
         /\ commands' \in Seq({commands'[i] : i \in DOMAIN commands'})
         /\ \A i \in DOMAIN commands' : (i \in DOMAIN commands /\ commands'[i] = commands[i])
                                        \/ commands'[i].key = Head(todo).key
  <1> DEFINE key == Head(todo).key
             value == CoerceValue(key, Head(todo).value)
             live == key \notin NEVER_ACKNOWLEDGED
             c == Command(key, value, wish, live)
  <1>1. TypeOK /\ CallFits
    BY DEF Inv
  <1>2. /\ commands' = Append(commands, c) /\ refused' = refused
        /\ call' = IF key = "rst" THEN Idle ELSE [at |-> "waiting", todo |-> Tail(todo), wish |-> wish]
    <2>1. commands' = Append(commands, c) /\ refused' = refused
      BY DEF SetProperty
    <2>2. call' = IF key \in NEVER_ACKNOWLEDGED THEN Idle
                  ELSE [at |-> "waiting", todo |-> Tail(todo), wish |-> wish]
      BY DEF SetProperty
    <2> QED
      BY <2>1, <2>2 DEF NEVER_ACKNOWLEDGED
  <1>3. c.key = key /\ c.value = value /\ c.wish = wish /\ (c.live <=> key # "rst")
        /\ c = Command(c.key, c.value, c.wish, c.live)
    BY DEF Command, NEVER_ACKNOWLEDGED
  <1> HIDE DEF c, live, value, key
  <1>4. commands \in Seq({commands[i] : i \in DOMAIN commands})
    BY <1>1 DEF TypeOK
  <1>5. /\ commands' \in Seq({commands'[i] : i \in DOMAIN commands'})
        /\ Len(commands) \in Nat /\ Len(commands') = Len(commands) + 1
        /\ DOMAIN commands = 1..Len(commands) /\ DOMAIN commands' = 1..(Len(commands) + 1)
        /\ \A i \in 1..Len(commands) : commands'[i] = commands[i]
        /\ commands'[Len(commands) + 1] = c
    BY <1>2, <1>4, CommandsAppend
  <1>6. \A i \in DOMAIN commands : CommandFits(commands[i], FALSE)
    BY <1>1 DEF CallFits, CommandFits
  <1>7. CommandFits(c, key # "rst")
    BY <1>3 DEF CommandFits, key, value
  <1>8. call'.at = "waiting" <=> key # "rst"
    BY <1>2 DEF Idle
  <1>9. \A i \in DOMAIN commands' :
          CommandFits(commands'[i], call'.at = "waiting" /\ i = Len(commands'))
    <2>1. TAKE i \in DOMAIN commands'
    <2>2. CASE i = Len(commands')
      BY <1>5, <1>7, <1>8, <2>2 DEF CommandFits
    <2>3. CASE i # Len(commands')
      <3>1. i \in DOMAIN commands /\ commands'[i] = commands[i]
        BY <1>5, <2>3
      <3> QED
        BY <1>6, <2>3, <3>1 DEF CommandFits
    <2> QED
      BY <2>2, <2>3
  <1>10. TodoFits(call'.todo, call'.wish)
    BY <1>2 DEF TodoFits, Idle, key
  <1>11. /\ \A i \in DOMAIN commands' :
              CommandFits(commands[i], call.at = "waiting" /\ i = Len(commands))'
         /\ TodoFits(call.todo, call.wish)'
    BY <1>9, <1>10, Frozen
  <1>12. (asked # None => Reads(wire, asked))'
    BY <1>1, Frozen DEF CallFits
  <1>13. call'.todo # <<>> /\ call'.at = "waiting" => commands'[Len(commands')].key = "esk"
    BY <1>2, <1>3, <1>5 DEF Idle, key
  <1>14. commands' # <<>>
    BY <1>5
  <1>15. /\ call' = [at |-> call'.at, todo |-> call'.todo, wish |-> call'.wish]
         /\ call'.at \in {"idle", "waiting"} /\ (call'.at = "idle" => call' = Idle)
    BY <1>2 DEF Idle
  <1>16. Len(commands') <= CallLimit /\ Len(link') <= Limit /\ ~refused'
    BY <1>1, <1>2, <1>5 DEF CallFits, CallLimit
  <1>17. CallFits'
    BY <1>11, <1>12, <1>13, <1>14, <1>15, <1>16 DEF CallFits
  <1> QED
    BY <1>2, <1>3, <1>5, <1>15, <1>17 DEF key

LEMMA UserAsksInv == ASSUME Inv, NEW wish \in Wishes, UserAsks(wish) PROVE Inv'
  <1>1. TypeOK /\ CallFits /\ UnitFits
    BY DEF Inv
  <1>2. PICK v \in WireValues(wish) : SetProperty(Writes(v), wish)
    BY DEF UserAsks
  <1>3. call = Idle /\ Len(commands) < CallLimit
        /\ UNCHANGED <<entity, buffered, wire, list, unit, link, cache, pending, shown, asked>>
    BY DEF UserAsks, charger
  <1>4. Writable(v, wish)
    BY <1>1, <1>2, WishesAreWritable DEF TypeOK
  <1> DEFINE todo == Writes(v)
             key == Head(todo).key
             value == CoerceValue(key, Head(todo).value)
  <1>5. CASE ChargerKey = "fte"
    <2>1. todo = <<[key |-> "esk", value |-> Bool(TRUE)], [key |-> "fte", value |-> v]>>
      BY <1>5 DEF Writes
    <2>2. Head(todo) = [key |-> "esk", value |-> Bool(TRUE)] /\ Tail(todo) = <<[key |-> "fte", value |-> v]>>
      BY <2>1
    <2>3. value = Bool(TRUE) /\ key = "esk" /\ value # Refused
      BY <2>2, ValuesFit DEF CoerceValue, CoerceToJsonType, JsonType, AsBool, Bool, Value, Numeric, Null,
                             Refused, Optional
    <2>4. TodoFits(Tail(todo), wish)
      <3> DEFINE w == [key |-> "fte", value |-> v]
      <3>1. \A x : <<x>>[1] = x
        OBVIOUS
      <3>2. w.key = "fte" /\ w.value = v /\ Tail(todo) = <<w>>
        BY <2>2
      <3> HIDE DEF w
      <3> QED
        BY <1>4, <1>5, <3>1, <3>2 DEF TodoFits
    <2> HIDE DEF todo, key, value
    <2>5. /\ CallFits' /\ refused' = refused /\ call'.at # "accepted"
          /\ commands' \in Seq({commands'[i] : i \in DOMAIN commands'})
          /\ \A i \in DOMAIN commands' : (i \in DOMAIN commands /\ commands'[i] = commands[i])
                                         \/ commands'[i].key = key
      BY <1>2, <1>3, <2>3, <2>4, SetPropertyFits DEF todo, key, value, Idle
    <2>6. ChargerKey' = ChargerKey
      BY <1>3, Frozen
    <2>7. UnitFits'
      BY <1>1, <1>3, <2>3, <2>5, <2>6 DEF UnitFits
    <2>8. TypeOK' /\ ShownFits'
      BY <1>1, <1>3, <2>5, ShownStays DEF TypeOK
    <2> QED
      BY <2>5, <2>7, <2>8 DEF Inv
  <1>6. CASE ChargerKey # "fte"
    <2>1. todo = <<[key |-> ChargerKey, value |-> v]>>
      BY <1>6 DEF Writes
    <2>2. Head(todo) = [key |-> ChargerKey, value |-> v] /\ Tail(todo) = <<>>
      BY <2>1
    <2>3. value # Refused /\ key = ChargerKey /\ Reads(value, wish)
      BY <1>4, <2>2 DEF Writable
    <2>4. TodoFits(Tail(todo), wish)
      BY <2>2 DEF TodoFits
    <2> HIDE DEF todo, key, value
    <2>5. /\ CallFits' /\ refused' = refused
          /\ commands' \in Seq({commands'[i] : i \in DOMAIN commands'})
      BY <1>2, <1>3, <2>2, <2>3, <2>4, SetPropertyFits DEF todo, key, value, Idle
    <2>6. ChargerKey' = ChargerKey
      BY <1>3, Frozen
    <2>7. UnitFits'
      BY <1>6, <2>6 DEF UnitFits
    <2>8. TypeOK' /\ ShownFits'
      BY <1>1, <1>3, <2>5, ShownStays DEF TypeOK
    <2> QED
      BY <2>5, <2>7, <2>8 DEF Inv
  <1> QED
    BY <1>5, <1>6

\* The call ends, and no command is waited for any more.
LEMMA CallEnds ==
  ASSUME Inv, UNCHANGED <<entity, wire, link, refused, asked>>, call' = Idle,
         Len(commands') <= CallLimit,
         \A i \in DOMAIN commands' : CommandFits(commands'[i], FALSE)
  PROVE  CallFits'
  <1>1. CallFits
    BY DEF Inv
  <1>2. \A i \in DOMAIN commands' : CommandFits(commands'[i], call'.at = "waiting" /\ i = Len(commands'))
    BY DEF CommandFits, Idle
  <1>3. TodoFits(call'.todo, call'.wish)
    BY DEF TodoFits, Idle
  <1>4. /\ \A i \in DOMAIN commands' :
             CommandFits(commands[i], call.at = "waiting" /\ i = Len(commands))'
        /\ TodoFits(call.todo, call.wish)'
    BY <1>2, <1>3, Frozen
  <1>5. (asked # None => Reads(wire, asked))'
    BY <1>1, Frozen DEF CallFits
  <1> QED
    BY <1>1, <1>4, <1>5 DEF CallFits, Idle

LEMMA GoesOnInv == ASSUME Inv, GoesOn PROVE Inv'
  <1>1. TypeOK /\ CallFits /\ UnitFits
    BY DEF Inv
  <1>2. call.at = "accepted" /\ Len(commands) < CallLimit
        /\ UNCHANGED <<entity, buffered, wire, list, unit, link, cache, pending, shown, asked>>
    BY DEF GoesOn, charger
  <1>3. ChargerKey' = ChargerKey
    BY <1>2, Frozen
  <1>4. CASE call.todo = <<>>
    <2>1. call' = Idle /\ commands' = commands /\ refused' = refused
      BY <1>4 DEF GoesOn
    <2>2. \A i \in DOMAIN commands : CommandFits(commands[i], FALSE)
      BY <1>1, <1>2 DEF CallFits, CommandFits
    <2>3. CallFits'
      BY <1>1, <1>2, <2>1, <2>2, CallEnds DEF CallFits
    <2>4. UnitFits'
      BY <1>1, <1>2, <1>3, <2>1 DEF UnitFits, Idle
    <2>5. TypeOK' /\ ShownFits'
      BY <1>1, <1>2, <2>1, ShownStays DEF TypeOK
    <2> QED
      BY <2>3, <2>4, <2>5 DEF Inv
  <1>5. CASE call.todo # <<>>
    <2> DEFINE todo == call.todo
               wish == call.wish
               key == Head(todo).key
               value == CoerceValue(key, Head(todo).value)
    <2>1. SetProperty(todo, wish)
      BY <1>5 DEF GoesOn
    <2>2. ChargerKey = "fte" /\ todo = <<todo[1]>> /\ todo[1].key = "fte" /\ Writable(todo[1].value, wish)
      BY <1>1, <1>5 DEF CallFits, TodoFits
    <2>3. \A x : Head(<<x>>) = x /\ Tail(<<x>>) = <<>>
      OBVIOUS
    <2>4. Head(todo) = todo[1] /\ Tail(todo) = <<>>
      BY <2>2, <2>3
    <2>5. value # Refused /\ key = ChargerKey /\ Reads(value, wish)
      BY <2>2, <2>4 DEF Writable
    <2>6. TodoFits(Tail(todo), wish)
      BY <2>4 DEF TodoFits
    <2> HIDE DEF todo, key, value, wish
    <2>7. /\ CallFits' /\ refused' = refused /\ call'.at # "accepted"
          /\ commands' \in Seq({commands'[i] : i \in DOMAIN commands'})
          /\ \A i \in DOMAIN commands' : (i \in DOMAIN commands /\ commands'[i] = commands[i])
                                         \/ commands'[i].key = key
      BY <1>2, <2>1, <2>4, <2>5, <2>6, SetPropertyFits DEF key, value
    <2>8. UnitFits'
      BY <1>1, <1>2, <1>3, <1>5, <2>7 DEF UnitFits
    <2>9. TypeOK' /\ ShownFits'
      BY <1>1, <1>2, <2>7, ShownStays DEF TypeOK
    <2> QED
      BY <2>7, <2>8, <2>9 DEF Inv
  <1> QED
    BY <1>4, <1>5

LEMMA TimesOutInv == ASSUME Inv, TimesOut PROVE Inv'
  <1>1. TypeOK /\ CallFits /\ UnitFits
    BY DEF Inv
  <1>2. call' = Idle /\ commands' = [i \in DOMAIN commands |-> [commands[i] EXCEPT !.live = FALSE]]
        /\ UNCHANGED <<entity, buffered, wire, list, unit, link, cache, pending, shown, refused, asked>>
    BY DEF TimesOut, charger
  <1>3. commands \in Seq({commands[i] : i \in DOMAIN commands})
    BY <1>1 DEF TypeOK
  <1>4. Len(commands) \in Nat /\ DOMAIN commands = 1..Len(commands)
    BY <1>3, LenProperties
  <1> DEFINE T == {commands'[i] : i \in DOMAIN commands'}
  <1>5. DOMAIN commands' = 1..Len(commands) /\ commands' \in [1..Len(commands) -> T]
    BY <1>2, <1>4
  <1> HIDE DEF T
  <1>6. commands' \in Seq(T)
    BY <1>4, <1>5, SeqDef
  <1>7. Len(commands') = Len(commands)
    BY <1>4, <1>5, <1>6, LenProperties
  <1>8. \A i \in DOMAIN commands :
          LET c == commands[i]
              d == commands'[i]
          IN  d = Command(c.key, c.value, c.wish, FALSE)
    <2>1. TAKE i \in DOMAIN commands
    <2>2. commands'[i] = [commands[i] EXCEPT !.live = FALSE]
      BY <1>2
    <2>3. commands[i] = Command(commands[i].key, commands[i].value, commands[i].wish, commands[i].live)
      BY <1>1 DEF CallFits, CommandFits
    <2> QED
      BY <2>2, <2>3 DEF Command
  <1>9. \A i \in DOMAIN commands' : commands'[i].key = commands[i].key /\ CommandFits(commands'[i], FALSE)
    <2>1. TAKE i \in DOMAIN commands'
    <2> DEFINE c == commands[i]
               d == commands'[i]
    <2>2. d = Command(c.key, c.value, c.wish, FALSE)
      BY <1>4, <1>5, <1>8
    <2>3. c.key = "esk" \/ (c.key = ChargerKey /\ Reads(c.value, c.wish))
      BY <1>1, <1>4, <1>5 DEF CallFits, CommandFits
    <2> HIDE DEF c, d
    <2>4. d.key = c.key /\ d.value = c.value /\ d.wish = c.wish /\ ~d.live
          /\ d = Command(d.key, d.value, d.wish, d.live)
      BY <2>2 DEF Command
    <2>5. CommandFits(d, FALSE)
      BY <2>3, <2>4 DEF CommandFits
    <2> QED
      BY <2>4, <2>5 DEF c, d
  <1>10. CallFits'
    BY <1>1, <1>2, <1>7, <1>9, CallEnds DEF CallFits
  <1>11. ChargerKey' = ChargerKey
    BY <1>2, Frozen
  <1>12. UnitFits'
    BY <1>1, <1>2, <1>4, <1>5, <1>9, <1>11 DEF UnitFits, Idle
  <1>13. TypeOK' /\ ShownFits'
    BY <1>1, <1>2, <1>6, ShownStays DEF TypeOK, T
  <1> QED
    BY <1>10, <1>12, <1>13 DEF Inv

\* The first command and its answer
LEMMA FirstFits ==
  ASSUME Inv, commands # <<>>
  PROVE  /\ 1 \in DOMAIN commands /\ Head(commands) = commands[1]
         /\ CommandFits(Head(commands), call.at = "waiting" /\ 1 = Len(commands))
         /\ Head(commands).key = "esk"
              \/ (Head(commands).key = ChargerKey /\ Reads(Head(commands).value, Head(commands).wish))
  <1>1. TypeOK /\ CallFits
    BY DEF Inv
  <1>2. commands \in Seq({commands[i] : i \in DOMAIN commands})
    BY <1>1 DEF TypeOK
  <1>3. 1 \in DOMAIN commands /\ Head(commands) = commands[1]
    BY <1>2, CommandsTail
  <1>4. CommandFits(commands[1], call.at = "waiting" /\ 1 = Len(commands))
    BY <1>1, <1>3 DEF CallFits
  <1> QED
    BY <1>3, <1>4 DEF CommandFits

LEMMA AnswerFits ==
  ASSUME Inv, UNCHANGED <<entity, refused>>, commands # <<>>, commands' = Tail(commands),
         call' \in (IF Head(commands).live THEN {[call EXCEPT !.at = "accepted"], Idle} ELSE {call}),
         Len(link') <= Limit, (asked # None => Reads(wire, asked))'
  PROVE  CallFits' /\ commands' \in Seq({commands'[i] : i \in DOMAIN commands'})
  <1>1. TypeOK /\ CallFits
    BY DEF Inv
  <1>2. commands \in Seq({commands[i] : i \in DOMAIN commands})
    BY <1>1 DEF TypeOK
  <1>3. /\ commands' \in Seq({commands'[i] : i \in DOMAIN commands'})
        /\ Len(commands) \in Nat \ {0} /\ Len(commands') = Len(commands) - 1
        /\ DOMAIN commands = 1..Len(commands) /\ DOMAIN commands' = 1..(Len(commands) - 1)
        /\ \A i \in 1..(Len(commands) - 1) : commands'[i] = commands[i + 1]
        /\ Head(commands) = commands[1]
    <2> DEFINE S == {commands[i] : i \in DOMAIN commands}
               t == commands'
    <2>1. commands \in Seq(S) /\ t = Tail(commands)
      BY <1>2
    <2> HIDE DEF S, t
    <2>2. t \in Seq({t[i] : i \in DOMAIN t})
      <3>1. t \in Seq(S)
        BY <2>1, HeadTailProperties
      <3> QED
        BY ONLY <3>1, SeqOfItsOwn
    <2>3. /\ Len(commands) \in Nat \ {0} /\ Len(t) = Len(commands) - 1
          /\ DOMAIN commands = 1..Len(commands) /\ DOMAIN t = 1..(Len(commands) - 1)
          /\ \A i \in 1..(Len(commands) - 1) : t[i] = commands[i + 1]
          /\ Head(commands) = commands[1]
      BY <2>1, CommandsTail
    <2> QED
      BY <2>2, <2>3 DEF t
  <1>4. Head(commands).live <=> call.at = "waiting" /\ 1 = Len(commands)
    BY FirstFits DEF CommandFits
  <1>5. call = [at |-> call.at, todo |-> call.todo, wish |-> call.wish] /\ call.at \in {"idle", "waiting", "accepted"}
    BY <1>1 DEF CallFits
  <1>6. /\ call' = call \/ (call'.at \in {"idle", "accepted"} /\ 1 = Len(commands))
        /\ call' = [at |-> call'.at, todo |-> call'.todo, wish |-> call'.wish]
        /\ call'.at \in {"idle", "waiting", "accepted"} /\ (call'.at = "idle" => call' = Idle)
        /\ TodoFits(call'.todo, call'.wish)
        /\ call'.at = "waiting" => call' = call /\ 1 # Len(commands)
    <2>1. CASE Head(commands).live /\ call' = [call EXCEPT !.at = "accepted"]
      <3>1. call' = [at |-> "accepted", todo |-> call.todo, wish |-> call.wish]
        BY <1>5, <2>1
      <3> QED
        BY <1>1, <1>4, <2>1, <3>1 DEF CallFits
    <2>2. CASE Head(commands).live /\ call' = Idle
      BY <1>4, <2>2 DEF Idle, TodoFits
    <2>3. CASE ~Head(commands).live /\ call' = call
      BY <1>1, <1>4, <2>3 DEF CallFits
    <2> QED
      BY <2>1, <2>2, <2>3
  <1>7. \A i \in DOMAIN commands' :
          CommandFits(commands'[i], call'.at = "waiting" /\ i = Len(commands'))
    <2>1. TAKE i \in DOMAIN commands'
    <2>2. i + 1 \in DOMAIN commands /\ commands'[i] = commands[i + 1] /\ call' = call
          /\ (i = Len(commands') <=> i + 1 = Len(commands))
      BY <1>3, <1>6
    <2>3. CommandFits(commands[i + 1], call.at = "waiting" /\ i + 1 = Len(commands))
      BY <1>1, <2>2 DEF CallFits
    <2> QED
      BY <2>2, <2>3 DEF CommandFits
  <1>8. /\ \A i \in DOMAIN commands' :
             CommandFits(commands[i], call.at = "waiting" /\ i = Len(commands))'
        /\ TodoFits(call.todo, call.wish)'
    BY <1>6, <1>7, Frozen
  <1>9. call'.at = "waiting" =>
          commands' # <<>> /\ (call'.todo # <<>> => commands'[Len(commands')].key = "esk")
    <2>1. SUFFICES ASSUME call'.at = "waiting"
                   PROVE  commands' # <<>> /\ (call'.todo # <<>> => commands'[Len(commands')].key = "esk")
      OBVIOUS
    <2>2. call' = call /\ Len(commands) > 1
      BY <1>3, <1>6, <2>1
    <2>3. commands'[Len(commands')] = commands[Len(commands)] /\ commands' # <<>>
      BY <1>3, <2>2
    <2> QED
      BY <1>1, <2>1, <2>2, <2>3 DEF CallFits
  <1>10. Len(commands') <= CallLimit /\ ~refused'
    BY <1>1, <1>3 DEF CallFits, CallLimit
  <1> QED
    BY <1>3, <1>6, <1>8, <1>9, <1>10 DEF CallFits

LEMMA AnsweredUnit ==
  ASSUME Inv, UNCHANGED <<entity, unit, asked>>, commands # <<>>, commands' = Tail(commands),
         call' \in {call, Idle} \/ (call'.todo = call.todo /\ Head(commands).live /\ Head(commands).key # "esk")
  PROVE  UnitFits'
  <1>1. TypeOK /\ CallFits /\ UnitFits
    BY DEF Inv
  <1>2. commands \in Seq({commands[i] : i \in DOMAIN commands})
    BY <1>1 DEF TypeOK
  <1>3. /\ Len(commands) \in Nat \ {0}
        /\ DOMAIN commands = 1..Len(commands) /\ DOMAIN commands' = 1..(Len(commands) - 1)
        /\ \A i \in 1..(Len(commands) - 1) : commands'[i] = commands[i + 1]
        /\ Head(commands) = commands[1]
    BY <1>2, CommandsTail
  <1>4. ChargerKey = "fte" => \A i \in DOMAIN commands' : commands'[i].key = "fte" => unit
    BY <1>1, <1>3 DEF UnitFits
  <1>5. Head(commands).live => call.at = "waiting" /\ 1 = Len(commands)
    BY FirstFits DEF CommandFits
  <1>6. ChargerKey = "fte" /\ call'.at = "accepted" /\ call'.todo # <<>> => unit
    <2>1. CASE call' \in {call, Idle}
      BY <1>1, <2>1 DEF UnitFits, Idle
    <2>2. CASE call'.todo = call.todo /\ Head(commands).live /\ Head(commands).key # "esk"
      BY <1>1, <1>3, <1>5, <2>2 DEF CallFits
    <2> QED
      BY <2>1, <2>2
  <1> QED
    BY <1>1, <1>4, <1>6, Frozen DEF UnitFits

\* The charger answers the first command.
LEMMA AcceptsInv == ASSUME Inv, Accepts PROVE Inv'
  <1> DEFINE c == Head(commands)
  <1>1. TypeOK /\ CallFits /\ UnitFits
    BY DEF Inv
  <1>2. commands # <<>> /\ commands' = Tail(commands)
        /\ call' = (IF c.live THEN [call EXCEPT !.at = "accepted"] ELSE call)
        /\ UNCHANGED <<entity, buffered, list, cache, pending, shown, refused>>
    BY DEF Accepts
  <1>3. CASE c.key = "esk"
    <2>1. unit' = TRUE /\ UNCHANGED <<wire, link, asked>>
      BY <1>3 DEF Accepts
    <2>2. CallFits' /\ commands' \in Seq({commands'[i] : i \in DOMAIN commands'})
      BY <1>1, <1>2, <2>1, AnswerFits, Frozen DEF CallFits
    <2>3. UnitFits'
      BY <2>1 DEF UnitFits
    <2>4. TypeOK' /\ ShownFits'
      BY <1>1, <1>2, <2>1, <2>2, ShownStays DEF TypeOK
    <2> QED
      BY <2>2, <2>3, <2>4 DEF Inv
  <1>4. CASE c.key = "rst"
    <2>1. UNCHANGED <<wire, unit, link, asked>>
      BY <1>4 DEF Accepts
    <2>2. CallFits' /\ commands' \in Seq({commands'[i] : i \in DOMAIN commands'})
      BY <1>1, <1>2, <2>1, AnswerFits, Frozen DEF CallFits
    <2>3. UnitFits'
      BY <1>1, <1>2, <1>4, <2>1, AnsweredUnit DEF UnitFits
    <2>4. TypeOK' /\ ShownFits'
      BY <1>1, <1>2, <2>1, <2>2, ShownStays DEF TypeOK
    <2> QED
      BY <2>2, <2>3, <2>4 DEF Inv
  <1>5. CASE c.key \notin {"esk", "rst"}
    <2>1. Len(link) < Limit /\ wire' = c.value /\ asked' = c.wish
          /\ link' = Append(link, ValueFrame(c.value)) /\ UNCHANGED unit
      BY <1>5 DEF Accepts
    <2>2. c.key = ChargerKey /\ Reads(c.value, c.wish)
      BY <1>1, <1>2, <1>5, FirstFits
    <2>3. c.value \in Values
      BY <2>2 DEF Reads
    <2>4. /\ ShownFits' /\ Len(link') <= Limit
          /\ link' \in Seq(Valued \cup Listed) /\ wire' \in Values
      BY <1>2, <2>1, <2>3, ValueSent
    <2>5. (asked # None => Reads(wire, asked))'
      BY <1>2, <2>1, <2>2, Frozen
    <2>6. CallFits' /\ commands' \in Seq({commands'[i] : i \in DOMAIN commands'})
      BY <1>2, <2>4, <2>5, AnswerFits
    <2>7. UnitFits'
      <3>1. ChargerKey = "fte" => unit
        BY <1>1, <1>2, <2>2, FirstFits DEF UnitFits
      <3> QED
        BY <1>2, <2>1, <3>1, Frozen DEF UnitFits
    <2>8. TypeOK'
      BY <1>1, <1>2, <2>1, <2>4, <2>6 DEF TypeOK
    <2> QED
      BY <2>4, <2>6, <2>7, <2>8 DEF Inv
  <1> QED
    BY <1>3, <1>4, <1>5

LEMMA RejectsInv == ASSUME Inv, Rejects PROVE Inv'
  <1> DEFINE c == Head(commands)
  <1>1. TypeOK /\ CallFits /\ UnitFits
    BY DEF Inv
  <1>2. commands # <<>> /\ commands' = Tail(commands)
        /\ call' = (IF c.live THEN Idle ELSE call)
        /\ UNCHANGED <<entity, buffered, wire, list, unit, link, cache, pending, shown, refused, asked>>
    BY DEF Rejects, charger
  <1>3. CallFits' /\ commands' \in Seq({commands'[i] : i \in DOMAIN commands'})
    BY <1>1, <1>2, AnswerFits, Frozen DEF CallFits
  <1>4. UnitFits'
    BY <1>1, <1>2, AnsweredUnit
  <1>5. TypeOK' /\ ShownFits'
    BY <1>1, <1>2, <1>3, ShownStays DEF TypeOK
  <1> QED
    BY <1>3, <1>4, <1>5 DEF Inv

LEMMA NextInv == Inv /\ [Next]_vars => Inv'
  <1> SUFFICES ASSUME Inv, [Next]_vars PROVE Inv'
    OBVIOUS
  <1>1. ASSUME NEW wish \in Wishes, UserAsks(wish) PROVE Inv'
    BY <1>1, UserAsksInv
  <1>2. CASE GoesOn
    BY <1>2, GoesOnInv
  <1>3. CASE TimesOut
    BY <1>3, TimesOutInv
  <1>4. CASE Accepts
    BY <1>4, AcceptsInv
  <1>5. CASE Rejects
    BY <1>5, RejectsInv
  <1>6. ASSUME NEW v \in Foreign, AppSets(v) PROVE Inv'
    BY <1>6, AppSetsInv
  <1>7. ASSUME NEW l \in Lists, AppLists(l) PROVE Inv'
    BY <1>7, AppListsInv
  <1>8. CASE AppSetsUnit
    BY <1>8, AppSetsUnitInv
  <1>9. CASE ReceivesValue
    BY <1>9, ReceivesValueInv
  <1>10. CASE ReceivesList
    BY <1>10, ReceivesListInv
  <1>11. CASE FlushPending
    BY <1>11, FlushPendingInv
  <1>12. CASE UNCHANGED vars
    <2>1. UNCHANGED <<entity, buffered, wire, list, unit, commands, link, cache, pending, shown, call,
                      refused, asked>>
      BY <1>12 DEF vars, charger
    <2>2. TypeOK /\ CallFits /\ UnitFits
      BY DEF Inv
    <2>3. CallFits' /\ ShownFits'
      BY <2>1, <2>2, CallStays, ShownStays DEF CallFits
    <2>4. TypeOK'
      BY <2>1, <2>2 DEF TypeOK
    <2>5. UnitFits'
      BY <2>1, <2>2, Frozen DEF UnitFits
    <2> QED
      BY <2>3, <2>4, <2>5 DEF Inv
  <1> QED
    BY <1>1, <1>2, <1>3, <1>4, <1>5, <1>6, <1>7, <1>8, <1>9, <1>10, <1>11, <1>12 DEF Next

-----------------------------------------------------------------------------
(* The theorems *)

\* Every state has: the frames and pushes on their way end at the charger's
\* value; every command on its way reads back as its wish; the second write of
\* a trip energy waits for the first (SetProperty, Accepts, HandlePush).
THEOREM Invariance == Spec => []Inv
  BY InitInv, NextInv, PTL DEF Spec

\* Whatever the charger, its app and its owner do in whatever order, an entity
\* without an unread push shows the charger's value under the charger's options
\* (_apply_value), and a value of another kind as unknown.
THEOREM EntitiesShowTheCharger == Spec => []ShownIsCharger
  <1>1. Inv => ShownIsCharger
    <2> SUFFICES ASSUME Inv, Settled PROVE /\ ~Is("button") => shown = Show(wire, list)
                                           /\ wire.type \notin Kinds =>
                                                \/ shown.state = None
                                                \/ wire = Null /\ Is("number") /\ TheNumber.zeroMeansNull
      BY DEF ShownIsCharger
    <2>1. TypeOK /\ ShownFits /\ link = <<>> /\ pending = NothingPending
      BY DEF Inv, Settled
    <2>2. cache.value = wire /\ cache.list = list
      BY <2>1, SettledWhenEmpty DEF ShownFits
    <2>3. shown = Show(wire, list)
      BY <2>1, <2>2 DEF ShownFits
    <2>4. entity \in Settings /\ wire \in Values /\ list \in SUBSET Values
      BY <2>1 DEF TypeOK
    <2> QED
      BY <2>3, <2>4, ForeignKindIsUnknown
  <1> QED
    BY <1>1, Invariance, PTL

\* The client's coercion takes every value an entity writes (coerce_value), and
\* a wish the charger took is the wish the entity shows: exactly where the wire
\* can hold it, and as the nearest value where a key wants a whole number.
THEOREM WishesAreKept == Spec => []AskedIsShown
  <1>1. Inv => AskedIsShown
    <2> SUFFICES ASSUME Inv PROVE ~refused /\ (Settled /\ asked # None => ReadsBack(shown, asked))
      BY DEF AskedIsShown
    <2>1. TypeOK /\ CallFits /\ ShownFits
      BY DEF Inv
    <2>2. ~refused
      BY <2>1 DEF CallFits
    <2>3. ASSUME Settled, asked # None PROVE ReadsBack(shown, asked)
      <3>1. link = <<>> /\ pending = NothingPending
        BY <2>3 DEF Settled
      <3>2. cache.value = wire /\ cache.list = list
        BY <2>1, <3>1, SettledWhenEmpty DEF ShownFits
      <3>3. shown = Show(wire, list)
        BY <2>1, <3>1, <3>2 DEF ShownFits
      <3>4. Reads(wire, asked) /\ entity \in Settings /\ list \in SUBSET Values
        BY <2>1, <2>3 DEF CallFits, TypeOK
      <3> QED
        BY <3>3, <3>4, ReadIsShown
    <2> QED
      BY <2>2, <2>3
  <1> QED
    BY <1>1, Invariance, PTL

\* A trip energy that Home Assistant stored stands in Wh (number.py writes esk
\* before fte, and fte only after the charger took esk).
THEOREM TripEnergyHasItsUnit == Spec => []EnergyHasItsUnit
  <1>1. Inv => EnergyHasItsUnit
    BY DEF Inv, UnitFits, EnergyHasItsUnit
  <1> QED
    BY <1>1, Invariance, PTL

=============================================================================
