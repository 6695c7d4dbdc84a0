---- MODULE MCSettings ----
\* Instance of Settings for TLC: what is asked and what the charger reports.
EXTENDS Settings

\* Fractions, ends of ranges, a negative one, the zero that some write as null
AskedAmounts == {-50, 0, 201, 1250, 1600, 3200}
AskedMoments == {0, 27000, 86399}

\* Values the property has, and malformed ones: of a number also a text, NaN and
\* an int past the floats, of a time a negative fraction and texts
Regular ==
  [switch |-> {Bool(TRUE), Bool(FALSE)},
   number |-> {Whole(16), Float(1290)},
   select |-> {Whole(9)},
   preset |-> {Whole(6), Whole(13), Float(600)},
   time |-> {Whole(0), Whole(27000), Whole(86400)},
   button |-> {Whole(n) : n \in 0..5},
   binary |-> {Whole(n) : n \in 0..5}]
Malformed ==
  [switch |-> {Null, Text(0), Other},
   number |-> {Bool(TRUE), Null, Text(0), Digits(16), Beyond(0), Whole(10000001)},
   select |-> {Bool(TRUE), Null, Text(0), Other},
   preset |-> {Bool(TRUE), Null, Digits(6)},
   time |-> {Bool(TRUE), Null, Text(0), Other, Float(-1290), Digits(27000), Decimal(1290),
             BeyondText(1)},
   button |-> {Bool(TRUE), Null},
   binary |-> {Bool(TRUE), Null, Beyond(1), Digits(2)}]
ReportedValues == [p \in DOMAIN Regular |-> Regular[p] \cup Malformed[p]]

ListedPresets ==
  {{Whole(6), Whole(10)}, {Whole(10), Whole(13), Whole(20)},
   {Bool(TRUE), Float(1290), Whole(0), Whole(99), Other}}

====
