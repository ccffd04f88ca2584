------------------------------- MODULE MCWebApp -------------------------------
(* Instance of WebApp for TLC. *)
EXTENDS WebApp

CONSTANTS d1, d2

TwoDocs == {d1, d2}
SecondMoved == {d2}
FirstRespelt == {d1}

Integers(S) == {IntegerText(n) : n \in S} \cup {[digits |-> FALSE, n |-> 0]}
Degrees(S) == [form : {"plain"}, n : S] \cup [form : {"exponent", "other"}, n : {5}]
Passwords == {[chars |-> 11, bytes |-> 44], [chars |-> 12, bytes |-> 128],
              [chars |-> 40, bytes |-> 129]}
Tariffs == [whole : {0, 1, 10000000}, spaced : BOOLEAN, cents : {<<>>, <<5>>, <<0, 5>>, <<9, 0, 1>>}]

SomeTexts ==
  [username |-> {"blank", "name"}, password |-> Passwords, confirmPassword |-> Passwords,
   loggerHost |-> [ipv4 : BOOLEAN, spaced : BOOLEAN, private : BOOLEAN],
   loggerSerial |-> [digits : BOOLEAN, uint32 : BOOLEAN, zeros : 0..1],
   loggerPort |-> Integers({0, 1, 65535, 65536}), modbusSlave |-> Integers({0, 247, 248}),
   panelCount |-> Integers({0, 7, 12000}), panelWattage |-> Integers({0, 1, 1714, 1715}),
   activeMPPT |-> {<<>>, <<2>>, <<2, 1>>},
   latitude |-> Degrees({-900000001, -900000000, 0, 5}),
   longitude |-> Degrees({1800000000, 1800000001, 10}),
   timezone |-> {"both", "browser", "empty", "Local", "unknown"},
   currency |-> {"BRL", "brl", "ZZZ"}, tariff |-> Tariffs,
   retentionDays |-> Integers({0, 29, 30, 3650, 3651})]

UsualValues ==
  [username |-> "name", password |-> [chars |-> 12, bytes |-> 12],
   confirmPassword |-> [chars |-> 12, bytes |-> 12],
   loggerHost |-> [ipv4 |-> TRUE, spaced |-> FALSE, private |-> TRUE],
   loggerSerial |-> [digits |-> TRUE, uint32 |-> TRUE, zeros |-> 0],
   loggerPort |-> IntegerText(8899), modbusSlave |-> IntegerText(1),
   panelCount |-> IntegerText(7), panelWattage |-> IntegerText(610), activeMPPT |-> <<1>>,
   latitude |-> DecimalText(-235000000), longitude |-> DecimalText(-466000000),
   timezone |-> "both", currency |-> "BRL",
   tariff |-> [whole |-> 0, spaced |-> FALSE, cents |-> <<9, 5>>],
   retentionDays |-> IntegerText(730)]
=============================================================================
