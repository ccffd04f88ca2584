----------------------------- MODULE WebAppProofs -----------------------------
(***************************************************************************)
(* What the pages of the web interface promise, for any documents, texts,  *)
(* wizard and bounds.                                                      *)
(***************************************************************************)
EXTENDS WebApp, HistoryPage, SequenceTheorems, WellFoundedInduction, TLAPS

CONSTANT Addresses      \* addresses that the history page may come to

-----------------------------------------------------------------------------
(* Numbers *)

\* The least element of a set of numbers.
LEMMA LeastElement ==
  ASSUME NEW S \in SUBSET Nat, S # {}
  PROVE  \E m \in S : \A n \in S : m <= n
<1> DEFINE R == OpToRel(<, Nat)
<1>1. \E x \in S : \A y \in S : ~(<<y, x>> \in R)
  <2> HIDE DEF R
  <2>1. IsWellFoundedOn(R, Nat)  BY NatLessThanWellFounded DEF R
  <2> QED  BY <2>1, WFMin
<1>2. \A x \in Nat, y \in Nat : y < x => <<y, x>> \in R  BY DEF OpToRel
<1> HIDE DEF R
<1>3. PICK x \in S : \A y \in S : ~(<<y, x>> \in R)  BY <1>1
<1>4. \A y \in S : ~(y < x)  BY <1>2, <1>3
<1> QED  BY <1>4

-----------------------------------------------------------------------------
(* Forms *)

AccountFields == {"username", "password", "confirmPassword"}
LoggerFields == {"loggerHost", "loggerSerial", "loggerPort", "modbusSlave"}
PanelFields == {"panelCount", "panelWattage", "activeMPPT"}
PlaceFields == {"latitude", "longitude", "timezone", "currency", "tariff", "retentionDays"}

\* The fields of the steps, spelt out.
LEMMA StepsOfWizard ==
  /\ DOMAIN StepFields = 1 .. 4
  /\ FieldsOf(1) = AccountFields /\ FieldsOf(2) = LoggerFields
  /\ FieldsOf(3) = PanelFields /\ FieldsOf(4) = PlaceFields
  /\ Fields = AccountFields \cup LoggerFields \cup PanelFields \cup PlaceFields
  /\ SettingsFields = LoggerFields \cup PanelFields \cup PlaceFields
<1> USE DEF AccountFields, LoggerFields, PanelFields, PlaceFields
<1>1. DOMAIN StepFields = 1 .. 4  BY DEF StepFields
<1>2. FieldsOf(1) = AccountFields  BY DEF FieldsOf, StepFields
<1>3. FieldsOf(2) = LoggerFields  BY DEF FieldsOf, StepFields
<1>4. FieldsOf(3) = PanelFields  BY DEF FieldsOf, StepFields
<1>5. FieldsOf(4) = PlaceFields  BY DEF FieldsOf, StepFields
<1>6. Fields = FieldsOf(1) \cup FieldsOf(2) \cup FieldsOf(3) \cup FieldsOf(4)
  <2>1. \A s : s \in 1 .. 4 <=> s \in {1, 2, 3, 4}  OBVIOUS
  <2> QED  BY <1>1, <2>1 DEF Fields
<1>7. SettingsFields = LoggerFields \cup PanelFields \cup PlaceFields
  BY <1>2, <1>3, <1>4, <1>5, <1>6 DEF SettingsFields
<1> QED  BY <1>1, <1>2, <1>3, <1>4, <1>5, <1>6, <1>7

\* The browser multiplies where the server divides; the two agree.
LEMMA Power ==
  ASSUME NEW c \in Nat, NEW w \in Nat, w > 0, c * w <= MaxPower
  PROVE  ~(c > MaxPower \div w)
<1>1. MaxPower \in Nat  BY SMT DEF MaxPower
<1> QED  BY <1>1, SMT

\* The largest tariff is a number.
LEMMA MaxTariffNat == MaxTariff \in Nat
BY SMT DEF MaxTariff

\* The text that a stored tariff is shown as has the tariff for its value.
LEMMA TariffBack ==
  ASSUME NEW m \in 0 .. MaxTariff
  PROVE  TariffMinor(TariffText(m)) = {m}
<1> DEFINE q == m \div 100
           r == m % 100
<1>1. m \in Nat /\ m <= MaxTariff  BY MaxTariffNat, SMT
<1>2. q \in Nat /\ r \in 0 .. 99 /\ m = 100 * q + r  BY <1>1, SMT
<1>3. m % 10 = r % 10
  <2> HIDE DEF q, r
  <2>1. (100 * q + r) % 10 = r % 10  BY <1>2, SMT
  <2> QED  BY <1>2, <2>1, SMT
<1>4. r = 10 * (r \div 10) + (r % 10)
  <2> HIDE DEF r
  <2> QED  BY <1>2, SMT
<1>5. TariffText(m) = [whole |-> q, spaced |-> FALSE, cents |-> <<r \div 10, m % 10>>]
  BY SMT DEF TariffText
<1> HIDE DEF q, r
<1> DEFINE t == TariffText(m)
<1>6. t.whole = q /\ t.cents = <<r \div 10, m % 10>>  BY <1>5, SMT
<1>7. Len(t.cents) = 2 /\ t.cents[1] = r \div 10 /\ t.cents[2] = m % 10  BY <1>6, SMT
<1> HIDE DEF t
<1>8. 100 * t.whole + 10 * t.cents[1] + t.cents[2] = m
  <2>1. r \div 10 \in Int /\ r % 10 \in Int  BY <1>2, SMT
  <2> QED  BY <1>2, <1>3, <1>4, <1>6, <1>7, <2>1, SMT
<1> QED  BY <1>1, <1>7, <1>8, SMT DEF TariffMinor, t

\* A form holds in each field a text of that field.
IsForm(values) == \A f \in Fields : values[f] \in TextsOf(f)

\* The texts of the fields of the settings.
LEMMA FormTexts ==
  ASSUME NEW values, IsForm(values)
  PROVE  /\ values["loggerHost"] \in [ipv4 : BOOLEAN, spaced : BOOLEAN, private : BOOLEAN]
         /\ values["loggerSerial"] \in [digits : BOOLEAN, uint32 : BOOLEAN, zeros : Nat]
         /\ \A f \in IntegerFields : values[f] \in [digits : BOOLEAN, n : Nat]
         /\ values["activeMPPT"] \in {<<>>, <<1>>, <<2>>, <<1, 2>>, <<2, 1>>}
         /\ values["latitude"] \in [form : {"plain", "exponent", "other"}, n : Int]
         /\ values["longitude"] \in [form : {"plain", "exponent", "other"}, n : Int]
         /\ values["timezone"] \in {"both", "browser", "empty", "Local", "unknown"}
         /\ values["currency"] \in {"BRL", "brl", "ZZZ"}
         /\ values["tariff"] \in [whole : Nat, spaced : BOOLEAN, cents : Seq(0 .. 9)]
<1> USE StepsOfWizard DEF IsForm, AccountFields, LoggerFields, PanelFields, PlaceFields
<1>1. values["loggerHost"] \in [ipv4 : BOOLEAN, spaced : BOOLEAN, private : BOOLEAN]
  BY DEF TextsOf, IntegerFields
<1>2. values["loggerSerial"] \in [digits : BOOLEAN, uint32 : BOOLEAN, zeros : Nat]
  BY DEF TextsOf, IntegerFields
<1>3. \A f \in IntegerFields : values[f] \in [digits : BOOLEAN, n : Nat]
  BY DEF TextsOf, IntegerFields
<1>4. values["activeMPPT"] \in {<<>>, <<1>>, <<2>>, <<1, 2>>, <<2, 1>>}
  BY DEF TextsOf, IntegerFields
<1>5. values["latitude"] \in [form : {"plain", "exponent", "other"}, n : Int]
  BY DEF TextsOf, IntegerFields
<1>6. values["longitude"] \in [form : {"plain", "exponent", "other"}, n : Int]
  BY DEF TextsOf, IntegerFields
<1>7. values["timezone"] \in {"both", "browser", "empty", "Local", "unknown"}
  BY DEF TextsOf, IntegerFields
<1>8. values["currency"] \in {"BRL", "brl", "ZZZ"}
  BY DEF TextsOf, IntegerFields
<1>9. values["tariff"] \in [whole : Nat, spaced : BOOLEAN, cents : Seq(0 .. 9)]
  BY DEF TextsOf, IntegerFields
<1> QED  BY <1>1, <1>2, <1>3, <1>4, <1>5, <1>6, <1>7, <1>8, <1>9

\* A value that is there.
LEMMA MissingOne == ASSUME NEW n PROVE Missing({n}) = n
BY DEF Missing

\* A number in range is the value that is converted.
LEMMA IntegerRead ==
  ASSUME NEW t, NEW S, Holds(IntegerOf(t), S)
  PROVE  /\ Missing(IntegerOf(t)) \in S
         /\ IntegerOf(t) = {Missing(IntegerOf(t))}
<1>1. IntegerOf(t) = {t.n} /\ t.n \in S  BY DEF Holds, IntegerOf
<1> QED  BY <1>1, MissingOne

\* The same for a coordinate.
LEMMA DecimalRead ==
  ASSUME NEW t, NEW S, Holds(DecimalOf(t), S)
  PROVE  /\ Missing(DecimalOf(t)) \in S
         /\ DecimalOf(t) = {Missing(DecimalOf(t))}
<1>1. DecimalOf(t) = {t.n} /\ t.n \in S  BY DEF Holds, DecimalOf
<1> QED  BY <1>1, MissingOne

\* The same for a tariff, which is never negative.
LEMMA TariffRead ==
  ASSUME NEW t \in [whole : Nat, spaced : BOOLEAN, cents : Seq(0 .. 9)], TariffMinor(t) # {}
  PROVE  /\ Missing(TariffMinor(t)) \in 0 .. MaxTariff
         /\ TariffMinor(t) = {Missing(TariffMinor(t))}
<1> DEFINE cent(i) == IF i <= Len(t.cents) THEN t.cents[i] ELSE 0
           minor == 100 * t.whole + 10 * cent(1) + cent(2)
<1>1. TariffMinor(t) = {minor} /\ minor <= MaxTariff  BY SMT DEF TariffMinor
<1>2. minor \in Nat
  <2>1. t.cents \in Seq(0 .. 9) /\ t.whole \in Nat  OBVIOUS
  <2>2. cent(1) \in Nat /\ cent(2) \in Nat  BY <2>1, SMT
  <2> HIDE DEF cent
  <2> QED  BY <2>1, <2>2, SMT
<1> HIDE DEF minor
<1>3. minor \in 0 .. MaxTariff  BY <1>1, <1>2, MaxTariffNat, SMT
<1> QED  BY <1>1, <1>3, MissingOne

\* Settings that only the address and the zone can be refused of.
Proper(s) ==
  /\ s["loggerHost"] \in [ipv4 : {TRUE}, spaced : {FALSE}, private : BOOLEAN]
  /\ s["loggerSerial"] \in [digits : {TRUE}, uint32 : {TRUE}, zeros : Nat]
  /\ s["loggerPort"] \in 1 .. MaxPort /\ s["modbusSlave"] \in 1 .. 247
  /\ s["panelCount"] \in Nat \ {0} /\ s["panelWattage"] \in Nat \ {0}
  /\ s["panelCount"] * s["panelWattage"] <= MaxPower
  /\ s["activeMPPT"] \in {<<1>>, <<2>>, <<1, 2>>}
  /\ s["latitude"] \in -MaxLatitude .. MaxLatitude
  /\ s["longitude"] \in -MaxLongitude .. MaxLongitude
  /\ s["timezone"] \in {"both", "browser"} /\ s["currency"] = "BRL"
  /\ s["tariff"] \in 0 .. MaxTariff
  /\ s["retentionDays"] \in 30 .. MaxRetention

\* Each converted field.
LEMMA SettingsAt ==
  ASSUME NEW values
  PROVE  LET s == SettingsOf(values)
         IN /\ DOMAIN s = SettingsFields
            /\ \A f \in IntegerFields : s[f] = Missing(IntegerOf(values[f]))
            /\ s["latitude"] = Missing(DecimalOf(values["latitude"]))
            /\ s["longitude"] = Missing(DecimalOf(values["longitude"]))
            /\ s["tariff"] = Missing(TariffMinor(values["tariff"]))
            /\ s["activeMPPT"] = Sorted(values["activeMPPT"])
            /\ s["currency"] = UpperCase(values["currency"])
            /\ s["loggerHost"] = [values["loggerHost"] EXCEPT !.spaced = FALSE]
            /\ s["loggerSerial"] = values["loggerSerial"]
            /\ s["timezone"] = values["timezone"]
BY StepsOfWizard DEF SettingsOf, IntegerFields, AccountFields, LoggerFields, PanelFields, PlaceFields

\* Settings are a function of their fields.
LEMMA SettingsFunction ==
  ASSUME NEW values
  PROVE  SettingsOf(values) = [f \in SettingsFields |-> SettingsOf(values)[f]]
<1> DEFINE value(f) ==
     CASE f \in IntegerFields              -> Missing(IntegerOf(values[f]))
       [] f \in {"latitude", "longitude"}  -> Missing(DecimalOf(values[f]))
       [] f = "tariff"                     -> Missing(TariffMinor(values[f]))
       [] f = "activeMPPT"                 -> Sorted(values[f])
       [] f = "currency"                   -> UpperCase(values[f])
       [] f = "loggerHost"                 -> [values[f] EXCEPT !.spaced = FALSE]
       [] f \in {"loggerSerial", "timezone"} -> values[f]
<1>1. SettingsOf(values) = [f \in SettingsFields |-> value(f)]  BY DEF SettingsOf
<1> HIDE DEF value
<1> QED  BY <1>1

\* A field without an error.
LEMMA NotWrong ==
  ASSUME NEW values, SettingsErrors(values) = {}
  PROVE  /\ ValidIPv4(values["loggerHost"])
         /\ ValidLoggerSerial(values["loggerSerial"])
         /\ Holds(IntegerOf(values["loggerPort"]), 1 .. MaxPort)
         /\ Holds(IntegerOf(values["modbusSlave"]), 1..247)
         /\ Holds(IntegerOf(values["panelCount"]), Nat \ {0})
         /\ ~TooMuchPower(values)
         /\ Holds(IntegerOf(values["panelWattage"]), Nat \ {0})
         /\ values["activeMPPT"] # <<>>
         /\ Holds(DecimalOf(values["latitude"]), -MaxLatitude .. MaxLatitude)
         /\ Holds(DecimalOf(values["longitude"]), -MaxLongitude .. MaxLongitude)
         /\ ValidTimezone(values["timezone"])
         /\ ValidCurrency(values["currency"])
         /\ TariffMinor(values["tariff"]) # {}
         /\ Holds(IntegerOf(values["retentionDays"]), 30 .. MaxRetention)
<1>0. \A f \in SettingsFields : ~FieldWrong(f, values)  BY DEF SettingsErrors
<1>1. \A f \in LoggerFields \cup PanelFields \cup PlaceFields : ~FieldWrong(f, values)
  BY <1>0, StepsOfWizard
<1> USE DEF LoggerFields, PanelFields, PlaceFields
<1>2. ValidIPv4(values["loggerHost"])  BY <1>1, SMT DEF FieldWrong
<1>3. ValidLoggerSerial(values["loggerSerial"])  BY <1>1, SMT DEF FieldWrong
<1>4. Holds(IntegerOf(values["loggerPort"]), 1 .. MaxPort)  BY <1>1, SMT DEF FieldWrong
<1>5. Holds(IntegerOf(values["modbusSlave"]), 1..247)  BY <1>1, SMT DEF FieldWrong
<1>6. Holds(IntegerOf(values["panelCount"]), Nat \ {0}) /\ ~TooMuchPower(values)  BY <1>1, SMT DEF FieldWrong
<1>7. Holds(IntegerOf(values["panelWattage"]), Nat \ {0})  BY <1>1, SMT DEF FieldWrong
<1>8. values["activeMPPT"] # <<>>  BY <1>1, SMT DEF FieldWrong
<1>9. Holds(DecimalOf(values["latitude"]), -MaxLatitude .. MaxLatitude)  BY <1>1, SMT DEF FieldWrong
<1>10. Holds(DecimalOf(values["longitude"]), -MaxLongitude .. MaxLongitude)  BY <1>1, SMT DEF FieldWrong
<1>11. ValidTimezone(values["timezone"])  BY <1>1, SMT DEF FieldWrong
<1>12. ValidCurrency(values["currency"])  BY <1>1, SMT DEF FieldWrong
<1>13. TariffMinor(values["tariff"]) # {}  BY <1>1, SMT DEF FieldWrong
<1>14. Holds(IntegerOf(values["retentionDays"]), 30 .. MaxRetention)  BY <1>1, SMT DEF FieldWrong
<1> QED
  BY <1>2, <1>3, <1>4, <1>5, <1>6, <1>7, <1>8, <1>9, <1>10, <1>11, <1>12, <1>13, <1>14, SMT

\* What the browser finds no error in is converted into proper settings.
LEMMA ValidIsProper ==
  ASSUME NEW values, IsForm(values), SettingsErrors(values) = {}
  PROVE  Proper(SettingsOf(values))
<1> DEFINE s == SettingsOf(values)
<1> HIDE DEF s
<1>0. "loggerPort" \in IntegerFields /\ "modbusSlave" \in IntegerFields
      /\ "panelCount" \in IntegerFields /\ "panelWattage" \in IntegerFields
      /\ "retentionDays" \in IntegerFields
  BY DEF IntegerFields
<1>1. \A f \in IntegerFields : s[f] = Missing(IntegerOf(values[f]))  BY SettingsAt DEF s
<1>2. s["loggerPort"] \in 1 .. MaxPort
  <2> DEFINE S == 1 .. MaxPort
  <2>1. Holds(IntegerOf(values["loggerPort"]), S)  BY NotWrong
  <2>2. s["loggerPort"] = Missing(IntegerOf(values["loggerPort"]))  BY <1>0, <1>1
  <2> HIDE DEF S
  <2>3. s["loggerPort"] \in S  BY <2>1, <2>2, IntegerRead
  <2> QED  BY <2>3 DEF S
<1>3. s["modbusSlave"] \in 1 .. 247
  <2>1. Holds(IntegerOf(values["modbusSlave"]), 1 .. 247)  BY NotWrong
  <2>2. s["modbusSlave"] = Missing(IntegerOf(values["modbusSlave"]))  BY <1>0, <1>1
  <2> QED  BY <2>1, <2>2, IntegerRead
<1>4. s["retentionDays"] \in 30 .. MaxRetention
  <2> DEFINE S == 30 .. MaxRetention
  <2>1. Holds(IntegerOf(values["retentionDays"]), S)  BY NotWrong
  <2>2. s["retentionDays"] = Missing(IntegerOf(values["retentionDays"]))  BY <1>0, <1>1
  <2> HIDE DEF S
  <2>3. s["retentionDays"] \in S  BY <2>1, <2>2, IntegerRead
  <2> QED  BY <2>3 DEF S
<1>5. /\ s["panelCount"] \in Nat \ {0} /\ IntegerOf(values["panelCount"]) = {s["panelCount"]}
      /\ s["panelWattage"] \in Nat \ {0} /\ IntegerOf(values["panelWattage"]) = {s["panelWattage"]}
  BY <1>0, <1>1, NotWrong, IntegerRead
<1>6. s["panelCount"] * s["panelWattage"] <= MaxPower
  <2>1. ~TooMuchPower(values)  BY NotWrong
  <2>2. MaxPower \in Nat  BY SMT DEF MaxPower
  <2>3. ~(/\ s["panelCount"] > 0 /\ s["panelWattage"] > 0
          /\ s["panelCount"] * s["panelWattage"] > MaxPower)
    BY <1>5, <2>1 DEF TooMuchPower
  <2>4. \A c, w \in Nat \ {0} : c > 0 /\ w > 0 /\ c * w \in Nat  BY SMT
  <2> QED  BY <1>5, <2>2, <2>3, <2>4, SMT
<1>7. s["latitude"] \in -MaxLatitude .. MaxLatitude
  <2> DEFINE S == -MaxLatitude .. MaxLatitude
  <2>1. Holds(DecimalOf(values["latitude"]), S)  BY NotWrong
  <2>2. s["latitude"] = Missing(DecimalOf(values["latitude"]))  BY SettingsAt DEF s
  <2> HIDE DEF S
  <2>3. s["latitude"] \in S  BY <2>1, <2>2, DecimalRead
  <2> QED  BY <2>3 DEF S
<1>8. s["longitude"] \in -MaxLongitude .. MaxLongitude
  <2> DEFINE S == -MaxLongitude .. MaxLongitude
  <2>1. Holds(DecimalOf(values["longitude"]), S)  BY NotWrong
  <2>2. s["longitude"] = Missing(DecimalOf(values["longitude"]))  BY SettingsAt DEF s
  <2> HIDE DEF S
  <2>3. s["longitude"] \in S  BY <2>1, <2>2, DecimalRead
  <2> QED  BY <2>3 DEF S
<1>9. s["tariff"] \in 0 .. MaxTariff
  <2>1. TariffMinor(values["tariff"]) # {}  BY NotWrong
  <2>2. s["tariff"] = Missing(TariffMinor(values["tariff"]))  BY SettingsAt DEF s
  <2>3. values["tariff"] \in [whole : Nat, spaced : BOOLEAN, cents : Seq(0 .. 9)]  BY FormTexts
  <2> QED  BY <2>1, <2>2, <2>3, TariffRead
<1>10. s["activeMPPT"] \in {<<1>>, <<2>>, <<1, 2>>}
  <2>1. /\ s["activeMPPT"] = Sorted(values["activeMPPT"]) /\ values["activeMPPT"] # <<>>
        /\ values["activeMPPT"] \in {<<>>, <<1>>, <<2>>, <<1, 2>>, <<2, 1>>}
    BY SettingsAt, NotWrong, FormTexts DEF s
  <2> QED  BY <2>1 DEF Sorted
<1>11. s["timezone"] \in {"both", "browser"}
  BY SettingsAt, NotWrong DEF s, ValidTimezone
<1>12. s["currency"] = "BRL"
  <2>1. s["currency"] = UpperCase(values["currency"]) /\ ValidCurrency(values["currency"])
    BY SettingsAt, NotWrong DEF s
  <2> QED  BY <2>1 DEF ValidCurrency, UpperCase
<1>13. s["loggerHost"] \in [ipv4 : {TRUE}, spaced : {FALSE}, private : BOOLEAN]
  <2>1. /\ s["loggerHost"] = [values["loggerHost"] EXCEPT !.spaced = FALSE]
        /\ values["loggerHost"] \in [ipv4 : BOOLEAN, spaced : BOOLEAN, private : BOOLEAN]
        /\ ValidIPv4(values["loggerHost"])
    BY SettingsAt, NotWrong, FormTexts DEF s
  <2> QED  BY <2>1 DEF ValidIPv4
<1>14. s["loggerSerial"] \in [digits : {TRUE}, uint32 : {TRUE}, zeros : Nat]
  <2>1. /\ s["loggerSerial"] = values["loggerSerial"]
        /\ values["loggerSerial"] \in [digits : BOOLEAN, uint32 : BOOLEAN, zeros : Nat]
        /\ ValidLoggerSerial(values["loggerSerial"])
    BY SettingsAt, NotWrong, FormTexts DEF s
  <2> QED  BY <2>1 DEF ValidLoggerSerial
<1> QED
  BY <1>2, <1>3, <1>4, <1>5, <1>6, <1>7, <1>8, <1>9, <1>10, <1>11, <1>12, <1>13, <1>14
     DEF Proper, s

\* The checks of the server, one by one.
LEMMA TheChecks ==
  /\ DOMAIN Checks = 1 .. 16
  /\ Checks[1][1] = "zero port" /\ Checks[1][2] = {"loggerPort"}
  /\ Checks[2][1] = "zero slave" /\ Checks[2][2] = {"modbusSlave"}
  /\ Checks[3][1] = "zero retention" /\ Checks[3][2] = {"retentionDays"}
  /\ Checks[4][1] = "logger host" /\ Checks[4][2] = {"loggerHost"}
  /\ Checks[5][1] = "logger port" /\ Checks[5][2] = {"loggerPort"}
  /\ Checks[6][1] = "logger serial" /\ Checks[6][2] = {"loggerSerial"}
  /\ Checks[7][1] = "modbus slave" /\ Checks[7][2] = {"modbusSlave"}
  /\ Checks[8][1] = "panel count and wattage" /\ Checks[8][2] = {"panelCount", "panelWattage"}
  /\ Checks[9][1] = "installed power" /\ Checks[9][2] = {"panelCount", "panelWattage"}
  /\ Checks[10][1] = "mppt" /\ Checks[10][2] = {"activeMPPT"}
  /\ Checks[11][1] = "latitude" /\ Checks[11][2] = {"latitude"}
  /\ Checks[12][1] = "longitude" /\ Checks[12][2] = {"longitude"}
  /\ Checks[13][1] = "timezone" /\ Checks[13][2] = {"timezone"}
  /\ Checks[14][1] = "currency" /\ Checks[14][2] = {"currency"}
  /\ Checks[15][1] = "tariff" /\ Checks[15][2] = {"tariff"}
  /\ Checks[16][1] = "retention" /\ Checks[16][2] = {"retentionDays"}
BY DEF Checks

\* Nothing else is refused of proper settings.
LEMMA ProperNotRefused ==
  ASSUME NEW s, Proper(s)
  PROVE  /\ ~Refuses("logger port", s) /\ ~Refuses("logger serial", s)
         /\ ~Refuses("modbus slave", s) /\ ~Refuses("panel count and wattage", s)
         /\ ~Refuses("installed power", s) /\ ~Refuses("mppt", s)
         /\ ~Refuses("latitude", s) /\ ~Refuses("longitude", s)
         /\ ~Refuses("currency", s) /\ ~Refuses("tariff", s) /\ ~Refuses("retention", s)
         /\ ~Refuses("zero port", s) /\ ~Refuses("zero slave", s) /\ ~Refuses("zero retention", s)
<1>1. ~Refuses("logger port", s)
  <2>1. s.loggerPort \in 1 .. MaxPort  BY DEF Proper
  <2>2. MaxPort \in Nat  BY SMT DEF MaxPort
  <2>3. s.loggerPort \in 0 .. MaxPort  BY <2>1, <2>2, SMT
  <2> QED  BY <2>3, SMT DEF Refuses
<1>2. ~Refuses("logger serial", s)  BY DEF Refuses, Proper, ValidLoggerSerial
<1>3. ~Refuses("modbus slave", s)
  <2>1. s.modbusSlave \in 1 .. 247  BY DEF Proper
  <2>2. s.modbusSlave \in 0 .. 247  BY <2>1, SMT
  <2> QED  BY <2>2, SMT DEF Refuses
<1>4. ~Refuses("panel count and wattage", s)
  <2>1. s.panelCount \in Nat \ {0} /\ s.panelWattage \in Nat \ {0}  BY DEF Proper
  <2>2. ~(s.panelCount <= 0) /\ ~(s.panelWattage <= 0)  BY <2>1, SMT
  <2> QED  BY <2>2, SMT DEF Refuses
<1>5. ~Refuses("installed power", s)  BY Power DEF Refuses, Proper
<1>6. ~Refuses("mppt", s)  BY DEF Refuses, Proper
<1>7. ~Refuses("latitude", s)  BY DEF Refuses, Proper
<1>8. ~Refuses("longitude", s)  BY DEF Refuses, Proper
<1>9. ~Refuses("currency", s)  BY DEF Refuses, Proper
<1>10. ~Refuses("tariff", s)  BY DEF Refuses, Proper
<1>11. ~Refuses("retention", s)  BY DEF Refuses, Proper
<1>12. ~Refuses("zero port", s) /\ ~Refuses("zero slave", s) /\ ~Refuses("zero retention", s)
  <2>1. /\ s.loggerPort \in 1 .. MaxPort /\ s.modbusSlave \in 1 .. 247
        /\ s.retentionDays \in 30 .. MaxRetention
    BY DEF Proper
  <2>2. ~(0 \in 1 .. MaxPort) /\ ~(0 \in 1 .. 247) /\ ~(0 \in 30 .. MaxRetention)
    BY SMT DEF MaxPort, MaxRetention
  <2>3. s.loggerPort # 0 /\ s.modbusSlave # 0 /\ s.retentionDays # 0
    BY <2>1, <2>2, Zenon
  <2> QED  BY <2>3 DEF Refuses
<1> QED  BY <1>1, <1>2, <1>3, <1>4, <1>5, <1>6, <1>7, <1>8, <1>9, <1>10, <1>11, <1>12

\* The positions of the checks.
LEMMA CheckCases ==
  ASSUME NEW i \in DOMAIN Checks
  PROVE  \/ i = 1 \/ i = 2 \/ i = 3 \/ i = 4 \/ i = 5 \/ i = 6 \/ i = 7 \/ i = 8 \/ i = 9
         \/ i = 10 \/ i = 11 \/ i = 12 \/ i = 13 \/ i = 14 \/ i = 15 \/ i = 16
<1>1. i \in 1 .. 16  BY TheChecks
<1> QED  BY <1>1, SMT

\* The messages.
LEMMA MessageCases ==
  ASSUME NEW i \in DOMAIN Checks
  PROVE  Checks[i][1] \in {"logger host", "logger port", "logger serial", "modbus slave",
                           "panel count and wattage", "installed power", "mppt", "latitude",
                           "longitude", "timezone", "currency", "tariff", "retention",
                           "zero port", "zero slave", "zero retention"}
<1>1. CASE i = 1  BY <1>1, TheChecks
<1>2. CASE i = 2  BY <1>2, TheChecks
<1>3. CASE i = 3  BY <1>3, TheChecks
<1>4. CASE i = 4  BY <1>4, TheChecks
<1>5. CASE i = 5  BY <1>5, TheChecks
<1>6. CASE i = 6  BY <1>6, TheChecks
<1>7. CASE i = 7  BY <1>7, TheChecks
<1>8. CASE i = 8  BY <1>8, TheChecks
<1>9. CASE i = 9  BY <1>9, TheChecks
<1>10. CASE i = 10  BY <1>10, TheChecks
<1>11. CASE i = 11  BY <1>11, TheChecks
<1>12. CASE i = 12  BY <1>12, TheChecks
<1>13. CASE i = 13  BY <1>13, TheChecks
<1>14. CASE i = 14  BY <1>14, TheChecks
<1>15. CASE i = 15  BY <1>15, TheChecks
<1>16. CASE i = 16  BY <1>16, TheChecks
<1> QED
  BY <1>1, <1>2, <1>3, <1>4, <1>5, <1>6, <1>7, <1>8, <1>9, <1>10, <1>11, <1>12, <1>13, <1>14,
     <1>15, <1>16, CheckCases

\* Hence only the address and the zone of proper settings can be refused.
LEMMA ProperForeseen ==
  ASSUME NEW s, Proper(s)
  PROVE  Unforeseen(s)
<1> DEFINE RefusedAs(m) == Refuses(m, s)
<1>1. \A i \in DOMAIN Checks : RefusedAs(Checks[i][1]) => Checks[i][1] \in {"logger host", "timezone"}
  <2> HIDE DEF RefusedAs
  <2> SUFFICES ASSUME NEW i \in DOMAIN Checks, RefusedAs(Checks[i][1])
               PROVE  Checks[i][1] \in {"logger host", "timezone"}
    OBVIOUS
  <2>1. /\ ~RefusedAs("logger port") /\ ~RefusedAs("logger serial")
        /\ ~RefusedAs("modbus slave") /\ ~RefusedAs("panel count and wattage")
        /\ ~RefusedAs("installed power") /\ ~RefusedAs("mppt")
        /\ ~RefusedAs("latitude") /\ ~RefusedAs("longitude")
        /\ ~RefusedAs("currency") /\ ~RefusedAs("tariff") /\ ~RefusedAs("retention")
        /\ ~RefusedAs("zero port") /\ ~RefusedAs("zero slave") /\ ~RefusedAs("zero retention")
    BY ProperNotRefused DEF RefusedAs
  <2>2. Checks[i][1] \in {"logger host", "logger port", "logger serial", "modbus slave",
                          "panel count and wattage", "installed power", "mppt", "latitude",
                          "longitude", "timezone", "currency", "tariff", "retention",
                          "zero port", "zero slave", "zero retention"}
    BY MessageCases
  <2> QED  BY <2>1, <2>2
<1> QED  BY <1>1 DEF Unforeseen, Refusals

\* The wizard's checks include the editor's.
LEMMA WizardStricter ==
  ASSUME NEW values, Submittable(values)
  PROVE  SettingsErrors(values) = {} /\ ~values["tariff"].spaced
<1>1. /\ ValidateStep(2, values) = {} /\ ValidateStep(3, values) = {} /\ ValidateStep(4, values) = {}
  BY StepsOfWizard DEF Submittable
<1>2. \A f \in FieldsOf(2) \cup FieldsOf(3) \cup FieldsOf(4) : ~FieldWrong(f, values)
  BY <1>1 DEF ValidateStep
<1>3. \A f \in SettingsFields : ~FieldWrong(f, values)  BY <1>2, StepsOfWizard
<1>4. "tariff" \in FieldsOf(4)  BY StepsOfWizard DEF PlaceFields
<1>5. ~values["tariff"].spaced  BY <1>1, <1>4 DEF ValidateStep
<1> QED  BY <1>3, <1>5 DEF SettingsErrors

\* ... and let through only what toBootstrapPayload converts.
LEMMA NothingThrown ==
  ASSUME NEW values, SettingsErrors(values) = {}, ~values["tariff"].spaced
  PROVE  ~Throws(values)
<1>1. \A f \in IntegerFields : IntegerOf(values[f]) # {}
  BY NotWrong DEF IntegerFields, Holds
<1>2. DecimalOf(values["latitude"]) # {} /\ DecimalOf(values["longitude"]) # {}
  BY NotWrong DEF Holds
<1> QED  BY <1>1, <1>2, NotWrong DEF Throws

\* Every form that is tried holds texts of its fields.
LEMMA FilledForm ==
  ASSUME NEW values \in Filled
  PROVE  IsForm(values)
<1>1. PICK f \in Fields, g \in Fields :
        \E x \in FieldTexts[f], u \in FieldTexts[g] : values = [Usual EXCEPT ![f] = x, ![g] = u]
  BY DEF Filled
<1>2. PICK x \in FieldTexts[f], u \in FieldTexts[g] : values = [Usual EXCEPT ![f] = x, ![g] = u]
  BY <1>1
<1>3. x \in TextsOf(f) /\ u \in TextsOf(g)  BY FieldTextsAssumption DEF FieldTextsAssumption
<1>4. DOMAIN Usual = Fields /\ \A h \in Fields : Usual[h] \in TextsOf(h)
  BY FieldTextsAssumption DEF FieldTextsAssumption
<1>5. \A h \in Fields : values[h] = IF h = g THEN u ELSE IF h = f THEN x ELSE Usual[h]
  BY <1>2, <1>4
<1> QED  BY <1>3, <1>4, <1>5 DEF IsForm

\* Only the zeros of the serial number change.
LEMMA NormalizedProper ==
  ASSUME NEW s, s = [f \in SettingsFields |-> s[f]], "loggerSerial" \in SettingsFields
  PROVE  Normalized(s) =
           [f \in SettingsFields |->
             IF f = "loggerSerial" THEN [s["loggerSerial"] EXCEPT !["zeros"] = 0] ELSE s[f]]
BY SMT DEF Normalized

\* ValidateSettings stores proper settings with the zeros of the serial number dropped.
LEMMA NormalizedAt ==
  ASSUME NEW values, IsForm(values), SettingsErrors(values) = {}
  PROVE  LET s == SettingsOf(values)
             n == Normalized(s)
         IN /\ n = [f \in SettingsFields |-> n[f]]
            /\ \A f \in SettingsFields \ {"loggerSerial"} : n[f] = s[f]
            /\ ValidLoggerSerial(n["loggerSerial"])
<1> DEFINE s == SettingsOf(values)
           n == Normalized(s)
<1>1. Proper(s) /\ DOMAIN s = SettingsFields  BY ValidIsProper, SettingsAt
<1> HIDE DEF s
<1>2. "loggerSerial" \in SettingsFields  BY StepsOfWizard DEF LoggerFields
<1>3. s = [f \in SettingsFields |-> s[f]]  BY SettingsFunction DEF s
<1>4. n = [f \in SettingsFields |->
             IF f = "loggerSerial" THEN [s["loggerSerial"] EXCEPT !["zeros"] = 0] ELSE s[f]]
  BY <1>1, <1>2, <1>3, NormalizedProper
<1> HIDE DEF n
<1>5. s["loggerSerial"] \in [digits : {TRUE}, uint32 : {TRUE}, zeros : Nat]  BY <1>1 DEF Proper
<1>6. n["loggerSerial"] = [s["loggerSerial"] EXCEPT !["zeros"] = 0]  BY <1>1, <1>2, <1>4
<1>7. ValidLoggerSerial(n["loggerSerial"])  BY <1>5, <1>6 DEF ValidLoggerSerial
<1>8. \A f \in SettingsFields \ {"loggerSerial"} : n[f] = s[f]  BY <1>4
<1>9. n = [f \in SettingsFields |-> n[f]]  BY <1>4
<1> QED  BY <1>7, <1>8, <1>9 DEF n, s

\* The texts of stored settings, field by field.
LEMMA TextAt ==
  ASSUME NEW n
  PROVE  LET shown == SettingsText(n)
         IN /\ \A f \in IntegerFields : shown[f] = IntegerText(n[f])
            /\ shown["latitude"] = DecimalText(n["latitude"])
            /\ shown["longitude"] = DecimalText(n["longitude"])
            /\ shown["tariff"] = TariffText(n["tariff"])
            /\ \A f \in {"activeMPPT", "currency", "loggerHost", "loggerSerial", "timezone"} :
                 shown[f] = n[f]
BY StepsOfWizard DEF SettingsText, IntegerFields, LoggerFields, PanelFields, PlaceFields

\* A number that is shown is read back.
LEMMA IntegerBack == ASSUME NEW n PROVE IntegerOf(IntegerText(n)) = {n}
BY DEF IntegerOf, IntegerText

\* A coordinate that is written without an exponent is read back.
LEMMA DecimalBack ==
  ASSUME NEW n, DecimalText(n).form = "plain"
  PROVE  DecimalOf(DecimalText(n)) = {n}
<1>1. DecimalText(n).n = n  BY DEF DecimalText
<1> QED  BY <1>1 DEF DecimalOf

\* The stored settings are proper ones.
LEMMA StoredProper ==
  ASSUME NEW values, IsForm(values), SettingsErrors(values) = {}
  PROVE  LET n == Normalized(SettingsOf(values))
         IN /\ n["loggerHost"] \in [ipv4 : {TRUE}, spaced : {FALSE}, private : BOOLEAN]
            /\ ValidLoggerSerial(n["loggerSerial"])
            /\ n["loggerPort"] \in 1 .. MaxPort /\ n["modbusSlave"] \in 1 .. 247
            /\ n["panelCount"] \in Nat \ {0} /\ n["panelWattage"] \in Nat \ {0}
            /\ n["panelCount"] * n["panelWattage"] <= MaxPower
            /\ n["activeMPPT"] \in {<<1>>, <<2>>, <<1, 2>>}
            /\ n["latitude"] \in -MaxLatitude .. MaxLatitude
            /\ n["longitude"] \in -MaxLongitude .. MaxLongitude
            /\ n["timezone"] \in {"both", "browser"} /\ n["currency"] = "BRL"
            /\ n["tariff"] \in 0 .. MaxTariff
            /\ n["retentionDays"] \in 30 .. MaxRetention
<1> DEFINE s == SettingsOf(values)
           n == Normalized(s)
<1>1. Proper(s)  BY ValidIsProper
<1>2. \A f \in SettingsFields \ {"loggerSerial"} : n[f] = s[f]  BY NormalizedAt
<1>3. ValidLoggerSerial(n["loggerSerial"])  BY NormalizedAt
<1> HIDE DEF s, n
<1>4. \A f \in {"loggerHost", "loggerPort", "modbusSlave", "panelCount", "panelWattage", "activeMPPT",
               "latitude", "longitude", "timezone", "currency", "tariff", "retentionDays"} :
        n[f] = s[f]
  BY <1>2, StepsOfWizard DEF LoggerFields, PanelFields, PlaceFields
<1> QED  BY <1>1, <1>3, <1>4, Zenon DEF Proper, s, n

\* The editor finds no error in the stored settings, converts them back into themselves,
\* and does not take them for a change of the logger.
LEMMA StoredReopened ==
  ASSUME NEW values, IsForm(values), SettingsErrors(values) = {}, Readable(SettingsOf(values))
  PROVE  Reopened(Normalized(SettingsOf(values)))
<1> DEFINE n == Normalized(SettingsOf(values))
           shown == SettingsText(n)
<1>1. DecimalText(n["latitude"]).form = "plain" /\ DecimalText(n["longitude"]).form = "plain"
  <2>1. "latitude" \in SettingsFields \ {"loggerSerial"} /\ "longitude" \in SettingsFields \ {"loggerSerial"}
    BY StepsOfWizard DEF PlaceFields
  <2>2. n["latitude"] = SettingsOf(values)["latitude"] /\ n["longitude"] = SettingsOf(values)["longitude"]
    BY <2>1, NormalizedAt
  <2> HIDE DEF n
  <2> QED  BY <2>2 DEF Readable
<1>2. n = [f \in SettingsFields |-> n[f]]  BY NormalizedAt
<1>3. /\ n["loggerHost"] \in [ipv4 : {TRUE}, spaced : {FALSE}, private : BOOLEAN]
      /\ ValidLoggerSerial(n["loggerSerial"])
      /\ n["loggerPort"] \in 1 .. MaxPort /\ n["modbusSlave"] \in 1 .. 247
      /\ n["panelCount"] \in Nat \ {0} /\ n["panelWattage"] \in Nat \ {0}
      /\ n["panelCount"] * n["panelWattage"] <= MaxPower
      /\ n["activeMPPT"] \in {<<1>>, <<2>>, <<1, 2>>}
      /\ n["latitude"] \in -MaxLatitude .. MaxLatitude
      /\ n["longitude"] \in -MaxLongitude .. MaxLongitude
      /\ n["timezone"] \in {"both", "browser"} /\ n["currency"] = "BRL"
      /\ n["tariff"] \in 0 .. MaxTariff
      /\ n["retentionDays"] \in 30 .. MaxRetention
  BY StoredProper
<1> HIDE DEF n
<1>4. /\ \A f \in IntegerFields : shown[f] = IntegerText(n[f])
      /\ shown["latitude"] = DecimalText(n["latitude"])
      /\ shown["longitude"] = DecimalText(n["longitude"])
      /\ shown["tariff"] = TariffText(n["tariff"])
      /\ \A f \in {"activeMPPT", "currency", "loggerHost", "loggerSerial", "timezone"} :
           shown[f] = n[f]
  BY TextAt
<1> HIDE DEF shown
<1>5. \A f \in IntegerFields : IntegerOf(shown[f]) = {n[f]}  BY <1>4, IntegerBack
<1>6. DecimalOf(shown["latitude"]) = {n["latitude"]} /\ DecimalOf(shown["longitude"]) = {n["longitude"]}
  BY <1>1, <1>4, DecimalBack
<1>7. TariffMinor(shown["tariff"]) = {n["tariff"]}  BY <1>3, <1>4, TariffBack
<1>8. /\ IntegerOf(shown["loggerPort"]) = {n["loggerPort"]}
      /\ IntegerOf(shown["modbusSlave"]) = {n["modbusSlave"]}
      /\ IntegerOf(shown["panelCount"]) = {n["panelCount"]}
      /\ IntegerOf(shown["panelWattage"]) = {n["panelWattage"]}
      /\ IntegerOf(shown["retentionDays"]) = {n["retentionDays"]}
  BY <1>5 DEF IntegerFields
<1>9. SettingsErrors(shown) = {}
  <2> SUFFICES ASSUME NEW f \in SettingsFields
               PROVE  ~FieldWrong(f, shown)
    BY DEF SettingsErrors
  <2>1. CASE f = "loggerHost"
    <3>1. ValidIPv4(shown["loggerHost"])  BY <1>3, <1>4 DEF ValidIPv4
    <3> QED  BY <2>1, <3>1, SMT DEF FieldWrong
  <2>2. CASE f = "loggerSerial"
    <3>1. ValidLoggerSerial(shown["loggerSerial"])  BY <1>3, <1>4
    <3> QED  BY <2>2, <3>1, SMT DEF FieldWrong
  <2>3. CASE f = "loggerPort"
    <3>1. Holds(IntegerOf(shown["loggerPort"]), 1 .. MaxPort)  BY <1>3, <1>8 DEF Holds
    <3> QED  BY <2>3, <3>1, SMT DEF FieldWrong
  <2>4. CASE f = "modbusSlave"
    <3>1. Holds(IntegerOf(shown["modbusSlave"]), 1 .. 247)  BY <1>3, <1>8 DEF Holds
    <3> QED  BY <2>4, <3>1, SMT DEF FieldWrong
  <2>5. CASE f = "panelCount"
    <3>1. Holds(IntegerOf(shown["panelCount"]), Nat \ {0})  BY <1>3, <1>8 DEF Holds
    <3>2. ~TooMuchPower(shown)
      <4>1. MaxPower \in Nat  BY SMT DEF MaxPower
      <4>2. n["panelCount"] * n["panelWattage"] \in Nat  BY <1>3, SMT
      <4>3. ~(n["panelCount"] * n["panelWattage"] > MaxPower)  BY <1>3, <4>1, <4>2, SMT
      <4> QED  BY <1>8, <4>3 DEF TooMuchPower
    <3> QED  BY <2>5, <3>1, <3>2, SMT DEF FieldWrong
  <2>6. CASE f = "panelWattage"
    <3>1. Holds(IntegerOf(shown["panelWattage"]), Nat \ {0})  BY <1>3, <1>8 DEF Holds
    <3> QED  BY <2>6, <3>1, SMT DEF FieldWrong
  <2>7. CASE f = "activeMPPT"
    <3>1. n["activeMPPT"] \in {<<1>>, <<2>>, <<1, 2>>} /\ shown["activeMPPT"] = n["activeMPPT"]
      BY <1>3, <1>4
    <3>2. n["activeMPPT"] # <<>>  BY <3>1, SMT
    <3>3. shown["activeMPPT"] # <<>>  BY <3>1, <3>2
    <3> QED  BY <2>7, <3>3, SMT DEF FieldWrong
  <2>8. CASE f = "latitude"
    <3>1. Holds(DecimalOf(shown["latitude"]), -MaxLatitude .. MaxLatitude)  BY <1>3, <1>6 DEF Holds
    <3> QED  BY <2>8, <3>1, SMT DEF FieldWrong
  <2>9. CASE f = "longitude"
    <3>1. Holds(DecimalOf(shown["longitude"]), -MaxLongitude .. MaxLongitude)  BY <1>3, <1>6 DEF Holds
    <3> QED  BY <2>9, <3>1, SMT DEF FieldWrong
  <2>10. CASE f = "timezone"
    <3>1. ValidTimezone(shown["timezone"])  BY <1>3, <1>4 DEF ValidTimezone
    <3> QED  BY <2>10, <3>1, SMT DEF FieldWrong
  <2>11. CASE f = "currency"
    <3>1. ValidCurrency(shown["currency"])  BY <1>3, <1>4 DEF ValidCurrency
    <3> QED  BY <2>11, <3>1, SMT DEF FieldWrong
  <2>12. CASE f = "tariff"
    <3>1. TariffMinor(shown["tariff"]) # {}  BY <1>7
    <3> QED  BY <2>12, <3>1, SMT DEF FieldWrong
  <2>13. CASE f = "retentionDays"
    <3>1. Holds(IntegerOf(shown["retentionDays"]), 30 .. MaxRetention)  BY <1>3, <1>8 DEF Holds
    <3> QED  BY <2>13, <3>1, SMT DEF FieldWrong
  <2> QED
    BY <2>1, <2>2, <2>3, <2>4, <2>5, <2>6, <2>7, <2>8, <2>9, <2>10, <2>11, <2>12, <2>13,
       StepsOfWizard DEF LoggerFields, PanelFields, PlaceFields
<1>10. [shown["loggerHost"] EXCEPT !.spaced = FALSE] = n["loggerHost"]
  <2>1. shown["loggerHost"] = n["loggerHost"]  BY <1>4
  <2> QED  BY <1>3, <2>1
<1>11. SettingsOf(shown) = n
  <2>1. \A f \in SettingsFields : SettingsOf(shown)[f] = n[f]
    <3>1. \A f \in IntegerFields : SettingsOf(shown)[f] = n[f]
      <4>1. \A f \in IntegerFields : SettingsOf(shown)[f] = Missing(IntegerOf(shown[f]))  BY SettingsAt
      <4>2. \A f \in IntegerFields : SettingsOf(shown)[f] = Missing({n[f]})  BY <1>5, <4>1, Zenon
      <4> QED  BY <4>2, MissingOne
    <3>2. SettingsOf(shown)["latitude"] = n["latitude"] /\ SettingsOf(shown)["longitude"] = n["longitude"]
      <4>1. /\ SettingsOf(shown)["latitude"] = Missing(DecimalOf(shown["latitude"]))
            /\ SettingsOf(shown)["longitude"] = Missing(DecimalOf(shown["longitude"]))
        BY SettingsAt
      <4>2. /\ SettingsOf(shown)["latitude"] = Missing({n["latitude"]})
            /\ SettingsOf(shown)["longitude"] = Missing({n["longitude"]})
        BY <1>6, <4>1, Zenon
      <4> QED  BY <4>2, MissingOne
    <3>3. SettingsOf(shown)["tariff"] = n["tariff"]
      <4>1. SettingsOf(shown)["tariff"] = Missing(TariffMinor(shown["tariff"]))  BY SettingsAt
      <4>2. SettingsOf(shown)["tariff"] = Missing({n["tariff"]})  BY <1>7, <4>1, Zenon
      <4> QED  BY <4>2, MissingOne
    <3>4. SettingsOf(shown)["activeMPPT"] = n["activeMPPT"]
      <4>1. SettingsOf(shown)["activeMPPT"] = Sorted(n["activeMPPT"])  BY <1>4, SettingsAt
      <4>2. n["activeMPPT"] \in {<<1>>, <<2>>, <<1, 2>>}  BY <1>3
      <4> QED  BY <4>1, <4>2, SMT DEF Sorted
    <3>5. SettingsOf(shown)["currency"] = n["currency"]
      <4>1. SettingsOf(shown)["currency"] = UpperCase(n["currency"])  BY <1>4, SettingsAt
      <4> QED  BY <1>3, <4>1 DEF UpperCase
    <3>6. SettingsOf(shown)["loggerHost"] = n["loggerHost"]  BY <1>10, SettingsAt
    <3>7. SettingsOf(shown)["loggerSerial"] = n["loggerSerial"] /\ SettingsOf(shown)["timezone"] = n["timezone"]
      BY <1>4, SettingsAt
    <3> QED
      BY <3>1, <3>2, <3>3, <3>4, <3>5, <3>6, <3>7, StepsOfWizard
         DEF LoggerFields, PanelFields, PlaceFields, IntegerFields
  <2>2. SettingsOf(shown) = [f \in SettingsFields |-> SettingsOf(shown)[f]]  BY SettingsFunction
  <2> QED  BY <1>2, <2>1, <2>2
<1>12. ~IdentityChanged(shown, n)
  BY <1>4, <1>8, <1>10 DEF IdentityChanged
<1> QED  BY <1>9, <1>11, <1>12 DEF Reopened, n, shown
\* The patterns of serverFieldError, one by one.
LEMMA TheMappings ==
  /\ DOMAIN Mappings = 1 .. 13
  /\ Mappings[1][1] = "loggerHost" /\ Mappings[1][2] = {"logger host"}
  /\ Mappings[2][1] = "loggerSerial" /\ Mappings[2][2] = {"logger serial"}
  /\ Mappings[3][1] = "loggerPort" /\ Mappings[3][2] = {"logger port", "zero port"}
  /\ Mappings[4][1] = "modbusSlave" /\ Mappings[4][2] = {"modbus slave", "zero slave"}
  /\ Mappings[5][1] = "panelCount" /\ Mappings[5][2] = {"installed power", "panel count and wattage"}
  /\ Mappings[6][1] = "panelWattage" /\ Mappings[6][2] = {"panel count and wattage"}
  /\ Mappings[7][1] = "activeMPPT" /\ Mappings[7][2] = {"mppt"}
  /\ Mappings[8][1] = "latitude" /\ Mappings[8][2] = {"latitude"}
  /\ Mappings[9][1] = "longitude" /\ Mappings[9][2] = {"longitude"}
  /\ Mappings[10][1] = "timezone" /\ Mappings[10][2] = {"timezone"}
  /\ Mappings[11][1] = "currency" /\ Mappings[11][2] = {"currency"}
  /\ Mappings[12][1] = "tariff" /\ Mappings[12][2] = {"tariff"}
  /\ Mappings[13][1] = "retentionDays" /\ Mappings[13][2] = {"retention", "zero retention"}
BY DEF Mappings

Target(k) == Mappings[k][1]
Patterns(k) == Mappings[k][2]

\* The field and the messages of each pattern.
LEMMA TheTargets ==
  /\ Target(1) = "loggerHost"
  /\ Target(2) = "loggerSerial"
  /\ Target(3) = "loggerPort"
  /\ Target(4) = "modbusSlave"
  /\ Target(5) = "panelCount"
  /\ Target(6) = "panelWattage"
  /\ Target(7) = "activeMPPT"
  /\ Target(8) = "latitude"
  /\ Target(9) = "longitude"
  /\ Target(10) = "timezone"
  /\ Target(11) = "currency"
  /\ Target(12) = "tariff"
  /\ Target(13) = "retentionDays"
BY TheMappings, Zenon DEF Target

\* The messages that each mapping of a refusal to a field matches.
LEMMA ThePatterns ==
  /\ \A m : m \in Patterns(1) <=> m = "logger host"
  /\ \A m : m \in Patterns(2) <=> m = "logger serial"
  /\ \A m : m \in Patterns(3) <=> m = "logger port" \/ m = "zero port"
  /\ \A m : m \in Patterns(4) <=> m = "modbus slave" \/ m = "zero slave"
  /\ \A m : m \in Patterns(5) <=> m = "installed power" \/ m = "panel count and wattage"
  /\ \A m : m \in Patterns(6) <=> m = "panel count and wattage"
  /\ \A m : m \in Patterns(7) <=> m = "mppt"
  /\ \A m : m \in Patterns(8) <=> m = "latitude"
  /\ \A m : m \in Patterns(9) <=> m = "longitude"
  /\ \A m : m \in Patterns(10) <=> m = "timezone"
  /\ \A m : m \in Patterns(11) <=> m = "currency"
  /\ \A m : m \in Patterns(12) <=> m = "tariff"
  /\ \A m : m \in Patterns(13) <=> m = "retention" \/ m = "zero retention"
BY TheMappings, Zenon DEF Patterns

\* The positions.
LEMMA IndexCases ==
  ASSUME NEW i \in 1 .. 13
  PROVE  \/ i = 1 \/ i = 2 \/ i = 3 \/ i = 4 \/ i = 5 \/ i = 6 \/ i = 7 \/ i = 8 \/ i = 9
         \/ i = 10 \/ i = 11 \/ i = 12 \/ i = 13
BY SMT

\* The first pattern that matches.
LEMMA FirstMatch ==
  ASSUME NEW m, NEW k \in 1 .. 13, m \in Patterns(k),
         \A j \in 1 .. 13 : m \in Patterns(j) => j = k \/ j = k + 1
  PROVE  ServerFieldError(m) = Target(k)
<1> DEFINE matching == {i \in DOMAIN Mappings : m \in Mappings[i][2]}
           first == CHOOSE i \in matching : \A j \in matching : i <= j
<1>1. DOMAIN Mappings = 1 .. 13  BY TheMappings, Zenon
<1>2. k \in matching /\ \A j \in matching : j \in 1 .. 13 /\ (j = k \/ j = k + 1)
  BY <1>1, Zenon DEF Patterns
<1>3. ServerFieldError(m) = IF matching = {} THEN "general" ELSE Target(first)
  BY Zenon DEF ServerFieldError, Target
<1> HIDE DEF matching
<1>4. \A j \in matching : k <= j  BY <1>2, SMT
<1>5. first \in matching /\ \A j \in matching : first <= j  BY <1>2, <1>4, Zenon
<1> HIDE DEF first
<1>6. first = k
  <2>1. first <= k /\ k <= first /\ first \in 1 .. 13  BY <1>2, <1>4, <1>5, Zenon
  <2> QED  BY <2>1, SMT
<1>7. matching # {}  BY <1>2, Zenon
<1> QED  BY <1>3, <1>6, <1>7, Zenon

\* The field of each message.
LEMMA MessageField ==
  /\ ServerFieldError("logger host") = "loggerHost"
  /\ ServerFieldError("logger port") = "loggerPort"
  /\ ServerFieldError("logger serial") = "loggerSerial"
  /\ ServerFieldError("modbus slave") = "modbusSlave"
  /\ ServerFieldError("panel count and wattage") = "panelCount"
  /\ ServerFieldError("installed power") = "panelCount"
  /\ ServerFieldError("mppt") = "activeMPPT"
  /\ ServerFieldError("latitude") = "latitude"
  /\ ServerFieldError("longitude") = "longitude"
  /\ ServerFieldError("timezone") = "timezone"
  /\ ServerFieldError("currency") = "currency"
  /\ ServerFieldError("tariff") = "tariff"
  /\ ServerFieldError("retention") = "retentionDays"
  /\ ServerFieldError("zero port") = "loggerPort"
  /\ ServerFieldError("zero slave") = "modbusSlave"
  /\ ServerFieldError("zero retention") = "retentionDays"
<1>0. 5 + 1 = 6  BY SMT
<1>1. ServerFieldError("logger host") = "loggerHost"
  <2>1. ASSUME NEW j \in 1 .. 13, "logger host" \in Patterns(j) PROVE j = 1
    BY <2>1, IndexCases, ThePatterns
  <2>2. "logger host" \in Patterns(1) /\ Target(1) = "loggerHost"  BY ThePatterns, TheTargets
  <2>3. 1 \in 1 .. 13  BY SMT
  <2> QED  BY <1>0, <2>1, <2>2, <2>3, FirstMatch, Zenon
<1>2. ServerFieldError("logger port") = "loggerPort"
  <2>1. ASSUME NEW j \in 1 .. 13, "logger port" \in Patterns(j) PROVE j = 3
    BY <2>1, IndexCases, ThePatterns
  <2>2. "logger port" \in Patterns(3) /\ Target(3) = "loggerPort"  BY ThePatterns, TheTargets
  <2>3. 3 \in 1 .. 13  BY SMT
  <2> QED  BY <1>0, <2>1, <2>2, <2>3, FirstMatch, Zenon
<1>3. ServerFieldError("logger serial") = "loggerSerial"
  <2>1. ASSUME NEW j \in 1 .. 13, "logger serial" \in Patterns(j) PROVE j = 2
    BY <2>1, IndexCases, ThePatterns
  <2>2. "logger serial" \in Patterns(2) /\ Target(2) = "loggerSerial"  BY ThePatterns, TheTargets
  <2>3. 2 \in 1 .. 13  BY SMT
  <2> QED  BY <1>0, <2>1, <2>2, <2>3, FirstMatch, Zenon
<1>4. ServerFieldError("modbus slave") = "modbusSlave"
  <2>1. ASSUME NEW j \in 1 .. 13, "modbus slave" \in Patterns(j) PROVE j = 4
    BY <2>1, IndexCases, ThePatterns
  <2>2. "modbus slave" \in Patterns(4) /\ Target(4) = "modbusSlave"  BY ThePatterns, TheTargets
  <2>3. 4 \in 1 .. 13  BY SMT
  <2> QED  BY <1>0, <2>1, <2>2, <2>3, FirstMatch, Zenon
<1>5. ServerFieldError("panel count and wattage") = "panelCount"
  <2>1. ASSUME NEW j \in 1 .. 13, "panel count and wattage" \in Patterns(j) PROVE j = 5 \/ j = 6
    BY <2>1, IndexCases, ThePatterns
  <2>2. "panel count and wattage" \in Patterns(5) /\ Target(5) = "panelCount"  BY ThePatterns, TheTargets
  <2>3. 5 \in 1 .. 13  BY SMT
  <2> QED  BY <1>0, <2>1, <2>2, <2>3, FirstMatch, Zenon
<1>6. ServerFieldError("installed power") = "panelCount"
  <2>0. "installed power" \notin Patterns(6)
    <3>1. \A m : m \in Patterns(6) <=> m = "panel count and wattage"  BY ThePatterns, Zenon
    <3>2. "installed power" # "panel count and wattage"  BY SMT
    <3> QED  BY <3>1, <3>2, Zenon
  <2>1. ASSUME NEW j \in 1 .. 13, "installed power" \in Patterns(j) PROVE j = 5
    BY <2>0, <2>1, IndexCases, ThePatterns
  <2>2. "installed power" \in Patterns(5) /\ Target(5) = "panelCount"  BY ThePatterns, TheTargets
  <2>3. 5 \in 1 .. 13  BY SMT
  <2> QED  BY <1>0, <2>1, <2>2, <2>3, FirstMatch, Zenon
<1>7. ServerFieldError("mppt") = "activeMPPT"
  <2>1. ASSUME NEW j \in 1 .. 13, "mppt" \in Patterns(j) PROVE j = 7
    BY <2>1, IndexCases, ThePatterns
  <2>2. "mppt" \in Patterns(7) /\ Target(7) = "activeMPPT"  BY ThePatterns, TheTargets
  <2>3. 7 \in 1 .. 13  BY SMT
  <2> QED  BY <1>0, <2>1, <2>2, <2>3, FirstMatch, Zenon
<1>8. ServerFieldError("latitude") = "latitude"
  <2>1. ASSUME NEW j \in 1 .. 13, "latitude" \in Patterns(j) PROVE j = 8
    BY <2>1, IndexCases, ThePatterns
  <2>2. "latitude" \in Patterns(8) /\ Target(8) = "latitude"  BY ThePatterns, TheTargets
  <2>3. 8 \in 1 .. 13  BY SMT
  <2> QED  BY <1>0, <2>1, <2>2, <2>3, FirstMatch, Zenon
<1>9. ServerFieldError("longitude") = "longitude"
  <2>1. ASSUME NEW j \in 1 .. 13, "longitude" \in Patterns(j) PROVE j = 9
    BY <2>1, IndexCases, ThePatterns
  <2>2. "longitude" \in Patterns(9) /\ Target(9) = "longitude"  BY ThePatterns, TheTargets
  <2>3. 9 \in 1 .. 13  BY SMT
  <2> QED  BY <1>0, <2>1, <2>2, <2>3, FirstMatch, Zenon
<1>10. ServerFieldError("timezone") = "timezone"
  <2>1. ASSUME NEW j \in 1 .. 13, "timezone" \in Patterns(j) PROVE j = 10
    BY <2>1, IndexCases, ThePatterns
  <2>2. "timezone" \in Patterns(10) /\ Target(10) = "timezone"  BY ThePatterns, TheTargets
  <2>3. 10 \in 1 .. 13  BY SMT
  <2> QED  BY <1>0, <2>1, <2>2, <2>3, FirstMatch, Zenon
<1>11. ServerFieldError("currency") = "currency"
  <2>1. ASSUME NEW j \in 1 .. 13, "currency" \in Patterns(j) PROVE j = 11
    BY <2>1, IndexCases, ThePatterns
  <2>2. "currency" \in Patterns(11) /\ Target(11) = "currency"  BY ThePatterns, TheTargets
  <2>3. 11 \in 1 .. 13  BY SMT
  <2> QED  BY <1>0, <2>1, <2>2, <2>3, FirstMatch, Zenon
<1>12. ServerFieldError("tariff") = "tariff"
  <2>1. ASSUME NEW j \in 1 .. 13, "tariff" \in Patterns(j) PROVE j = 12
    BY <2>1, IndexCases, ThePatterns
  <2>2. "tariff" \in Patterns(12) /\ Target(12) = "tariff"  BY ThePatterns, TheTargets
  <2>3. 12 \in 1 .. 13  BY SMT
  <2> QED  BY <1>0, <2>1, <2>2, <2>3, FirstMatch, Zenon
<1>13. ServerFieldError("retention") = "retentionDays"
  <2>1. ASSUME NEW j \in 1 .. 13, "retention" \in Patterns(j) PROVE j = 13
    BY <2>1, IndexCases, ThePatterns
  <2>2. "retention" \in Patterns(13) /\ Target(13) = "retentionDays"  BY ThePatterns, TheTargets
  <2>3. 13 \in 1 .. 13  BY SMT
  <2> QED  BY <1>0, <2>1, <2>2, <2>3, FirstMatch, Zenon
<1>14. ServerFieldError("zero port") = "loggerPort"
  <2>1. ASSUME NEW j \in 1 .. 13, "zero port" \in Patterns(j) PROVE j = 3
    BY <2>1, IndexCases, ThePatterns
  <2>2. "zero port" \in Patterns(3) /\ Target(3) = "loggerPort"  BY ThePatterns, TheTargets
  <2>3. 3 \in 1 .. 13  BY SMT
  <2> QED  BY <1>0, <2>1, <2>2, <2>3, FirstMatch, Zenon
<1>15. ServerFieldError("zero slave") = "modbusSlave"
  <2>1. ASSUME NEW j \in 1 .. 13, "zero slave" \in Patterns(j) PROVE j = 4
    BY <2>1, IndexCases, ThePatterns
  <2>2. "zero slave" \in Patterns(4) /\ Target(4) = "modbusSlave"  BY ThePatterns, TheTargets
  <2>3. 4 \in 1 .. 13  BY SMT
  <2> QED  BY <1>0, <2>1, <2>2, <2>3, FirstMatch, Zenon
<1>16. ServerFieldError("zero retention") = "retentionDays"
  <2>1. ASSUME NEW j \in 1 .. 13, "zero retention" \in Patterns(j) PROVE j = 13
    BY <2>1, IndexCases, ThePatterns
  <2>2. "zero retention" \in Patterns(13) /\ Target(13) = "retentionDays"  BY ThePatterns, TheTargets
  <2>3. 13 \in 1 .. 13  BY SMT
  <2> QED  BY <1>0, <2>1, <2>2, <2>3, FirstMatch, Zenon
<1> QED
  BY <1>1, <1>2, <1>3, <1>4, <1>5, <1>6, <1>7, <1>8, <1>9, <1>10, <1>11, <1>12, <1>13, <1>14,
     <1>15, <1>16

\* A refusal is shown at a field of its check, which stepForField finds on a step.
LEMMA RefusalPlaced ==
  ASSUME NEW s, Refusals(s) # {}
  PROVE  LET field == ServerFieldError(FirstRefusal(s)[1])
         IN field \in FirstRefusal(s)[2] /\ field \in FieldsOf(StepForField(field))
<1> DEFINE first == CHOOSE i \in Refusals(s) : \A j \in Refusals(s) : i <= j
           message == Checks[first][1]
           field == ServerFieldError(message)
<1>1. first \in Refusals(s)
  <2>0. DOMAIN Checks = 1 .. 16  BY TheChecks, Zenon
  <2>1. Refusals(s) \in SUBSET Nat
    <3>1. Refusals(s) \subseteq 1 .. 16  BY <2>0, Zenon DEF Refusals
    <3> QED  BY <3>1
  <2>2. \E m \in Refusals(s) : \A n \in Refusals(s) : m <= n  BY <2>1, LeastElement
  <2> QED  BY <2>2
<1>2. first \in DOMAIN Checks  BY <1>1 DEF Refusals
<1>3. FirstRefusal(s) = Checks[first]  BY DEF FirstRefusal
<1> HIDE DEF first
<1>4. field \in Checks[first][2] /\ field \in Fields
  <2>0. field = ServerFieldError(Checks[first][1])  OBVIOUS
  <2> HIDE DEF field
  <2> USE StepsOfWizard DEF LoggerFields, PanelFields, PlaceFields
  <2>1. CASE first = 1
    <3>1. Checks[first][1] = "zero port" /\ Checks[first][2] = {"loggerPort"}  BY <2>1, TheChecks
    <3>2. field = "loggerPort"  BY <2>0, <3>1, MessageField, Zenon
    <3> QED  BY <3>1, <3>2
  <2>2. CASE first = 2
    <3>1. Checks[first][1] = "zero slave" /\ Checks[first][2] = {"modbusSlave"}  BY <2>2, TheChecks
    <3>2. field = "modbusSlave"  BY <2>0, <3>1, MessageField, Zenon
    <3> QED  BY <3>1, <3>2
  <2>3. CASE first = 3
    <3>1. Checks[first][1] = "zero retention" /\ Checks[first][2] = {"retentionDays"}  BY <2>3, TheChecks
    <3>2. field = "retentionDays"  BY <2>0, <3>1, MessageField, Zenon
    <3> QED  BY <3>1, <3>2
  <2>4. CASE first = 4
    <3>1. Checks[first][1] = "logger host" /\ Checks[first][2] = {"loggerHost"}  BY <2>4, TheChecks
    <3>2. field = "loggerHost"  BY <2>0, <3>1, MessageField, Zenon
    <3> QED  BY <3>1, <3>2
  <2>5. CASE first = 5
    <3>1. Checks[first][1] = "logger port" /\ Checks[first][2] = {"loggerPort"}  BY <2>5, TheChecks
    <3>2. field = "loggerPort"  BY <2>0, <3>1, MessageField, Zenon
    <3> QED  BY <3>1, <3>2
  <2>6. CASE first = 6
    <3>1. Checks[first][1] = "logger serial" /\ Checks[first][2] = {"loggerSerial"}  BY <2>6, TheChecks
    <3>2. field = "loggerSerial"  BY <2>0, <3>1, MessageField, Zenon
    <3> QED  BY <3>1, <3>2
  <2>7. CASE first = 7
    <3>1. Checks[first][1] = "modbus slave" /\ Checks[first][2] = {"modbusSlave"}  BY <2>7, TheChecks
    <3>2. field = "modbusSlave"  BY <2>0, <3>1, MessageField, Zenon
    <3> QED  BY <3>1, <3>2
  <2>8. CASE first = 8
    <3>1. Checks[first][1] = "panel count and wattage" /\ Checks[first][2] = {"panelCount", "panelWattage"}  BY <2>8, TheChecks
    <3>2. field = "panelCount"  BY <2>0, <3>1, MessageField, Zenon
    <3> QED  BY <3>1, <3>2
  <2>9. CASE first = 9
    <3>1. Checks[first][1] = "installed power" /\ Checks[first][2] = {"panelCount", "panelWattage"}  BY <2>9, TheChecks
    <3>2. field = "panelCount"  BY <2>0, <3>1, MessageField, Zenon
    <3> QED  BY <3>1, <3>2
  <2>10. CASE first = 10
    <3>1. Checks[first][1] = "mppt" /\ Checks[first][2] = {"activeMPPT"}  BY <2>10, TheChecks
    <3>2. field = "activeMPPT"  BY <2>0, <3>1, MessageField, Zenon
    <3> QED  BY <3>1, <3>2
  <2>11. CASE first = 11
    <3>1. Checks[first][1] = "latitude" /\ Checks[first][2] = {"latitude"}  BY <2>11, TheChecks
    <3>2. field = "latitude"  BY <2>0, <3>1, MessageField, Zenon
    <3> QED  BY <3>1, <3>2
  <2>12. CASE first = 12
    <3>1. Checks[first][1] = "longitude" /\ Checks[first][2] = {"longitude"}  BY <2>12, TheChecks
    <3>2. field = "longitude"  BY <2>0, <3>1, MessageField, Zenon
    <3> QED  BY <3>1, <3>2
  <2>13. CASE first = 13
    <3>1. Checks[first][1] = "timezone" /\ Checks[first][2] = {"timezone"}  BY <2>13, TheChecks
    <3>2. field = "timezone"  BY <2>0, <3>1, MessageField, Zenon
    <3> QED  BY <3>1, <3>2
  <2>14. CASE first = 14
    <3>1. Checks[first][1] = "currency" /\ Checks[first][2] = {"currency"}  BY <2>14, TheChecks
    <3>2. field = "currency"  BY <2>0, <3>1, MessageField, Zenon
    <3> QED  BY <3>1, <3>2
  <2>15. CASE first = 15
    <3>1. Checks[first][1] = "tariff" /\ Checks[first][2] = {"tariff"}  BY <2>15, TheChecks
    <3>2. field = "tariff"  BY <2>0, <3>1, MessageField, Zenon
    <3> QED  BY <3>1, <3>2
  <2>16. CASE first = 16
    <3>1. Checks[first][1] = "retention" /\ Checks[first][2] = {"retentionDays"}  BY <2>16, TheChecks
    <3>2. field = "retentionDays"  BY <2>0, <3>1, MessageField, Zenon
    <3> QED  BY <3>1, <3>2
  <2> QED
    BY <1>2, CheckCases, <2>1, <2>2, <2>3, <2>4, <2>5, <2>6, <2>7, <2>8, <2>9, <2>10, <2>11, <2>12, <2>13,
       <2>14, <2>15, <2>16
<1> HIDE DEF field
<1>5. field \in FieldsOf(StepForField(field))
  <2>1. \E step \in DOMAIN StepFields : field \in FieldsOf(step)  BY <1>4 DEF Fields
  <2> QED  BY <2>1 DEF StepForField
<1> QED  BY <1>3, <1>4, <1>5 DEF field

\* Whatever is typed into the fields: what the wizard lets through it converts
\* without an exception, and the editor would let it through; what the editor
\* lets through is refused only for a public address or an unknown zone; once
\* stored it is shown valid, unchanged and as the same logger, unless a
\* coordinate is written with an exponent; and the first refusal of the server
\* is placed at a field of its check, on a step of the wizard.  The run tries
\* forms in which two fields are unusual; this is about all of them.
THEOREM EveryFormAgrees ==
  ASSUME NEW values, IsForm(values)
  PROVE  /\ Submittable(values) =>
              ~Throws(values) /\ Unforeseen(SettingsOf(values)) /\ SettingsErrors(values) = {}
         /\ SettingsErrors(values) = {} => Unforeseen(SettingsOf(values))
         /\ SettingsErrors(values) = {} /\ Readable(SettingsOf(values)) =>
              Reopened(Normalized(SettingsOf(values)))
         /\ Refusals(SettingsOf(values)) # {} =>
              LET refusal == FirstRefusal(SettingsOf(values))
                  field == ServerFieldError(refusal[1])
              IN field \in refusal[2] /\ field \in FieldsOf(StepForField(field))
<1>1. SettingsErrors(values) = {} => Unforeseen(SettingsOf(values))
  BY ValidIsProper, ProperForeseen
<1>2. Submittable(values) => SettingsErrors(values) = {} /\ ~Throws(values)
  BY WizardStricter, NothingThrown
<1>3. SettingsErrors(values) = {} /\ Readable(SettingsOf(values)) =>
        Reopened(Normalized(SettingsOf(values)))
  BY StoredReopened
<1>4. Refusals(SettingsOf(values)) # {} =>
        LET refusal == FirstRefusal(SettingsOf(values))
            field == ServerFieldError(refusal[1])
        IN field \in refusal[2] /\ field \in FieldsOf(StepForField(field))
  BY RefusalPlaced
<1> QED  BY <1>1, <1>2, <1>3, <1>4

\* The forms that the run tries.
LEMMA FilledAgree == WizardIsAccepted /\ EditorIsAccepted /\ StoredReopens /\ RefusalsPlaced
<1>1. WizardIsAccepted  BY FilledForm, EveryFormAgrees DEF WizardIsAccepted
<1>2. EditorIsAccepted  BY FilledForm, EveryFormAgrees DEF EditorIsAccepted
<1>3. StoredReopens  BY FilledForm, EveryFormAgrees DEF StoredReopens
<1>4. RefusalsPlaced  BY FilledForm, EveryFormAgrees DEF RefusalsPlaced
<1> QED  BY <1>1, <1>2, <1>3, <1>4

-----------------------------------------------------------------------------
(* Calendar *)

\* Months begin on days.
LEMMA MonthStartInt == ASSUME NEW m \in Nat PROVE MonthStart(m) \in Int
<1> DEFINE year == m \div 12
           leap == IF year % 4 = 0 /\ m % 12 >= 2 THEN 1 ELSE 0
           k == (m % 12) + 1
<1>1. year \in Int /\ leap \in Int /\ k \in 1 .. 12  BY SMT
<1>2. MonthStart(m) = 365 * year + ((year + 3) \div 4) + DaysBefore[k] + leap
  BY DEF MonthStart
<1> HIDE DEF year, leap, k
<1>3. DaysBefore[k] \in Int
  <2>1. \/ k = 1 \/ k = 2 \/ k = 3 \/ k = 4 \/ k = 5 \/ k = 6 \/ k = 7 \/ k = 8 \/ k = 9
        \/ k = 10 \/ k = 11 \/ k = 12
    BY <1>1, SMT
  <2> QED  BY <2>1, SMT DEF DaysBefore
<1>4. (year + 3) \div 4 \in Int  BY <1>1, SMT
<1> QED  BY <1>1, <1>2, <1>3, <1>4, SMT

\* The first one with the first day.
LEMMA FirstMonth == MonthStart(0) = 0
<1>1. 0 \div 12 = 0 /\ 0 % 12 = 0 /\ (0 + 3) \div 4 = 0 /\ 0 % 4 = 0  BY SMT
<1>2. DaysBefore[1] = 0  BY SMT DEF DaysBefore
<1> QED  BY <1>1, <1>2, SMT DEF MonthStart

\* Every day is in a month.
LEMMA MonthOfDay ==
  ASSUME NEW day \in Nat, day < MonthStart(Months)
  PROVE  \E m \in 0 .. (Months - 1) : MonthStarts[m] <= day /\ day < MonthStarts[m + 1]
<1> DEFINE S == {m \in 0 .. (Months - 1) : day < MonthStart(m + 1)}
<1>1. Months \in Nat \ {0}  BY MonthsAssumption
<1>2. Months - 1 \in 0 .. (Months - 1) /\ (Months - 1) + 1 = Months  BY <1>1, SMT
<1>3. S # {} /\ S \in SUBSET Nat
  <2>1. Months - 1 \in S  BY <1>2
  <2>2. \A m \in 0 .. (Months - 1) : m \in Nat  BY <1>1, SMT
  <2> QED  BY <2>1, <2>2
<1>4. PICK m \in S : \A n \in S : m <= n  BY <1>3, LeastElement
<1>5. m \in 0 .. (Months - 1) /\ day < MonthStart(m + 1)  OBVIOUS
<1>6. MonthStart(m) <= day
  <2>1. CASE m = 0  BY <2>1, FirstMonth
  <2>2. CASE m # 0
    <3>1. m - 1 \in 0 .. (Months - 1) /\ ~(m <= m - 1) /\ (m - 1) + 1 = m /\ m \in Nat
      BY <1>1, <1>5, <2>2, SMT
    <3>2. ~(day < MonthStart(m))  BY <1>4, <3>1
    <3>3. MonthStart(m) \in Int  BY <3>1, MonthStartInt
    <3> QED  BY <3>2, <3>3, SMT
  <2> QED  BY <2>1, <2>2
<1>7. m \in 0 .. Months /\ m + 1 \in 0 .. Months  BY <1>1, <1>5, SMT
<1>8. MonthStarts[m] = MonthStart(m) /\ MonthStarts[m + 1] = MonthStart(m + 1)
  BY <1>7 DEF MonthStarts
<1> QED  BY <1>5, <1>6, <1>8

\* Date.UTC and its inverse.
LEMMA CivilBack ==
  ASSUME NEW h, InCalendar(h)
  PROVE  UTC(Civil(h)) = h
<1> DEFINE day == h \div 24
           hour == h % 24
           month == CHOOSE m \in 0 .. (Months - 1) : MonthStarts[m] <= day /\ day < MonthStarts[m + 1]
<1>1. h \in Nat /\ day \in Nat /\ hour \in Nat /\ h = 24 * day + hour  BY SMT DEF InCalendar
<1>2. day < MonthStart(Months)  BY DEF InCalendar
<1>3. Civil(h) = [month |-> month, day |-> day - MonthStarts[month] + 1, hour |-> hour]
  BY DEF Civil
<1> HIDE DEF day, hour
<1>4. month \in 0 .. (Months - 1)  BY <1>1, <1>2, MonthOfDay
<1> HIDE DEF month
<1>5. Months \in Nat  BY MonthsAssumption
<1>6. month \in 0 .. Months /\ month \in Nat  BY <1>4, <1>5, SMT
<1>7. MonthStarts[month] = MonthStart(month)  BY <1>6 DEF MonthStarts
<1>8. MonthStart(month) \in Int  BY <1>6, MonthStartInt
<1>9. UTC(Civil(h)) = 24 * (MonthStart(month) + (day - MonthStart(month) + 1) - 1) + hour
  BY <1>3, <1>7 DEF UTC
<1> QED  BY <1>1, <1>8, <1>9, SMT

\* What a correction of zonedCalendarToDate does: it takes away the offset at the candidate.
LEMMA Correction ==
  ASSUME NEW z, NEW c \in Int, NEW d \in Int, InCalendar(c + Offset(z, c)),
         Offset(z, c) \in Int
  PROVE  c + d - UTC(CalendarParts(c, z)) = d - Offset(z, c)
<1>1. UTC(CalendarParts(c, z)) = c + Offset(z, c)  BY CivilBack DEF CalendarParts
<1> QED  BY <1>1, SMT

\* All the hours that the corrections of the local time d look at are in the calendar.
Surveyed(d, z) ==
  \A o, q \in {z.before, z.after} : InCalendar(d + o) /\ InCalendar(d - o + q)

\* The three corrections find an instant with the wanted local time wherever
\* the zone has one, the one of the first correction if that is one already;
\* where its clocks skip it, they undo the offset that universal time of the
\* same numbers would have.
THEOREM CorrectionsSuffice ==
  ASSUME NEW z, z.at \in Int, z.before \in Int, z.after \in Int,
         NEW parts, UTC(parts) \in Int, Surveyed(UTC(parts), z)
  PROVE  LET d == UTC(parts)
             t == ZonedCalendarToDate(parts, z)
         IN /\ t \in {d - z.before, d - z.after}
            /\ (\E x \in Int : x + Offset(z, x) = d) => t + Offset(z, t) = d
            /\ ~(\E x \in Int : x + Offset(z, x) = d) => t = d - Offset(z, d)
            /\ (d - Offset(z, d)) + Offset(z, d - Offset(z, d)) = d => t = d - Offset(z, d)
<1> DEFINE d == UTC(parts)
           correct(c) == c + d - UTC(CalendarParts(c, z))
           off(c) == Offset(z, c)
           c1 == d - off(d)
           c2 == d - off(c1)
           c3 == d - off(c2)
<1>1. \A c \in Int : off(c) = (IF c < z.at THEN z.before ELSE z.after) /\ off(c) \in {z.before, z.after} /\ off(c) \in Int
  BY DEF Offset
<1>2. ZonedCalendarToDate(parts, z) = correct(correct(correct(d)))
  BY DEF ZonedCalendarToDate
<1>3. d \in Int /\ Surveyed(d, z)  OBVIOUS
<1> HIDE DEF d
<1>4. ASSUME NEW c \in Int, InCalendar(c + off(c)) PROVE correct(c) = d - off(c)
  BY <1>1, <1>3, <1>4, Correction
<1> HIDE DEF correct, off
<1>5. InCalendar(d + off(d))  BY <1>1, <1>3 DEF Surveyed
<1>6. c1 \in Int /\ correct(d) = c1 /\ InCalendar(c1 + off(c1))
  <2>1. c1 \in Int  BY <1>1, <1>3
  <2>2. correct(d) = c1  BY <1>3, <1>4, <1>5
  <2> QED  BY <1>1, <1>3, <2>1, <2>2 DEF Surveyed
<1>7. c2 \in Int /\ correct(c1) = c2 /\ InCalendar(c2 + off(c2))
  <2>1. c2 \in Int  BY <1>1, <1>3, <1>6
  <2>2. correct(c1) = c2  BY <1>4, <1>6
  <2> QED  BY <1>1, <1>3, <1>6, <2>1, <2>2 DEF Surveyed
<1>8. correct(c2) = c3 /\ c3 \in Int  BY <1>1, <1>3, <1>4, <1>7
<1>9. ZonedCalendarToDate(parts, z) = c3  BY <1>2, <1>6, <1>7, <1>8
<1>10. (\E x \in Int : x + off(x) = d) => c3 + off(c3) = d
  BY <1>1, <1>3, <1>6, <1>7, <1>8, SMT
<1>11. ~(\E x \in Int : x + off(x) = d) => c3 = c1
  BY <1>1, <1>3, <1>6, <1>7, <1>8, SMT
<1>12. c3 \in {d - z.before, d - z.after}  BY <1>1, <1>7
<1>13. c1 + off(c1) = d => c3 = c1
  <2> SUFFICES ASSUME c1 + off(c1) = d PROVE c3 = c1  OBVIOUS
  <2>1. c2 = c1  BY <1>1, <1>3, <1>6, SMT
  <2> QED  BY <2>1
<1> QED  BY <1>9, <1>10, <1>11, <1>12, <1>13 DEF d, off

-----------------------------------------------------------------------------
(* Months and years *)

\* The tables of the calendar.
LEMMA Table ==
  /\ DaysBefore[1] = 0 /\ DaysBefore[2] = 31 /\ DaysBefore[3] = 59 /\ DaysBefore[4] = 90
  /\ DaysBefore[5] = 120 /\ DaysBefore[6] = 151 /\ DaysBefore[7] = 181
  /\ DaysBefore[8] = 212 /\ DaysBefore[9] = 243 /\ DaysBefore[10] = 273
  /\ DaysBefore[11] = 304 /\ DaysBefore[12] = 334
BY SMT DEF DaysBefore

\* The first day of a year and of a month of it.
YearStart(y) == 365 * y + ((y + 3) \div 4)
LeapDay(y, k) == IF y % 4 = 0 /\ k >= 2 THEN 1 ELSE 0

\* A month by its year.
LEMMA MonthOfYear ==
  ASSUME NEW y \in Nat, NEW k \in 0 .. 11
  PROVE  MonthStart(12 * y + k) = YearStart(y) + DaysBefore[k + 1] + LeapDay(y, k)
<1> DEFINE m == 12 * y + k
<1>1. m \div 12 = y /\ m % 12 = k  BY SMT
<1> HIDE DEF m
<1>2. MonthStart(m) = YearStart(y) + DaysBefore[k + 1] + LeapDay(y, k)
  BY <1>1 DEF MonthStart, YearStart, LeapDay
<1> QED  BY <1>2 DEF m

\* A year has a day more after a leap day.
LEMMA YearNext ==
  ASSUME NEW y \in Nat
  PROVE  YearStart(y) \in Int /\ YearStart(y + 1) = YearStart(y) + 365 + LeapDay(y, 2)
BY SMT DEF YearStart, LeapDay

\* A month has 28 to 31 days.
LEMMA MonthLength ==
  ASSUME NEW m \in Nat
  PROVE  MonthStart(m) \in Int /\ MonthStart(m + 1) - MonthStart(m) \in 28 .. 31
<1> DEFINE y == m \div 12
           k == m % 12
<1>1. y \in Nat /\ k \in 0 .. 11 /\ m = 12 * y + k  BY SMT
<1> HIDE DEF y, k
<1>2. MonthStart(m) = YearStart(y) + DaysBefore[k + 1] + LeapDay(y, k)  BY <1>1, MonthOfYear
<1>3. YearStart(y) \in Int /\ YearStart(y + 1) = YearStart(y) + 365 + LeapDay(y, 2)
  BY <1>1, YearNext
<1>4. LeapDay(y, 0) = 0 /\ LeapDay(y, 1) = 0 /\ LeapDay(y, 2) \in {0, 1}
      /\ (k >= 2 => LeapDay(y, k) = LeapDay(y, 2))
      /\ (k + 1 >= 2 => LeapDay(y, k + 1) = LeapDay(y, 2)) /\ LeapDay(y + 1, 0) = 0
  BY <1>1, SMT DEF LeapDay
<1> HIDE DEF YearStart, LeapDay
<1>5. CASE k = 11
  <2>1. m + 1 = 12 * (y + 1) + 0 /\ y + 1 \in Nat /\ 0 \in 0 .. 11  BY <1>1, <1>5, SMT
  <2>2. MonthStart(12 * (y + 1) + 0) = YearStart(y + 1) + DaysBefore[0 + 1] + LeapDay(y + 1, 0)
    BY <2>1, MonthOfYear
  <2>3. MonthStart(m + 1) = YearStart(y + 1)  BY <1>3, <1>4, <2>1, <2>2, Table, SMT
  <2>4. MonthStart(m) = YearStart(y) + 334 + LeapDay(y, 2)  BY <1>2, <1>4, <1>5, Table, SMT
  <2> QED  BY <1>3, <1>4, <2>3, <2>4, SMT
<1>6. CASE k # 11
  <2>1. m + 1 = 12 * y + (k + 1) /\ k + 1 \in 0 .. 11  BY <1>1, <1>6, SMT
  <2>2. MonthStart(m + 1) = YearStart(y) + DaysBefore[(k + 1) + 1] + LeapDay(y, k + 1)
    BY <1>1, <2>1, MonthOfYear
  <2>3. k = 0 \/ k = 1 \/ k = 2 \/ k = 3 \/ k = 4 \/ k = 5 \/ k = 6 \/ k = 7 \/ k = 8 \/ k = 9 \/ k = 10
    BY <1>1, <1>6, SMT
  <2> QED  BY <1>2, <1>3, <1>4, <2>2, <2>3, Table, SMT
<1> QED  BY <1>5, <1>6

\* Months follow each other.
LEMMA MonthsInOrder ==
  ASSUME NEW m \in Nat, NEW n \in Nat, m < n
  PROVE  MonthStart(m) < MonthStart(n)
<1> DEFINE S == {i \in Nat : m < i /\ ~(MonthStart(m) < MonthStart(i))}
<1> SUFFICES ASSUME n \in S PROVE FALSE  OBVIOUS
<1>1. S \in SUBSET Nat /\ S # {}  OBVIOUS
<1>2. PICK i \in S : \A j \in S : i <= j  BY <1>1, LeastElement
<1>3. i \in Nat /\ m < i /\ ~(MonthStart(m) < MonthStart(i))  OBVIOUS
<1>4. i - 1 \in Nat /\ (i - 1) + 1 = i /\ ~(i <= i - 1)  BY <1>3, SMT
<1>5. i - 1 \notin S  BY <1>2, <1>4
<1>6. i - 1 = m \/ MonthStart(m) < MonthStart(i - 1)  BY <1>3, <1>4, <1>5, SMT
<1> HIDE DEF S
<1>7. MonthStart(m) \in Int /\ MonthStart(i - 1) \in Int /\ MonthStart(i) - MonthStart(i - 1) \in 28 .. 31
      /\ MonthStart(i) \in Int
  BY <1>3, <1>4, MonthLength
<1> QED  BY <1>3, <1>6, <1>7, SMT

\* A year has 365 or 366 days.
LEMMA YearLength ==
  ASSUME NEW y \in Nat
  PROVE  MonthStart(12 * y + 12) - MonthStart(12 * y) \in 365 .. 366
<1>1. YearStart(y) \in Int /\ YearStart(y + 1) = YearStart(y) + 365 + LeapDay(y, 2)
  BY YearNext
<1>2. LeapDay(y, 0) = 0 /\ LeapDay(y + 1, 0) = 0 /\ LeapDay(y, 2) \in {0, 1}  BY SMT DEF LeapDay
<1>3. 0 \in 0 .. 11 /\ y + 1 \in Nat /\ 12 * y + 12 = 12 * (y + 1) + 0 /\ 12 * y = 12 * y + 0  BY SMT
<1>4. MonthStart(12 * y + 0) = YearStart(y) + DaysBefore[0 + 1] + LeapDay(y, 0)
  BY <1>3, MonthOfYear
<1>5. MonthStart(12 * (y + 1) + 0) = YearStart(y + 1) + DaysBefore[0 + 1] + LeapDay(y + 1, 0)
  BY <1>3, MonthOfYear
<1> HIDE DEF YearStart, LeapDay
<1>6. MonthStart(12 * y) = YearStart(y)  BY <1>1, <1>2, <1>3, <1>4, Table, SMT
<1>7. MonthStart(12 * y + 12) = YearStart(y + 1)  BY <1>1, <1>2, <1>3, <1>5, Table, SMT
<1> QED  BY <1>1, <1>2, <1>6, <1>7, SMT

-----------------------------------------------------------------------------
(* Periods of local time *)

\* The month of a local time.
MonthAt(l) == Civil(l).month

\* What the calendar says of a local time.
LEMMA CivilIs ==
  ASSUME NEW l, InCalendar(l)
  PROVE  /\ l \in Nat /\ l \div 24 \in Nat /\ MonthAt(l) \in Nat
         /\ MonthStart(MonthAt(l)) <= l \div 24 /\ l \div 24 < MonthStart(MonthAt(l) + 1)
         /\ Civil(l) = [month |-> MonthAt(l), day |-> (l \div 24) - MonthStart(MonthAt(l)) + 1,
                          hour |-> l % 24]
<1> DEFINE day == l \div 24
           month == CHOOSE m \in 0 .. (Months - 1) : MonthStarts[m] <= day /\ day < MonthStarts[m + 1]
<1>1. l \in Nat /\ day \in Nat  BY SMT DEF InCalendar
<1>2. day < MonthStart(Months)  BY DEF InCalendar
<1>3. Civil(l) = [month |-> month, day |-> day - MonthStarts[month] + 1, hour |-> l % 24]
  BY DEF Civil
<1> HIDE DEF day
<1>4. month \in 0 .. (Months - 1) /\ MonthStarts[month] <= day /\ day < MonthStarts[month + 1]
  BY <1>1, <1>2, MonthOfDay
<1> HIDE DEF month
<1>5. Months \in Nat  BY MonthsAssumption
<1>6. month \in 0 .. Months /\ month + 1 \in 0 .. Months /\ month \in Nat  BY <1>4, <1>5, SMT
<1>7. MonthStarts[month] = MonthStart(month) /\ MonthStarts[month + 1] = MonthStart(month + 1)
  BY <1>6 DEF MonthStarts
<1>8. MonthAt(l) = month  BY <1>3 DEF MonthAt
<1> QED  BY <1>1, <1>3, <1>4, <1>6, <1>7, <1>8 DEF day

\* A day is in one month only.
LEMMA MonthIs ==
  ASSUME NEW l, InCalendar(l), NEW n \in Nat,
         MonthStart(n) <= l \div 24, l \div 24 < MonthStart(n + 1)
  PROVE  MonthAt(l) = n
<1> DEFINE m == MonthAt(l)
           d == l \div 24
<1>1. m \in Nat /\ d \in Nat /\ MonthStart(m) <= d /\ d < MonthStart(m + 1)  BY CivilIs
<1> HIDE DEF m
<1>2. MonthStart(n) <= d /\ d < MonthStart(n + 1)  OBVIOUS
<1> HIDE DEF d
<1>3. \A i \in Nat : MonthStart(i) \in Int  BY MonthLength
<1>4. \A i \in Nat, j \in Nat : i < j => MonthStart(i + 1) <= MonthStart(j)
  <2> SUFFICES ASSUME NEW i \in Nat, NEW j \in Nat, i < j PROVE MonthStart(i + 1) <= MonthStart(j)
    OBVIOUS
  <2>1. i + 1 = j \/ i + 1 < j  BY SMT
  <2>2. MonthStart(i + 1) \in Int /\ MonthStart(j) \in Int  BY <1>3
  <2>3. CASE i + 1 < j  BY <2>2, <2>3, MonthsInOrder
  <2> QED  BY <2>1, <2>2, <2>3
<1>5. ~(m < n)
  <2> SUFFICES ASSUME m < n PROVE FALSE  OBVIOUS
  <2>1. MonthStart(m + 1) <= MonthStart(n)  BY <1>1, <1>4
  <2>2. m + 1 \in Nat  BY <1>1
  <2> QED  BY <1>1, <1>2, <1>3, <2>1, <2>2, SMT
<1>6. ~(n < m)
  <2> SUFFICES ASSUME n < m PROVE FALSE  OBVIOUS
  <2>1. MonthStart(n + 1) <= MonthStart(m)  BY <1>1, <1>4
  <2>2. n + 1 \in Nat  OBVIOUS
  <2> QED  BY <1>1, <1>2, <1>3, <2>1, <2>2, SMT
<1>7. m = n  BY <1>1, <1>5, <1>6, SMT
<1> QED  BY <1>7 DEF m

\* The first and the last hour of the day, week, month or year of a local
\* time, the last one excluded.
Begin(p, l) ==
  24 * (CASE p = "day"   -> l \div 24
          [] p = "week"  -> 7 * ((l \div 24) \div 7)
          [] p = "month" -> MonthStart(MonthAt(l))
          [] p = "year"  -> MonthStart(12 * (MonthAt(l) \div 12)))

End(p, l) ==
  24 * (CASE p = "day"   -> (l \div 24) + 1
          [] p = "week"  -> 7 * ((l \div 24) \div 7) + 7
          [] p = "month" -> MonthStart(MonthAt(l) + 1)
          [] p = "year"  -> MonthStart(12 * (MonthAt(l) \div 12) + 12))

\* Its length.
LEMMA PeriodHolds ==
  ASSUME NEW l, InCalendar(l), NEW p \in Periods
  PROVE  \E b \in Int, e \in Int :
           /\ Begin(p, l) = 24 * b /\ End(p, l) = 24 * e
           /\ 24 * b <= l /\ l < 24 * e /\ e - b \in 1 .. 366 /\ 0 <= b
           /\ p = "day" => e - b = 1
<1> DEFINE d == l \div 24
           m == MonthAt(l)
           y == m \div 12
<1>1. l \in Nat /\ d \in Nat /\ m \in Nat /\ MonthStart(m) <= d /\ d < MonthStart(m + 1)
  BY CivilIs
<1>2. 24 * d <= l /\ l < 24 * (d + 1)  BY <1>1, SMT
<1>3. y \in Nat /\ 12 * y <= m /\ m < 12 * y + 12  BY <1>1, SMT
<1>4. /\ Begin("day", l) = 24 * d /\ Begin("week", l) = 24 * (7 * (d \div 7))
      /\ Begin("month", l) = 24 * MonthStart(m) /\ Begin("year", l) = 24 * MonthStart(12 * y)
      /\ End("day", l) = 24 * (d + 1) /\ End("week", l) = 24 * (7 * (d \div 7) + 7)
      /\ End("month", l) = 24 * MonthStart(m + 1)
      /\ End("year", l) = 24 * MonthStart(12 * y + 12)
  BY DEF Begin, End
<1> HIDE DEF d, m, y
<1>5. CASE p = "day"
  <2>1. d + 1 \in Int /\ d \in Int /\ (d + 1) - d = 1  BY <1>1, SMT
  <2> QED  BY <1>1, <1>2, <1>4, <1>5, <2>1, SMT
<1>6. CASE p = "week"
  <2> DEFINE w == 7 * (d \div 7)
  <2>1. w \in Nat /\ w + 7 \in Int /\ (w + 7) - w = 7 /\ w <= d /\ d + 1 <= w + 7  BY <1>1, SMT
  <2>2. Begin(p, l) = 24 * w /\ End(p, l) = 24 * (w + 7)  BY <1>4, <1>6
  <2> HIDE DEF w
  <2>3. 24 * w <= l /\ l < 24 * (w + 7)  BY <1>1, <1>2, <2>1, SMT
  <2>4. w \in Int /\ w + 7 \in Int /\ 0 <= w /\ (w + 7) - w \in 1 .. 366 /\ p # "day"
    BY <1>6, <2>1, SMT
  <2> QED  BY <2>2, <2>3, <2>4
<1>7. CASE p = "month"
  <2> DEFINE b == MonthStart(m)
             e == MonthStart(m + 1)
  <2>1. b \in Int /\ e - b \in 28 .. 31  BY <1>1, MonthLength
  <2>2. e \in Int  BY <1>1, MonthLength
  <2>3. 0 <= b
    <3>1. m = 0 \/ 0 < m  BY <1>1
    <3>2. CASE 0 < m  BY <1>1, <2>1, <3>2, FirstMonth, MonthsInOrder, SMT
    <3> QED  BY <3>1, <3>2, FirstMonth
  <2>4. Begin(p, l) = 24 * b /\ End(p, l) = 24 * e /\ b <= d /\ d < e  BY <1>1, <1>4, <1>7
  <2> HIDE DEF b, e
  <2>5. 24 * b <= l /\ l < 24 * e /\ e - b \in 1 .. 366 /\ p # "day"
    BY <1>1, <1>2, <1>7, <2>1, <2>2, <2>4, SMT
  <2> QED  BY <2>1, <2>2, <2>3, <2>4, <2>5
<1>8. CASE p = "year"
  <2> DEFINE b == MonthStart(12 * y)
             e == MonthStart(12 * y + 12)
  <2>0. 12 * y \in Nat /\ 12 * y + 12 \in Nat /\ m + 1 \in Nat  BY <1>1, <1>3
  <2>1. b \in Int /\ e \in Int /\ MonthStart(m) \in Int /\ MonthStart(m + 1) \in Int
    BY <1>1, <2>0, MonthLength
  <2>2. e - b \in 365 .. 366  BY <1>3, YearLength
  <2>3. 0 <= b
    <3>1. 12 * y = 0 \/ 0 < 12 * y  BY <1>3
    <3>2. CASE 0 < 12 * y  BY <2>0, <2>1, <3>2, FirstMonth, MonthsInOrder, SMT
    <3> QED  BY <3>1, <3>2, FirstMonth
  <2>4. b <= MonthStart(m)
    <3>1. 12 * y = m \/ 12 * y < m  BY <1>1, <1>3
    <3>2. CASE 12 * y < m  BY <1>1, <2>0, <2>1, <3>2, MonthsInOrder, SMT
    <3> QED  BY <2>1, <3>1, <3>2
  <2>5. MonthStart(m + 1) <= e
    <3>1. m + 1 = 12 * y + 12 \/ m + 1 < 12 * y + 12  BY <1>1, <1>3
    <3>2. CASE m + 1 < 12 * y + 12  BY <2>0, <2>1, <3>2, MonthsInOrder, SMT
    <3> QED  BY <2>1, <3>1, <3>2
  <2>6. Begin(p, l) = 24 * b /\ End(p, l) = 24 * e  BY <1>4, <1>8
  <2> HIDE DEF b, e
  <2>7. 24 * b <= l /\ l < 24 * e /\ e - b \in 1 .. 366 /\ p # "day"
    BY <1>1, <1>2, <1>8, <2>1, <2>2, <2>4, <2>5, SMT
  <2> QED  BY <2>1, <2>3, <2>6, <2>7
<1> QED  BY <1>5, <1>6, <1>7, <1>8 DEF Periods

\* Months do not overlap.
LEMMA NextMonth ==
  ASSUME NEW i \in Nat, NEW j \in Nat, i < j
  PROVE  MonthStart(i + 1) <= MonthStart(j)
<1>1. i + 1 = j \/ i + 1 < j  BY SMT
<1>2. MonthStart(i + 1) \in Int /\ MonthStart(j) \in Int  BY MonthLength
<1>3. CASE i + 1 < j  BY <1>2, <1>3, MonthsInOrder
<1> QED  BY <1>1, <1>2, <1>3

\* The period of a local time by its number.
LabelAt(p, l) ==
  CASE p = "day"   -> l \div 24
    [] p = "week"  -> (l \div 24) \div 7
    [] p = "month" -> MonthAt(l)
    [] p = "year"  -> MonthAt(l) \div 12

\* It is the one that the property speaks of.
LEMMA LabelIs ==
  ASSUME NEW z, NEW t \in Int, InCalendar(t + Offset(z, t)), NEW p \in Periods
  PROVE  Label(p, t, z) = LabelAt(p, t + Offset(z, t))
<1> DEFINE l == t + Offset(z, t)
           d == l \div 24
<1>1. InCalendar(l)  OBVIOUS
<1>2. Label(p, t, z) = CASE p = "day"   -> d
                         [] p = "week"  -> d \div 7
                         [] p = "month" -> Civil(24 * d).month
                         [] p = "year"  -> Civil(24 * d).month \div 12
  BY DEF Label, LocalDay
<1> HIDE DEF l
<1>3. l \in Nat /\ d \in Nat /\ MonthAt(l) \in Nat
      /\ MonthStart(MonthAt(l)) <= d /\ d < MonthStart(MonthAt(l) + 1)
  BY <1>1, CivilIs
<1>4. (24 * d) \div 24 = d /\ 24 * d \in Int /\ 0 <= 24 * d  BY <1>3, SMT
<1>5. InCalendar(24 * d)  BY <1>1, <1>4 DEF InCalendar
<1>6. MonthAt(24 * d) = MonthAt(l)  BY <1>3, <1>4, <1>5, MonthIs
<1> QED  BY <1>2, <1>6 DEF LabelAt, MonthAt, Periods, l

\* Local times of the same period have the same number, and only they.
LEMMA SamePeriod ==
  ASSUME NEW l, InCalendar(l), NEW k, InCalendar(k), NEW p \in Periods
  PROVE  /\ LabelAt(p, k) = LabelAt(p, l) => Begin(p, k) = Begin(p, l) /\ End(p, k) = End(p, l)
         /\ LabelAt(p, k) = LabelAt(p, l) <=> Begin(p, l) <= k /\ k < End(p, l)
<1> DEFINE d == l \div 24
           m == MonthAt(l)
           y == m \div 12
           e == k \div 24
           n == MonthAt(k)
<1>1. l \in Nat /\ d \in Nat /\ m \in Nat  BY CivilIs
<1>2. k \in Nat /\ e \in Nat /\ n \in Nat /\ MonthStart(n) <= e /\ e < MonthStart(n + 1)  BY CivilIs
<1>3. /\ Begin("day", l) = 24 * d /\ Begin("week", l) = 24 * (7 * (d \div 7))
      /\ Begin("month", l) = 24 * MonthStart(m) /\ Begin("year", l) = 24 * MonthStart(12 * y)
      /\ End("day", l) = 24 * (d + 1) /\ End("week", l) = 24 * (7 * (d \div 7) + 7)
      /\ End("month", l) = 24 * MonthStart(m + 1)
      /\ End("year", l) = 24 * MonthStart(12 * y + 12)
  BY DEF Begin, End
<1>4. /\ LabelAt("day", l) = d /\ LabelAt("week", l) = d \div 7
      /\ LabelAt("month", l) = m /\ LabelAt("year", l) = y
      /\ LabelAt("day", k) = e /\ LabelAt("week", k) = e \div 7
      /\ LabelAt("month", k) = n /\ LabelAt("year", k) = n \div 12
  BY DEF LabelAt
<1>5. LabelAt(p, k) = LabelAt(p, l) => Begin(p, k) = Begin(p, l) /\ End(p, k) = End(p, l)
  BY DEF LabelAt, Begin, End, Periods
<1>6. LabelAt(p, k) = LabelAt(p, l) => Begin(p, l) <= k /\ k < End(p, l)
  <2>1. PICK b \in Int, f \in Int : Begin(p, k) = 24 * b /\ End(p, k) = 24 * f
                                    /\ 24 * b <= k /\ k < 24 * f
    BY PeriodHolds
  <2> QED  BY <1>5, <2>1
<1>7. ASSUME Begin(p, l) <= k, k < End(p, l) PROVE LabelAt(p, k) = LabelAt(p, l)
  <2>1. 24 * e <= k /\ k < 24 * e + 24  BY <1>2, SMT
  <2> HIDE DEF d, m, e, n
  <2>2. y \in Nat /\ 12 * y <= m  BY <1>1, SMT
  <2> HIDE DEF y
  <2>3. CASE p = "day"
    <3>1. 24 * d <= k /\ k < 24 * (d + 1)  BY <1>3, <1>7, <2>3
    <3>2. d = e  BY <1>1, <1>2, <2>1, <3>1, SMT
    <3> QED  BY <1>4, <2>3, <3>2
  <2>4. CASE p = "week"
    <3> DEFINE w == d \div 7
    <3>1. 24 * (7 * w) <= k /\ k < 24 * (7 * w + 7)  BY <1>3, <1>7, <2>4
    <3>2. w \in Nat  BY <1>1, SMT
    <3> HIDE DEF w
    <3>3. 7 * w <= e /\ e < 7 * w + 7  BY <1>2, <2>1, <3>1, <3>2, SMT
    <3>4. e \div 7 = w  BY <1>2, <3>2, <3>3, SMT
    <3> QED  BY <1>4, <2>4, <3>4 DEF w
  <2>5. CASE p = "month"
    <3> DEFINE a == MonthStart(m)
               b == MonthStart(m + 1)
    <3>1. 24 * a <= k /\ k < 24 * b  BY <1>3, <1>7, <2>5
    <3>2. a \in Int /\ b \in Int  BY <1>1, MonthLength
    <3> HIDE DEF a, b
    <3>3. a <= e /\ e < b  BY <1>2, <2>1, <3>1, <3>2, SMT
    <3>4. n = m  BY <1>1, <3>3, MonthIs DEF a, b, e, n
    <3> QED  BY <1>4, <2>5, <3>4
  <2>6. CASE p = "year"
    <3> DEFINE a == MonthStart(12 * y)
               b == MonthStart(12 * y + 12)
    <3>1. 24 * a <= k /\ k < 24 * b  BY <1>3, <1>7, <2>6
    <3>2. 12 * y \in Nat /\ 12 * y + 12 \in Nat /\ n + 1 \in Nat  BY <1>2, <2>2
    <3>3. a \in Int /\ b \in Int /\ MonthStart(n) \in Int /\ MonthStart(n + 1) \in Int
      BY <1>2, <3>2, MonthLength
    <3>4. ~(n < 12 * y)
      <4> SUFFICES ASSUME n < 12 * y PROVE FALSE  OBVIOUS
      <4>1. MonthStart(n + 1) <= a  BY <1>2, <3>2, NextMonth
      <4> HIDE DEF a, b
      <4> QED  BY <1>2, <2>1, <3>1, <3>3, <4>1, SMT
    <3>5. n < 12 * y + 12
      <4> SUFFICES ASSUME ~(n < 12 * y + 12) PROVE FALSE  OBVIOUS
      <4>1. n = 12 * y + 12 \/ 12 * y + 12 < n  BY <1>2, <3>2
      <4>2. b <= MonthStart(n)
        <5>1. CASE 12 * y + 12 < n  BY <1>2, <3>2, <3>3, <5>1, MonthsInOrder
        <5> QED  BY <3>3, <4>1, <5>1
      <4> HIDE DEF a, b
      <4> QED  BY <1>2, <2>1, <3>1, <3>3, <4>2, SMT
    <3>6. n \div 12 = y  BY <1>2, <2>2, <3>4, <3>5, SMT
    <3> QED  BY <1>4, <2>6, <3>6
  <2> QED  BY <2>3, <2>4, <2>5, <2>6 DEF Periods
<1> QED  BY <1>5, <1>6, <1>7

\* The record of a day at midnight.
Midnight(m, x) == [month |-> m, day |-> x, hour |-> 0]

\* What the calendar says of a midnight.
LEMMA MidnightIs ==
  ASSUME NEW b \in Nat, InCalendar(24 * b)
  PROVE  /\ MonthAt(24 * b) \in Nat
         /\ MonthStart(MonthAt(24 * b)) <= b /\ b < MonthStart(MonthAt(24 * b) + 1)
         /\ Civil(24 * b) = Midnight(MonthAt(24 * b), b - MonthStart(MonthAt(24 * b)) + 1)
<1>1. (24 * b) \div 24 = b /\ (24 * b) % 24 = 0  BY SMT
<1> QED  BY <1>1, CivilIs DEF Midnight

\* The hours of a period's beginning are in the calendar.
LEMMA BeginIn ==
  ASSUME NEW l, InCalendar(l), NEW b \in Int, 0 <= b, 24 * b <= l
  PROVE  InCalendar(24 * b)
<1>1. l \in Nat  BY CivilIs
<1>2. (24 * b) \div 24 = b /\ b <= l \div 24 /\ l \div 24 \in Nat /\ 24 * b \in Int /\ 0 <= 24 * b  BY <1>1, SMT
<1>3. l \div 24 < MonthStart(Months) /\ MonthStart(Months) \in Int
  BY MonthStartInt, MonthsAssumption DEF InCalendar
<1> QED  BY <1>2, <1>3, SMT DEF InCalendar

\* Moving a midnight by days, or the first day of a month by months.
LEMMA Shifts ==
  \A m, x, k :
         /\ ShiftCalendar(Midnight(m, x), "day", k) = Civil(24 * (MonthStart(m) + (x + k) - 1) + 0)
         /\ ShiftCalendar(Midnight(m, x), "week", k) = Civil(24 * (MonthStart(m) + (x + 7 * k) - 1) + 0)
         /\ ShiftCalendar(Midnight(m, x), "month", k) = Civil(24 * (MonthStart(m + k) + x - 1) + 0)
         /\ ShiftCalendar(Midnight(m, x), "year", k) = Civil(24 * (MonthStart(m + 12 * k) + x - 1) + 0)
<1> TAKE m, x, k
<1> DEFINE r == Midnight(m, x)
<1>0. [r EXCEPT !.hour = 0] = r  BY DEF Midnight
<1>1. /\ [r EXCEPT !.day = @ + k] = Midnight(m, x + k)
      /\ [r EXCEPT !.day = @ + 7 * k] = Midnight(m, x + 7 * k)
      /\ [r EXCEPT !.month = @ + k] = Midnight(m + k, x)
      /\ [r EXCEPT !.month = @ + 12 * k] = Midnight(m + 12 * k, x)
  BY DEF Midnight
<1> HIDE DEF r
<1>2. /\ ShiftCalendar(r, "day", k) = Civil(UTC(Midnight(m, x + k)))
      /\ ShiftCalendar(r, "week", k) = Civil(UTC(Midnight(m, x + 7 * k)))
      /\ ShiftCalendar(r, "month", k) = Civil(UTC(Midnight(m + k, x)))
      /\ ShiftCalendar(r, "year", k) = Civil(UTC(Midnight(m + 12 * k, x)))
  BY <1>0, <1>1, Zenon DEF ShiftCalendar
<1>3. \A i, j : UTC(Midnight(i, j)) = 24 * (MonthStart(i) + j - 1) + 0
  BY Zenon DEF UTC, Midnight
<1> QED  BY <1>2, <1>3, Zenon DEF r

\* periodStart is the beginning of the period.
LEMMA StartIs ==
  ASSUME NEW z, NEW a \in Int, InCalendar(a + Offset(z, a)), NEW p \in Periods
  PROVE  PeriodStart(p, a, z) = Civil(Begin(p, a + Offset(z, a)))
<1> DEFINE l == a + Offset(z, a)
           d == l \div 24
           m == MonthAt(l)
           y == m \div 12
           x == d - MonthStart(m) + 1
           weekday == (UTC(Midnight(m, x)) \div 24 + 1) % 7
<1> SUFFICES PeriodStart(p, a, z) = Civil(Begin(p, l))  OBVIOUS
<1>0. InCalendar(l)  OBVIOUS
<1>1. [Civil(l) EXCEPT !.hour = 0] = Midnight(m, x)
  <2>1. Civil(l) = [month |-> m, day |-> x, hour |-> l % 24]  BY CivilIs
  <2> QED  BY <2>1 DEF Midnight
<1>2. PeriodStart(p, a, z) =
        CASE p = "day"   -> Midnight(m, x)
          [] p = "week"  -> ShiftCalendar(Midnight(m, x), "day", -((weekday + 6) % 7))
          [] p = "month" -> [Midnight(m, x) EXCEPT !.day = 1]
          [] p = "year"  -> [[Midnight(m, x) EXCEPT !.day = 1] EXCEPT !.month = @ - (@ % 12)]
  BY <1>1, Zenon DEF PeriodStart, CalendarParts
<1> HIDE DEF l
<1>3. l \in Nat /\ d \in Nat /\ m \in Nat /\ MonthStart(m) <= d /\ d < MonthStart(m + 1)
  BY <1>0, CivilIs
<1>4. /\ Begin("day", l) = 24 * d /\ Begin("week", l) = 24 * (7 * (d \div 7))
      /\ Begin("month", l) = 24 * MonthStart(m) /\ Begin("year", l) = 24 * MonthStart(12 * y)
  BY DEF Begin
<1>5. PICK b \in Int : Begin(p, l) = 24 * b /\ 24 * b <= l /\ 0 <= b  BY <1>0, PeriodHolds
<1>6. b \in Nat /\ InCalendar(24 * b)  BY <1>0, <1>5, BeginIn
<1>7. Civil(24 * b) = Midnight(MonthAt(24 * b), b - MonthStart(MonthAt(24 * b)) + 1)
  BY <1>6, MidnightIs
<1>8. (24 * b) \div 24 = b  BY <1>5, SMT
<1>9. MonthStart(m) \in Int /\ x \in Int /\ x = d - MonthStart(m) + 1  BY <1>3, MonthLength
<1> HIDE DEF d, m, x
<1>10. CASE p = "day"
  <2>1. b = d  BY <1>3, <1>4, <1>5, <1>10, SMT
  <2>2. MonthAt(24 * b) = m  BY <1>3, <1>6, <1>8, <2>1, MonthIs
  <2> QED  BY <1>2, <1>5, <1>7, <1>9, <1>10, <2>1, <2>2
<1>11. CASE p = "week"
  <2>1. b = 7 * (d \div 7)  BY <1>3, <1>4, <1>5, <1>11, SMT
  <2>2. UTC(Midnight(m, x)) = 24 * d
    <3>1. UTC(Midnight(m, x)) = 24 * (MonthStart(m) + x - 1) + 0  BY Zenon DEF UTC, Midnight
    <3> QED  BY <1>3, <1>9, <3>1, SMT
  <2>3. weekday = (d + 1) % 7  BY <1>3, <2>2, SMT
  <2> HIDE DEF weekday
  <2>4. -((weekday + 6) % 7) \in Int /\ d + (-((weekday + 6) % 7)) = b  BY <1>3, <2>1, <2>3, SMT
  <2> DEFINE s == -((weekday + 6) % 7)
  <2>5. s \in Int /\ d + s = b  BY <2>4
  <2>6. PeriodStart(p, a, z) = ShiftCalendar(Midnight(m, x), "day", s)  BY <1>2, <1>11
  <2> HIDE DEF s
  <2>7. m \in Int  BY <1>3
  <2>8. ShiftCalendar(Midnight(m, x), "day", s) = Civil(24 * (MonthStart(m) + (x + s) - 1) + 0)
    BY Shifts
  <2>9. MonthStart(m) + (x + s) - 1 = b
    <3> DEFINE f == MonthStart(m)
    <3>1. f \in Int /\ x \in Int /\ x = d - f + 1 /\ d \in Int  BY <1>3, <1>9
    <3> HIDE DEF f
    <3>2. f + (x + s) - 1 = d + s  BY <2>5, <3>1, SMT
    <3> QED  BY <2>5, <3>2 DEF f
  <2>10. 24 * b + 0 = 24 * b  BY SMT
  <2> QED  BY <1>5, <2>6, <2>8, <2>9, <2>10
<1>12. CASE p = "month"
  <2>1. b = MonthStart(m)  BY <1>4, <1>5, <1>9, <1>12, SMT
  <2>2. MonthStart(m) <= b /\ b < MonthStart(m + 1)
    <3>1. MonthStart(m + 1) - MonthStart(m) \in 28 .. 31 /\ MonthStart(m + 1) \in Int  BY <1>3, MonthLength
    <3> QED  BY <1>9, <2>1, <3>1, SMT
  <2>3. MonthAt(24 * b) = m  BY <1>3, <1>6, <1>8, <2>2, MonthIs
  <2>4. b - MonthStart(m) + 1 = 1  BY <1>9, <2>1, SMT
  <2>5. [Midnight(m, x) EXCEPT !.day = 1] = Midnight(m, 1)  BY DEF Midnight
  <2> QED  BY <1>2, <1>5, <1>7, <1>12, <2>3, <2>4, <2>5
<1>13. CASE p = "year"
  <2>1. y \in Nat /\ 12 * y \in Nat /\ m - (m % 12) = 12 * y  BY <1>3, SMT
  <2> HIDE DEF y
  <2>2. MonthStart(12 * y) \in Int /\ MonthStart(12 * y + 1) \in Int
        /\ MonthStart(12 * y + 1) - MonthStart(12 * y) \in 28 .. 31
    BY <2>1, MonthLength
  <2>3. b = MonthStart(12 * y)  BY <1>4, <1>5, <1>13, <2>2, SMT
  <2>4. MonthStart(12 * y) <= b /\ b < MonthStart(12 * y + 1)  BY <2>2, <2>3, SMT
  <2>5. MonthAt(24 * b) = 12 * y  BY <1>6, <1>8, <2>1, <2>4, MonthIs
  <2>6. b - MonthStart(12 * y) + 1 = 1  BY <2>2, <2>3, SMT
  <2>7. [[Midnight(m, x) EXCEPT !.day = 1] EXCEPT !.month = @ - (@ % 12)] = Midnight(m - (m % 12), 1)
    <3>1. [Midnight(m, x) EXCEPT !.day = 1] = Midnight(m, 1)  BY DEF Midnight
    <3>2. \A i : [Midnight(m, 1) EXCEPT !.month = i] = Midnight(i, 1)  BY DEF Midnight
    <3>3. Midnight(m, 1).month = m  BY DEF Midnight
    <3> QED  BY <3>1, <3>2, <3>3
  <2> QED  BY <1>2, <1>5, <1>7, <1>13, <2>1, <2>5, <2>6, <2>7
<1> QED  BY <1>10, <1>11, <1>12, <1>13 DEF Periods

\* The calendar knows the hours between two that it knows.
LEMMA Between ==
  ASSUME NEW u, NEW v, InCalendar(u), InCalendar(v), NEW h \in Int, u <= h, h <= v
  PROVE  InCalendar(h)
<1>1. u \in Int /\ v \in Int /\ 0 <= u /\ v \div 24 < MonthStart(Months)  BY DEF InCalendar
<1>2. MonthStart(Months) \in Int  BY MonthStartInt, MonthsAssumption
<1>3. 0 <= h /\ h \div 24 <= v \div 24 /\ h \div 24 \in Int /\ v \div 24 \in Int
  BY <1>1, SMT
<1> QED  BY <1>1, <1>2, <1>3, SMT DEF InCalendar

\* The periods next to one.
LEMMA Neighbours ==
  ASSUME NEW l, InCalendar(l), NEW p \in Periods,
         InCalendar(Begin(p, l) - 1), InCalendar(End(p, l))
  PROVE  /\ ShiftCalendar(Civil(Begin(p, l)), p, 1) = Civil(End(p, l))
         /\ ShiftCalendar(Civil(Begin(p, l)), p, -1) = Civil(Begin(p, Begin(p, l) - 1))
         /\ End(p, Begin(p, l) - 1) = Begin(p, l)
<1> DEFINE d == l \div 24
           m == MonthAt(l)
           y == m \div 12
           c == Begin(p, l) - 1
<1>1. l \in Nat /\ d \in Nat /\ m \in Nat  BY CivilIs
<1>2. /\ Begin("day", l) = 24 * d /\ Begin("week", l) = 24 * (7 * (d \div 7))
      /\ Begin("month", l) = 24 * MonthStart(m) /\ Begin("year", l) = 24 * MonthStart(12 * y)
      /\ End("day", l) = 24 * (d + 1) /\ End("week", l) = 24 * (7 * (d \div 7) + 7)
      /\ End("month", l) = 24 * MonthStart(m + 1)
      /\ End("year", l) = 24 * MonthStart(12 * y + 12)
  BY DEF Begin, End
<1> HIDE DEF d, m
<1>3. PICK b \in Int, e \in Int : Begin(p, l) = 24 * b /\ End(p, l) = 24 * e /\ 24 * b <= l /\ 0 <= b
  BY PeriodHolds
<1>4. b \in Nat /\ InCalendar(24 * b)  BY <1>3, BeginIn
<1>5. c \in Nat /\ b \in Nat /\ c = 24 * b - 1 /\ c \div 24 = b - 1 /\ b - 1 \in Nat
  <2>1. c = 24 * b - 1 /\ 0 <= c  BY <1>3 DEF InCalendar
  <2> QED  BY <1>3, <2>1, SMT
<1>6. InCalendar(c)  OBVIOUS
<1> DEFINE n == MonthAt(24 * b)
           x == b - MonthStart(n) + 1
<1>7. n \in Nat /\ MonthStart(n) <= b /\ b < MonthStart(n + 1) /\ Civil(24 * b) = Midnight(n, x)
  BY <1>4, MidnightIs
<1>8. MonthStart(n) \in Int /\ x \in Int /\ x = b - MonthStart(n) + 1  BY <1>7, MonthLength
<1>9. (24 * b) \div 24 = b  BY <1>4, SMT
<1>10. /\ Begin("day", c) = 24 * (b - 1) /\ Begin("week", c) = 24 * (7 * ((b - 1) \div 7))
       /\ Begin("month", c) = 24 * MonthStart(MonthAt(c))
       /\ Begin("year", c) = 24 * MonthStart(12 * (MonthAt(c) \div 12))
       /\ End("day", c) = 24 * ((b - 1) + 1) /\ End("week", c) = 24 * (7 * ((b - 1) \div 7) + 7)
       /\ End("month", c) = 24 * MonthStart(MonthAt(c) + 1)
       /\ End("year", c) = 24 * MonthStart(12 * (MonthAt(c) \div 12) + 12)
  BY <1>5 DEF Begin, End
<1> SUFFICES /\ ShiftCalendar(Midnight(n, x), p, 1) = Civil(24 * e)
             /\ ShiftCalendar(Midnight(n, x), p, -1) = Civil(Begin(p, c))
             /\ End(p, c) = 24 * b
  BY <1>3, <1>7
<1> HIDE DEF c, n, x
<1>11. CASE p = "day"
  <2>1. e = b + 1  BY <1>1, <1>2, <1>3, <1>11, SMT
  <2>2. /\ 24 * (MonthStart(n) + (x + 1) - 1) + 0 = 24 * e
        /\ 24 * (MonthStart(n) + (x + (-1)) - 1) + 0 = 24 * (b - 1)
        /\ 24 * ((b - 1) + 1) = 24 * b
    BY <1>3, <1>8, <2>1, SMT
  <2>3. Begin(p, c) = 24 * (b - 1) /\ End(p, c) = 24 * ((b - 1) + 1)  BY <1>10, <1>11
  <2>4. /\ ShiftCalendar(Midnight(n, x), p, 1) = Civil(24 * (MonthStart(n) + (x + 1) - 1) + 0)
        /\ ShiftCalendar(Midnight(n, x), p, -1) = Civil(24 * (MonthStart(n) + (x + (-1)) - 1) + 0)
    BY <1>11, Shifts
  <2> QED  BY <2>2, <2>3, <2>4
<1>12. CASE p = "week"
  <2>1. b = 7 * (d \div 7) /\ e = b + 7  BY <1>1, <1>2, <1>3, <1>12, SMT
  <2>2. 7 * ((b - 1) \div 7) = b - 7  BY <1>1, <1>5, <2>1, SMT
  <2>3. /\ 24 * (MonthStart(n) + (x + 7 * 1) - 1) + 0 = 24 * e
        /\ 24 * (MonthStart(n) + (x + 7 * (-1)) - 1) + 0 = 24 * (b - 7)
        /\ 24 * ((b - 7) + 7) = 24 * b
    BY <1>3, <1>8, <2>1, SMT
  <2>4. Begin(p, c) = 24 * (b - 7) /\ End(p, c) = 24 * ((b - 7) + 7)  BY <1>10, <1>12, <2>2
  <2>5. /\ ShiftCalendar(Midnight(n, x), p, 1) = Civil(24 * (MonthStart(n) + (x + 7 * 1) - 1) + 0)
        /\ ShiftCalendar(Midnight(n, x), p, -1) = Civil(24 * (MonthStart(n) + (x + 7 * (-1)) - 1) + 0)
    BY <1>12, Shifts
  <2> QED  BY <2>3, <2>4, <2>5
<1>13. CASE p = "month"
  <2>1. MonthStart(m) \in Int /\ MonthStart(m + 1) \in Int /\ MonthStart(m + 1) - MonthStart(m) \in 28 .. 31
    BY <1>1, MonthLength
  <2>2. b = MonthStart(m) /\ e = MonthStart(m + 1)  BY <1>2, <1>3, <1>13, <2>1, SMT
  <2>3. MonthStart(m) <= b /\ b < MonthStart(m + 1)  BY <2>1, <2>2, SMT
  <2>4. n = m  BY <1>1, <1>4, <1>9, <2>3, MonthIs DEF n
  <2>5. x = 1  BY <1>8, <2>2, <2>4, SMT
  <2>6. m # 0  BY <1>5, <2>2, FirstMonth
  <2>7. m - 1 \in Nat /\ (m - 1) + 1 = m /\ m + (-1) = m - 1  BY <1>1, <2>6, SMT
  <2>8. MonthStart(m - 1) \in Int /\ MonthStart(m) - MonthStart(m - 1) \in 28 .. 31
    BY <2>7, MonthLength
  <2>9. MonthStart(m - 1) <= c \div 24 /\ c \div 24 < MonthStart((m - 1) + 1)
    BY <1>5, <2>2, <2>7, <2>8, SMT
  <2>10. MonthAt(c) = m - 1  BY <1>6, <2>7, <2>9, MonthIs DEF c
  <2>11. Begin(p, c) = 24 * MonthStart(m - 1) /\ End(p, c) = 24 * b
    BY <1>10, <1>13, <2>2, <2>7, <2>10
  <2>12. /\ ShiftCalendar(Midnight(n, x), p, 1) = Civil(24 * (MonthStart(m + 1) + 1 - 1) + 0)
         /\ ShiftCalendar(Midnight(n, x), p, -1) = Civil(24 * (MonthStart(m - 1) + 1 - 1) + 0)
    <3>1. /\ ShiftCalendar(Midnight(m, 1), "month", 1) = Civil(24 * (MonthStart(m + 1) + 1 - 1) + 0)
          /\ ShiftCalendar(Midnight(m, 1), "month", -1) = Civil(24 * (MonthStart(m + (-1)) + 1 - 1) + 0)
      BY Shifts
    <3> QED  BY <1>13, <2>4, <2>5, <2>7, <3>1
  <2>13. /\ 24 * (MonthStart(m + 1) + 1 - 1) + 0 = 24 * e
         /\ 24 * (MonthStart(m - 1) + 1 - 1) + 0 = 24 * MonthStart(m - 1)
    BY <2>1, <2>2, <2>8, SMT
  <2> QED  BY <2>11, <2>12, <2>13
<1>14. CASE p = "year"
  <2>1. y \in Nat  BY <1>1, SMT
  <2> HIDE DEF y
  <2> DEFINE g == 12 * y
  <2>2. g \in Nat /\ g + 12 \in Nat /\ 12 * y = g  BY <2>1
  <2>3. Begin(p, l) = 24 * MonthStart(g) /\ End(p, l) = 24 * MonthStart(g + 12)  BY <1>2, <1>14
  <2> HIDE DEF g
  <2>4. /\ MonthStart(g) \in Int /\ MonthStart(g + 1) \in Int /\ MonthStart(g + 12) \in Int
        /\ MonthStart(g + 1) - MonthStart(g) \in 28 .. 31
    BY <2>2, MonthLength
  <2>5. b = MonthStart(g) /\ e = MonthStart(g + 12)
    <3> DEFINE i == MonthStart(g)
               j == MonthStart(g + 12)
    <3>1. i \in Int /\ j \in Int /\ 24 * b = 24 * i /\ 24 * e = 24 * j  BY <1>3, <2>3, <2>4
    <3> HIDE DEF i, j
    <3>2. b = i /\ e = j  BY <1>3, <3>1, SMT
    <3> QED  BY <3>2 DEF i, j
  <2>6. MonthStart(g) <= b /\ b < MonthStart(g + 1)  BY <2>4, <2>5, SMT
  <2>7. n = g  BY <1>4, <1>9, <2>2, <2>6, MonthIs DEF n
  <2>8. x = 1  BY <1>8, <2>5, <2>7, SMT
  <2>9. g # 0  BY <1>5, <2>5, FirstMonth
  <2>10. y # 0  BY <2>2, <2>9
  <2>11. g - 1 \in Nat /\ (g - 1) + 1 = g /\ g - 12 \in Nat /\ (g - 12) + 12 = g
         /\ 12 * ((g - 1) \div 12) = g - 12 /\ g + 12 * 1 = g + 12 /\ g + 12 * (-1) = g - 12
    BY <2>1, <2>2, <2>10, SMT
  <2>12. MonthStart(g - 1) \in Int /\ MonthStart(g) - MonthStart(g - 1) \in 28 .. 31
         /\ MonthStart(g - 12) \in Int
    BY <2>11, MonthLength
  <2>13. MonthStart(g - 1) <= c \div 24 /\ c \div 24 < MonthStart((g - 1) + 1)
    BY <1>5, <2>5, <2>11, <2>12, SMT
  <2>14. MonthAt(c) = g - 1  BY <1>6, <2>11, <2>13, MonthIs DEF c
  <2>15. Begin(p, c) = 24 * MonthStart(g - 12) /\ End(p, c) = 24 * b
    BY <1>10, <1>14, <2>5, <2>11, <2>14
  <2>16. /\ ShiftCalendar(Midnight(n, x), p, 1) = Civil(24 * (MonthStart(g + 12) + 1 - 1) + 0)
         /\ ShiftCalendar(Midnight(n, x), p, -1) = Civil(24 * (MonthStart(g - 12) + 1 - 1) + 0)
    <3>1. /\ ShiftCalendar(Midnight(g, 1), "year", 1) = Civil(24 * (MonthStart(g + 12 * 1) + 1 - 1) + 0)
          /\ ShiftCalendar(Midnight(g, 1), "year", -1) = Civil(24 * (MonthStart(g + 12 * (-1)) + 1 - 1) + 0)
      BY Shifts
    <3> QED  BY <1>14, <2>7, <2>8, <2>11, <3>1
  <2>17. /\ 24 * (MonthStart(g + 12) + 1 - 1) + 0 = 24 * e
         /\ 24 * (MonthStart(g - 12) + 1 - 1) + 0 = 24 * MonthStart(g - 12)
    BY <2>4, <2>5, <2>12, SMT
  <2> QED  BY <2>15, <2>16, <2>17
<1> QED  BY <1>11, <1>12, <1>13, <1>14 DEF Periods

-----------------------------------------------------------------------------
(* Periods of the page *)

\* The instant of a local time.
Instant(h, z) == ZonedCalendarToDate(Civil(h), z)

\* What the corrections give for a time inside the calendar.
LEMMA InstantIs ==
  ASSUME NEW z \in Zones, NEW h \in Int, InCalendar(h - 48), InCalendar(h + 48)
  PROVE  /\ Instant(h, z) \in Int /\ Instant(h, z) \in {h - z.before, h - z.after}
         /\ (\E x \in Int : x + Offset(z, x) = h) => Instant(h, z) + Offset(z, Instant(h, z)) = h
         /\ ~(\E x \in Int : x + Offset(z, x) = h) => Instant(h, z) = h - Offset(z, h)
         /\ (h - Offset(z, h)) + Offset(z, h - Offset(z, h)) = h => Instant(h, z) = h - Offset(z, h)
<1> DEFINE parts == Civil(h)
<1>1. z.at \in Int /\ z.before \in -24 .. 24 /\ z.after \in -24 .. 24
  BY HistoryAssumption
<1>2. ASSUME NEW g \in Int, h - 48 <= g, g <= h + 48 PROVE InCalendar(g)
  BY <1>2, Between
<1>3. UTC(parts) = h
  <2>1. h - 48 <= h /\ h <= h + 48  BY SMT
  <2> QED  BY <1>2, <2>1, CivilBack
<1>4. Surveyed(h, z)
  <2>1. SUFFICES ASSUME NEW o \in {z.before, z.after}, NEW q \in {z.before, z.after}
                 PROVE  InCalendar(h + o) /\ InCalendar(h - o + q)
    BY DEF Surveyed
  <2>2. o \in -24 .. 24 /\ q \in -24 .. 24  BY <1>1, <2>1
  <2>3. /\ h + o \in Int /\ h - 48 <= h + o /\ h + o <= h + 48
        /\ h - o + q \in Int /\ h - 48 <= h - o + q /\ h - o + q <= h + 48
    BY <2>2, SMT
  <2> QED  BY <1>2, <2>3
<1>5. z.before \in Int /\ z.after \in Int /\ UTC(parts) \in Int /\ Surveyed(UTC(parts), z)
  BY <1>1, <1>3, <1>4
<1> HIDE DEF parts
<1> DEFINE t == ZonedCalendarToDate(parts, z)
<1>6. /\ t \in {UTC(parts) - z.before, UTC(parts) - z.after}
      /\ (\E x \in Int : x + Offset(z, x) = UTC(parts)) => t + Offset(z, t) = UTC(parts)
      /\ ~(\E x \in Int : x + Offset(z, x) = UTC(parts)) => t = UTC(parts) - Offset(z, UTC(parts))
      /\ (UTC(parts) - Offset(z, UTC(parts))) + Offset(z, UTC(parts) - Offset(z, UTC(parts))) = UTC(parts)
           => t = UTC(parts) - Offset(z, UTC(parts))
  BY <1>1, <1>5, CorrectionsSuffice
<1>7. t = Instant(h, z)  BY DEF Instant, parts
<1> HIDE DEF t
<1>8. h - z.before \in Int /\ h - z.after \in Int  BY <1>5, SMT
<1> QED  BY <1>3, <1>6, <1>7, <1>8

\* The period that getPeriodRange computes for a local time.
PeriodOf(p, l, z) ==
  [period |-> p, resolution |-> Resolution(p),
   from |-> Instant(Begin(p, l), z), to |-> Instant(End(p, l), z),
   previousFrom |-> Instant(Begin(p, Begin(p, l) - 1), z),
   previousTo |-> Instant(Begin(p, l), z)]

\* getPeriodRange computes it.
LEMMA RangeIs ==
  ASSUME NEW z, NEW a \in Int, NEW p \in Periods, NEW l, l = a + Offset(z, a), InCalendar(l),
         InCalendar(Begin(p, l) - 1), InCalendar(End(p, l))
  PROVE  GetPeriodRange(p, a, z) = PeriodOf(p, l, z)
<1>1. PeriodStart(p, a, z) = Civil(Begin(p, l))  BY StartIs
<1>2. /\ ShiftCalendar(Civil(Begin(p, l)), p, 1) = Civil(End(p, l))
      /\ ShiftCalendar(Civil(Begin(p, l)), p, -1) = Civil(Begin(p, Begin(p, l) - 1))
  BY Neighbours
<1> QED  BY <1>1, <1>2, Zenon DEF GetPeriodRange, PeriodOf, Instant

\* A day to a year, in hours; a local midnight; where the calendar is known
\* from a local time to another, with two days to spare.
Spans == 24 .. 8784
AtMidnight(h) == h % 24 = 0
Known(f, e) == \A h \in Int : f - 48 <= h /\ h <= e + 48 => InCalendar(h) /\ 48 <= h

\* Where the period of an instant inside the calendar, and the one before, lie.
Surroundings(p, l, b, e, f) ==
  /\ b = Begin(p, l) /\ e = End(p, l) /\ f = Begin(p, b - 1) /\ End(p, b - 1) = b
  /\ l \in Int /\ b <= l /\ l < e /\ e - b \in Spans /\ b - f \in Spans
  /\ AtMidnight(b) /\ AtMidnight(e) /\ AtMidnight(f) /\ (p = "day" => e - b = 24)
  /\ Known(f, e)

\* Two years suffice for them.
LEMMA Surrounded ==
  ASSUME NEW z \in Zones, NEW a, Inside(a), NEW p \in Periods
  PROVE  \E b, e, f \in Int : Surroundings(p, a + Offset(z, a), b, e, f)
<1> DEFINE l == a + Offset(z, a)
<1>1. z.before \in -24 .. 24 /\ z.after \in -24 .. 24  BY HistoryAssumption
<1>2. a \in Int /\ Offset(z, a) \in -24 .. 24  BY <1>1 DEF Inside, Offset
<1>3. l \in Int /\ a - 24 <= l /\ l <= a + 24  BY <1>2, SMT
<1> HIDE DEF l
<1>4. ASSUME NEW h \in Int, a - 17760 <= h, h <= a + 17760 PROVE InCalendar(h)
  <2>1. InCalendar(a - 17760) /\ InCalendar(a + 17760)
    <3>1. 24 * 740 = 17760  BY SMT
    <3> QED  BY <3>1 DEF Inside
  <2> QED  BY <1>4, <2>1, Between
<1>5. InCalendar(l)
  <2>1. a - 17760 <= l /\ l <= a + 17760  BY <1>2, <1>3, SMT
  <2> QED  BY <1>3, <1>4, <2>1
<1>6. PICK b \in Int, e \in Int :
        /\ Begin(p, l) = 24 * b /\ End(p, l) = 24 * e
        /\ 24 * b <= l /\ l < 24 * e /\ e - b \in 1 .. 366 /\ 0 <= b
        /\ p = "day" => e - b = 1
  BY <1>5, PeriodHolds
<1>7. InCalendar(24 * b - 1) /\ InCalendar(24 * e)
  <2>1. /\ 24 * b - 1 \in Int /\ a - 17760 <= 24 * b - 1 /\ 24 * b - 1 <= a + 17760
        /\ 24 * e \in Int /\ a - 17760 <= 24 * e /\ 24 * e <= a + 17760
    BY <1>2, <1>3, <1>6, SMT
  <2> QED  BY <1>4, <2>1
<1>8. End(p, 24 * b - 1) = 24 * b  BY <1>5, <1>6, <1>7, Neighbours
<1>9. PICK f \in Int, g \in Int :
        /\ Begin(p, 24 * b - 1) = 24 * f /\ End(p, 24 * b - 1) = 24 * g /\ g - f \in 1 .. 366
  BY <1>7, PeriodHolds
<1>10. g = b  BY <1>6, <1>8, <1>9, SMT
<1>11. ASSUME NEW h \in Int, 24 * f - 48 <= h, h <= 24 * e + 48 PROVE InCalendar(h) /\ 48 <= h
  <2>1. a - 17760 <= h - 48 /\ h - 48 <= a + 17760 /\ h - 48 \in Int
        /\ a - 17760 <= h /\ h <= a + 17760
    BY <1>2, <1>3, <1>6, <1>9, <1>10, <1>11, SMT
  <2>2. InCalendar(h - 48) /\ InCalendar(h)  BY <1>4, <2>1
  <2> QED  BY <2>2, SMT DEF InCalendar
<1>12. /\ 24 * b \in Int /\ 24 * e \in Int /\ 24 * f \in Int
       /\ 24 * e - 24 * b \in Spans /\ 24 * b - 24 * f \in Spans
       /\ AtMidnight(24 * b) /\ AtMidnight(24 * e) /\ AtMidnight(24 * f)
       /\ p = "day" => 24 * e - 24 * b = 24
  BY <1>6, <1>9, <1>10, SMT DEF Spans, AtMidnight
<1> DEFINE B == 24 * b
           E == 24 * e
           F == 24 * f
<1>13. /\ B \in Int /\ E \in Int /\ F \in Int /\ E - B \in Spans /\ B - F \in Spans
       /\ AtMidnight(B) /\ AtMidnight(E) /\ AtMidnight(F) /\ (p = "day" => E - B = 24)
  BY <1>12
<1>14. B = Begin(p, l) /\ E = End(p, l) /\ F = Begin(p, B - 1) /\ End(p, B - 1) = B
       /\ B <= l /\ l < E
  BY <1>6, <1>8, <1>9
<1>15. Known(F, E)  BY <1>11 DEF Known
<1> HIDE DEF B, E, F
<1>16. Surroundings(p, l, B, E, F)
  BY <1>3, <1>13, <1>14, <1>15, Zenon DEF Surroundings
<1> QED  BY <1>13, <1>16 DEF l

\* getPeriodRange, inside the calendar.
LEMMA PeriodFound ==
  ASSUME NEW z \in Zones, NEW a \in Int, NEW p \in Periods, NEW l, l = a + Offset(z, a),
         NEW b \in Int, NEW e \in Int, NEW f \in Int, Surroundings(p, l, b, e, f)
  PROVE  /\ InCalendar(l)
         /\ GetPeriodRange(p, a, z) =
              [period |-> p, resolution |-> Resolution(p), from |-> Instant(b, z),
               to |-> Instant(e, z), previousFrom |-> Instant(f, z),
               previousTo |-> Instant(b, z)]
<1>1. b = Begin(p, l) /\ e = End(p, l) /\ f = Begin(p, b - 1)  BY Zenon DEF Surroundings
<1>2. l \in Int /\ b <= l /\ l < e /\ e - b \in Spans /\ b - f \in Spans /\ Known(f, e)
  BY Zenon DEF Surroundings
<1>3. /\ b - 1 \in Int /\ f - 48 <= b - 1 /\ b - 1 <= e + 48
      /\ f - 48 <= e /\ e <= e + 48 /\ f - 48 <= l /\ l <= e + 48
  BY <1>2, SMT DEF Spans
<1>4. InCalendar(b - 1) /\ InCalendar(e) /\ InCalendar(l)  BY <1>2, <1>3 DEF Known
<1>5. GetPeriodRange(p, a, z) = PeriodOf(p, l, z)  BY <1>1, <1>4, RangeIs
<1> QED  BY <1>1, <1>4, <1>5, Zenon DEF PeriodOf

\* The ends of a period in universal time.
LEMMA Ends ==
  ASSUME NEW z \in Zones, NEW f \in Int, NEW e \in Int, Known(f, e), NEW h \in Int, f <= h, h <= e
  PROVE  /\ Instant(h, z) \in Nat /\ Instant(h, z) \in {h - z.before, h - z.after}
         /\ (\E x \in Int : x + Offset(z, x) = h) => Instant(h, z) + Offset(z, Instant(h, z)) = h
         /\ ~(\E x \in Int : x + Offset(z, x) = h) => Instant(h, z) = h - Offset(z, h)
         /\ (h - Offset(z, h)) + Offset(z, h - Offset(z, h)) = h => Instant(h, z) = h - Offset(z, h)
<1>1. h - 48 \in Int /\ h + 48 \in Int /\ f - 48 <= h - 48 /\ h - 48 <= e + 48
      /\ f - 48 <= h + 48 /\ h + 48 <= e + 48
  BY SMT
<1>2. InCalendar(h - 48) /\ InCalendar(h + 48) /\ 48 <= h - 48  BY <1>1 DEF Known
<1>3. /\ Instant(h, z) \in Int /\ Instant(h, z) \in {h - z.before, h - z.after}
      /\ (\E x \in Int : x + Offset(z, x) = h) => Instant(h, z) + Offset(z, Instant(h, z)) = h
      /\ ~(\E x \in Int : x + Offset(z, x) = h) => Instant(h, z) = h - Offset(z, h)
      /\ (h - Offset(z, h)) + Offset(z, h - Offset(z, h)) = h => Instant(h, z) = h - Offset(z, h)
  BY <1>2, InstantIs
<1>4. z.before \in -24 .. 24 /\ z.after \in -24 .. 24  BY HistoryAssumption
<1>5. h - z.before \in Nat /\ h - z.after \in Nat  BY <1>2, <1>4, SMT
<1> QED  BY <1>3, <1>5

\* The local time of an instant of the period names it.
LEMMA Recognised ==
  ASSUME NEW z \in Zones, NEW p \in Periods, NEW l, NEW b \in Int, NEW e \in Int, NEW f \in Int,
         Surroundings(p, l, b, e, f), NEW k \in Int, b <= k, k < e
  PROVE  Surroundings(p, k, b, e, f) /\ LabelAt(p, k) = LabelAt(p, l)
<1>1. /\ b = Begin(p, l) /\ e = End(p, l) /\ f = Begin(p, b - 1) /\ End(p, b - 1) = b
      /\ l \in Int /\ b <= l /\ l < e /\ e - b \in Spans /\ b - f \in Spans
      /\ AtMidnight(b) /\ AtMidnight(e) /\ AtMidnight(f) /\ (p = "day" => e - b = 24)
      /\ Known(f, e)
  BY Zenon DEF Surroundings
<1>2. f - 48 <= l /\ l <= e + 48 /\ f - 48 <= k /\ k <= e + 48
  <2>1. l \in Int /\ b <= l /\ l < e /\ b - f \in Spans  BY <1>1
  <2> QED  BY <2>1, SMT DEF Spans
<1>3. InCalendar(l) /\ InCalendar(k)  BY <1>1, <1>2 DEF Known
<1>4. LabelAt(p, k) = LabelAt(p, l)  BY <1>1, <1>3, SamePeriod
<1>5. Begin(p, k) = b /\ End(p, k) = e  BY <1>1, <1>3, <1>4, SamePeriod
<1> QED  BY <1>1, <1>4, <1>5, Zenon DEF Surroundings

\* The address of a period names it: its middle is in the period.
LEMMA AddressNames ==
  ASSUME NEW z \in Zones, NEW a, Inside(a), NEW p \in Periods
  PROVE  /\ GetPeriodRange(p, a, z) \in Ranges
         /\ \A t : ParseHistorySearch(SerializeHistoryRange(GetPeriodRange(p, a, z)), t, z)
                     = GetPeriodRange(p, a, z)
<1> DEFINE l == a + Offset(z, a)
           r == GetPeriodRange(p, a, z)
<1>1. PICK b \in Int, e \in Int, f \in Int : Surroundings(p, l, b, e, f)  BY Surrounded
<1>2. a \in Int  BY DEF Inside
<1> DEFINE i == Instant(b, z)
           j == Instant(e, z)
           k == Instant(f, z)
           s == [period |-> p, from |-> i, to |-> j]
           mid == i + (j - i) \div 2
<1>3. r = [period |-> p, resolution |-> Resolution(p), from |-> i, to |-> j, previousFrom |-> k,
           previousTo |-> i]
  BY <1>1, <1>2, PeriodFound
<1>4. /\ e - b \in Spans /\ b - f \in Spans /\ (p = "day" => e - b = 24) /\ Known(f, e)
  BY <1>1, Zenon DEF Surroundings
<1>5. f <= f /\ f <= b /\ f <= e /\ b <= e /\ e <= e  BY <1>4, SMT DEF Spans
<1>6. /\ i \in Nat /\ i \in {b - z.before, b - z.after}
      /\ j \in Nat /\ j \in {e - z.before, e - z.after} /\ k \in Nat
  BY <1>4, <1>5, Ends
<1> HIDE DEF l, r, i, j, k
<1>7. Resolution(p) \in {"minute", "hour", "day", "month"} /\ (Resolution(p) = "minute" => p = "day")
  BY DEF Resolution, Periods
<1>8. r \in Ranges  BY <1>3, <1>6, <1>7 DEF Ranges
<1>9. SerializeHistoryRange(r) = s  BY <1>3 DEF SerializeHistoryRange
<1>10. /\ z.at \in Int /\ z.before \in -24 .. 24 /\ z.after \in -24 .. 24
       /\ z.after - z.before \in -11 .. 11
  BY HistoryAssumption
<1>11. j - i >= e - b - 11 /\ j - i <= e - b + 11 /\ e - b >= 24 /\ e - b \in Int
  <2> DEFINE o == z.before
             q == z.after
  <2>1. o \in Int /\ q \in Int /\ q - o \in -11 .. 11 /\ i \in {b - o, b - q} /\ j \in {e - o, e - q}
    BY <1>6, <1>10
  <2>2. e - b \in 24 .. 8784  BY <1>4 DEF Spans
  <2> HIDE DEF o, q
  <2> QED  BY <2>1, <2>2, SMT
<1>12. Accepts(s, p)
  <2>1. i # NoDate /\ j # NoDate  BY <1>6, SMT DEF NoDate
  <2>2. i < j  BY <1>6, <1>11, SMT
  <2>3. p = "day" => ~(j - i > 366 * 24)  BY <1>4, <1>6, <1>11, SMT
  <2> QED  BY <1>7, <2>1, <2>2, <2>3 DEF Accepts
<1>13. mid \in Int /\ b <= mid + Offset(z, mid) /\ mid + Offset(z, mid) < e
       /\ mid + Offset(z, mid) \in Int
  <2>1. mid \in Int /\ 2 * mid >= i + j - 1 /\ 2 * mid <= i + j  BY <1>6, SMT
  <2> HIDE DEF mid
  <2>2. Offset(z, mid) \in {z.before, z.after}  BY DEF Offset
  <2> DEFINE o == z.before
             q == z.after
             w == Offset(z, mid)
  <2>3. /\ o \in Int /\ q \in Int /\ q - o \in -11 .. 11 /\ i \in {b - o, b - q} /\ j \in {e - o, e - q}
        /\ w \in {o, q}
    BY <1>6, <1>10, <2>2
  <2> HIDE DEF o, q, w
  <2>4. b <= mid + w /\ mid + w < e /\ mid + w \in Int  BY <1>11, <2>1, <2>3, SMT
  <2> QED  BY <2>1, <2>4 DEF w
<1> HIDE DEF mid
<1>14. Surroundings(p, mid + Offset(z, mid), b, e, f)  BY <1>1, <1>13, Recognised
<1>15. GetPeriodRange(p, mid, z) = r  BY <1>3, <1>13, <1>14, PeriodFound DEF i, j, k
<1>16. ASSUME NEW t PROVE ParseHistorySearch(s, t, z) = r
  BY <1>12, <1>15 DEF ParseHistorySearch, mid
<1> QED  BY <1>8, <1>9, <1>16 DEF r

\* Where the offset does not change at a midnight, or the clocks skip the
\* hour after it west of Greenwich, zonedCalendarToDate finds the first
\* instant of a day.
LEMMA FirstInstant ==
  ASSUME NEW z \in Zones, Regular(z), NEW f \in Int, NEW e \in Int, Known(f, e),
         NEW h \in Int, f <= h, h <= e, AtMidnight(h), NEW t, t = Instant(h, z)
  PROVE  /\ t \in Nat /\ t + Offset(z, t) \in h .. (h + 11)
         /\ (t - 1) + Offset(z, t - 1) \in (h - 12) .. (h - 1)
<1> DEFINE o == z.before
           q == z.after
           c == z.at
           w(x) == Offset(z, x)
           u == c + o
           v == c + q
<1>1. c \in Int /\ o \in Int /\ q \in Int /\ q - o \in -11 .. 11
  BY HistoryAssumption
<1>2. /\ t \in Nat /\ t \in {h - o, h - q}
      /\ (\E x \in Int : x + w(x) = h) => t + w(t) = h
      /\ ~(\E x \in Int : x + w(x) = h) => t = h - w(h)
      /\ (h - w(h)) + w(h - w(h)) = h => t = h - w(h)
  BY Ends
<1>3. \A x \in Int : w(x) = IF x < c THEN o ELSE q  BY DEF Offset
<1>4. (h >= v /\ h < u) \/ (h >= u /\ h < v) => o < 0 /\ q <= o + 1
  <2> SUFFICES ASSUME (h >= v /\ h < u) \/ (h >= u /\ h < v) PROVE o < 0 /\ q <= o + 1
    OBVIOUS
  <2>1. u \in Int /\ v \in Int  BY <1>1
  <2> HIDE DEF u, v
  <2>2. Min({u, v}) = (IF u <= v THEN u ELSE v) /\ Max({u, v}) = (IF u <= v THEN v ELSE u)
    BY <2>1 DEF Min, Max
  <2>3. h \in Min({u, v}) .. (Max({u, v}) - 1)  BY <2>1, <2>2, SMT
  <2>4. MidnightShifts(z)  BY <2>3 DEF MidnightShifts, AtMidnight, u, v
  <2> QED  BY <2>4 DEF Regular
<1> SUFFICES t \in Nat /\ t + w(t) \in h .. (h + 11) /\ (t - 1) + w(t - 1) \in (h - 12) .. (h - 1)
  OBVIOUS
<1> HIDE DEF o, q, c, w
<1>5. CASE h < u /\ h < v
  <2>1. h - o \in Int /\ h - o < c  BY <1>1, <1>5, SMT
  <2>2. (h - o) + w(h - o) = h  BY <1>1, <1>3, <2>1, SMT
  <2>3. t + w(t) = h  BY <1>2, <2>1, <2>2
  <2>4. t < c  BY <1>1, <1>2, <1>5, SMT
  <2>5. w(t - 1) = w(t) /\ t - 1 \in Int  BY <1>1, <1>2, <1>3, <2>4, SMT
  <2> QED  BY <1>1, <1>2, <1>3, <2>3, <2>4, <2>5, SMT
<1>6. CASE h >= u /\ h >= v
  <2>1. h - q \in Int /\ ~(h - q < c)  BY <1>1, <1>6, SMT
  <2>2. (h - q) + w(h - q) = h  BY <1>1, <1>3, <2>1, SMT
  <2>3. t + w(t) = h  BY <1>2, <2>1, <2>2
  <2>4. ~(t < c)
    <3> SUFFICES ASSUME t < c PROVE FALSE  OBVIOUS
    <3>1. w(t) = o  BY <1>2, <1>3
    <3> QED  BY <1>1, <1>2, <1>6, <2>3, <3>1, SMT
  <2>5. w(t) = q  BY <1>2, <1>3, <2>4
  <2>6. t - 1 \in Int /\ (w(t - 1) = q \/ (w(t - 1) = o /\ t = c))  BY <1>1, <1>2, <1>3, <2>4, SMT
  <2>7. CASE w(t - 1) = q  BY <1>1, <1>2, <2>3, <2>5, <2>7, SMT
  <2>8. CASE w(t - 1) = o /\ t = c  BY <1>1, <1>2, <1>6, <2>3, <2>5, <2>8, SMT
  <2> QED  BY <2>6, <2>7, <2>8
<1>7. CASE h >= v /\ h < u
  <2>1. o < 0  BY <1>4, <1>7
  <2>2. h < c /\ h - o < c /\ h - o \in Int  BY <1>1, <1>7, <2>1, SMT
  <2>3. w(h) = o /\ w(h - o) = o  BY <1>3, <2>2
  <2>4. t = h - o  BY <1>1, <1>2, <2>2, <2>3, SMT
  <2>5. t - 1 \in Int /\ t - 1 < c  BY <1>1, <1>2, <2>2, <2>4, SMT
  <2>6. w(t) = o /\ w(t - 1) = o  BY <1>3, <2>3, <2>4, <2>5
  <2> QED  BY <1>1, <1>2, <2>4, <2>6, SMT
<1>8. CASE h >= u /\ h < v
  <2>1. o < 0 /\ q <= o + 1  BY <1>4, <1>8
  <2>2. h = u /\ v = u + 1 /\ h < c /\ q = o + 1  BY <1>1, <1>8, <2>1, SMT
  <2>3. ASSUME NEW x \in Int, x + w(x) = h PROVE FALSE
    BY <1>1, <1>3, <1>8, <2>3, SMT
  <2>4. t = h - o  BY <1>2, <1>3, <2>2, <2>3
  <2>5. t = c  BY <1>1, <2>2, <2>4, SMT
  <2>6. t - 1 \in Int /\ t - 1 < c  BY <1>1, <2>5, SMT
  <2>7. w(t) = q /\ w(t - 1) = o  BY <1>1, <1>3, <2>5, <2>6
  <2> QED  BY <1>1, <1>2, <2>2, <2>4, <2>7, SMT
<1>9. u \in Int /\ v \in Int  BY <1>1
<1> HIDE DEF u, v
<1> QED  BY <1>5, <1>6, <1>7, <1>8, <1>9, SMT

\* The instants of a period and of the one before.
LEMMA Belongs ==
  ASSUME NEW p \in Periods, NEW l, NEW b \in Int, NEW e \in Int, NEW f \in Int,
         Surroundings(p, l, b, e, f), NEW z, NEW t \in Int, NEW k \in Int, k = t + Offset(z, t),
         f - 48 <= k, k <= e + 48
  PROVE  /\ Label(p, t, z) = LabelAt(p, l) <=> b <= k /\ k < e
         /\ Label(p, t, z) = LabelAt(p, b - 1) <=> f <= k /\ k < b
<1>1. /\ b = Begin(p, l) /\ e = End(p, l) /\ f = Begin(p, b - 1) /\ End(p, b - 1) = b
      /\ l \in Int /\ b <= l /\ l < e /\ e - b \in Spans /\ b - f \in Spans /\ Known(f, e)
  BY Zenon DEF Surroundings
<1>2. f - 48 <= l /\ l <= e + 48 /\ b - 1 \in Int /\ f - 48 <= b - 1 /\ b - 1 <= e + 48
  <2>1. l \in Int /\ b <= l /\ l < e /\ b - f \in Spans /\ e - b \in Spans  BY <1>1
  <2> QED  BY <2>1, SMT DEF Spans
<1>3. InCalendar(l) /\ InCalendar(k) /\ InCalendar(b - 1)  BY <1>1, <1>2 DEF Known
<1>4. Label(p, t, z) = LabelAt(p, k)  BY <1>3, LabelIs
<1>5. LabelAt(p, k) = LabelAt(p, l) <=> b <= k /\ k < e  BY <1>1, <1>3, SamePeriod
<1>6. LabelAt(p, k) = LabelAt(p, b - 1) <=> f <= k /\ k < b  BY <1>1, <1>3, SamePeriod
<1> QED  BY <1>4, <1>5, <1>6

\* A period is the local one that holds its anchor.
LEMMA LocalPeriod ==
  ASSUME NEW z \in Zones, Regular(z), NEW a, Inside(a), NEW p \in Periods
  PROVE  /\ IsLocalPeriod(GetPeriodRange(p, a, z), z)
         /\ Label(p, a, z) = Label(p, GetPeriodRange(p, a, z).from, z)
         /\ GetPeriodRange(p, a, z).period = p
<1> DEFINE l == a + Offset(z, a)
           r == GetPeriodRange(p, a, z)
<1>1. PICK b \in Int, e \in Int, f \in Int : Surroundings(p, l, b, e, f)  BY Surrounded
<1>2. a \in Int  BY DEF Inside
<1> DEFINE i == Instant(b, z)
           j == Instant(e, z)
           k == Instant(f, z)
           at(t) == t + Offset(z, t)
           label(t) == Label(p, t, z)
<1>3. r.period = p /\ r.from = i /\ r.to = j /\ r.previousFrom = k
  BY <1>1, <1>2, PeriodFound
<1>4. e - b \in Spans /\ b - f \in Spans /\ Known(f, e) /\ l \in Int /\ b <= l /\ l < e
      /\ AtMidnight(b) /\ AtMidnight(e) /\ AtMidnight(f)
  BY <1>1, Zenon DEF Surroundings
<1>5. f <= f /\ f <= b /\ f <= e /\ b <= e /\ e <= e  BY <1>4, SMT DEF Spans
<1>6. /\ i \in Nat /\ at(i) \in b .. (b + 11) /\ at(i - 1) \in (b - 12) .. (b - 1)
      /\ j \in Nat /\ at(j) \in e .. (e + 11) /\ at(j - 1) \in (e - 12) .. (e - 1)
      /\ k \in Nat /\ at(k) \in f .. (f + 11) /\ at(k - 1) \in (f - 12) .. (f - 1)
  BY <1>4, <1>5, FirstInstant
<1>7. ASSUME NEW t \in Int, at(t) \in Int, f - 48 <= at(t), at(t) <= e + 48
      PROVE  /\ label(t) = LabelAt(p, l) <=> b <= at(t) /\ at(t) < e
             /\ label(t) = LabelAt(p, b - 1) <=> f <= at(t) /\ at(t) < b
  BY <1>1, <1>7, Belongs
<1>8. at(a) = l  OBVIOUS
<1> HIDE DEF i, j, k, at, label, l
<1>9. i \in Int /\ i - 1 \in Int /\ j \in Int /\ j - 1 \in Int /\ k \in Int /\ k - 1 \in Int
  BY <1>6
<1>10. /\ at(i) \in Int /\ f - 48 <= at(i) /\ at(i) <= e + 48 /\ b <= at(i) /\ at(i) < e
       /\ at(i - 1) \in Int /\ f - 48 <= at(i - 1) /\ at(i - 1) <= e + 48
       /\ f <= at(i - 1) /\ at(i - 1) < b
       /\ at(j) \in Int /\ f - 48 <= at(j) /\ at(j) <= e + 48 /\ ~(at(j) < e)
       /\ at(j - 1) \in Int /\ f - 48 <= at(j - 1) /\ at(j - 1) <= e + 48
       /\ b <= at(j - 1) /\ at(j - 1) < e
       /\ at(k) \in Int /\ f - 48 <= at(k) /\ at(k) <= e + 48 /\ f <= at(k) /\ at(k) < b
       /\ at(k - 1) \in Int /\ f - 48 <= at(k - 1) /\ at(k - 1) <= e + 48 /\ ~(f <= at(k - 1))
       /\ f - 48 <= l /\ l <= e + 48
  <2>1. b >= f + 24 /\ e >= b + 24  BY <1>4, SMT DEF Spans
  <2>2. /\ at(i) \in Int /\ f - 48 <= at(i) /\ at(i) <= e + 48 /\ b <= at(i) /\ at(i) < e
        /\ at(i - 1) \in Int /\ f - 48 <= at(i - 1) /\ at(i - 1) <= e + 48
        /\ f <= at(i - 1) /\ at(i - 1) < b
    <3>1. at(i) \in b .. (b + 11) /\ at(i - 1) \in (b - 12) .. (b - 1)  BY <1>6
    <3> QED  BY <2>1, <3>1, SMT
  <2>3. /\ at(j) \in Int /\ f - 48 <= at(j) /\ at(j) <= e + 48 /\ ~(at(j) < e)
        /\ at(j - 1) \in Int /\ f - 48 <= at(j - 1) /\ at(j - 1) <= e + 48
        /\ b <= at(j - 1) /\ at(j - 1) < e
    <3>1. at(j) \in e .. (e + 11) /\ at(j - 1) \in (e - 12) .. (e - 1)  BY <1>6
    <3> QED  BY <2>1, <3>1, SMT
  <2>4. /\ at(k) \in Int /\ f - 48 <= at(k) /\ at(k) <= e + 48 /\ f <= at(k) /\ at(k) < b
        /\ at(k - 1) \in Int /\ f - 48 <= at(k - 1) /\ at(k - 1) <= e + 48 /\ ~(f <= at(k - 1))
    <3>1. at(k) \in f .. (f + 11) /\ at(k - 1) \in (f - 12) .. (f - 1)  BY <1>6
    <3> QED  BY <2>1, <3>1, SMT
  <2>5. f - 48 <= l /\ l <= e + 48  BY <1>4, <2>1, SMT
  <2> QED  BY <2>2, <2>3, <2>4, <2>5
<1>11. label(i) = LabelAt(p, l) /\ label(j - 1) = LabelAt(p, l) /\ label(a) = LabelAt(p, l)
  BY <1>2, <1>4, <1>7, <1>8, <1>9, <1>10
<1>12. label(i - 1) # LabelAt(p, l) /\ label(j) # LabelAt(p, l)
  <2>1. ~(b <= at(i - 1))  BY <1>10, SMT
  <2> QED  BY <1>7, <1>9, <1>10, <2>1
<1>13. /\ label(i - 1) = LabelAt(p, b - 1) /\ label(k) = LabelAt(p, b - 1)
       /\ label(k - 1) # LabelAt(p, b - 1)
  BY <1>7, <1>9, <1>10
<1>14. /\ label(i - 1) # label(i) /\ label(j - 1) = label(i) /\ label(j) # label(i)
       /\ label(k) = label(i - 1) /\ label(k - 1) # label(k)
  BY <1>11, <1>12, <1>13
<1>15. IsLocalPeriod(r, z)  BY <1>3, <1>14, Zenon DEF IsLocalPeriod, label
<1> QED  BY <1>3, <1>11, <1>15 DEF label

-----------------------------------------------------------------------------
(* History page *)

\* What an address is read as: a period that holds an instant inside the calendar.
LEMMA Anchored ==
  ASSUME CalendarReaches(Addresses), NEW s \in Addresses, NEW t \in Instants
  PROVE  \E p \in Periods, a \in Int :
           Inside(a) /\ \A z : ParseHistorySearch(s, t, z) = GetPeriodRange(p, a, z)
<1> DEFINE p == IF s.period \in Periods THEN s.period ELSE "day"
           a == IF Accepts(s, p) THEN s.from + (s.to - s.from) \div 2 ELSE t
<1>1. p \in Periods  BY DEF Periods
<1>2. \A z : ParseHistorySearch(s, t, z) = GetPeriodRange(p, a, z)  BY Zenon DEF ParseHistorySearch
<1>3. Inside(a)
  <2>1. Inside(t)  BY Zenon DEF CalendarReaches
  <2>2. Accepts(s, p) => Inside(s.from + (s.to - s.from) \div 2)
    BY Zenon DEF CalendarReaches, Accepts
  <2> QED  BY <2>1, <2>2, Zenon
<1> HIDE DEF p, a
<1>4. a \in Int  BY <1>3 DEF Inside
<1> QED  BY <1>1, <1>2, <1>3, <1>4

\* The address of a period is one of the addresses, and names it at any time.
Named(r, z) ==
  /\ r \in Ranges /\ SerializeHistoryRange(r) \in Addresses
  /\ \A t \in Instants : ParseHistorySearch(SerializeHistoryRange(r), t, z) = r

\* So are the periods of all addresses, and those of the picker.
LEMMA AllNamed ==
  ASSUME CalendarReaches(Addresses), NEW z \in Zones, NEW t \in Instants
  PROVE  /\ \A s \in Addresses : Named(ParseHistorySearch(s, t, z), z)
         /\ \A p \in Periods : Named(GetPeriodRange(p, t, z), z)
<1>1. ASSUME NEW s \in Addresses PROVE Named(ParseHistorySearch(s, t, z), z)
  <2>1. PICK p \in Periods, a \in Int : Inside(a) /\ ParseHistorySearch(s, t, z) = GetPeriodRange(p, a, z)
    BY Anchored
  <2>2. SerializeHistoryRange(ParseHistorySearch(s, t, z)) \in Addresses
    BY Zenon DEF CalendarReaches
  <2> QED  BY <2>1, <2>2, AddressNames DEF Named
<1>2. ASSUME NEW p \in Periods PROVE Named(GetPeriodRange(p, t, z), z)
  <2>1. Inside(t) /\ SerializeHistoryRange(GetPeriodRange(p, t, z)) \in Addresses
    BY Zenon DEF CalendarReaches
  <2> QED  BY <2>1, AddressNames DEF Named
<1> QED  BY <1>1, <1>2

PageTypes ==
  /\ now \in Instants /\ zone \in Zones /\ have \in Shapes
  /\ view \in {"waiting", "unavailable", "content"}
  /\ happened \in 0 .. PageEvents

\* Entries of the browser's history, and what they were shown with: whoever
\* parses an entry in the zone it was shown in gets the period it was shown with.
Showings == [range : Ranges \cup {NoRange}, zone : Zones \cup {NoRange}]
EntriesSound(stack, past) ==
  /\ stack \in Seq(Addresses) /\ past \in Seq(Showings)
  /\ Len(past) = Len(stack) /\ Len(stack) \in 1 .. MaxEntries
  /\ \A i \in 1 .. Len(stack) :
       past[i].range # NoRange =>
         /\ past[i].zone \in Zones
         /\ \A t \in Instants : ParseHistorySearch(stack[i], t, past[i].zone) = past[i].range

\* An answer lies under a key with its own dates.
AnswersKeyed(c) ==
  \A k \in DOMAIN c :
    HasData(c[k]) => "to" \in DOMAIN c[k] /\ c[k].from = k[3] /\ c[k].to = k[4]

\* The period of the mounted page is the one its entry was shown with.
MountSound ==
  IF view = "content"
  THEN range \in Ranges /\ range = seen[pos].range /\ Keys(range) \subseteq DOMAIN cache
  ELSE range = NoRange

PageInv ==
  /\ PageTypes /\ EntriesSound(entries, seen) /\ pos \in 1 .. Len(entries)
  /\ AnswersKeyed(cache) /\ MountSound

\* Observing the keys of a period puts nothing under a wrong key.
LEMMA ObserveKeyed ==
  ASSUME NEW r, NEW c, AnswersKeyed(c)
  PROVE  AnswersKeyed(Observe(r, c)) /\ Keys(r) \subseteq DOMAIN Observe(r, c)
BY DEF Observe, HasData, Pending, AnswersKeyed

\* A period is not the lack of one.
LEMMA RangeIsRange == ASSUME NEW r \in Ranges PROVE r # NoRange
<1>1. r.period \in Periods  BY DEF Ranges
<1>2. NoRange.period = "none"  BY DEF NoRange
<1> QED  BY <1>1, <1>2 DEF Periods

\* The effect on [range].
LEMMA SetRangeStep ==
  ASSUME NEW r, NEW stack, NEW p, NEW past, NEW c,
         EntriesSound(stack, past), p \in 1 .. Len(stack), AnswersKeyed(c),
         zone' \in Zones, Named(r, zone'), view' = "content",
         SetRange(r, stack, p, past, c)
  PROVE  /\ EntriesSound(entries', seen') /\ pos' \in 1 .. Len(entries')
         /\ AnswersKeyed(cache') /\ MountSound'
<1> DEFINE a == SerializeHistoryRange(r)
           v == [range |-> r, zone |-> zone']
<1>1. /\ range' = r /\ entries' = [stack EXCEPT ![p] = a] /\ pos' = p
      /\ seen' = [past EXCEPT ![p] = v] /\ cache' = Observe(r, c)
  BY DEF SetRange, ReplaceState
<1>2. r \in Ranges /\ a \in Addresses /\ \A t \in Instants : ParseHistorySearch(a, t, zone') = r
  BY DEF Named
<1> HIDE DEF a
<1>3. v \in Showings /\ v.range = r /\ v.zone = zone'  BY <1>2 DEF Showings
<1> HIDE DEF v
<1>4. /\ entries' \in Seq(Addresses) /\ Len(entries') = Len(stack) /\ entries'[p] = a
      /\ \A i \in 1 .. Len(stack) : i # p => entries'[i] = stack[i]
  BY <1>1, <1>2, ExceptSeq DEF EntriesSound
<1>5. /\ seen' \in Seq(Showings) /\ Len(seen') = Len(past) /\ seen'[p] = v
      /\ \A i \in 1 .. Len(past) : i # p => seen'[i] = past[i]
  BY <1>1, <1>3, ExceptSeq DEF EntriesSound
<1>6. EntriesSound(entries', seen')
  <2>1. ASSUME NEW i \in 1 .. Len(entries'), seen'[i].range # NoRange
        PROVE  /\ seen'[i].zone \in Zones
               /\ \A t \in Instants :
                    ParseHistorySearch(entries'[i], t, seen'[i].zone) = seen'[i].range
    <3>1. CASE i = p  BY <1>2, <1>3, <1>4, <1>5, <3>1
    <3>2. CASE i # p
      <4>1. entries'[i] = stack[i] /\ seen'[i] = past[i] /\ i \in 1 .. Len(stack)
        BY <1>4, <1>5, <3>2 DEF EntriesSound
      <4> QED  BY <2>1, <4>1 DEF EntriesSound
    <3> QED  BY <3>1, <3>2
  <2> QED  BY <1>4, <1>5, <2>1 DEF EntriesSound
<1>7. AnswersKeyed(cache') /\ Keys(r) \subseteq DOMAIN cache'  BY <1>1, ObserveKeyed
<1>8. MountSound'  BY <1>1, <1>2, <1>3, <1>5, <1>7 DEF MountSound
<1> QED  BY <1>1, <1>4, <1>6, <1>7, <1>8

\* A new entry after the current one.
LEMMA PushStep ==
  ASSUME EntriesSound(entries, seen), pos \in 1 .. Len(entries), pos < MaxEntries,
         MaxEntries \in Nat, NEW a \in Addresses
  PROVE  /\ EntriesSound(Push(entries, a), Push(seen, Unseen))
         /\ pos + 1 \in 1 .. Len(Push(entries, a))
<1>1. Unseen \in Showings /\ Unseen.range = NoRange  BY DEF Unseen, Showings
<1>2. /\ entries \in Seq(Addresses) /\ seen \in Seq(Showings)
      /\ Len(seen) = Len(entries) /\ Len(entries) \in Nat /\ pos \in 1 .. Len(seen)
  BY DEF EntriesSound
<1> DEFINE e == SubSeq(entries, 1, pos)
           s == SubSeq(seen, 1, pos)
<1>3. e \in Seq(Addresses) /\ Len(e) = pos /\ \A i \in 1 .. pos : e[i] = entries[i]
  BY <1>2, SubSeqProperties
<1>4. s \in Seq(Showings) /\ Len(s) = pos /\ \A i \in 1 .. pos : s[i] = seen[i]
  BY <1>2, SubSeqProperties
<1> HIDE DEF e, s
<1> DEFINE ee == Append(e, a)
           ss == Append(s, Unseen)
<1>5. /\ ee \in Seq(Addresses) /\ Len(ee) = pos + 1
      /\ \A i \in 1 .. pos : ee[i] = entries[i]
  BY <1>2, <1>3, AppendProperties
<1>6. /\ ss \in Seq(Showings) /\ Len(ss) = pos + 1 /\ ss[pos + 1] = Unseen
      /\ \A i \in 1 .. pos : ss[i] = seen[i]
  BY <1>1, <1>2, <1>4, AppendProperties
<1>7. Push(entries, a) = ee /\ Push(seen, Unseen) = ss  BY DEF Push, e, s
<1> HIDE DEF ee, ss
<1>8. pos + 1 \in 1 .. MaxEntries /\ pos + 1 \in 1 .. Len(ee)  BY <1>2, <1>5, SMT
<1>9. ASSUME NEW i \in 1 .. Len(ee), ss[i].range # NoRange
      PROVE  /\ ss[i].zone \in Zones
             /\ \A t \in Instants : ParseHistorySearch(ee[i], t, ss[i].zone) = ss[i].range
  <2>1. i # pos + 1  BY <1>1, <1>6, <1>9
  <2>2. i \in 1 .. pos /\ i \in 1 .. Len(entries)  BY <1>2, <1>5, <2>1, SMT
  <2> QED  BY <1>5, <1>6, <1>9, <2>2 DEF EntriesSound
<1>10. EntriesSound(ee, ss)  BY <1>5, <1>6, <1>8, <1>9 DEF EntriesSound
<1> QED  BY <1>7, <1>8, <1>10

\* A failure keeps the data of a query.
LEMMA FailedKeeps ==
  ASSUME NEW q
  PROVE  /\ HasData(Failed(q)) <=> HasData(q)
         /\ HasData(q) => Failed(q).from = q.from
         /\ "to" \in DOMAIN q => "to" \in DOMAIN Failed(q) /\ Failed(q).to = q.to
BY DEF HasData, Failed

\* An answer, a failure and a retry leave every key with its own dates.
LEMMA ReceiveKeyed ==
  ASSUME AnswersKeyed(cache), NEW w,
         Receive(w) \/ ReceiveError(w) \/ RefetchFails(w) \/ Retry
  PROVE  AnswersKeyed(cache') /\ DOMAIN cache' = DOMAIN cache
<1>1. CASE Receive(w)
  <2> DEFINE key == Key(range, w)
             a == [status |-> "ok", resolution |-> range.resolution, shape |-> have,
                   from |-> Window(range, w).from, to |-> Window(range, w).to]
  <2>1. cache' = [cache EXCEPT ![key] = a]  BY <1>1 DEF Receive
  <2>2. key[3] = Window(range, w).from /\ key[4] = Window(range, w).to  BY DEF Key
  <2>3. "to" \in DOMAIN a /\ a.from = Window(range, w).from /\ a.to = Window(range, w).to
    OBVIOUS
  <2> HIDE DEF key, a
  <2> QED  BY <2>1, <2>2, <2>3 DEF AnswersKeyed
<1>2. CASE ReceiveError(w) \/ RefetchFails(w)
  <2> DEFINE key == Key(range, w)
  <2>1. cache' = [cache EXCEPT ![key] = Failed(cache[key])]
    BY <1>2 DEF ReceiveError, RefetchFails
  <2> HIDE DEF key
  <2>2. \A k \in DOMAIN cache : cache'[k] = IF k = key THEN Failed(cache[key]) ELSE cache[k]
    BY <2>1
  <2>3. DOMAIN cache' = DOMAIN cache  BY <2>1
  <2> QED  BY <2>2, <2>3, FailedKeeps DEF AnswersKeyed
<1>3. CASE Retry
  <2>1. cache' = [k \in DOMAIN cache |->
                   IF k \in Keys(range) /\ cache[k].status = "error"
                   THEN IF HasData(cache[k]) THEN [cache[k] EXCEPT !.status = "ok"] ELSE Pending
                   ELSE cache[k]]
    BY <1>3 DEF Retry
  <2> QED  BY <2>1 DEF AnswersKeyed, HasData, Pending
<1> QED  BY <1>1, <1>2, <1>3

\* Every step keeps the page sound.
LEMMA PageStep ==
  ASSUME CalendarReaches(Addresses), PageInv, [PageNext]_pageVars
  PROVE  PageInv'
<1>1. /\ PageTypes /\ EntriesSound(entries, seen) /\ pos \in 1 .. Len(entries)
      /\ AnswersKeyed(cache) /\ MountSound
  BY DEF PageInv
<1>2. /\ MaxEntries \in Nat \ {0} /\ PageEvents \in Nat
      /\ Searches \subseteq Addresses
      /\ \A z \in Zones, t \in Instants :
           /\ \A s \in Addresses : Named(ParseHistorySearch(s, t, z), z)
           /\ \A p \in Periods : Named(GetPeriodRange(p, t, z), z)
  <2>1. Searches \subseteq Addresses  BY Zenon DEF CalendarReaches
  <2> QED  BY <2>1, AllNamed, HistoryAssumption
<1>3. entries \in Seq(Addresses) /\ Len(entries) \in 1 .. MaxEntries
      /\ DOMAIN entries = 1 .. Len(entries) /\ \A i \in 1 .. Len(entries) : entries[i] \in Addresses
  BY <1>1, LenProperties, ElementOfSeq DEF EntriesSound
<1>4. now \in Instants /\ zone \in Zones /\ happened \in 0 .. PageEvents  BY <1>1 DEF PageTypes
<1>5. Event => happened' \in 0 .. PageEvents
  BY <1>2, <1>4, SMT DEF Event
<1>6. ASSUME NEW s \in Searches, OpenPage(s) PROVE PageInv'
  <2>1. s \in Addresses /\ MaxEntries \in Nat /\ pos < MaxEntries  BY <1>2, <1>6 DEF OpenPage
  <2>2. /\ EntriesSound(Push(entries, s), Push(seen, Unseen))
        /\ pos + 1 \in 1 .. Len(Push(entries, s))
    BY <1>1, <2>1, PushStep
  <2>3. /\ entries' = Push(entries, s) /\ seen' = Push(seen, Unseen) /\ pos' = pos + 1
        /\ view' = "waiting" /\ range' = NoRange /\ Event
        /\ UNCHANGED <<now, zone, have, cache>>
    BY <1>6 DEF OpenPage, Unmount
  <2>4. PageTypes'  BY <1>1, <1>5, <2>3 DEF PageTypes
  <2>5. MountSound'  BY <2>3 DEF MountSound
  <2> QED  BY <1>1, <2>2, <2>3, <2>4, <2>5 DEF PageInv
<1>7. CASE Reload
  <2>1. /\ view' = "waiting" /\ range' = NoRange /\ cache' = <<>> /\ Event
        /\ UNCHANGED <<now, zone, have, entries, pos, seen>>
    BY <1>7 DEF Reload, Unmount
  <2>2. PageTypes' /\ MountSound'  BY <1>1, <1>5, <2>1 DEF PageTypes, MountSound
  <2>3. AnswersKeyed(cache')  BY <2>1 DEF AnswersKeyed
  <2> QED  BY <1>1, <2>1, <2>2, <2>3 DEF PageInv
<1>8. CASE SettingsFail
  <2>1. /\ view' = "unavailable" /\ range' = NoRange /\ Event
        /\ UNCHANGED <<now, zone, have, entries, pos, seen, cache>>
    BY <1>8 DEF SettingsFail, Unmount
  <2>2. PageTypes' /\ MountSound'  BY <1>1, <1>5, <2>1 DEF PageTypes, MountSound
  <2> QED  BY <1>1, <2>1, <2>2 DEF PageInv
<1>9. ASSUME NEW z \in Zones, SettingsArrive(z) PROVE PageInv'
  <2>1. /\ happened' = happened \/ Event
        /\ zone' = z /\ view' = "content" /\ UNCHANGED <<now, have>>
    BY <1>9 DEF SettingsArrive
  <2>2. PageTypes'  BY <1>1, <1>5, <2>1 DEF PageTypes
  <2>3. CASE view # "content"
    <3>1. SetRange(ParseHistorySearch(entries[pos], now, z), entries, pos, seen, cache)
      BY <1>9, <2>3 DEF SettingsArrive
    <3>2. Named(ParseHistorySearch(entries[pos], now, z), z)
      BY <1>1, <1>2, <1>3, <1>4
    <3>3. /\ EntriesSound(entries', seen') /\ pos' \in 1 .. Len(entries')
          /\ AnswersKeyed(cache') /\ MountSound'
      BY <1>1, <2>1, <3>1, <3>2, SetRangeStep
    <3> QED  BY <2>2, <3>3 DEF PageInv
  <2>4. CASE view = "content"
    <3>1. UNCHANGED <<entries, pos, range, seen, cache>>  BY <1>9, <2>4 DEF SettingsArrive
    <3>2. MountSound'  BY <1>1, <2>1, <2>4, <3>1 DEF MountSound
    <3> QED  BY <1>1, <2>2, <3>1, <3>2 DEF PageInv
  <2> QED  BY <2>3, <2>4
<1>10. ASSUME NEW p, PopState(p) PROVE PageInv'
  <2>1. p \in 1 .. Len(entries) /\ UNCHANGED <<now, zone, have, view, happened>>
    BY <1>3, <1>10 DEF PopState
  <2>2. PageTypes'  BY <1>1, <2>1 DEF PageTypes
  <2>3. CASE view = "content"
    <3>1. SetRange(ParseHistorySearch(entries[p], now, zone), entries, p, seen, cache)
      BY <1>10, <2>3 DEF PopState
    <3>2. Named(ParseHistorySearch(entries[p], now, zone), zone)
      BY <1>2, <1>3, <1>4, <2>1
    <3>3. zone' \in Zones /\ Named(ParseHistorySearch(entries[p], now, zone), zone')
          /\ view' = "content"
      BY <1>4, <2>1, <2>3, <3>2
    <3>4. /\ EntriesSound(entries', seen') /\ pos' \in 1 .. Len(entries')
          /\ AnswersKeyed(cache') /\ MountSound'
      BY <1>1, <2>1, <3>1, <3>3, SetRangeStep
    <3> QED  BY <2>2, <3>4 DEF PageInv
  <2>4. CASE view # "content"
    <3>1. pos' = p /\ UNCHANGED <<entries, range, seen, cache>>  BY <1>10, <2>4 DEF PopState
    <3>2. MountSound'  BY <1>1, <2>1, <2>4, <3>1 DEF MountSound
    <3> QED  BY <1>1, <2>1, <2>2, <3>1, <3>2 DEF PageInv
  <2> QED  BY <2>3, <2>4
<1>11. ASSUME NEW period \in Periods, ChangePeriod(period) PROVE PageInv'
  <2> DEFINE r == GetPeriodRange(period, now, zone)
             a == SerializeHistoryRange(r)
  <2>1. /\ Event /\ pos < MaxEntries /\ zone' = zone /\ UNCHANGED <<now, have, view>>
        /\ SetRange(r, Push(entries, a), pos + 1, Push(seen, Unseen), cache)
    BY <1>11 DEF ChangePeriod
  <2>2. view = "content"
    <3>1. Screen \in {"page", "empty"}  BY <1>11 DEF ChangePeriod
    <3> QED  BY <1>1, <3>1 DEF Screen, PageTypes
  <2>3. Named(r, zone)  BY <1>2, <1>4
  <2> HIDE DEF r
  <2>4. a \in Addresses  BY <2>3 DEF Named
  <2> HIDE DEF a
  <2>5. MaxEntries \in Nat  BY <1>2
  <2>6. /\ EntriesSound(Push(entries, a), Push(seen, Unseen))
        /\ pos + 1 \in 1 .. Len(Push(entries, a))
    BY <1>1, <2>1, <2>4, <2>5, PushStep
  <2>7. PageTypes'  BY <1>1, <1>5, <2>1 DEF PageTypes
  <2>8. zone' \in Zones /\ Named(r, zone') /\ view' = "content"
    BY <1>4, <2>1, <2>2, <2>3
  <2>9. /\ EntriesSound(entries', seen') /\ pos' \in 1 .. Len(entries')
        /\ AnswersKeyed(cache') /\ MountSound'
    BY <1>1, <2>1, <2>6, <2>8, SetRangeStep
  <2> QED  BY <2>7, <2>9 DEF PageInv
<1>12. ASSUME NEW w, Receive(w) \/ ReceiveError(w) \/ RefetchFails(w) \/ Retry
       PROVE  PageInv'
  <2>1. /\ UNCHANGED <<now, zone, have, view, entries, pos, range, seen>>
        /\ happened' = happened \/ Event
    BY <1>12 DEF Receive, ReceiveError, RefetchFails, Retry
  <2>2. AnswersKeyed(cache') /\ DOMAIN cache' = DOMAIN cache  BY <1>1, <1>12, ReceiveKeyed
  <2>3. PageTypes'  BY <1>1, <1>5, <2>1 DEF PageTypes
  <2>4. MountSound'  BY <1>1, <2>1, <2>2 DEF MountSound
  <2> QED  BY <1>1, <2>1, <2>2, <2>3, <2>4 DEF PageInv
<1>13. ASSUME NEW t \in Instants, Tick(t) PROVE PageInv'
  <2>1. now' = t /\ UNCHANGED <<zone, have, view, entries, pos, range, seen, cache, happened>>
    BY <1>13 DEF Tick
  <2>2. PageTypes' /\ MountSound'  BY <1>1, <2>1 DEF PageTypes, MountSound
  <2> QED  BY <1>1, <2>1, <2>2 DEF PageInv
<1>14. CASE UNCHANGED pageVars
  <2>1. UNCHANGED <<now, zone, have, view, entries, pos, range, seen, cache, happened>>
    BY <1>14 DEF pageVars
  <2>2. PageTypes' /\ MountSound'  BY <1>1, <2>1 DEF PageTypes, MountSound
  <2> QED  BY <1>1, <2>1, <2>2 DEF PageInv
<1> QED  BY <1>6, <1>7, <1>8, <1>9, <1>10, <1>11, <1>12, <1>13, <1>14 DEF PageNext

\* ... from the first state on.
LEMMA PageInvariant == CalendarReaches(Addresses) /\ PageSpec => [](CalendarReaches(Addresses) /\ PageInv)
<1>1. CalendarReaches(Addresses) /\ PageInit => PageInv
  <2> SUFFICES ASSUME CalendarReaches(Addresses), PageInit PROVE PageInv  OBVIOUS
  <2>1. /\ now = Min(Instants) /\ zone \in Zones /\ have \in Shapes /\ view = "waiting"
        /\ pos = 1 /\ range = NoRange /\ seen = <<Unseen>> /\ cache = <<>> /\ happened = 0
    BY DEF PageInit
  <2>2. PICK s \in Searches : entries = <<s>>  BY DEF PageInit
  <2>3. /\ MaxEntries \in Nat \ {0} /\ PageEvents \in Nat /\ Searches \subseteq Addresses
        /\ Instants \in SUBSET Nat /\ Instants # {}
    <3>1. Searches \subseteq Addresses  BY Zenon DEF CalendarReaches
    <3> QED  BY <3>1, HistoryAssumption
  <2>4. now \in Instants
    <3>1. \E m \in Instants : \A n \in Instants : m <= n  BY <2>3, LeastElement
    <3> QED  BY <2>1, <3>1 DEF Min
  <2>5. PageTypes
    <3>1. happened \in 0 .. PageEvents  BY <2>1, <2>3, SMT
    <3> QED  BY <2>1, <2>4, <3>1 DEF PageTypes
  <2>6. Unseen \in Showings /\ Unseen.range = NoRange  BY DEF Unseen, Showings
  <2>7. /\ entries \in Seq(Addresses) /\ Len(entries) = 1
        /\ seen \in Seq(Showings) /\ Len(seen) = 1 /\ seen[1] = Unseen
    BY <2>1, <2>2, <2>3, <2>6
  <2>8. EntriesSound(entries, seen)
    <3>1. 1 \in 1 .. MaxEntries /\ \A i \in 1 .. 1 : i = 1  BY <2>3, SMT
    <3> QED  BY <2>6, <2>7, <3>1 DEF EntriesSound
  <2>9. AnswersKeyed(cache) /\ MountSound  BY <2>1 DEF AnswersKeyed, MountSound
  <2>10. pos \in 1 .. Len(entries)  BY <2>1, <2>7
  <2> QED  BY <2>5, <2>8, <2>9, <2>10 DEF PageInv
<1>2. CalendarReaches(Addresses) /\ PageInv /\ [PageNext]_pageVars => PageInv'  BY PageStep
<1>3. CalendarReaches(Addresses) => CalendarReaches(Addresses)'  OBVIOUS
<1> QED  BY <1>1, <1>2, <1>3, PTL DEF PageSpec

\* The address of the mounted page names its period at any time, the data it
\* draws were asked for the dates of that period, and the state has its types,
\* for any zones, instants and addresses that the calendar reaches.
THEOREM PageStaysSound == CalendarReaches(Addresses) /\ PageSpec => []PageSound
<1>1. PageInv => PageSound
  <2> SUFFICES ASSUME PageInv PROVE PageSound  OBVIOUS
  <2>1. /\ PageTypes /\ EntriesSound(entries, seen) /\ pos \in 1 .. Len(entries)
        /\ AnswersKeyed(cache) /\ MountSound
    BY DEF PageInv
  <2>2. PageTypeOK
    <3>1. DOMAIN entries = 1 .. Len(entries)  BY <2>1, LenProperties DEF EntriesSound
    <3> QED  BY <2>1, <3>1 DEF PageTypeOK, PageTypes, EntriesSound, MountSound
  <2>3. AddressNamesPeriod
    <3> SUFFICES ASSUME view = "content", NEW t \in Instants
                 PROVE  ParseHistorySearch(entries[pos], t, seen[pos].zone) = range
      BY DEF AddressNamesPeriod
    <3>1. range \in Ranges /\ range = seen[pos].range  BY <2>1 DEF MountSound
    <3>2. seen[pos].range # NoRange  BY <3>1, RangeIsRange
    <3> QED  BY <2>1, <3>1, <3>2 DEF EntriesSound
  <2>4. AnswerIsOfPeriod
    <3> SUFFICES ASSUME view = "content", NEW w \in {"current", "previous"}, HasData(Query(w))
                 PROVE  /\ Query(w).from = Window(range, w).from
                        /\ Query(w).to = Window(range, w).to
      BY DEF AnswerIsOfPeriod
    <3> DEFINE key == Key(range, w)
    <3>1. key \in DOMAIN cache  BY <2>1 DEF MountSound, Keys
    <3>2. key[3] = Window(range, w).from /\ key[4] = Window(range, w).to  BY DEF Key
    <3>3. Query(w) = cache[key]  BY DEF Query
    <3> HIDE DEF key
    <3> QED  BY <2>1, <3>1, <3>2, <3>3 DEF AnswersKeyed
  <2> QED  BY <2>2, <2>3, <2>4 DEF PageSound
<1> QED  BY <1>1, PageInvariant, PTL

\* Going back or forward, or mounting the page again, to an entry that was
\* shown before shows the period it was shown with, in the zone it was shown in.
THEOREM EntriesKeepPeriods == CalendarReaches(Addresses) /\ PageSpec => EntryKeepsPeriod
<1>1. ASSUME CalendarReaches(Addresses), PageInv, PageNext, NewPeriod, ~Chosen,
             seen[pos'].range # NoRange, seen[pos'].zone = zone'
      PROVE  range' = seen[pos'].range
  <2>1. /\ PageTypes /\ EntriesSound(entries, seen) /\ pos \in 1 .. Len(entries) /\ MountSound
    BY <1>1 DEF PageInv
  <2>2. now \in Instants  BY <2>1 DEF PageTypes
  <2>3. range' # range /\ range' # NoRange  BY <1>1 DEF NewPeriod
  <2>4. ASSUME NEW z \in Zones, SettingsArrive(z) PROVE range' = seen[pos'].range
    <3>1. view # "content"  BY <2>3, <2>4 DEF SettingsArrive
    <3>2. range' = ParseHistorySearch(entries[pos], now, z) /\ pos' = pos /\ zone' = z
      BY <2>4, <3>1 DEF SettingsArrive, SetRange
    <3> QED  BY <1>1, <2>1, <2>2, <3>2 DEF EntriesSound
  <2>5. ASSUME NEW p, PopState(p) PROVE range' = seen[pos'].range
    <3>1. view = "content"  BY <2>3, <2>5 DEF PopState
    <3>2. /\ range' = ParseHistorySearch(entries[p], now, zone) /\ pos' = p /\ zone' = zone
          /\ p \in DOMAIN entries
      BY <2>5, <3>1 DEF PopState, SetRange
    <3>3. p \in 1 .. Len(entries)  BY <2>1, <3>2, LenProperties DEF EntriesSound
    <3> QED  BY <1>1, <2>1, <2>2, <3>2, <3>3 DEF EntriesSound
  <2>6. ASSUME NEW period \in Periods, ChangePeriod(period) PROVE FALSE
    <3>1. Screen \in {"page", "empty"} /\ Event  BY <2>6 DEF ChangePeriod
    <3>2. view = "content"  BY <2>1, <3>1 DEF Screen, PageTypes
    <3>3. happened' # happened  BY <2>1, <3>1, SMT DEF Event, PageTypes
    <3> QED  BY <1>1, <3>2, <3>3 DEF Chosen
  <2>7. ASSUME NEW s, OpenPage(s) PROVE FALSE  BY <2>3, <2>7 DEF OpenPage, Unmount
  <2>8. ~Reload /\ ~SettingsFail /\ ~Retry
    BY <2>3 DEF Reload, SettingsFail, Retry, Unmount
  <2>9. ASSUME NEW w PROVE ~Receive(w) /\ ~ReceiveError(w) /\ ~RefetchFails(w)
    BY <2>3 DEF Receive, ReceiveError, RefetchFails
  <2>10. ASSUME NEW t PROVE ~Tick(t)  BY <2>3 DEF Tick
  <2> QED  BY <1>1, <2>4, <2>5, <2>6, <2>7, <2>8, <2>9, <2>10 DEF PageNext
<1>2. CalendarReaches(Addresses) /\ PageInv /\ [PageNext]_pageVars =>
        [(NewPeriod /\ ~Chosen /\ seen[pos'].range # NoRange /\ seen[pos'].zone = zone')
           => range' = seen[pos'].range]_(pageVars)
  BY <1>1
<1> QED  BY <1>2, PageInvariant, PTL DEF PageSpec, EntryKeepsPeriod

\* A period put on the page is a whole local day, week, month or year with
\* the whole one before it (getPeriodRange), in any zone that is Regular.
THEOREM PeriodsAreLocal == CalendarReaches(Addresses) /\ PageSpec => PeriodIsLocal
<1>1. ASSUME CalendarReaches(Addresses), PageInv, PageNext, NewPeriod, Regular(zone')
      PROVE  /\ IsLocalPeriod(range', zone')
             /\ Chosen => Label(range'.period, now, zone) = Label(range'.period, range'.from, zone)
  <2>1. /\ PageTypes /\ EntriesSound(entries, seen) /\ pos \in 1 .. Len(entries) /\ MountSound
    BY <1>1 DEF PageInv
  <2>2. now \in Instants /\ zone \in Zones /\ happened \in Int  BY <2>1, HistoryAssumption DEF PageTypes
  <2>3. range' # range /\ range' # NoRange  BY <1>1 DEF NewPeriod
  <2>4. \A i \in 1 .. Len(entries) : entries[i] \in Addresses  BY <2>1, ElementOfSeq DEF EntriesSound
  <2>5. ASSUME NEW s \in Addresses, NEW z \in Zones, Regular(z)
        PROVE  IsLocalPeriod(ParseHistorySearch(s, now, z), z)
    <3>1. PICK p \in Periods, a \in Int : Inside(a) /\ ParseHistorySearch(s, now, z) = GetPeriodRange(p, a, z)
      BY <1>1, <2>2, Anchored
    <3> QED  BY <2>5, <3>1, LocalPeriod
  <2>6. ASSUME NEW z \in Zones, SettingsArrive(z) PROVE IsLocalPeriod(range', zone') /\ ~Chosen
    <3>1. view # "content"  BY <2>3, <2>6 DEF SettingsArrive
    <3>2. range' = ParseHistorySearch(entries[pos], now, z) /\ zone' = z
      BY <2>6, <3>1 DEF SettingsArrive, SetRange
    <3> QED  BY <1>1, <2>1, <2>4, <2>5, <3>1, <3>2 DEF Chosen
  <2>7. ASSUME NEW p, PopState(p) PROVE IsLocalPeriod(range', zone') /\ ~Chosen
    <3>1. view = "content"  BY <2>3, <2>7 DEF PopState
    <3>2. /\ range' = ParseHistorySearch(entries[p], now, zone) /\ zone' = zone
          /\ p \in DOMAIN entries /\ happened' = happened
      BY <2>7, <3>1 DEF PopState, SetRange
    <3>3. p \in 1 .. Len(entries)  BY <2>1, <3>2, LenProperties DEF EntriesSound
    <3> QED  BY <1>1, <2>2, <2>4, <2>5, <3>2, <3>3 DEF Chosen
  <2>8. ASSUME NEW period \in Periods, ChangePeriod(period)
        PROVE  /\ IsLocalPeriod(range', zone')
               /\ Label(range'.period, now, zone) = Label(range'.period, range'.from, zone)
    <3>1. range' = GetPeriodRange(period, now, zone) /\ zone' = zone
      BY <2>8 DEF ChangePeriod, SetRange
    <3>2. Inside(now)  BY <1>1, <2>2, Zenon DEF CalendarReaches
    <3>3. Regular(zone)  BY <1>1, <3>1
    <3>4. /\ IsLocalPeriod(range', zone) /\ range'.period = period
          /\ Label(period, now, zone) = Label(period, range'.from, zone)
      BY <2>2, <3>1, <3>2, <3>3, LocalPeriod
    <3> QED  BY <3>1, <3>4
  <2>9. ASSUME NEW s, OpenPage(s) PROVE FALSE  BY <2>3, <2>9 DEF OpenPage, Unmount
  <2>10. ~Reload /\ ~SettingsFail /\ ~Retry
    BY <2>3 DEF Reload, SettingsFail, Retry, Unmount
  <2>11. ASSUME NEW w PROVE ~Receive(w) /\ ~ReceiveError(w) /\ ~RefetchFails(w)
    BY <2>3 DEF Receive, ReceiveError, RefetchFails
  <2>12. ASSUME NEW t PROVE ~Tick(t)  BY <2>3 DEF Tick
  <2> QED  BY <1>1, <2>6, <2>7, <2>8, <2>9, <2>10, <2>11, <2>12 DEF PageNext
<1>2. CalendarReaches(Addresses) /\ PageInv /\ [PageNext]_pageVars =>
        [(NewPeriod /\ Regular(zone')) =>
           /\ IsLocalPeriod(range', zone')
           /\ Chosen => Label(range'.period, now, zone)
                          = Label(range'.period, range'.from, zone)]_(pageVars)
  BY <1>1
<1> QED  BY <1>2, PageInvariant, PTL DEF PageSpec, PeriodIsLocal

-----------------------------------------------------------------------------
(* Getting in *)

USE LastStepAssumption, RetryAfterAssumption, MaxEventsAssumption

Phases == {"none", "asked", "ok", "401", "409", "422", "429", "refused"}
Tokens == {"none", "current", "old"}

\* The variables of WebAccess, with the shape of their records.
GateTypes ==
  /\ open \in BOOLEAN /\ alive \in BOOLEAN
  /\ path \in Paths /\ redirect \in Private
  /\ boot \in [data : {"none", "open", "closed"}, failed : BOOLEAN]
  /\ sess \in {"pending", "ok", "anonymous", "unavailable", "removed"}
  /\ token \in Tokens /\ cause \in {"none", "own", "lost", "other"}
  /\ ask \in [boot : {"none", "asked", "open", "closed", "failed"},
              sess : {"none", "asked", "ok", "stale", "401", "failed"}]

PostTypes == post \in [kind : {"none", "login", "bootstrap", "logout"}, phase : Phases,
                      token : Tokens, count : 0 .. 1]

FormTypes ==
  form \in [started : BOOLEAN, pending : BOOLEAN, step : 0 .. LastStep,
            bad : SUBSET (0 .. (LastStep - 1)), remaining : 0 .. RetryAfter,
            closing : BOOLEAN]

AccessTypes == GateTypes /\ PostTypes /\ FormTypes

\* A request of this page is one that its form has started and not yet ended:
\* the reference that submit sets outlives every drawing of the page.
Submitted == IF post.phase = "none" THEN post.count = 0 ELSE form.started

AccessInv == AccessTypes /\ Submitted /\ TokenReplaced

\* A loaded document begins anew, whatever there was.
LEMMA LoadStep ==
  ASSUME NEW p \in Paths, NEW r \in Private, Load(p, r), open' \in BOOLEAN, alive' \in BOOLEAN
  PROVE  AccessInv'
BY DEF Load, AccessInv, AccessTypes, GateTypes, PostTypes, FormTypes, Submitted, TokenReplaced, NoBoot, NoPost, FreshForm,
       Tokens, Phases

\* The step of the first field that is wrong.
LEMMA FirstBadStep ==
  ASSUME AccessTypes, form.bad # {}
  PROVE  FirstBad \in 0 .. LastStep
<1>1. form.bad \in SUBSET Nat /\ form.bad \subseteq 0 .. LastStep  BY DEF AccessTypes, FormTypes
<1>2. \E m \in form.bad : \A n \in form.bad : m <= n  BY <1>1, LeastElement
<1>3. FirstBad \in form.bad  BY <1>2 DEF FirstBad
<1> QED  BY <1>1, <1>3

\* The page sends a request only from a form that it has not yet started.
LEMMA SendStep ==
  ASSUME AccessInv, ~form.started, NEW kind \in {"login", "bootstrap", "logout"}, Send(kind),
         form' = [form EXCEPT !.started = TRUE], UNCHANGED <<server, place, queries, memory, ask>>
  PROVE  AccessInv'
<1> USE DEF AccessInv, AccessTypes, server, place, queries, memory
<1>1. post.count = 0  BY DEF Submitted, PostTypes
<1>2. PostTypes' /\ post'.phase = "asked"  BY <1>1 DEF Send, PostTypes, GateTypes, Phases, Tokens
<1>3. FormTypes' /\ form'.started  BY DEF FormTypes
<1>4. GateTypes'  BY DEF GateTypes
<1>5. TokenReplaced'  
  <2>1. post.phase # "ok"  BY DEF Submitted, FormTypes
  <2> QED  BY <2>1 DEF TokenReplaced
<1> QED  BY <1>2, <1>3, <1>4, <1>5 DEF Submitted

\* An error lets the form be used again: the request is over.
LEMMA EndStep ==
  ASSUME AccessInv, post.phase # "ok", post' = NoPost, FormTypes',
         UNCHANGED <<server, place, queries, memory, ask>>
  PROVE  AccessInv'
<1> USE DEF AccessInv, AccessTypes, server, place, queries, memory
<1>1. PostTypes' /\ Submitted'  BY DEF NoPost, PostTypes, Submitted, Phases, Tokens
<1>2. GateTypes'  BY DEF GateTypes
<1>3. TokenReplaced'  BY DEF TokenReplaced
<1> QED  BY <1>1, <1>2, <1>3

\* The server answers a form: the session may be another one, the token of
\* this page old, and the answer is on its way when the page itself did it.
LEMMA AnsweredStep ==
  ASSUME AccessInv, post.phase = "asked", NEW a \in Phases \ {"none", "asked"}, NEW t \in Tokens,
         post' = [post EXCEPT !.phase = a, !.token = t],
         open' \in BOOLEAN, alive' \in BOOLEAN, token' \in Tokens,
         cause' \in {"none", "own", "lost", "other"},
         a # "ok" => UNCHANGED memory \/ cause' = "lost",
         UNCHANGED <<place, queries, ask, form>>
  PROVE  AccessInv'
<1> USE DEF AccessInv, AccessTypes, place, queries, memory
<1>1. PostTypes' /\ post'.phase = a  BY DEF PostTypes
<1>2. Submitted'  BY <1>1 DEF Submitted
<1>3. GateTypes'  BY DEF GateTypes
<1>4. TokenReplaced'  BY <1>1 DEF TokenReplaced, PostTypes
<1>5. FormTypes'  BY DEF FormTypes
<1> QED  BY <1>1, <1>2, <1>3, <1>4, <1>5

\* What the browser and the server do with the two queries of the gate.
LEMMA GateStep ==
  ASSUME AccessInv,
         \/ ServeBoot \/ ReceiveBoot \/ ServeSession \/ ReceiveSession \/ GateRedirect
         \/ RetrySession \/ Focus \/ (\E p \in Paths : Visit(p))
  PROVE  AccessInv'
<1> USE DEF AccessInv, AccessTypes, GateTypes, PostTypes, FormTypes, Submitted, TokenReplaced, Tokens, Phases,
            server, place, queries, memory
<1>1. CASE ServeBoot  BY <1>1 DEF ServeBoot
<1>2. CASE ReceiveBoot
  <2>1. boot' \in [data : {"none", "open", "closed"}, failed : BOOLEAN]  BY <1>2 DEF ReceiveBoot
  <2>2. /\ ask' \in [boot : {"none", "asked", "open", "closed", "failed"},
                     sess : {"none", "asked", "ok", "stale", "401", "failed"}]
        /\ ask.sess \in {"ok", "stale"} => ask'.sess = ask.sess
    BY <1>2 DEF ReceiveBoot
  <2>3. UNCHANGED <<server, place, sess, memory, post, form>>  BY <1>2 DEF ReceiveBoot
  <2>4. TokenReplaced'  BY <2>2, <2>3
  <2> QED  BY <2>1, <2>2, <2>3, <2>4
<1>3. CASE ServeSession  BY <1>3 DEF ServeSession, AgeTokens, Aged
<1>4. CASE ReceiveSession
  BY <1>4, LoadStep DEF ReceiveSession, SessionOk, Unauthorized, ToLogin, SafeRedirectTarget,
     Paths, Private
<1>5. CASE GateRedirect
  BY <1>5, LoadStep DEF GateRedirect, ToLogin, SafeRedirectTarget, Paths, Private
<1>6. CASE RetrySession  BY <1>6 DEF RetrySession
<1>7. CASE Focus  BY <1>7 DEF Focus
<1>8. ASSUME NEW p \in Paths, Visit(p) PROVE AccessInv'
  BY <1>8, LoadStep DEF Visit, Private
<1> QED  BY <1>1, <1>2, <1>3, <1>4, <1>5, <1>6, <1>7, <1>8

\* The forms: what the user does, and the drawing of the page.
LEMMA FormStep ==
  ASSUME AccessInv,
         \/ Draw \/ SubmitLogin \/ Countdown \/ TypeField \/ Advance \/ Back \/ SubmitWizard
         \/ SubmitLogout
  PROVE  AccessInv'
<1> USE DEF AccessInv, AccessTypes, GateTypes, PostTypes, FormTypes, Submitted, TokenReplaced, Tokens, Phases,
            server, place, queries, memory
<1>1. CASE Draw
  <2>1. FormTypes' /\ form'.started = form.started  BY <1>1 DEF Draw
  <2> QED  BY <1>1, <2>1 DEF Draw
<1>2. CASE SubmitLogin  BY <1>2, SendStep DEF SubmitLogin
<1>3. CASE Countdown  BY <1>3 DEF Countdown
<1>4. CASE TypeField  BY <1>4 DEF TypeField
<1>5. CASE Advance  BY <1>5 DEF Advance
<1>6. CASE Back
  <2>1. FormTypes' /\ form'.started = form.started  BY <1>6 DEF Back
  <2> QED  BY <1>6, <2>1 DEF Back
<1>7. CASE SubmitWizard
  <2>1. CASE form.bad # {}
    <3>1. FirstBad \in 0 .. LastStep  BY <2>1, FirstBadStep
    <3>2. form' = [form EXCEPT !.step = FirstBad] /\ post' = post  BY <1>7, <2>1 DEF SubmitWizard
    <3>3. FormTypes' /\ form'.started = form.started  BY <3>1, <3>2
    <3> QED  BY <1>7, <3>2, <3>3 DEF SubmitWizard
  <2>2. CASE form.bad = {}  BY <1>7, <2>2, SendStep DEF SubmitWizard
  <2> QED  BY <2>1, <2>2
<1>8. CASE SubmitLogout  BY <1>8, SendStep DEF SubmitLogout
<1> QED  BY <1>1, <1>2, <1>3, <1>4, <1>5, <1>6, <1>7, <1>8

\* The server's answers to the forms.
LEMMA ServeStep ==
  ASSUME AccessInv, ServeLogin \/ ServeBootstrap \/ ServeLogout
  PROVE  AccessInv'
<1> USE DEF server, place, queries, memory
<1>a. /\ open \in BOOLEAN /\ alive \in BOOLEAN /\ token \in Tokens
      /\ cause \in {"none", "own", "lost", "other"}
  BY DEF AccessInv, AccessTypes, GateTypes
<1>0. ASSUME NewSession, post.phase = "asked", open' \in BOOLEAN, UNCHANGED <<place, queries, ask, form>>
      PROVE  AccessInv'
  <2>1. token' \in Tokens /\ cause' \in {"none", "own", "lost", "other"} /\ alive' \in BOOLEAN
    BY <1>0, <1>a DEF NewSession, Aged, Tokens
  <2>2. post' = [post EXCEPT !.phase = "ok", !.token = "current"]  BY <1>0 DEF NewSession
  <2> QED  BY <1>0, <2>1, <2>2, AnsweredStep DEF Phases, Tokens
<1>1. ASSUME NEW r \in {"409", "422", "429", "401", "refused"}, Answered(r), post.phase = "asked",
             open' \in BOOLEAN, UNCHANGED <<alive, memory, place, queries, ask, form>>
      PROVE  AccessInv'
  <2>1. post' = [post EXCEPT !.phase = r, !.token = "none"]  BY <1>1 DEF Answered
  <2>2. r \in Phases \ {"none", "asked"} /\ "none" \in Tokens  BY <1>1 DEF Phases, Tokens
  <2> QED  BY <1>1, <1>a, <2>1, <2>2, AnsweredStep
<1>2. CASE ServeLogin
  <2>1. post.phase = "asked" /\ open' \in BOOLEAN /\ UNCHANGED <<place, queries, ask, form>>
    BY <1>2, <1>a DEF ServeLogin
  <2> QED  BY <1>0, <1>1, <1>2, <2>1 DEF ServeLogin, Refuse
<1>3. CASE ServeBootstrap
  <2>1. post.phase = "asked" /\ open' \in BOOLEAN /\ UNCHANGED <<place, queries, ask, form>>
    BY <1>3, <1>a DEF ServeBootstrap
  <2> QED  BY <1>0, <1>1, <1>3, <2>1 DEF ServeBootstrap, Refuse
<1>4. CASE ServeLogout
  <2>1. post.phase = "asked" /\ open' \in BOOLEAN /\ UNCHANGED <<place, queries, ask, form>>
    BY <1>4, <1>a DEF ServeLogout
  <2>2. ASSUME NEW r \in {"ok", "refused"}, Answered(r), alive' = FALSE, token' = Aged(token),
               cause' = IF r = "ok" THEN "own" ELSE "lost"
        PROVE  AccessInv'
    <3>1. post' = [post EXCEPT !.phase = r, !.token = "none"]  BY <2>2 DEF Answered
    <3>2. token' \in Tokens /\ cause' \in {"none", "own", "lost", "other"} /\ alive' \in BOOLEAN
      BY <1>a, <2>2 DEF Aged, Tokens
    <3>3. r \in Phases \ {"none", "asked"} /\ "none" \in Tokens  BY <2>2 DEF Phases, Tokens
    <3>4. r # "ok" => cause' = "lost"  BY <2>2
    <3> QED  BY <2>1, <3>1, <3>2, <3>3, <3>4, AnsweredStep
  <2> QED  BY <1>1, <1>4, <2>1, <2>2 DEF ServeLogout, Refuse
<1> QED  BY <1>2, <1>3, <1>4

\* What the page does with the answers, and what others do.
LEMMA AnswerStep ==
  ASSUME AccessInv,
         \/ ReceiveLogin \/ ReceiveBootstrap \/ LeaveClosedWizard \/ ReceiveLogout \/ Other
  PROVE  AccessInv'
<1> USE DEF AccessInv, AccessTypes, GateTypes, PostTypes, FormTypes, Submitted, TokenReplaced, Tokens, Phases,
            server, place, queries, memory
<1>1. CASE ReceiveLogin
  <2>1. CASE post.phase = "ok"
    BY <1>1, <2>1, LoadStep DEF ReceiveLogin, SafeRedirectTarget, Paths, Private
  <2>2. CASE post.phase # "ok"
    <3> DEFINE n == IF post.phase = "429" THEN RetryAfter ELSE form.remaining
    <3>1. form' = [form EXCEPT !.started = FALSE, !.remaining = n]
      BY <1>1, <2>2 DEF ReceiveLogin
    <3>3. n \in 0 .. RetryAfter  OBVIOUS
    <3> HIDE DEF n
    <3>2. FormTypes'  BY <3>1, <3>3
    <3> QED  BY <1>1, <2>2, <3>2, EndStep DEF ReceiveLogin
  <2> QED  BY <2>1, <2>2
<1>2. CASE ReceiveBootstrap
  <2>1. CASE post.phase = "ok"
    BY <1>2, <2>1, LoadStep DEF ReceiveBootstrap, Paths, Private
  <2>2. CASE post.phase = "409"
    <3>1. FormTypes'  BY <1>2, <2>2 DEF ReceiveBootstrap
    <3>0. PostTypes' /\ Submitted'
      <4>1. post' = NoPost  BY <1>2, <2>2 DEF ReceiveBootstrap
      <4> QED  BY <4>1 DEF NoPost
    <3>2. ask' = [ask EXCEPT !.boot = "asked"] /\ UNCHANGED <<server, place, queries, memory>>
      BY <1>2, <2>2 DEF ReceiveBootstrap
    <3>3. TokenReplaced'  BY <2>2, <3>2
    <3> QED  BY <3>0, <3>1, <3>2, <3>3
  <2>3. CASE post.phase \notin {"ok", "409"}
    <3>1. WizardError /\ UNCHANGED server  BY <1>2, <2>3 DEF ReceiveBootstrap
    <3>2. FormTypes'  BY <3>1 DEF WizardError
    <3> QED  BY <2>3, <3>1, <3>2, EndStep DEF WizardError
  <2> QED  BY <2>1, <2>2, <2>3
<1>3. CASE LeaveClosedWizard
  BY <1>3, LoadStep DEF LeaveClosedWizard, Paths, Private
<1>4. CASE ReceiveLogout
  <2>1. CASE post.phase \in {"ok", "401"}
    BY <1>4, <2>1, LoadStep DEF ReceiveLogout, ToLogin, SafeRedirectTarget, Paths, Private
  <2>2. CASE post.phase \notin {"ok", "401"}
    <3>1. FormTypes'  BY <1>4, <2>2 DEF ReceiveLogout
    <3> QED  BY <1>4, <2>2, <3>1, EndStep DEF ReceiveLogout
  <2> QED  BY <2>1, <2>2
<1>5. CASE Other
  <2>1. /\ open' \in BOOLEAN /\ alive' \in BOOLEAN /\ token' \in Tokens
        /\ cause' \in {"none", "own", "lost", "other"}
        /\ token' = "old" /\ cause' = "own" => token = "old" /\ cause = "own"
    BY <1>5 DEF Other, OtherLoads, OtherLogsIn, SessionEnds, OtherBootstraps, AgeTokens, Aged
  <2>2. PostTypes' /\ post'.phase = post.phase /\ post'.count = post.count
    BY <1>5 DEF Other, OtherLoads, OtherLogsIn, SessionEnds, OtherBootstraps, AgeTokens, Aged
  <2>3. /\ ask' \in [boot : {"none", "asked", "open", "closed", "failed"},
                     sess : {"none", "asked", "ok", "stale", "401", "failed"}]
        /\ ask.sess \in {"ok", "stale"} => ask'.sess \in {"ok", "stale"}
    BY <1>5 DEF Other, OtherLoads, OtherLogsIn, SessionEnds, OtherBootstraps, StaleAnswer
  <2>4. UNCHANGED <<place, queries, form>>  BY <1>5 DEF Other
  <2>5. TokenReplaced'  BY <2>1, <2>2, <2>3
  <2> QED  BY <2>1, <2>2, <2>3, <2>4, <2>5
<1> QED  BY <1>1, <1>2, <1>3, <1>4, <1>5

-----------------------------------------------------------------------------
(* The settings page *)

MaybeDocs == Docs \cup {None}
MaybeTexts == Texts \cup {SettingsToValues(None)}
Queries == [data : MaybeDocs, failed : BOOLEAN, ask : {"none", "asked", "ok", "401", "failed"},
            answer : MaybeDocs]
Editors == [on : BOOLEAN, original : MaybeDocs, values : MaybeTexts, conflict : MaybeDocs,
            saving : BOOLEAN]
Puts == [phase : {"none", "confirm", "put", "saved", "refused", "401", "refetch"},
         doc : MaybeDocs, token : Tokens, mine : BOOLEAN]

EditorTypes ==
  /\ stored \in Docs /\ confirmed \in BOOLEAN /\ dubious \in BOOLEAN
  /\ query \in Queries /\ ed \in Editors /\ put \in Puts
  /\ typed \in Texts \cup {None}

\* The editor is on the page that is shown, and has started the save it waits
\* for.  A save belongs to an editor, or no editor learns its result.
SaveInv ==
  /\ ed.on => OnSettings
  /\ ed.saving <=> put.mine
  /\ put.mine => put.phase # "none" /\ ed.on
  /\ put.phase # "none" => put.doc \in Docs
  /\ put.phase # "none" /\ ~put.mine => dubious
  /\ query.ask = "ok" => query.answer \in Docs

\* Text the user has not saved differs from what the editor began with.
TypedInv == typed # None => ed.on /\ ed.values = typed /\ Dirty(ed)

\* As long as only this editor saves, the page has what the server has; while
\* the answer of a save is on its way, the answer has it.
StoredInv ==
  ~dubious =>
    IF put.phase = "saved" THEN stored = put.doc
    ELSE /\ query.data \in {None, stored}
         /\ query.ask = "ok" => query.answer = stored
         /\ ed.on => ed.original = stored /\ ed.conflict = None /\ query.data = stored

EditorInv == EditorTypes /\ SaveInv /\ TypedInv /\ StoredInv

\* The records the page begins with.
LEMMA Beginnings ==
  /\ NoQuery \in Queries /\ NoQuery.data = None /\ NoQuery.ask = "none"
  /\ NoPut \in Puts /\ NoPut.phase = "none" /\ ~NoPut.mine
  /\ Unmounted \in Editors /\ ~Unmounted.on /\ ~Unmounted.saving
  /\ \A d \in MaybeDocs :
       /\ Mounted(d) \in Editors /\ Mounted(d).on /\ ~Mounted(d).saving
       /\ Mounted(d).original = d /\ Mounted(d).conflict = None
<1>1. NoQuery \in Queries /\ NoQuery.data = None /\ NoQuery.ask = "none"
  BY DEF NoQuery, Queries, MaybeDocs
<1>2. NoPut \in Puts /\ NoPut.phase = "none" /\ ~NoPut.mine
  BY DEF NoPut, Puts, MaybeDocs, Tokens
<1>3. \A d \in MaybeDocs : SettingsToValues(d) \in MaybeTexts
  BY DEF SettingsToValues, MaybeDocs, MaybeTexts, Texts
<1>4. Unmounted \in Editors /\ ~Unmounted.on /\ ~Unmounted.saving
  BY <1>3 DEF Unmounted, Editors, MaybeDocs
<1>5. \A d \in MaybeDocs :
       /\ Mounted(d) \in Editors /\ Mounted(d).on /\ ~Mounted(d).saving
       /\ Mounted(d).original = d /\ Mounted(d).conflict = None
  BY <1>3 DEF Mounted, Editors, MaybeDocs
<1> QED  BY <1>1, <1>2, <1>4, <1>5

\* A valid text spells a document.
LEMMA ValidSpells ==
  ASSUME NEW v \in MaybeTexts, ValidateSettings(v)
  PROVE  ValuesToSettings(v) \in Docs
<1>1. CASE v \in [doc : Docs, plain : {TRUE}]  BY <1>1 DEF ValuesToSettings
<1>2. CASE v \in [doc : Respelt \cup {None}, plain : {FALSE}]
  <2>1. v.doc \in Respelt \cup {None}  BY <1>2
  <2> QED  BY <2>1, DocsAssumption DEF ValidateSettings, ValuesToSettings
<1>3. CASE v = SettingsToValues(None)
  BY <1>3 DEF SettingsToValues, ValidateSettings
<1> QED  BY <1>1, <1>2, <1>3 DEF MaybeTexts, Texts

\* A step of the gate and the other forms, seen by the editor.
LEMMA WithinStep ==
  ASSUME AccessInv', EditorInv, Within(AccessNext)
  PROVE  EditorInv'
<1> DEFINE there == Shown' = "page" /\ path' = "/settings"
<1> DEFINE gone == boot'.data = "none"
<1>1. OnSettings' <=> there  BY DEF OnSettings, Shows
<1>2. ~(gone /\ there)
  <2>1. boot'.failed \in BOOLEAN  BY DEF AccessInv, AccessTypes, GateTypes
  \* without the status of set-up no page is shown
  <2>2. (boot.data = "none" /\ boot.failed \in BOOLEAN => Shown # "page")'
    BY DEF Shown, ResolveAppAccess, NeedsSession
  <2> QED  BY <2>1, <2>2
<1>3. /\ query' = IF gone THEN NoQuery ELSE query
      /\ ed' = IF there THEN ed ELSE Unmounted
      /\ typed' = IF there THEN typed ELSE None
      /\ dubious' = IF gone THEN put.phase # "none" ELSE dubious \/ (put.mine /\ ~there)
      /\ confirmed' = (confirmed /\ alive') /\ stored' = stored
  BY DEF Within
<1>4. put' = IF gone THEN NoPut
             ELSE [put EXCEPT !.mine = there /\ @,
                              !.token = IF token' = "old" THEN Aged(@) ELSE @]
  BY DEF Within
<1>5. alive' \in BOOLEAN /\ token' \in Tokens  BY DEF AccessInv, AccessTypes, GateTypes
<1> HIDE DEF there, gone
<1>6. CASE gone
  <2>1. query' = NoQuery /\ ed' = Unmounted /\ typed' = None /\ put' = NoPut
    BY <1>2, <1>3, <1>4, <1>6
  <2>2. EditorTypes'  BY <1>3, <1>5, <1>6, <2>1, Beginnings DEF EditorInv, EditorTypes
  <2>3. SaveInv' /\ TypedInv' /\ StoredInv'
    BY <2>1, Beginnings DEF SaveInv, TypedInv, StoredInv
  <2> QED  BY <2>2, <2>3 DEF EditorInv
<1>7. CASE ~gone
  <2>1. /\ put' \in Puts /\ put'.phase = put.phase /\ put'.doc = put.doc
        /\ put'.mine = (there /\ put.mine)
    BY <1>4, <1>5, <1>7 DEF EditorInv, EditorTypes, Puts, Aged, Tokens
  <2>2. EditorTypes'
    BY <1>3, <1>5, <1>7, <2>1, Beginnings DEF EditorInv, EditorTypes
  <2>3. CASE there
    <3>1. query' = query /\ ed' = ed /\ typed' = typed /\ stored' = stored /\ dubious' = dubious
      BY <1>3, <1>7, <2>3 DEF EditorInv, EditorTypes
    <3>2. SaveInv' /\ TypedInv' /\ StoredInv'
      BY <1>1, <2>1, <2>3, <3>1 DEF EditorInv, SaveInv, TypedInv, StoredInv, EditorTypes, Puts
    <3> QED  BY <2>2, <3>2 DEF EditorInv
  <2>4. CASE ~there
    <3>1. query' = query /\ ed' = Unmounted /\ typed' = None /\ stored' = stored
      BY <1>3, <1>7, <2>4
    <3>2. dubious' = (dubious \/ put.mine)  BY <1>3, <1>7, <2>4
    <3>3. SaveInv' /\ TypedInv' /\ StoredInv'
      BY <2>1, <2>4, <3>1, <3>2, Beginnings DEF EditorInv, SaveInv, TypedInv, StoredInv
    <3> QED  BY <2>2, <3>3 DEF EditorInv
  <2> QED  BY <2>3, <2>4
<1> QED  BY <1>6, <1>7

\* Asking for the settings, and the answers.
LEMMA QueryStep ==
  ASSUME AccessInv, EditorInv, AskSettings \/ ServeSettings \/ ReceiveSettings
  PROVE  EditorInv'
<1> USE DEF EditorInv
<1>1. CASE AskSettings
  <2>1. query' = [query EXCEPT !.ask = "asked"] /\ (OnSettings' <=> OnSettings)
    BY <1>1 DEF AskSettings, OnSettings, Shows, Shown, ResolveAppAccess, Authenticated,
                NeedsSession, place, queries
  <2>2. UNCHANGED <<stored, confirmed, ed, put, typed, dubious>>  BY <1>1 DEF AskSettings
  <2>3. query' \in Queries /\ query'.ask = "asked" /\ query'.data = query.data
    BY <2>1 DEF EditorTypes, Queries
  <2>4. EditorTypes'  BY <2>2, <2>3 DEF EditorTypes
  <2>5. SaveInv' /\ TypedInv' /\ StoredInv'
    BY <2>1, <2>2, <2>3 DEF SaveInv, TypedInv, StoredInv, Dirty
  <2> QED  BY <2>4, <2>5
<1>2. CASE ServeSettings
  <2>1. PICK r \in {"ok", "401", "failed"} :
          query' = [query EXCEPT !.ask = r, !.answer = IF r = "ok" THEN stored ELSE None]
    BY <1>2 DEF ServeSettings
  <2>2. UNCHANGED <<stored, confirmed, ed, put, typed, dubious>> /\ (OnSettings' <=> OnSettings)
    BY <1>2 DEF ServeSettings, access, OnSettings, Shows, Shown, ResolveAppAccess, Authenticated,
                NeedsSession
  <2>3. /\ query' \in Queries /\ query'.data = query.data
        /\ query'.ask = "ok" => query'.answer = stored
    BY <2>1 DEF EditorTypes, Queries, MaybeDocs
  <2>4. EditorTypes'  BY <2>2, <2>3 DEF EditorTypes
  <2>5. SaveInv' /\ TypedInv' /\ StoredInv'
    BY <2>2, <2>3, <2>4 DEF SaveInv, TypedInv, StoredInv, Dirty, EditorTypes
  <2> QED  BY <2>4, <2>5
<1>3. CASE ReceiveSettings
  <2>1. stored' = stored /\ confirmed' = confirmed /\ (OnSettings' <=> OnSettings)
    BY <1>3 DEF ReceiveSettings, access, OnSettings, Shows, Shown, ResolveAppAccess, Authenticated,
                NeedsSession
  <2>2. CASE query.ask = "ok"
    <3>1. /\ query' = [data |-> query.answer, failed |-> FALSE, ask |-> "none", answer |-> None]
          /\ UNCHANGED <<ed, put, typed, dubious>>
      BY <1>3, <2>2 DEF ReceiveSettings
    <3>2. query' \in Queries /\ query'.data = query.answer /\ query'.ask = "none"
      BY <3>1 DEF EditorTypes, Queries, MaybeDocs
    <3>3. EditorTypes'  BY <2>1, <3>1, <3>2 DEF EditorTypes
    <3>4. SaveInv' /\ TypedInv' /\ StoredInv'
      BY <2>1, <2>2, <3>1, <3>2 DEF SaveInv, TypedInv, StoredInv, Dirty
    <3> QED  BY <3>3, <3>4
  <2>3. CASE query.ask = "failed"
    <3>1. /\ query' = [query EXCEPT !.failed = TRUE, !.ask = "none"]
          /\ ed' = Unmounted /\ typed' = None /\ put' = [put EXCEPT !.mine = FALSE]
          /\ dubious' = (dubious \/ put.mine)
      BY <1>3, <2>3 DEF ReceiveSettings
    <3>2. query' \in Queries /\ query'.data = query.data /\ query'.ask = "none"
      BY <3>1 DEF EditorTypes, Queries
    <3>3. put' \in Puts /\ put'.phase = put.phase /\ put'.doc = put.doc /\ ~put'.mine
      BY <3>1 DEF EditorTypes, Puts
    <3>4. EditorTypes'  BY <2>1, <3>1, <3>2, <3>3, Beginnings DEF EditorTypes
    <3>5. SaveInv' /\ TypedInv' /\ StoredInv'
      BY <2>1, <3>1, <3>2, <3>3, Beginnings DEF SaveInv, TypedInv, StoredInv
    <3> QED  BY <3>4, <3>5
  <2> QED  BY <1>3, <2>2, <2>3 DEF ReceiveSettings
<1> QED  BY <1>1, <1>2, <1>3

\* The handler of a 401 loads the login page.
LEMMA LeaveStep ==
  ASSUME AccessInv, EditorInv, Leave
  PROVE  AccessInv' /\ EditorInv'
<1>1. AccessInv'
  BY LoadStep DEF Leave, ToLogin, SafeRedirectTarget, Paths, Private, server, AccessInv,
                  AccessTypes, GateTypes
<1>2. query' = NoQuery /\ ed' = Unmounted /\ put' = NoPut /\ typed' = None /\ dubious' = FALSE
  BY DEF Leave
<1>3. EditorTypes'  BY <1>2, Beginnings DEF Leave, EditorInv, EditorTypes
<1>4. SaveInv' /\ TypedInv' /\ StoredInv'  BY <1>2, Beginnings DEF SaveInv, TypedInv, StoredInv
<1> QED  BY <1>1, <1>3, <1>4 DEF EditorInv

\* Steps of the editor leave the place where it is shown alone.
LEMMA SamePlace ==
  ASSUME UNCHANGED access
  PROVE  OnSettings' <=> OnSettings
BY DEF access, OnSettings, Shows, Shown, ResolveAppAccess, Authenticated, NeedsSession

\* The editor follows the server, the user types, and answers the notice.
LEMMA EditStep ==
  ASSUME EditorInv,
         \/ MountEditor \/ FollowServer \/ (\E v \in Texts : TypeText(v))
         \/ LoadServerCopy \/ KeepMyEdits
  PROVE  EditorInv'
<1> USE DEF EditorInv
<1>0. UNCHANGED <<stored, confirmed, query, put, dubious>> /\ (OnSettings' <=> OnSettings)
  BY SamePlace DEF MountEditor, FollowServer, TypeText, LoadServerCopy, KeepMyEdits
<1>a. query.data \in MaybeDocs /\ ed.conflict \in MaybeDocs /\ ed.original \in MaybeDocs
  BY DEF EditorTypes, Queries, Editors
<1>1. CASE MountEditor
  <2>1. ~ed.on /\ ed' = Mounted(query.data) /\ query.data # None /\ typed' = typed /\ OnSettings
    BY <1>1 DEF MountEditor
  <2>2. typed = None  BY <2>1 DEF TypedInv
  <2>3. EditorTypes'  BY <1>0, <1>a, <2>1, Beginnings DEF EditorTypes
  <2>4. SaveInv' /\ TypedInv' /\ StoredInv'
    BY <1>0, <1>a, <2>1, <2>2, Beginnings DEF SaveInv, TypedInv, StoredInv
  <2> QED  BY <2>3, <2>4
<1>2. CASE FollowServer
  <2>1. ed.on /\ query.data # ed.original /\ typed' = typed
    BY <1>2 DEF FollowServer, SameSettings
  <2>2. CASE Dirty(ed) \/ ed.saving
    <3>1. ed' = [ed EXCEPT !.conflict = query.data]  BY <1>2, <2>2 DEF FollowServer
    <3>2. /\ ed' \in Editors /\ ed'.on = ed.on /\ ed'.saving = ed.saving
          /\ ed'.values = ed.values /\ ed'.original = ed.original
      BY <1>a, <3>1 DEF EditorTypes, Editors
    <3>3. EditorTypes'  BY <1>0, <2>1, <3>2 DEF EditorTypes
    <3>4. SaveInv' /\ TypedInv' /\ StoredInv'
      BY <1>0, <2>1, <3>2 DEF SaveInv, TypedInv, StoredInv, Dirty
    <3> QED  BY <3>3, <3>4
  <2>3. CASE ~(Dirty(ed) \/ ed.saving)
    <3>1. ed' = Mounted(query.data)  BY <1>2, <2>3 DEF FollowServer
    <3>2. typed = None  BY <2>3 DEF TypedInv
    <3>3. EditorTypes'  BY <1>0, <1>a, <2>1, <3>1, Beginnings DEF EditorTypes
    <3>4. SaveInv' /\ TypedInv' /\ StoredInv'
      BY <1>0, <1>a, <2>1, <2>3, <3>1, <3>2, Beginnings DEF SaveInv, TypedInv, StoredInv
    <3> QED  BY <3>3, <3>4
  <2> QED  BY <2>2, <2>3
<1>3. ASSUME NEW v \in Texts, TypeText(v) PROVE EditorInv'
  <2>1. ed.on /\ ed' = [ed EXCEPT !.values = v] /\ typed' = Unsaved(ed', v)
    BY <1>3 DEF TypeText
  <2>2. /\ ed' \in Editors /\ ed'.on = ed.on /\ ed'.saving = ed.saving
        /\ ed'.values = v /\ ed'.original = ed.original /\ ed'.conflict = ed.conflict
    BY <1>3, <2>1 DEF EditorTypes, Editors, MaybeTexts
  <2>3. EditorTypes'  BY <1>0, <1>3, <2>1, <2>2 DEF EditorTypes, Unsaved
  <2>4. TypedInv'  BY <2>1, <2>2 DEF TypedInv, Unsaved
  <2>5. SaveInv' /\ StoredInv'  BY <1>0, <2>2 DEF SaveInv, StoredInv
  <2> QED  BY <2>3, <2>4, <2>5
<1>4. CASE LoadServerCopy
  <2>1. /\ ed.on /\ ed.conflict # None /\ ~ed.saving
        /\ ed' = Mounted(ed.conflict) /\ typed' = None
    BY <1>4 DEF LoadServerCopy
  <2>2. EditorTypes'  BY <1>0, <1>a, <2>1, Beginnings DEF EditorTypes
  <2>3. SaveInv' /\ TypedInv'
    BY <1>0, <1>a, <2>1, Beginnings DEF SaveInv, TypedInv
  <2>4. dubious \/ put.phase = "saved"  BY <2>1 DEF StoredInv
  <2>5. StoredInv'  BY <1>0, <2>4 DEF StoredInv
  <2> QED  BY <2>2, <2>3, <2>5
<1>5. CASE KeepMyEdits
  <2>1. /\ ed.on /\ ed.conflict # None /\ ~ed.saving
        /\ ed' = [ed EXCEPT !.original = ed.conflict, !.conflict = None]
        /\ typed' = Unsaved(ed', typed)
    BY <1>5 DEF KeepMyEdits
  <2>2. /\ ed' \in Editors /\ ed'.on = ed.on /\ ed'.saving = ed.saving /\ ed'.values = ed.values
    BY <1>a, <2>1 DEF EditorTypes, Editors, MaybeDocs
  <2>3. EditorTypes'  BY <1>0, <2>1, <2>2 DEF EditorTypes, Unsaved
  <2>4. TypedInv'  BY <2>1, <2>2 DEF TypedInv, Unsaved
  <2>5. SaveInv'  BY <1>0, <2>2 DEF SaveInv
  <2>6. dubious \/ put.phase = "saved"  BY <2>1 DEF StoredInv
  <2>7. StoredInv'  BY <1>0, <2>6 DEF StoredInv
  <2> QED  BY <2>3, <2>4, <2>5, <2>7
<1> QED  BY <1>1, <1>2, <1>3, <1>4, <1>5

\* A save from the click to its end.
LEMMA SaveStep ==
  ASSUME AccessInv, EditorInv,
         \/ SubmitSettings \/ ServeConfirm \/ ServePut \/ SaveRefused
         \/ SaveDone \/ SaveSettled \/ OtherSaves
  PROVE  EditorInv'
<1> USE DEF EditorInv
<1>0. OnSettings' <=> OnSettings
  BY SamePlace DEF SubmitSettings, ServeConfirm, ServePut, SaveRefused, SaveDone, SaveSettled,
                   OtherSaves
<1>a. token \in Tokens  BY DEF AccessInv, AccessTypes, GateTypes
<1>1. CASE SubmitSettings
  <2> DEFINE d == ValuesToSettings(ed.values)
             p == IF LoggerIdentityChanged(ed.values, ed.original) THEN "confirm" ELSE "put"
  <2>1. /\ ed.on /\ ~ed.saving /\ put.phase = "none" /\ ValidateSettings(ed.values)
        /\ ed' = [ed EXCEPT !.saving = TRUE]
        /\ put' = [phase |-> p, doc |-> d, token |-> token, mine |-> TRUE]
        /\ UNCHANGED <<stored, confirmed, query, typed, dubious>>
    BY <1>1 DEF SubmitSettings
  <2>2. d \in Docs  BY <2>1, ValidSpells DEF EditorTypes, Editors
  <2>3. p \in {"confirm", "put"}  OBVIOUS
  <2> HIDE DEF d, p
  <2>4. put' \in Puts /\ put'.phase \in {"confirm", "put"} /\ put'.doc = d /\ put'.mine
    BY <1>a, <2>1, <2>2, <2>3 DEF Puts, MaybeDocs
  <2>5. /\ ed' \in Editors /\ ed'.on = ed.on /\ ed'.saving /\ ed'.values = ed.values
        /\ ed'.original = ed.original /\ ed'.conflict = ed.conflict
    BY <2>1 DEF EditorTypes, Editors
  <2>6. EditorTypes'  BY <2>1, <2>4, <2>5 DEF EditorTypes
  <2>7. SaveInv'  BY <1>0, <2>1, <2>2, <2>4, <2>5 DEF SaveInv
  <2>8. TypedInv' /\ StoredInv'  BY <2>1, <2>4, <2>5 DEF TypedInv, StoredInv, Dirty
  <2> QED  BY <2>6, <2>7, <2>8
<1>2. CASE ServeConfirm
  <2>1. /\ put.phase = "confirm" /\ confirmed' \in BOOLEAN
        /\ UNCHANGED <<stored, query, ed, typed, dubious>>
    BY <1>2 DEF ServeConfirm, EditorTypes
  <2>2. /\ put' \in Puts /\ put'.phase \in {"put", "refused"} /\ put'.doc = put.doc
        /\ put'.mine = put.mine
    BY <1>2, <1>a DEF ServeConfirm, Refused, EditorTypes, Puts, Tokens
  <2>3. EditorTypes'  BY <2>1, <2>2 DEF EditorTypes
  <2>4. SaveInv' /\ TypedInv' /\ StoredInv'
    BY <1>0, <2>1, <2>2 DEF SaveInv, TypedInv, StoredInv, Dirty
  <2> QED  BY <2>3, <2>4
<1>3. CASE ServePut
  <2>1. put.phase = "put" /\ UNCHANGED <<query, ed, typed>>  BY <1>3 DEF ServePut
  <2>2. put.doc \in Docs  BY <2>1 DEF SaveInv
  <2>3. confirmed' \in BOOLEAN  BY <1>3 DEF ServePut, EditorTypes
  <2>4. ASSUME NEW q \in {"saved", "refused", "401"}, put' = [put EXCEPT !.phase = q, !.token = "none"]
        PROVE  put' \in Puts /\ put'.phase = q /\ put'.doc = put.doc /\ put'.mine = put.mine
    BY <2>4 DEF EditorTypes, Puts, Tokens
  <2>5. \/ stored' = put.doc /\ dubious' = dubious /\ put' = [put EXCEPT !.phase = "saved", !.token = "none"]
        \/ stored' = put.doc /\ dubious' = TRUE /\ put' = Refused
        \/ /\ stored' = stored /\ dubious' = dubious
           /\ put' = Refused \/ put' = [put EXCEPT !.phase = "401", !.token = "none"]
    BY <1>3 DEF ServePut
  <2>6. CASE stored' = put.doc /\ dubious' = dubious /\ put' = [put EXCEPT !.phase = "saved", !.token = "none"]
    <3>1. put' \in Puts /\ put'.phase = "saved" /\ put'.doc = put.doc /\ put'.mine = put.mine
      BY <2>4, <2>6
    <3>2. EditorTypes'  BY <2>1, <2>2, <2>3, <2>6, <3>1 DEF EditorTypes
    <3>3. SaveInv' /\ TypedInv' /\ StoredInv'
      BY <1>0, <2>1, <2>2, <2>6, <3>1 DEF SaveInv, TypedInv, StoredInv, Dirty
    <3> QED  BY <3>2, <3>3
  <2>7. CASE stored' = put.doc /\ dubious' = TRUE /\ put' = Refused
    <3>1. put' \in Puts /\ put'.phase = "refused" /\ put'.doc = put.doc /\ put'.mine = put.mine
      BY <2>4, <2>7 DEF Refused
    <3>2. EditorTypes'  BY <2>1, <2>2, <2>3, <2>7, <3>1 DEF EditorTypes
    <3>3. SaveInv' /\ TypedInv' /\ StoredInv'
      BY <1>0, <2>1, <2>2, <2>7, <3>1 DEF SaveInv, TypedInv, StoredInv, Dirty
    <3> QED  BY <3>2, <3>3
  <2>8. CASE /\ stored' = stored /\ dubious' = dubious
             /\ put' = Refused \/ put' = [put EXCEPT !.phase = "401", !.token = "none"]
    <3>1. /\ put' \in Puts /\ put'.phase \in {"refused", "401"} /\ put'.doc = put.doc
          /\ put'.mine = put.mine
      BY <2>4, <2>8 DEF Refused
    <3>2. EditorTypes'  BY <2>1, <2>3, <2>8, <3>1 DEF EditorTypes
    <3>3. SaveInv' /\ TypedInv' /\ StoredInv'
      BY <1>0, <2>1, <2>2, <2>8, <3>1 DEF SaveInv, TypedInv, StoredInv, Dirty
    <3> QED  BY <3>2, <3>3
  <2> QED  BY <2>5, <2>6, <2>7, <2>8
<1>4. CASE SaveRefused \/ SaveSettled
  <2>1. /\ put.phase \in {"refused", "refetch"} /\ put' = NoPut
        /\ ed' = IF put.mine THEN [ed EXCEPT !.saving = FALSE] ELSE ed
        /\ UNCHANGED <<stored, confirmed, query, typed, dubious>>
    BY <1>4 DEF SaveRefused, SaveSettled
  <2>2. ~put.mine => ~ed.saving  BY DEF SaveInv
  <2>3. /\ ed' \in Editors /\ ed'.on = ed.on /\ ~ed'.saving /\ ed'.values = ed.values
        /\ ed'.original = ed.original /\ ed'.conflict = ed.conflict
    BY <2>1, <2>2 DEF EditorTypes, Editors
  <2>4. EditorTypes'  BY <2>1, <2>3, Beginnings DEF EditorTypes
  <2>5. SaveInv' /\ TypedInv' /\ StoredInv'
    BY <1>0, <2>1, <2>3, Beginnings DEF SaveInv, TypedInv, StoredInv, Dirty
  <2> QED  BY <2>4, <2>5
<1>5. CASE SaveDone
  <2>1. /\ put.phase = "saved" /\ put' = [put EXCEPT !.phase = "refetch"]
        /\ UNCHANGED <<stored, confirmed, dubious>>
    BY <1>5 DEF SaveDone
  <2>2. /\ put' \in Puts /\ put'.phase = "refetch" /\ put'.doc = put.doc /\ put'.mine = put.mine
        /\ put.doc \in Docs
    BY <2>1 DEF EditorTypes, Puts, SaveInv
  <2>3. /\ query' \in Queries /\ query'.data = put.doc
        /\ OnSettings => query'.ask = "asked"
        /\ query'.ask = "ok" => query.ask = "ok" /\ query'.answer = query.answer
    BY <1>5, <2>2 DEF SaveDone, EditorTypes, Queries, MaybeDocs
  <2>4. CASE put.mine
    <3>1. ed' = [Mounted(put.doc) EXCEPT !.saving = TRUE] /\ typed' = None
      BY <1>5, <2>4 DEF SaveDone
    <3>2. put.doc \in MaybeDocs  BY <2>2 DEF MaybeDocs
    <3>3. /\ ed' \in Editors /\ ed'.on /\ ed'.saving
          /\ ed'.original = put.doc /\ ed'.conflict = None
      BY <3>1, <3>2, Beginnings DEF Editors
    <3>4. EditorTypes'  BY <2>1, <2>2, <2>3, <3>1, <3>3 DEF EditorTypes
    <3>5. OnSettings  BY <2>4 DEF SaveInv
    <3>6. SaveInv' /\ TypedInv' /\ StoredInv'
      BY <1>0, <2>1, <2>2, <2>3, <2>4, <3>1, <3>3, <3>5 DEF SaveInv, TypedInv, StoredInv
    <3> QED  BY <3>4, <3>6
  <2>5. CASE ~put.mine
    <3>1. ed' = ed /\ typed' = typed  BY <1>5, <2>5 DEF SaveDone
    <3>2. dubious  BY <2>1, <2>5 DEF SaveInv
    <3>3. EditorTypes'  BY <2>1, <2>2, <2>3, <3>1 DEF EditorTypes
    <3>4. SaveInv' /\ TypedInv' /\ StoredInv'
      BY <1>0, <2>1, <2>2, <2>3, <2>5, <3>1, <3>2 DEF SaveInv, TypedInv, StoredInv, Dirty
    <3> QED  BY <3>3, <3>4
  <2> QED  BY <2>4, <2>5
<1>6. CASE OtherSaves
  <2>1. stored' \in Docs /\ dubious' = TRUE /\ UNCHANGED <<confirmed, query, ed, put, typed>>
    BY <1>6 DEF OtherSaves
  <2>2. EditorTypes'  BY <2>1 DEF EditorTypes
  <2>3. SaveInv' /\ TypedInv' /\ StoredInv'
    BY <1>0, <2>1 DEF SaveInv, TypedInv, StoredInv, Dirty
  <2> QED  BY <2>2, <2>3
<1> QED  BY <1>1, <1>2, <1>3, <1>4, <1>5, <1>6

-----------------------------------------------------------------------------
(* Both pages *)

WebInv == AccessInv /\ EditorInv

\* Every step of the tab, the server and the others keeps the two invariants.
LEMMA WebStep ==
  ASSUME WebInv, [Next]_vars
  PROVE  WebInv'
<1>0. AccessInv /\ EditorInv  BY DEF WebInv
<1>1. CASE AccessStep
  <2>1. AccessNext /\ Within(AccessNext)  BY <1>1 DEF AccessStep, Within
  <2>2. AccessInv'  BY <1>0, <2>1, GateStep, FormStep, ServeStep, AnswerStep DEF AccessNext
  <2>3. EditorInv'  BY <1>0, <2>1, <2>2, WithinStep
  <2> QED  BY <2>2, <2>3 DEF WebInv
<1>2. ASSUME UNCHANGED <<open, alive, path, redirect, boot, sess, token, cause, ask, post, form>>
      PROVE  AccessInv'
  BY <1>0, <1>2 DEF AccessInv, AccessTypes, GateTypes, PostTypes, FormTypes, Submitted, TokenReplaced
<1>3. CASE AskSettings \/ ServeSettings \/ ReceiveSettings
  <2>1. AccessInv'
    BY <1>2, <1>3 DEF AskSettings, ServeSettings, ReceiveSettings, access, server, place,
                      queries, memory
  <2> QED  BY <1>0, <1>3, <2>1, QueryStep DEF WebInv
<1>4. CASE SettingsUnauthorized \/ SaveUnauthorized
  BY <1>0, <1>4, LeaveStep DEF SettingsUnauthorized, SaveUnauthorized, WebInv
<1>5. CASE \/ MountEditor \/ FollowServer \/ (\E v \in Texts : TypeText(v))
           \/ LoadServerCopy \/ KeepMyEdits
  <2>1. UNCHANGED access
    BY <1>5 DEF MountEditor, FollowServer, TypeText, LoadServerCopy, KeepMyEdits
  <2>2. AccessInv'  BY <1>2, <2>1 DEF access
  <2> QED  BY <1>0, <1>5, <2>2, EditStep DEF WebInv
<1>6. CASE \/ SubmitSettings \/ ServeConfirm \/ ServePut \/ SaveRefused
           \/ SaveDone \/ SaveSettled \/ OtherSaves
  <2>1. UNCHANGED access
    BY <1>6 DEF SubmitSettings, ServeConfirm, ServePut, SaveRefused, SaveDone, SaveSettled,
                OtherSaves
  <2>2. AccessInv'  BY <1>2, <2>1 DEF access
  <2> QED  BY <1>0, <1>6, <2>2, SaveStep DEF WebInv
<1>7. CASE UNCHANGED vars
  <2>1. UNCHANGED access /\ UNCHANGED <<stored, confirmed, query, ed, put, typed, dubious>>
    BY <1>7 DEF vars, editor
  <2>2. AccessInv'  BY <1>2, <2>1 DEF access
  <2>3. EditorInv'
    BY <1>0, <2>1, SamePlace DEF EditorInv, EditorTypes, SaveInv, TypedInv, StoredInv, Dirty
  <2> QED  BY <2>2, <2>3 DEF WebInv
<1> QED  BY <1>1, <1>3, <1>4, <1>5, <1>6, <1>7 DEF Next, EditorNext

\* ... and they hold when the tab is opened.
LEMMA WebInvariant == Spec => []WebInv
<1>1. SInit => WebInv
  <2> SUFFICES ASSUME SInit PROVE WebInv  OBVIOUS
  <2>1. AccessInv
    BY DEF SInit, Init, AccessInv, AccessTypes, GateTypes, PostTypes, FormTypes, Submitted,
           TokenReplaced, NoBoot, NoPost, FreshForm, Tokens, Phases, Private
  <2>2. EditorTypes  BY Beginnings DEF SInit, EditorTypes
  <2>3. SaveInv /\ TypedInv /\ StoredInv
    BY Beginnings DEF SInit, SaveInv, TypedInv, StoredInv
  <2> QED  BY <2>1, <2>2, <2>3 DEF WebInv, EditorInv
<1> QED  BY <1>1, WebStep, PTL DEF Spec

\* One submission per form and per request, whatever is clicked, drawn or
\* answered in between, and an old token in memory is never the page's own
\* doing unless the new one is on its way; with the types of both pages.
THEOREM RequestsStaySound == Spec => []RequestsSound
<1>1. WebInv => RequestsSound
  <2> SUFFICES ASSUME WebInv PROVE RequestsSound  OBVIOUS
  <2>1. GateTypes /\ PostTypes /\ FormTypes /\ EditorTypes /\ TokenReplaced
    BY DEF WebInv, AccessInv, AccessTypes, EditorInv
  <2>2. post.kind \in {"none", "login", "bootstrap", "logout"} /\ post.count \in 0 .. 1
    BY <2>1 DEF PostTypes
  <2>3. /\ form.step \in 0 .. LastStep /\ form.bad \subseteq 0 .. (LastStep - 1)
        /\ form.remaining \in 0 .. RetryAfter
    BY <2>1 DEF FormTypes
  <2>4. TypeOK
    BY <2>1, <2>2, <2>3 DEF TypeOK, GateTypes, Tokens, EditorTypes, Queries, Editors, Puts,
                            MaybeDocs, MaybeTexts
  <2>5. OneSubmission  BY <2>2 DEF OneSubmission
  <2> QED  BY <2>1, <2>4, <2>5 DEF RequestsSound
<1> QED  BY <1>1, WebInvariant, PTL

\* What is typed stays in the editor until it is saved or given up, and the
\* notice of a change by another session is never about the save of the editor
\* that shows it,
\* for any documents, any number of edits, refetches, redirects and failures.
THEOREM EditorStaysHonest == Spec => []EditorHonest
<1>1. WebInv => EditorHonest
  <2> SUFFICES ASSUME WebInv PROVE EditorHonest  OBVIOUS
  <2>1. SaveInv /\ TypedInv /\ StoredInv  BY DEF WebInv, EditorInv
  <2>2. EditsKept  BY <2>1 DEF EditsKept, TypedInv
  <2>3. ConflictIsForeign  BY <2>1 DEF ConflictIsForeign, SaveInv, StoredInv
  <2> QED  BY <2>2, <2>3 DEF EditorHonest
<1> QED  BY <1>1, WebInvariant, PTL

\* In every state of the pages, what their forms let through is accepted by
\* the server up to what only it can know, what is stored can be edited again,
\* and a refusal is shown at its field.
THEOREM FormsStayAgreed == Spec => []FormsAgree
<1>1. FormsAgree
  BY FilledAgree DEF FormsAgree, ValidatedIsAccepted, StoredIsEditable, RefusalAtItsField
<1> QED  BY <1>1, PTL
=============================================================================
