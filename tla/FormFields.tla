----------------------------- MODULE FormFields -----------------------------
(***************************************************************************)
(* What is typed into the set-up wizard and the settings editor, how it is *)
(* checked and converted (onboarding/schema.ts, settings-model.ts), what   *)
(* the server checks and stores (config.ValidateSettings), and where the   *)
(* wizard shows a refusal.                                                 *)
(*                                                                         *)
(* A text is a record of what the checks can tell of it; the value of a    *)
(* text that may have none is a set of at most one element.  Coordinates   *)
(* are in units of 10^-7 degrees.                                          *)
(***************************************************************************)
EXTENDS Integers, Sequences

CONSTANTS
  Usual,          \* values of the form that both sides accept
  FieldTexts      \* for each field the texts to try in it

StepFields == <<      \* steps of the wizard; the fields in the order of validateStep
  <<"username", "password", "confirmPassword">>,
  <<"loggerHost", "loggerSerial", "loggerPort", "modbusSlave">>,
  <<"panelCount", "panelWattage", "activeMPPT">>,
  <<"latitude", "longitude", "timezone", "currency", "tariff", "retentionDays">>>>

FieldsOf(step) == {StepFields[step][i] : i \in DOMAIN StepFields[step]}
Fields == UNION {FieldsOf(s) : s \in DOMAIN StepFields}
SettingsFields == Fields \ FieldsOf(1)

(* What the checks can tell of a text, for each field. *)
IntegerFields == {"loggerPort", "modbusSlave", "panelCount", "panelWattage", "retentionDays"}
TextsOf(field) ==
  CASE field = "username"                       -> {"blank", "name"}
    [] field \in {"password", "confirmPassword"} -> [chars : Nat, bytes : Nat]
    [] field = "loggerHost"                     -> [ipv4 : BOOLEAN, spaced : BOOLEAN, private : BOOLEAN]
    [] field = "loggerSerial"                   -> [digits : BOOLEAN, uint32 : BOOLEAN, zeros : Nat]
    [] field \in IntegerFields                  -> [digits : BOOLEAN, n : Nat]
    [] field = "activeMPPT"                     -> {<<>>, <<1>>, <<2>>, <<1, 2>>, <<2, 1>>}
    [] field \in {"latitude", "longitude"}      -> [form : {"plain", "exponent", "other"}, n : Int]
    [] field = "timezone"                       -> {"both", "browser", "empty", "Local", "unknown"}
    [] field = "currency"                       -> {"BRL", "brl", "ZZZ"}
    [] field = "tariff"                         -> [whole : Nat, spaced : BOOLEAN, cents : Seq(0 .. 9)]

ASSUME FieldTextsAssumption ==
  /\ DOMAIN Usual = Fields /\ DOMAIN FieldTexts = Fields
  /\ \A f \in Fields : Usual[f] \in TextsOf(f) /\ FieldTexts[f] \subseteq TextsOf(f)

(* stepForField in OnboardingWizard.tsx. *)
StepForField(field) == CHOOSE s \in DOMAIN StepFields : field \in FieldsOf(s)

(* Limits that the browser and the server share. *)
MaxPort == 65535
MaxPower == 12000
MaxTariff == 1000000000
MaxRetention == 3650
MaxLatitude == 900000000
MaxLongitude == 1800000000

-----------------------------------------------------------------------------
(* Texts and their values. *)

(* Digits only, and a number the language holds exactly. *)
IntegerOf(text) == IF text.digits THEN {text.n} ELSE {}

(* No exponent is understood. *)
DecimalOf(text) == IF text.form = "plain" THEN {text.n} ELSE {}

(* At most two digits after the comma, the missing ones being zero. *)
TariffMinor(text) ==
  LET cent(i) == IF i <= Len(text.cents) THEN text.cents[i] ELSE 0
      minor == 100 * text.whole + 10 * cent(1) + cent(2)
  IN IF Len(text.cents) <= 2 /\ minor <= MaxTariff THEN {minor} ELSE {}

IntegerText(n) == [digits |-> TRUE, n |-> n]

(* JavaScript writes a number below 10^-6 with an exponent. *)
DecimalText(n) == [form |-> IF n # 0 /\ n \in -9..9 THEN "exponent" ELSE "plain", n |-> n]

UnpaddedTariff(minor) ==      \* Mutant: five cents are written ",5"
  [whole |-> minor \div 100, spaced |-> FALSE,
   cents |-> IF minor % 100 < 10 THEN <<minor % 10>> ELSE <<(minor % 100) \div 10, minor % 10>>]

TariffText(minor) ==
  [whole |-> minor \div 100, spaced |-> FALSE, cents |-> <<(minor % 100) \div 10, minor % 10>>]

-----------------------------------------------------------------------------
(* Checks in the browser. *)

Holds(value, S) == \E n \in value : n \in S

ValidIPv4(text) == text.ipv4 /\ ~text.spaced
ValidLoggerSerial(text) == text.digits /\ text.uint32
ValidTimezone(text) == text \in {"both", "browser"}      \* who knows the zone
ValidCurrency(text) == text \in {"BRL", "brl"}           \* trimmed and in capitals

TooMuchPower(values) ==
  \E count \in IntegerOf(values["panelCount"]), watts \in IntegerOf(values["panelWattage"]) :
    count > 0 /\ watts > 0 /\ count * watts > MaxPower

(* The checks the two forms share. *)
FieldWrong(field, values) ==
  LET text == values[field]
  IN CASE field = "loggerHost"    -> ~ValidIPv4(text)
       [] field = "loggerSerial"  -> ~ValidLoggerSerial(text)
       [] field = "loggerPort"    -> ~Holds(IntegerOf(text), 1..MaxPort)
       [] field = "modbusSlave"   -> ~Holds(IntegerOf(text), 1..247)
       [] field = "panelCount"    -> ~Holds(IntegerOf(text), Nat \ {0}) \/ TooMuchPower(values)
       [] field = "panelWattage"  -> ~Holds(IntegerOf(text), Nat \ {0})
       [] field = "activeMPPT"    -> text = <<>>
       [] field = "latitude"      -> ~Holds(DecimalOf(text), -MaxLatitude..MaxLatitude)
       [] field = "longitude"     -> ~Holds(DecimalOf(text), -MaxLongitude..MaxLongitude)
       [] field = "timezone"      -> ~ValidTimezone(text)
       [] field = "currency"      -> ~ValidCurrency(text)
       [] field = "tariff"        -> TariffMinor(text) = {}
       [] field = "retentionDays" -> ~Holds(IntegerOf(text), 30..MaxRetention)

AccountWrong(field, values) ==
  CASE field = "username"        -> values["username"] = "blank"
    [] field = "password"        -> values["password"].chars < 12 \/ values["password"].bytes > 128
    [] field = "confirmPassword" -> values["confirmPassword"] # values["password"]

(* Fields of a step with an error; spaces around a tariff are one here. *)
ValidateStep(step, values) ==
  {f \in FieldsOf(step) :
     IF step = 1 THEN AccountWrong(f, values)
     ELSE FieldWrong(f, values) \/ (f = "tariff" /\ values[f].spaced)}

SettingsErrors(values) == {f \in SettingsFields : FieldWrong(f, values)}      \* validateSettings

Submittable(values) == \A s \in DOMAIN StepFields : ValidateStep(s, values) = {}

-----------------------------------------------------------------------------
(* Conversion.  The wizard's throws where the value is missing, the         *)
(* editor's puts zero.                                                      *)

Sorted(inputs) == IF inputs = <<2, 1>> THEN <<1, 2>> ELSE inputs

UpperCase(currency) == IF currency = "brl" THEN "BRL" ELSE currency

Missing(value) == IF value = {} THEN 0 ELSE CHOOSE n \in value : TRUE

SettingsOf(values) ==      \* valuesToSettings
  [f \in SettingsFields |->
     CASE f \in IntegerFields              -> Missing(IntegerOf(values[f]))
       [] f \in {"latitude", "longitude"}  -> Missing(DecimalOf(values[f]))
       [] f = "tariff"                     -> Missing(TariffMinor(values[f]))
       [] f = "activeMPPT"                 -> Sorted(values[f])
       [] f = "currency"                   -> UpperCase(values[f])
       [] f = "loggerHost"                 -> [values[f] EXCEPT !.spaced = FALSE]
       [] f \in {"loggerSerial", "timezone"} -> values[f]]

(* toBootstrapPayload throws on any of these. *)
Throws(values) ==
  \/ \E f \in IntegerFields : IntegerOf(values[f]) = {}
  \/ DecimalOf(values["latitude"]) = {} \/ DecimalOf(values["longitude"]) = {}
  \/ TariffMinor(values["tariff"]) = {} \/ values["tariff"].spaced

SettingsText(settings) ==      \* settingsToValues
  [f \in SettingsFields |->
     CASE f \in {"latitude", "longitude"} -> DecimalText(settings[f])
       [] f \in IntegerFields -> IntegerText(settings[f])
       [] f = "tariff" -> TariffText(settings[f])
       [] OTHER -> settings[f]]

IdentityChanged(values, original) ==      \* loggerIdentityChanged
  \/ [values["loggerHost"] EXCEPT !.spaced = FALSE] # original.loggerHost
  \/ values["loggerSerial"] # original.loggerSerial
  \/ IntegerOf(values["loggerPort"]) # {original.loggerPort}
  \/ IntegerOf(values["modbusSlave"]) # {original.modbusSlave}

-----------------------------------------------------------------------------
(* The server.  A public address is accepted only if it was configured so. *)

(* The checks in their order, first those of the request (settingsDTO), then *)
(* those of ValidateSettings: the message, and the fields it looks at.  That *)
(* a field is missing does not happen: the forms send them all.             *)
Checks == <<
  <<"zero port", {"loggerPort"}>>, <<"zero slave", {"modbusSlave"}>>,
  <<"zero retention", {"retentionDays"}>>,
  <<"logger host", {"loggerHost"}>>, <<"logger port", {"loggerPort"}>>,
  <<"logger serial", {"loggerSerial"}>>, <<"modbus slave", {"modbusSlave"}>>,
  <<"panel count and wattage", {"panelCount", "panelWattage"}>>,
  <<"installed power", {"panelCount", "panelWattage"}>>, <<"mppt", {"activeMPPT"}>>,
  <<"latitude", {"latitude"}>>, <<"longitude", {"longitude"}>>, <<"timezone", {"timezone"}>>,
  <<"currency", {"currency"}>>, <<"tariff", {"tariff"}>>, <<"retention", {"retentionDays"}>>>>

Refuses(message, s) ==
  CASE message = "zero port"       -> s.loggerPort = 0
    [] message = "zero slave"      -> s.modbusSlave = 0
    [] message = "zero retention"  -> s.retentionDays = 0
    [] message = "logger host"     -> ~s.loggerHost.ipv4 \/ ~s.loggerHost.private
    [] message = "logger port"     -> s.loggerPort \notin 0..MaxPort
    [] message = "logger serial"   -> ~ValidLoggerSerial(s.loggerSerial)
    [] message = "modbus slave"    -> s.modbusSlave \notin 0..247
    [] message = "panel count and wattage" -> s.panelCount <= 0 \/ s.panelWattage <= 0
    [] message = "installed power" -> s.panelWattage > 0 /\ s.panelCount > MaxPower \div s.panelWattage
    [] message = "mppt"            -> s.activeMPPT \notin {<<1>>, <<2>>, <<1, 2>>}
    [] message = "latitude"        -> s.latitude \notin -MaxLatitude..MaxLatitude
    [] message = "longitude"       -> s.longitude \notin -MaxLongitude..MaxLongitude
    [] message = "timezone"        -> s.timezone # "both"
    [] message = "currency"        -> s.currency # "BRL"
    [] message = "tariff"          -> s.tariff \notin 0..MaxTariff
    [] message = "retention"       -> s.retentionDays # 0 /\ s.retentionDays \notin 30..MaxRetention

Refusals(s) == {i \in DOMAIN Checks : Refuses(Checks[i][1], s)}
FirstRefusal(s) == Checks[CHOOSE i \in Refusals(s) : \A j \in Refusals(s) : i <= j]

(* What is stored: zeros in front of the serial number are dropped.  The     *)
(* defaults for a port, a slave and a retention of zero are for requests that *)
(* leave them out.                                                          *)
Normalized(s) == [s EXCEPT !.loggerSerial.zeros = 0]

-----------------------------------------------------------------------------
(* serverFieldError: the first pattern that a message matches. *)

Mappings == <<
  <<"loggerHost", {"logger host"}>>, <<"loggerSerial", {"logger serial"}>>,
  <<"loggerPort", {"logger port", "zero port"}>>, <<"modbusSlave", {"modbus slave", "zero slave"}>>,
  <<"panelCount", {"installed power", "panel count and wattage"}>>,
  <<"panelWattage", {"panel count and wattage"}>>, <<"activeMPPT", {"mppt"}>>,
  <<"latitude", {"latitude"}>>, <<"longitude", {"longitude"}>>, <<"timezone", {"timezone"}>>,
  <<"currency", {"currency"}>>, <<"tariff", {"tariff"}>>, <<"retentionDays", {"retention", "zero retention"}>>>>

ServerFieldError(message) ==
  LET matching == {i \in DOMAIN Mappings : message \in Mappings[i][2]}
  IN IF matching = {} THEN "general"
     ELSE Mappings[CHOOSE i \in matching : \A j \in matching : i <= j][1]

-----------------------------------------------------------------------------
(* What the checks promise, for forms in which up to two fields differ from *)
(* the usual ones; WebApp states it of the pages.                           *)

Filled == UNION {{[Usual EXCEPT ![f] = t, ![g] = u] : t \in FieldTexts[f], u \in FieldTexts[g]} :
                   f \in Fields, g \in Fields}

(* What only the server can know: the address is public, or the zone is not *)
(* in its database.                                                         *)
Unforeseen(s) == \A i \in Refusals(s) : Checks[i][1] \in {"logger host", "timezone"}

WizardIsAccepted ==
  \A values \in Filled :
    Submittable(values) => ~Throws(values) /\ Unforeseen(SettingsOf(values))

EditorIsAccepted ==
  \A values \in Filled :
    /\ SettingsErrors(values) = {} => Unforeseen(SettingsOf(values))
    /\ Submittable(values) => SettingsErrors(values) = {}

(* A number that is written with an exponent is not read back. *)
Readable(s) == {DecimalText(s.latitude).form, DecimalText(s.longitude).form} = {"plain"}

Reopened(s) ==
  LET shown == SettingsText(s)
  IN SettingsErrors(shown) = {} /\ SettingsOf(shown) = s /\ ~IdentityChanged(shown, s)

StoredReopens ==
  \A values \in Filled :
    (SettingsErrors(values) = {} /\ Refusals(SettingsOf(values)) = {}
       /\ Readable(SettingsOf(values))) => Reopened(Normalized(SettingsOf(values)))

RefusalsPlaced ==
  \A values \in Filled :
    LET s == SettingsOf(values)
    IN Refusals(s) # {} =>
         LET field == ServerFieldError(FirstRefusal(s)[1])
         IN field \in FirstRefusal(s)[2] /\ field \in FieldsOf(StepForField(field))
=============================================================================
