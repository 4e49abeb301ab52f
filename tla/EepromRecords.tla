---------------------------- MODULE EepromRecords ----------------------------
(***************************************************************************)
(* The records kept in the EEPROM and the requests that change them.        *)
(*                                                                         *)
(* Every component has its own load and save functions.  They differ in     *)
(* four ways, and a record is described by them:                            *)
(*   checked    its load compares a checksum, not the revision alone        *)
(*   repaired   its load writes the defaults back when it refuses what it   *)
(*              read (not when the read itself failed)                      *)
(*   source     what its save writes: the values in memory themselves       *)
(*              ("live"), or a copy of them that it composes before it asks *)
(*              for the EEPROM, on its stack ("own") or in the one static   *)
(*              structure of all its saves ("shared")                       *)
(*   listed     its save is one of those eeprom_save_all calls              *)
(*                                                                         *)
(* A record is Pages pages, and each page has a version.  What the fields   *)
(* of a page mean does not matter here.  X_Variant is X with a mistake.      *)
(***************************************************************************)
EXTENDS Naturals, Sequences

Pages == 1..2

Record(checked, repaired, source, listed) ==
    [checked |-> checked, repaired |-> repaired, source |-> source, listed |-> listed]

(* eeprom_init: the revision and the identity made up at the first start.   *)
(* (When its read fails, its save is not registered either.)                *)
Metadata == Record(FALSE, TRUE, "live", TRUE)

(* wireless_config_init, wireless_config_save: the one checksum in use.     *)
Wifi == Record(TRUE, FALSE, "own", TRUE)

(* neopixel_led_init, neopixel_led_config_save                              *)
Leds == Record(FALSE, TRUE, "live", TRUE)

(* display_config_init registers no save.                                   *)
Display == Record(FALSE, TRUE, "live", FALSE)

(* load_config, tft35_save_config: touch calibration, in the TFT build      *)
Touch == Record(FALSE, FALSE, "live", FALSE)

(* scale_init, scale_config_save                                            *)
Scale == Record(FALSE, TRUE, "live", TRUE)

(* profile_data_init, profile_data_save                                     *)
Profiles_Composed == Record(FALSE, TRUE, "own", TRUE)
Profiles == Record(FALSE, TRUE, "live", TRUE)

(* charge_mode_config_init, charge_mode_config_save                         *)
Charge == Record(FALSE, TRUE, "live", TRUE)

(* servo_gate_config_init, servo_gate_config_save                           *)
Servo == Record(FALSE, TRUE, "live", TRUE)

(* motor_config_init, motor_config_save                                     *)
Motors == Record(FALSE, TRUE, "own", TRUE)

(* load_config_from_eeprom, save_config_to_eeprom of the AI tuning           *)
Tuning == Record(FALSE, FALSE, "shared", TRUE)

Attributes ==
    [metadata |-> Metadata, wifi |-> Wifi, leds |-> Leds, display |-> Display,
     touch |-> Touch, scale |-> Scale, profiles |-> Profiles, charge |-> Charge,
     servo |-> Servo, motors |-> Motors, tuning |-> Tuning]

(* main loads them in this order.  The motors' and the tuning's records are  *)
(* loaded by tasks that start later, before the HTTP server takes requests. *)
StartOrder ==
    <<"metadata", "wifi", "leds", "display", "touch", "scale", "profiles",
      "charge", "servo", "motors", "tuning">>

(* eeprom_save_all walks a list built by prepending: the last one comes      *)
(* first.                                                                  *)
SaveAllList(order) ==
    LET listed == SelectSeq(order, LAMBDA r : Attributes[r].listed)
    IN  [i \in DOMAIN listed |-> listed[Len(listed) + 1 - i]]

-----------------------------------------------------------------------------
(* The configuration requests.  Each sets fields of one record in memory,   *)
(* saves that record if "ee" is set, and answers with the values in memory. *)
(* pages: where the fields it sets are.                                     *)
Endpoint(record, pages, alwaysSaves) ==
    [record |-> record, pages |-> pages, alwaysSaves |-> alwaysSaves]

WirelessConfig == Endpoint("wifi", Pages, FALSE)
LedConfig      == Endpoint("leds", Pages, FALSE)
DisplayConfig  == Endpoint("display", Pages, FALSE)
ScaleConfig    == Endpoint("scale", Pages, FALSE)
ChargeConfig   == Endpoint("charge", Pages, FALSE)
ServoConfig    == Endpoint("servo", Pages, FALSE)
TuningConfig   == Endpoint("tuning", Pages, FALSE)

(* Two motors, one record: a request for one saves the other's values too.  *)
CoarseMotorConfig == Endpoint("motors", {1}, FALSE)
FineMotorConfig   == Endpoint("motors", {2}, FALSE)

(* The selected profile and its number.  Asking for the values of another   *)
(* profile selects it: the number changes even when nothing is set.         *)
ProfileConfig == Endpoint("profiles", Pages, FALSE)

(* profile_reset_one, profile_reset_defaults                                *)
ProfileReset == Endpoint("profiles", Pages, TRUE)

Endpoints ==
    {WirelessConfig, LedConfig, DisplayConfig, ScaleConfig, ChargeConfig, ServoConfig,
     TuningConfig, CoarseMotorConfig, FineMotorConfig, ProfileConfig, ProfileReset}
=============================================================================
