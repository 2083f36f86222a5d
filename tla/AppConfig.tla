----------------------------- MODULE AppConfig -----------------------------
(***************************************************************************)
(* load_app_config() (src/app_config.cpp) and the validation it calls      *)
(* (src/receiver_config.cpp): what the driver makes of a YAML document.    *)
(*                                                                         *)
(* A document is a record.  A key that may be missing has a sequence for   *)
(* its value: <<>> when missing, <<v>> when it is v.  Texts and numbers    *)
(* are reduced to the classes the code tells apart: "other" stands for a   *)
(* text it does not know, "out" for a vector with a component out of range *)
(* and "malformed" for one that is not a vector at all.                    *)
(***************************************************************************)
EXTENDS Integers, Sequences

CONSTANTS
  NStreams,    \* streams the receiver has (10)
  NDefault     \* streams of the default configuration (6)

ASSUME ConfigAssumption == NStreams \in Nat \ {0} /\ NDefault \in 1..NStreams

\* The value of an optional key.
Or(opt, default) == IF opt = <<>> THEN default ELSE opt[1]

\* A stream entry: fits says whether its command has at most 2000 characters.
Entry(id, interval, blocks, fits) ==
  [id |-> id, interval |-> interval, blocks |-> blocks, fits |-> fits]

StreamEntry == [id : Int, interval : STRING, blocks : Int, fits : BOOLEAN]

-----------------------------------------------------------------------------
(* ReceiverSettings and parse_receiver().                                  *)

DefaultStreams == [i \in 1..NDefault |-> Entry(i, "OnChange", 1, TRUE)]

\* The last words decide: orientation_mode goes before the older
\* use_sensor_default, and the flag is then derived from the mode.
OrientationMode(n) ==
  IF n.orientation_mode # <<>> THEN n.orientation_mode[1]
  ELSE IF n.use_sensor_default = <<>> THEN "SensorDefault"
  ELSE IF n.use_sensor_default[1] THEN "SensorDefault" ELSE "manual"

parse_receiver(n) ==
  [ips_id                   |-> Or(n.ips_id, 1),
   require_aux1             |-> Or(n.require_aux1, TRUE),
   imu_startup_data_mode    |-> Or(n.startup_data_mode, "Boot"),
   imu_orientation_mode     |-> OrientationMode(n),
   use_sensor_default       |-> OrientationMode(n) = "SensorDefault",
   ant_lever_arm_m          |-> Or(n.ant_lever_arm_m, "in"),
   ant_lever_arm_configured |-> n.ant_lever_arm_m # <<>>,
   gnss_attitude_mode       |-> Or(n.mode, "MultiAntenna"),
   configure_all_tracking   |-> Or(n.enable_all, TRUE),
   cn0_mask_dbhz            |-> Or(n.cn0_mask_dbhz, 0),
   streams                  |-> Or(n.streams, DefaultStreams)]

\* What the readers of single values throw at: ports, vectors, offsets, and a
\* value that is not of the type its key needs.
Readable(n) ==
  /\ ~n.mistyped
  /\ \A port \in {n.port, n.ips_port} : Or(port, 1) \in 1..65535
  /\ Or(n.ant_lever_arm_m, "in") # "malformed"
  /\ Or(n.attitude_offset_deg, "ok") # "malformed"

-----------------------------------------------------------------------------
(* validate_receiver_settings().                                           *)

\* build_sbf_output_command() returns a command.
CanBuild(s, ips_id) ==
  /\ s.id \in 1..NStreams
  /\ ips_id \in 1..5
  /\ s.blocks > 0
  /\ s.interval # "other"
  /\ s.fits

MutFirstStreamOnly(settings) ==
  /\ settings.ips_id \in 1..5
  /\ settings.imu_startup_data_mode \in {"Boot", "GnssTimeKnown"}
  /\ settings.imu_orientation_mode \in {"SensorDefault", "manual", "fixed"}
  /\ settings.ant_lever_arm_configured /\ settings.ant_lever_arm_m = "in"
  /\ settings.gnss_attitude_mode \in {"none", "MultiAntenna"}
  /\ settings.cn0_mask_dbhz \in 0..60
  /\ settings.streams # <<>>
  /\ CanBuild(settings.streams[1], settings.ips_id)

\* It does not look at ids that are used twice.
validate_receiver_settings(settings) ==
  /\ settings.ips_id \in 1..5
  /\ settings.imu_startup_data_mode \in {"Boot", "GnssTimeKnown"}
  /\ settings.imu_orientation_mode \in {"SensorDefault", "manual", "fixed"}
  /\ settings.ant_lever_arm_configured /\ settings.ant_lever_arm_m = "in"
  /\ settings.gnss_attitude_mode \in {"none", "MultiAntenna"}
  /\ settings.cn0_mask_dbhz \in 0..60
  /\ settings.streams # <<>>
  /\ \A i \in DOMAIN settings.streams : CanBuild(settings.streams[i], settings.ips_id)

\* load_app_config() returns; otherwise it throws ConfigLoadError.
Loads(doc) ==
  doc.file_ok /\ Readable(doc) /\ validate_receiver_settings(parse_receiver(doc))
=============================================================================
