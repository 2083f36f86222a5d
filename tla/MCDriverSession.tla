-------------------------- MODULE MCDriverSession --------------------------
(***************************************************************************)
(* A small instance of DriverSession: a receiver with three streams, and   *)
(* configuration files that differ from a good one in a key or two.        *)
(***************************************************************************)
EXTENDS DriverSession

E(id) == Entry(id, "OnChange", 1, TRUE)

Good ==
  [file_ok |-> TRUE, mistyped |-> FALSE, port |-> <<28784>>, ips_id |-> <<1>>,
   ips_port |-> <<28785>>, require_aux1 |-> <<>>, startup_data_mode |-> <<"Boot">>,
   orientation_mode |-> <<"fixed">>, use_sensor_default |-> <<>>,
   ant_lever_arm_m |-> <<"in">>, mode |-> <<"MultiAntenna">>,
   attitude_offset_deg |-> <<"ok">>, enable_all |-> <<>>, cn0_mask_dbhz |-> <<60>>,
   streams |-> <<<<E(1), E(3)>>>>]

\* Only what has no default.
Bare == [k \in DOMAIN Good |->
           IF k \in {"file_ok", "mistyped", "ant_lever_arm_m"} THEN Good[k] ELSE <<>>]

\* Accepted: the defaults; the older key for the orientation with an entry that turns its
\* stream off; the same stream twice without tracking and second antenna.
Accepted ==
  {Good, Bare,
   [Good EXCEPT !.orientation_mode = <<>>, !.use_sensor_default = <<FALSE>>,
                !.streams = <<<<E(1), Entry(2, "off", 1, TRUE)>>>>],
   [Good EXCEPT !.enable_all = <<FALSE>>, !.require_aux1 = <<FALSE>>,
                !.streams = <<<<E(2), E(2)>>>>]}

\* Rejected: one value at a time at or beyond its limit.
Rejected ==
  {[Good EXCEPT !.file_ok = FALSE], [Good EXCEPT !.mistyped = TRUE],
   [Good EXCEPT !.port = <<0>>], [Good EXCEPT !.ips_port = <<65536>>],
   [Good EXCEPT !.ips_id = <<6>>], [Good EXCEPT !.startup_data_mode = <<"other">>],
   [Good EXCEPT !.orientation_mode = <<"other">>], [Good EXCEPT !.ant_lever_arm_m = <<>>],
   [Good EXCEPT !.ant_lever_arm_m = <<"malformed">>], [Good EXCEPT !.ant_lever_arm_m = <<"out">>],
   [Good EXCEPT !.mode = <<"other">>], [Good EXCEPT !.attitude_offset_deg = <<"malformed">>],
   [Good EXCEPT !.cn0_mask_dbhz = <<61>>], [Good EXCEPT !.streams = <<<<>>>>],
   [Good EXCEPT !.streams = <<<<E(1), E(4)>>>>],
   [Good EXCEPT !.streams = <<<<E(1), Entry(2, "other", 1, TRUE)>>>>],
   [Good EXCEPT !.streams = <<<<E(1), Entry(2, "OnChange", 0, TRUE)>>>>],
   [Good EXCEPT !.streams = <<<<E(1), Entry(2, "OnChange", 1, FALSE)>>>>]}

MCDocuments == Accepted \cup Rejected
=============================================================================
