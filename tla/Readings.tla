-------------------------------- MODULE Readings --------------------------------
(***************************************************************************)
(* From the decoders' readings to a Measurement (scanner/mod.rs): which    *)
(* fields each format fills, and in which unit.  A frame has a format, the *)
(* set of readings its sensors gave, and for each reading the number the   *)
(* decoder returns, in thousandths.  Fields go by their name in the line.  *)
(***************************************************************************)
EXTENDS Naturals

Acceleration == {"acceleration_x", "acceleration_y", "acceleration_z"}
Climate == {"temperature", "humidity", "pressure", "measurement_sequence_number"}
Air == {"pm2_5", "co2", "voc_index", "nox_index", "luminosity"}

\* The fields decode_v5_, decode_v6_ and decode_e1_measurement fill.
Filled(format) ==
    CASE format = "V5" -> Climate \cup {"battery_potential", "tx_power", "movement_counter"} \cup Acceleration
      [] format = "V6" -> Climate \cup Air
      [] format = "E1" -> Climate \cup Air \cup {"pm1_0", "pm4_0", "pm10_0"}

\* The acceleration is there with all its axes, or not at all.
Present(frame) ==
    LET some == Filled(frame.format) \cap frame.has
    IN  IF Acceleration \subseteq some THEN some ELSE some \ Acceleration

\* The number the decoder of a format returns for a reading of v thousandths of
\* the line's unit: hPa or Pa for a pressure, and thousandths of the unit for
\* a battery and an acceleration.
Returned(format, f, v) ==
    CASE f = "pressure" /\ format = "V5"               -> v * 1000
      [] f = "pressure" /\ format # "V5"               -> v * 10
      [] f \in Acceleration \cup {"battery_potential"} -> v * 1000
      [] OTHER                                         -> v

\* Pressure: the newer decoders return hPa, V5's Pa, a Measurement has Pa.
\* Battery and acceleration: the decoder returns thousandths of the unit.
Stored_Mutant(frame, f) ==
    CASE f = "pressure" /\ frame.format = "V6"           -> frame.raw[f] * 100
      [] f \in Acceleration \cup {"battery_potential"}   -> frame.raw[f] \div 1000
      [] OTHER                                           -> frame.raw[f]

Stored(frame, f) ==
    CASE f = "pressure" /\ frame.format \in {"V6", "E1"} -> frame.raw[f] * 100
      [] f \in Acceleration \cup {"battery_potential"}   -> frame.raw[f] \div 1000
      [] OTHER                                           -> frame.raw[f]

decode(frame) ==
    [mac |-> frame.mac, timestamp |-> frame.time,
     fields |-> [f \in Present(frame) |-> Stored(frame, f)]]
=================================================================================
