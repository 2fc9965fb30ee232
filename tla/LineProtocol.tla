------------------------------ MODULE LineProtocol ------------------------------
(***************************************************************************)
(* InfluxDbFormatter (src/output/influxdb.rs).  A line is a sequence of    *)
(* tokens: the characters of the measurement name and of the tag value,    *)
(* and one token each for a MAC address, a field's name, its value and the *)
(* timestamp, none of which holds a special character.                     *)
(***************************************************************************)
EXTENDS Integers, Sequences, SequencesExt

Escaped(text, special) ==
    FlattenSeq([i \in DOMAIN text |->
        IF text[i] \in special THEN <<"\\", text[i]>> ELSE <<text[i]>>])

\* The flag that new() computes once for the measurement name.
needs_measurement_escape(s) == \E i \in DOMAIN s : s[i] \in {",", " "}
write_measurement_name(s, needs_escape) == IF needs_escape THEN Escaped(s, {",", " "}) ELSE s

needs_tag_escape(s) == \E i \in DOMAIN s : s[i] \in {",", "=", " "}
write_tag_value_Mutant(s) == IF needs_tag_escape(s) THEN Escaped(s, {",", " "}) ELSE s
write_tag_value(s) == IF needs_tag_escape(s) THEN Escaped(s, {",", "=", " "}) ELSE s

write_tags(m, name) ==
    <<",", "mac", "=", m.mac, ",", "name", "=">> \o write_tag_value(name)

FieldOrder ==
    <<"temperature", "humidity", "pressure", "battery_potential", "tx_power",
      "movement_counter", "measurement_sequence_number", "pm1_0", "pm2_5", "pm4_0",
      "pm10_0", "co2", "voc_index", "nox_index", "luminosity",
      "acceleration_x", "acceleration_y", "acceleration_z">>

FieldNames == {FieldOrder[k] : k \in DOMAIN FieldOrder}

\* Pascals become kilopascals; every other value is written as it is.
written(f, v) == IF f = "pressure" THEN v \div 1000 ELSE v

\* A comma before every field but the first that is present.
write_fields(m) ==
    LET present(k) == FieldOrder[k] \in DOMAIN m.fields
        comma(k)   == IF \E j \in 1..(k - 1) : present(j) THEN <<",">> ELSE <<>>
        pair(f)    == <<f, "=", ToString(written(f, m.fields[f]))>>
    IN  FlattenSeq([k \in DOMAIN FieldOrder |->
            IF present(k) THEN comma(k) \o pair(FieldOrder[k]) ELSE <<>>])

\* A time before the epoch is written as 0.
write_timestamp(t) == <<" ", ToString(IF t < 0 THEN 0 ELSE t)>>

format(measurement_name, m, name) ==
    write_measurement_name(measurement_name, needs_measurement_escape(measurement_name))
        \o write_tags(m, name) \o <<" ">> \o write_fields(m) \o write_timestamp(m.timestamp)
=================================================================================
