---------------------------- MODULE MCMqttClient ----------------------------
(* The names of the messages that threads publish. *)
EXTENDS MqttClient

CONSTANTS m1, m2
=============================================================================
