---------------------------- MODULE MCTransfers ----------------------------
(***************************************************************************)
(* The transfers, and as a fourth subject an MQTT 3.1.1 connection.        *)
(***************************************************************************)
EXTENDS Transfers, MqttConnectionCore

MCInit == TransfersInit /\ MqttInit

MCNext ==
    \/ TransfersNext /\ UNCHANGED mqttVars
    \/ subject = "mqtt311" /\ MqttNext /\ UNCHANGED transfersVars

\* Where the MQTT connection is not the subject it does not exist, and no action with a
\* fairness condition is enabled.
MCSpec == MCInit /\ [][MCNext]_<<transfersVars, mqttVars>> /\ MqttFairness

=============================================================================
