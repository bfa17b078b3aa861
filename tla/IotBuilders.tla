---------------------------- MODULE IotBuilders ----------------------------
(* One builder per behaviour: of MQTT5 clients, or of MQTT 3.1.1 connections. *)
EXTENDS Mqtt5ClientBuilder

CONSTANT Invalid  \* a configuration that reports an error, a null connection

\* What stands for a missing value is no value of a setting.
ASSUME IotBuildersAssumption ==
    /\ Nothing \notin {"explicit", "websocket", "mqtt", "x-amzn-mqtt-ca"}
    /\ Configs \subseteq SUBSET AuthFields
    /\ \A config \in SUBSET AuthFields : config # Nothing

VARIABLES
    builder, m_portOverride, m_username, m_isUsingCustomAuthorizer, throughBuilder, config,
    connection

mqtt311Only == <<m_portOverride, m_username, m_isUsingCustomAuthorizer, throughBuilder, config,
                 connection>>
mqtt5Only == <<m_port, m_customAuthConfig, m_connectOptions, userName, built, client>>

buildersVars == <<builder, builderVars, mqtt311Only>>

Mqtt311 == INSTANCE MqttClientConfigBuilder

BuildersInit ==
    /\ builder \in {"mqtt5", "mqtt311"}
    /\ builder = "mqtt5" => Init
    /\ builder = "mqtt311" => Mqtt311!Init
    /\ builder = "mqtt5" =>
        /\ m_portOverride = 0 /\ m_username = <<>> /\ m_isUsingCustomAuthorizer = FALSE
        /\ throughBuilder = FALSE /\ config = Nothing /\ connection = Nothing
    /\ builder = "mqtt311" =>
        /\ m_port = 0 /\ m_customAuthConfig = Nothing /\ m_connectOptions = Nothing
        /\ userName = <<>> /\ built = FALSE /\ client = Nothing

BuildersNext ==
    \/ builder = "mqtt5" /\ Next /\ UNCHANGED <<builder, mqtt311Only>>
    \/ builder = "mqtt311" /\ Mqtt311!Next /\ UNCHANGED <<builder, mqtt5Only>>

BuildersSpec == BuildersInit /\ [][BuildersNext]_buildersVars

\* The properties of the MQTT 3.1.1 builder, explained in its module.
ConfigAsBuilt == Mqtt311!ConfigAsBuilt

\* The test for an authorizer in MqttClientConnectionConfigBuilder::Build().
OnlyAuthorizersDetected == Mqtt311!OnlyAuthorizersDetected

=============================================================================
