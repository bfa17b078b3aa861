---------------------------- MODULE Configuration ----------------------------
(***************************************************************************)
(* What is put together for the C library before it is used: a behaviour   *)
(* is about one subject, chosen at the start.                              *)
(*   builders  a builder of MQTT5 clients or of MQTT 3.1.1 connections;    *)
(*   packets   the MQTT5 packets and views of one class and field;         *)
(*   metrics   objects with the metrics of the IoT SDK.                    *)
(***************************************************************************)
EXTENDS IotBuilders

CONSTANTS
    Threads, Values, MaxList, Absent, Pointer, Outdated, NoClass,  \* of Mqtt5Packets
    Objects, Names, UserLists                                      \* of IoTSDKMetrics

VARIABLES
    subject,
    probe, member, given, holders, view, stale, changed,
    m_libraryName, m_metadata, m_rawMetadataEntries

packetVars == <<probe, member, given, holders, view, stale, changed>>
metricsVars == <<m_libraryName, m_metadata, m_rawMetadataEntries>>
configurationVars == <<subject, buildersVars, packetVars, metricsVars>>

Packets == INSTANCE Mqtt5Packets

Metrics == INSTANCE IoTSDKMetrics

\* A thread is none of the other owners of a packet and none of the other places of a
\* view, a view that is not in use has no class, and one that is outdated is not empty.
ASSUME ConfigurationAssumption ==
    /\ Threads \cap {"user", "ConnectPacket", "Mqtt5ClientOptions"} = {}
    /\ Threads \cap {"m_willStorage", "m_packetConnectViewStorage"} = {}
    /\ NoClass \notin Packets!Classes
    /\ Outdated \notin {Absent, Pointer, <<>>}

-----------------------------------------------------------------------------
(* One subject at a time *)

\* The variables of subjects with many initial states have no value in the others.
NoPackets ==
    /\ probe = Nothing /\ member = Nothing /\ given = Nothing /\ holders = Nothing
    /\ view = Nothing /\ stale = Nothing /\ changed = Nothing

NoBuilders ==
    /\ builder = Nothing /\ alpnSupported = Nothing /\ m_port = Nothing /\ m_portOverride = Nothing
    /\ m_websocketConfig = Nothing /\ m_proxyOptions = Nothing /\ m_customAuthConfig = Nothing
    /\ m_connectOptions = Nothing /\ m_username = Nothing /\ m_isUsingCustomAuthorizer = Nothing
    /\ userName = Nothing /\ alpnList = Nothing /\ m_lastError = Nothing /\ built = Nothing
    /\ throughBuilder = Nothing /\ calls = Nothing /\ client = Nothing /\ config = Nothing
    /\ connection = Nothing

ConfigurationInit ==
    /\ subject \in {"builders", "packets", "metrics"}
    /\ IF subject = "builders" THEN BuildersInit ELSE NoBuilders
    /\ IF subject = "packets" THEN Packets!Init ELSE NoPackets
    /\ Metrics!Init

ConfigurationNext ==
    \/ subject = "builders" /\ BuildersNext /\ UNCHANGED <<subject, packetVars, metricsVars>>
    \/ subject = "packets" /\ Packets!Next /\ UNCHANGED <<subject, buildersVars, metricsVars>>
    \/ subject = "metrics" /\ Metrics!Next /\ UNCHANGED <<subject, buildersVars, packetVars>>

ConfigurationSpec == ConfigurationInit /\ [][ConfigurationNext]_configurationVars

-----------------------------------------------------------------------------
(* The properties of the components, explained in their modules.             *)

\* A view the C library was given reads the fields of its packet as they were set.
FreshViewReadsAsGiven == subject = "packets" => Packets!FreshViewReadsAsGiven

\* An MQTT5 client that Build() returns has the protocol and the user name that the calls
\* on its builder asked for.
ClientAsConfigured ==
    subject = "builders" /\ builder = "mqtt5" => BuiltAsConfigured /\ AuthParametersOnce

\* So has a configuration of MQTT 3.1.1 connections, and the connection made from it.
ConnectionAsConfigured ==
    subject = "builders" /\ builder = "mqtt311" => ConfigAsBuilt

\* Raw metrics entries point into the metadata of their own object.
RawEntriesAreOwn == Metrics!RawEntriesAreOwn

=============================================================================
