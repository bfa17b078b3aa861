------------------------ MODULE IoTSDKMetricsEncoder ------------------------
(***************************************************************************)
(* IoTSDKMetricsEncoder: how the metrics of the user and the features of a *)
(* client's options become the metrics that are sent.                      *)
(*                                                                         *)
(* A feature list is a sequence of tokens with an id, 1 to 11 for 'A' to   *)
(* 'K', and a value; Malformed stands for text that is not of that form.   *)
(***************************************************************************)
EXTENDS IoTSDKMetrics, Naturals, Sequences, SequencesExt, TLC

CONSTANTS
    OptionSets,   \* options of clients
    Malformed     \* a token that is not "id/value"

-----------------------------------------------------------------------------
(* The features of a client *)

\* MetricsFeatureId, 'A' to 'K' in this order.
FeatureIds ==
    <<"RetryJitterMode", "SessionBehavior", "OfflineQueueBehavior", "OutboundTopicAliasBehavior",
      "InboundTopicAliasBehavior", "ProtocolVersion", "SocketImplementation", "HttpProxyType",
      "CertificateSource", "TlsCipherPreference", "MinimumTlsVersion">>

RetryJitterModes == [NONE |-> "A", FULL |-> "B", DECORRELATED |-> "C"]

SessionBehaviors == [CLEAN |-> "A", REJOIN_POST_SUCCESS |-> "B", REJOIN_ALWAYS |-> "C"]

OfflineQueueBehaviors ==
    [FAIL_NON_QOS1_PUBLISH |-> "A", FAIL_QOS0_PUBLISH |-> "B", FAIL_ALL |-> "C"]

OutboundTopicAliasBehaviors == [Manual |-> "A", LRU |-> "B", Disabled |-> "C"]

InboundTopicAliasBehaviors == [Enabled |-> "A", Disabled |-> "B"]

CertificateSources ==
    [CertificateFiles |-> "A", Pkcs11 |-> "B", WindowsCertStore |-> "C", Pkcs12File |-> "E"]

TlsCipherPreferences ==
    [KMS_PQ_TLSv1_0_2019_06 |-> "A", KMS_PQ_SIKE_TLSv1_0_2019_11 |-> "B",
     KMS_PQ_TLSv1_0_2020_02 |-> "C", KMS_PQ_SIKE_TLSv1_0_2020_02 |-> "D",
     KMS_PQ_TLSv1_0_2020_07 |-> "E", PQ_TLSv1_0_2021_05 |-> "F", PQ_TLSV1_2_2024_10 |-> "G",
     PQ_DEFAULT |-> "H", TLSV1_2_2025_07 |-> "I", TLSV1_0_2023_06 |-> "J", NON_PQ_DEFAULT |-> "K"]

MinimumTlsVersions ==
    [SSLv3 |-> "A", TLSv1 |-> "B", TLSv1_1 |-> "C", TLSv1_2 |-> "D", TLSv1_3 |-> "E"]

\* The value of a setting, Nothing for a default.
CodeOf(table, setting) == IF setting \in DOMAIN table THEN table[setting] ELSE Nothing

\* A proxy reached through a tunnel with TLS options is an HTTPS proxy.
ProxyCode(proxy) ==
    CASE proxy = "none" -> Nothing [] proxy = "tunnelTls" -> "B" [] OTHER -> "A"

\* The value of feature id in the options of a client.
FeatureCode(options, id) ==
    CASE id = 1 -> CodeOf(RetryJitterModes, options.reconnectMode)
      [] id = 2 -> CodeOf(SessionBehaviors, options.sessionBehavior)
      [] id = 3 -> CodeOf(OfflineQueueBehaviors, options.offlineQueueBehavior)
      [] id = 4 -> CodeOf(OutboundTopicAliasBehaviors, options.outbound)
      [] id = 5 -> CodeOf(InboundTopicAliasBehaviors, options.inbound)
      [] id = 6 -> options.protocol
      [] id = 7 -> "A"
      [] id = 8 -> ProxyCode(options.proxy)
      [] id = 9 -> CodeOf(CertificateSources, options.certificate)
      [] id = 10 -> CodeOf(TlsCipherPreferences, options.cipher)
      [] id = 11 -> CodeOf(MinimumTlsVersions, options.version)

appendFeature(list, id, value) ==
    IF value = Nothing THEN list ELSE Append(list, [id |-> id, value |-> value])

\* The features listed in the order of the ids; those of TLS only when it is used.
FeatureList(options, ids) ==
    FoldLeft(LAMBDA list, id :
                IF id \in 9..11 /\ ~options.tls THEN list
                ELSE appendFeature(list, id, FeatureCode(options, id)),
             <<>>, ids)

getEncodedFeatureListForMqtt5(options) == FeatureList(options, <<1, 2, 3, 4, 5, 6, 7, 8, 9, 10, 11>>)

getEncodedFeatureListForMqtt311(options) == FeatureList(options, <<6, 7, 8, 9, 10, 11>>)

CrtFeatures(options) ==
    IF options.protocol = "5" THEN getEncodedFeatureListForMqtt5(options)
    ELSE getEncodedFeatureListForMqtt311(options)

-----------------------------------------------------------------------------
(* Merging *)

isValidFeatureId(id) == id \in DOMAIN FeatureIds

\* Mutant of ParseToken: an earlier token with the id is kept.
ParseKeepsFirst(featureMap, token) ==
    IF token = Malformed THEN featureMap
    ELSE IF isValidFeatureId(token.id) THEN featureMap @@ (token.id :> token.value)
    ELSE featureMap

\* A token in the map of features, in place of an earlier one with its id.
ParseToken(featureMap, token) ==
    IF token = Malformed THEN featureMap
    ELSE IF isValidFeatureId(token.id) THEN (token.id :> token.value) @@ featureMap
    ELSE featureMap

\* The map is read in the order of the ids.
mergeFeatureLists(crtFeatures, userFeatures) ==
    LET featureMap == FoldLeft(ParseToken, FoldLeft(ParseToken, <<>>, crtFeatures), userFeatures)
        ids == SelectSeq([id \in DOMAIN FeatureIds |-> id], LAMBDA id : id \in DOMAIN featureMap)
    IN IF userFeatures = <<>> THEN crtFeatures
       ELSE [i \in DOMAIN ids |-> [id |-> ids[i], value |-> featureMap[ids[i]]]]

\* atoi() of the user's version is IoTSDKMetricsFeatureVersion.
VersionMatches(metadata) == metadata["IoTSDKMetricsVersion"] \in {"1", "1b"}

UserFeatures(metadata) ==
    IF VersionMatches(metadata) /\ metadata["IoTSDKFeature"] # Nothing
    THEN metadata["IoTSDKFeature"] ELSE <<>>

\* The final metrics, from the features of a client and the user's metrics.
createMetricsFromFeatureList(crtFeatureList, name, metadata) ==
    [libraryName |-> IF name # "" THEN name ELSE DefaultName,
     CRTVersion |-> "crt",
     IoTSDKVersion |-> metadata["IoTSDKVersion"],
     IoTSDKFeature |-> mergeFeatureLists(crtFeatureList, UserFeatures(metadata)),
     IoTSDKMetricsVersion |-> "1"]

-----------------------------------------------------------------------------
(* Properties *)

\* The value of a feature by its rule: that of the last token of the user that names
\* it, if the user's metrics have the library's version, and else the client's own.
FeatureByRule(crtFeatures, metadata, id) ==
    LET user == IF VersionMatches(metadata) /\ metadata["IoTSDKFeature"] # Nothing
                THEN metadata["IoTSDKFeature"] ELSE <<>>
        named == {i \in DOMAIN user : user[i] # Malformed}
        mine == {i \in named : user[i].id = id}
        own == {t \in Range(crtFeatures) : t.id = id}
    IN IF mine # {} THEN {user[CHOOSE i \in mine : \A j \in mine : j <= i].value}
       ELSE {t.value : t \in own}

\* What is sent has the user's library name or the default, the library's versions
\* whatever the user set for them, the user's other metadata, and a list of features
\* that is sorted, names no feature twice and none that is unknown, and gives each
\* the value that the rule says.
EncodedAsDocumented ==
    \A o \in Objects, options \in OptionSets :
        LET crtFeatures == CrtFeatures(options)
            out == createMetricsFromFeatureList(crtFeatures, m_libraryName[o], m_metadata[o])
            list == out.IoTSDKFeature
        IN /\ out.libraryName = (IF m_libraryName[o] = "" THEN DefaultName ELSE m_libraryName[o])
           /\ out.CRTVersion = "crt" /\ out.IoTSDKMetricsVersion = "1"
           /\ out.IoTSDKVersion = m_metadata[o]["IoTSDKVersion"]
           /\ \A i, j \in DOMAIN list : i < j => list[i].id < list[j].id
           /\ \A t \in Range(list) : t.id \in 1..11
           /\ \A id \in 1..11 :
                {t.value : t \in {t \in Range(list) : t.id = id}}
                    = FeatureByRule(crtFeatures, m_metadata[o], id)

=============================================================================
