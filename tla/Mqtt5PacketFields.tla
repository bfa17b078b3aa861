-------------------------- MODULE Mqtt5PacketFields --------------------------
(***************************************************************************)
(* The members of the MQTT5 packet classes and of Mqtt5ClientOptions: what *)
(* the With... functions set, what the getters show, what a constructor    *)
(* takes from a view of the C library, and how initializeRawOptions() lets *)
(* the C library see a member:                                             *)
(*                                                                         *)
(*   copied   the view has the value;                                      *)
(*   pointed  the view points to the member, or to a cursor member that    *)
(*            the With... function keeps on the current storage;           *)
(*   cursor   the view has a cursor on the member's storage;               *)
(*   late     the view points to a member (a cursor, a uint8_t, the final  *)
(*            metrics) that only initializeRawOptions() brings up to date; *)
(*   array    the view points to an array that initializeRawOptions()      *)
(*            allocates, of cursors on the elements of a vector.           *)
(***************************************************************************)

PublishMembers ==
    {"m_payload", "m_qos", "m_retain", "m_topicName", "m_payloadFormatIndicator",
     "m_messageExpiryIntervalSec", "m_topicAlias", "m_responseTopic", "m_correlationData",
     "m_contentType", "m_subscriptionIdentifiers", "m_userProperties"}

PublishSetters == PublishMembers \ {"m_subscriptionIdentifiers"}

PublishGetters == PublishMembers

PublishFromView == PublishMembers

PublishRaw ==
    [copied |-> {"m_qos", "m_retain"},
     pointed |-> {"m_payloadFormatIndicator", "m_messageExpiryIntervalSec", "m_topicAlias",
                  "m_responseTopic", "m_correlationData", "m_contentType"},
     cursor |-> {"m_payload", "m_topicName"},
     late |-> {},
     array |-> {"m_userProperties"}]

ConnectMembers ==
    {"m_keepAliveIntervalSec", "m_clientId", "m_username", "m_password",
     "m_sessionExpiryIntervalSec", "m_requestResponseInformation",
     "m_requestProblemInformation", "m_receiveMaximum", "m_maximumPacketSizeBytes",
     "m_willDelayIntervalSeconds", "m_will", "m_userProperties"}

ConnectSetters == ConnectMembers

ConnectGetters == ConnectMembers

\* The two bool properties are copied to a uint8_t member, which the view points to.
ConnectRaw ==
    [copied |-> {"m_keepAliveIntervalSec"},
     pointed |-> {"m_username", "m_password", "m_sessionExpiryIntervalSec", "m_receiveMaximum",
                  "m_maximumPacketSizeBytes", "m_willDelayIntervalSeconds", "m_will"},
     cursor |-> {"m_clientId"},
     late |-> {"m_requestResponseInformation", "m_requestProblemInformation"},
     array |-> {"m_userProperties"}]

DisconnectMembers ==
    {"m_reasonCode", "m_sessionExpiryIntervalSec", "m_reasonString", "m_serverReference",
     "m_userProperties"}

DisconnectSetters == DisconnectMembers

DisconnectGetters == DisconnectMembers

DisconnectFromView == DisconnectMembers

DisconnectRaw ==
    [copied |-> {"m_reasonCode"},
     pointed |-> {"m_sessionExpiryIntervalSec"},
     cursor |-> {},
     late |-> {"m_reasonString", "m_serverReference"},
     array |-> {"m_userProperties"}]

SubscribeMembers == {"m_subscriptions", "m_subscriptionIdentifier", "m_userProperties"}

SubscribeSetters == SubscribeMembers

\* The view's subscription_identifier is left null.
SubscribeRaw ==
    [copied |-> {}, pointed |-> {}, cursor |-> {}, late |-> {},
     array |-> {"m_subscriptions", "m_userProperties"}]

UnsubscribeMembers == {"m_topicFilters", "m_userProperties"}

UnsubscribeSetters == UnsubscribeMembers

UnsubscribeRaw ==
    [copied |-> {}, pointed |-> {}, cursor |-> {}, late |-> {},
     array |-> {"m_topicFilters", "m_userProperties"}]

\* m_tlsConnectionOptions and m_proxyOptions are copies that the options own.  The
\* view of the proxy options is made by WithHttpProxyOptions, and m_finalMetrics by
\* initializeRawOptions() from m_sdkMetrics.
OptionsMembers ==
    {"m_hostName", "m_port", "m_bootstrap", "m_socketOptions", "m_tlsConnectionOptions",
     "m_proxyOptions", "m_connectOptions", "m_sessionBehavior",
     "m_extendedValidationAndFlowControlOptions", "m_offlineQueueBehavior",
     "m_reconnectionOptions", "m_topicAliasingOptions", "m_pingTimeoutMs",
     "m_connackTimeoutMs", "m_ackTimeoutSec", "m_sdkMetrics"}

OptionsSetters == OptionsMembers

OptionsRaw ==
    [copied |-> {"m_port", "m_bootstrap", "m_sessionBehavior",
                 "m_extendedValidationAndFlowControlOptions", "m_offlineQueueBehavior",
                 "m_reconnectionOptions", "m_pingTimeoutMs", "m_connackTimeoutMs",
                 "m_ackTimeoutSec"},
     pointed |-> {"m_socketOptions", "m_tlsConnectionOptions", "m_proxyOptions",
                  "m_connectOptions", "m_topicAliasingOptions"},
     cursor |-> {"m_hostName"},
     late |-> {"m_sdkMetrics"},
     array |-> {}]

-----------------------------------------------------------------------------
(* Packets that are only received *)

ConnAckMembers ==
    {"m_sessionPresent", "m_reasonCode", "m_sessionExpiryIntervalSec", "m_receiveMaximum",
     "m_maximumQOS", "m_retainAvailable", "m_maximumPacketSize", "m_assignedClientIdentifier",
     "m_topicAliasMaximum", "m_reasonString", "m_wildcardSubscriptionsAvailable",
     "m_subscriptionIdentifiersAvailable", "m_sharedSubscriptionsAvailable",
     "m_serverKeepAliveSec", "m_responseInformation", "m_serverReference", "m_userProperties"}

ConnAckGetters == ConnAckMembers

ConnAckFromView == ConnAckMembers

SettingsMembers ==
    {"m_maximumQOS", "m_sessionExpiryIntervalSec", "m_receiveMaximumFromServer",
     "m_maximumPacketSizeBytes", "m_topicAliasMaximumToServer", "m_topicAliasMaximumToClient",
     "m_serverKeepAliveSec", "m_retainAvailable", "m_wildcardSubscriptionsAvailable",
     "m_subscriptionIdentifiersAvailable", "m_sharedSubscriptionsAvailable",
     "m_rejoinedSession", "m_clientId"}

SettingsGetters == SettingsMembers

SettingsFromView == SettingsMembers

PubAckMembers == {"m_reasonCode", "m_reasonString", "m_userProperties"}

PubAckGetters == PubAckMembers

PubAckFromView == PubAckMembers

SubAckMembers == {"m_reasonCodes", "m_reasonString", "m_userProperties"}

SubAckGetters == SubAckMembers

SubAckFromView == SubAckMembers

UnSubAckMembers == {"m_reasonCodes", "m_reasonString", "m_userProperties"}

UnSubAckGetters == UnSubAckMembers

UnSubAckFromView == UnSubAckMembers

=============================================================================
