-------------------------- MODULE MCConfiguration --------------------------
(***************************************************************************)
(* Both builders with the configurations of MCIotBuilders, two threads and *)
(* two values for packets with lists of at most one element, two objects   *)
(* with metrics.                                                           *)
(***************************************************************************)
EXTENDS Configuration, MCIotBuilders, TLC

CONSTANTS p1, p2, v1, v2, o1, o2, Malformed

MCThreads == {p1, p2}
MCValues == {v1, v2}
MCObjects == {o1, o2}
MCNames == {""}

\* Threads and values of the packets are interchangeable; no other subject has them.
Symmetry == Permutations(MCThreads) \cup Permutations(MCValues)

T(id, value) == [id |-> id, value |-> value]

FeatureLists == {<<>>, <<Malformed, T(10, "X"), T(12, "X"), T(2, "X"), T(10, "Y")>>}

ClientOptions(protocol, mode, proxy, tls, session) ==
    [protocol |-> protocol, reconnectMode |-> mode, sessionBehavior |-> session,
     offlineQueueBehavior |-> "FAIL_ALL", outbound |-> "LRU", inbound |-> "Default",
     proxy |-> proxy, tls |-> tls, certificate |-> "Pkcs12File", cipher |-> "SYSTEM_DEFAULT",
     version |-> "TLSv1_3"]

MCOptionSets ==
    {ClientOptions("5", "FULL", "none", TRUE, "CLEAN"),
     ClientOptions("5", "DEFAULT", "tunnelTls", FALSE, "DEFAULT"),
     ClientOptions("3", "DEFAULT", "forward", TRUE, "DEFAULT")}

Encoder == INSTANCE IoTSDKMetricsEncoder WITH OptionSets <- MCOptionSets

\* The metrics that are sent merge those of user and client by the documented rule.
EncodedAsDocumented == subject = "metrics" => Encoder!EncodedAsDocumented

=============================================================================
