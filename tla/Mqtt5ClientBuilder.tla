------------------------- MODULE Mqtt5ClientBuilder -------------------------
(***************************************************************************)
(* Aws::Iot::Mqtt5ClientBuilder: what port, ALPN protocol, user name and   *)
(* proxy an MQTT5 client gets from a builder that may be asked to build    *)
(* several times, with settings changed in between.  Build() writes to the *)
(* builder's TLS options and to the connect packet, which may be the       *)
(* user's own; neither is undone when a later step of Build() fails.       *)
(***************************************************************************)
EXTENDS IotUsername, Naturals

CONSTANTS
    Configs,    \* custom authorizer configurations of the user, sets of fields
    MaxCalls,   \* bound on the calls a behaviour makes
    Nothing     \* an optional without a value, a null pointer

AuthFields ==
    {"username", "password", "authorizerName", "tokenKeyName", "tokenValue", "tokenSignature"}

Signing == {"tokenKeyName", "tokenValue", "tokenSignature"}

VARIABLES
    alpnSupported,       \* what the platform offers
    m_port,
    m_websocketConfig,   \* Nothing, or where its proxy comes from
    m_proxyOptions,
    m_customAuthConfig,  \* Nothing, or the fields it has
    m_connectOptions,    \* Nothing, or the packet: the user's or the builder's own
    userName,            \* the user name of each packet, <<>> when it has none
    alpnList,            \* of m_tlsConnectionOptions
    m_lastError,
    built,               \* Build() was called
    calls,               \* calls made so far
    client               \* the last client built, and from what

builderVars == <<alpnSupported, m_port, m_websocketConfig, m_proxyOptions, m_customAuthConfig,
                 m_connectOptions, userName, alpnList, m_lastError, built, calls, client>>

settings == <<alpnSupported, m_port, m_websocketConfig, m_proxyOptions, m_customAuthConfig>>

\* A factory returns a builder only if the TLS options could be made.  Those with a
\* custom authorizer and those with websockets set the one, the other or both.
Init ==
    /\ alpnSupported \in BOOLEAN
    /\ m_port = 0
    /\ m_websocketConfig \in {Nothing, "noProxy", "ownProxy"}
    /\ m_proxyOptions = FALSE
    /\ m_customAuthConfig \in Configs \cup {Nothing}
    /\ m_connectOptions = Nothing
    /\ userName \in [{"user", "builder"} -> {<<>>, <<"user">>, <<"user", "?", "key">>}]
    /\ userName["builder"] = <<>>
    /\ alpnList = Nothing
    /\ m_lastError = FALSE
    /\ built = FALSE
    /\ calls = 0
    /\ client = Nothing

-----------------------------------------------------------------------------
(* Settings *)

WithPort(port) ==
    /\ m_port' = port
    /\ UNCHANGED <<alpnSupported, m_websocketConfig, m_proxyOptions, m_customAuthConfig,
                   m_connectOptions, userName, alpnList, m_lastError, built, client>>

WithHttpProxyOptions ==
    /\ m_proxyOptions' = TRUE
    /\ UNCHANGED <<alpnSupported, m_port, m_websocketConfig, m_customAuthConfig,
                   m_connectOptions, userName, alpnList, m_lastError, built, client>>

\* A trust store that cannot be read is remembered as the builder's error.
WithCertificateAuthority ==
    /\ m_lastError' = TRUE
    /\ UNCHANGED <<settings, m_connectOptions, userName, alpnList, built, client>>

\* The assignment of a configuration to one that is there keeps the fields that the
\* new one does not have.
AssignConfig(old, new) == IF old = Nothing THEN new ELSE old \cup new

WithCustomAuthorizer(config) ==
    /\ m_customAuthConfig' = AssignConfig(m_customAuthConfig, config)
    /\ UNCHANGED <<alpnSupported, m_port, m_websocketConfig, m_proxyOptions,
                   m_connectOptions, userName, alpnList, m_lastError, built, client>>

WithConnectOptions ==
    /\ m_connectOptions' = "user"
    /\ UNCHANGED <<settings, userName, alpnList, m_lastError, built, client>>

-----------------------------------------------------------------------------
(* Build() *)

Port ==
    IF m_port # 0 THEN m_port
    ELSE IF m_websocketConfig # Nothing \/ alpnSupported THEN 443 ELSE 8883

\* Mutant of AlpnToSet: a custom authorizer does not ask for a protocol of its own.
AlpnIgnoresAuthorizer ==
    IF m_websocketConfig # Nothing THEN Nothing
    ELSE IF Port = 443 /\ alpnSupported THEN "x-amzn-mqtt-ca" ELSE Nothing

\* The protocol Build() puts in the TLS options, Nothing when it leaves them alone.
AlpnToSet ==
    IF m_websocketConfig # Nothing THEN Nothing
    ELSE IF m_customAuthConfig # Nothing THEN "mqtt"
    ELSE IF Port = 443 /\ alpnSupported THEN "x-amzn-mqtt-ca" ELSE Nothing

AlpnAfter == IF AlpnToSet = Nothing THEN alpnList ELSE AlpnToSet

\* Of the token's key, value and signature all or none must be there.
SigningComplete(config) ==
    IF config = Nothing THEN TRUE ELSE config \cap Signing \in {{}, Signing}

\* Mutant of buildMqtt5FinalUsername: the name of the authorizer is added with the token again.
FinalUsernameRepeatsName(config, name) ==
    LET base == IF "username" \in config THEN <<"authUser">> ELSE name
        named == AddWhen("authorizerName" \in config, base, "authorizerName")
        token == AddWhen(Signing \subseteq config, AddWhen("authorizerName" \in config, named, "authorizerName"), "tokenValue")
    IN AddWhen(Signing \subseteq config, token, "tokenSignature")

\* buildMqtt5FinalUsername: the user name of the configuration goes before the one of
\* the connect packet.
buildMqtt5FinalUsername(config, name) ==
    LET base == IF "username" \in config THEN <<"authUser">> ELSE name
        named == AddWhen("authorizerName" \in config, base, "authorizerName")
        token == AddWhen(Signing \subseteq config, named, "tokenValue")
    IN AddWhen(Signing \subseteq config, token, "tokenSignature")

Packet == IF m_connectOptions = Nothing THEN "builder" ELSE m_connectOptions

NameBefore == IF m_connectOptions = Nothing THEN <<>> ELSE userName[m_connectOptions]

NameAfter ==
    IF m_customAuthConfig = Nothing THEN NameBefore
    ELSE buildMqtt5FinalUsername(m_customAuthConfig, NameBefore)

Proxy ==
    IF m_proxyOptions THEN "explicit"
    ELSE IF m_websocketConfig = "ownProxy" THEN "websocket" ELSE Nothing

\* The custom authorizer makes the builder use a packet of its own when it has none.
PacketAfter == IF m_customAuthConfig = Nothing THEN m_connectOptions ELSE Packet

\* Build() returns nullptr: after an error, or when SetAlpnList() fails.
BuildRefused ==
    /\ m_lastError \/ AlpnToSet # Nothing
    /\ built' = TRUE
    /\ UNCHANGED <<settings, m_connectOptions, userName, alpnList, m_lastError, client>>

\* Build() returns nullptr: the configuration has part of a token.
BuildIncomplete ==
    /\ ~m_lastError
    /\ ~SigningComplete(m_customAuthConfig)
    /\ m_connectOptions' = Packet
    /\ userName' = IF m_connectOptions = Nothing
                   THEN [userName EXCEPT !["builder"] = <<>>] ELSE userName
    /\ alpnList' = AlpnAfter
    /\ built' = TRUE
    /\ UNCHANGED <<settings, m_lastError, client>>

\* What Build() has done before it makes the TLS context.
Prepare ==
    /\ ~m_lastError
    /\ SigningComplete(m_customAuthConfig)
    /\ alpnList' = AlpnAfter
    /\ m_connectOptions' = PacketAfter
    /\ userName' = IF m_customAuthConfig = Nothing THEN userName
                   ELSE [userName EXCEPT ![Packet] = NameAfter]
    /\ built' = TRUE
    /\ UNCHANGED <<settings, m_lastError>>

\* Build() returns nullptr: the TLS context or the client cannot be made.
BuildFails == Prepare /\ UNCHANGED client

BuildClient ==
    /\ Prepare
    /\ client' = [port |-> Port, alpn |-> AlpnAfter, proxy |-> Proxy,
                  supported |-> alpnSupported, websocket |-> m_websocketConfig,
                  auth |-> m_customAuthConfig, name |-> NameAfter, before |-> NameBefore,
                  first |-> ~built]

Build == BuildRefused \/ BuildIncomplete \/ BuildFails \/ BuildClient

Call ==
    \/ \E port \in {443, 8883} : WithPort(port)
    \/ WithHttpProxyOptions \/ WithCertificateAuthority \/ WithConnectOptions
    \/ \E config \in Configs : WithCustomAuthorizer(config)
    \/ Build

Next == calls < MaxCalls /\ calls' = calls + 1 /\ Call

Spec == Init /\ [][Next]_builderVars

-----------------------------------------------------------------------------
(* Properties *)

\* The protocol the endpoint expects of a client: none over websockets, "mqtt" for a
\* custom authorizer, "x-amzn-mqtt-ca" for a certificate on the HTTPS port.
Expected(c) ==
    CASE c.websocket # Nothing -> Nothing
      [] c.websocket = Nothing /\ c.auth # Nothing -> "mqtt"
      [] OTHER -> IF c.port = 443 /\ c.supported THEN "x-amzn-mqtt-ca" ELSE Nothing

\* Every client that Build() returns, whatever was built or failed before, offers the
\* ALPN protocol its endpoint expects.  What an earlier Build() left in the TLS options
\* reaches a later client in one case only: a certificate client moved off port 443
\* still offers the protocol of that port.
BuiltAsConfigured ==
    client # Nothing /\ client.alpn # Expected(client) =>
        /\ ~client.first
        /\ client.alpn = "x-amzn-mqtt-ca" /\ client.supported /\ client.port # 443
        /\ client.websocket = Nothing /\ client.auth = Nothing

\* The parameters that a configuration puts in a user name: part of a token stands for
\* the whole of it, or there is no client.
ParametersOf(config) ==
    ({"authorizerName"} \cap config)
        \cup IF config \cap Signing = {} THEN {} ELSE {"tokenValue", "tokenSignature"}

\* The user name of a client with a custom authorizer has one query at most, also after
\* failed and repeated builds.  It has exactly the parameters of the configuration, each
\* of them once, when the name comes from the configuration, or from a packet that no
\* such Build() has written to.
AuthParametersOnce ==
    client # Nothing /\ client.auth # Nothing =>
        /\ AtMostOnce(client.name, "?")
        /\ "username" \in client.auth \/ Range(client.before) \cap Parameters = {} =>
            \A p \in Parameters :
                /\ AtMostOnce(client.name, p)
                /\ p \in Range(client.name) <=> p \in ParametersOf(client.auth)

=============================================================================
