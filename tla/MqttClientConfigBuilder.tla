----------------------- MODULE MqttClientConfigBuilder -----------------------
(***************************************************************************)
(* Aws::Iot::MqttClientConnectionConfigBuilder and MqttClient, for MQTT    *)
(* 3.1.1: how settings become a connection configuration, how Build()      *)
(* recognizes a custom authorizer in the user name, and what               *)
(* NewConnection() makes of the configuration.  A builder may be changed   *)
(* and built again; its TLS options and its opinion that a custom          *)
(* authorizer is in use survive a Build().                                 *)
(***************************************************************************)
EXTENDS IotUsername, Naturals

CONSTANTS
    MaxCalls,   \* bound on the calls a behaviour makes
    Nothing,    \* an optional without a value
    Invalid     \* a configuration that reports an error, a null connection

VARIABLES
    alpnSupported,
    m_portOverride,
    m_websocketConfig,  \* Nothing, or where its proxy comes from
    m_proxyOptions,
    m_username,         \* <<>> when there is none
    m_isUsingCustomAuthorizer,
    alpnList,           \* of m_contextOptions
    m_lastError,
    throughBuilder,     \* WithCustomAuthorizer() was called
    calls,              \* calls made so far
    config,             \* the last configuration: Nothing, Invalid or its settings
    connection          \* the last connection made from it

builderVars == <<alpnSupported, m_portOverride, m_websocketConfig, m_proxyOptions, m_username,
                 m_isUsingCustomAuthorizer, alpnList, m_lastError, throughBuilder, calls,
                 config, connection>>

results == <<config, connection>>

platform == <<alpnSupported, m_websocketConfig>>

\* The constructors: the one without arguments and one whose TLS options cannot be
\* made leave an error.
Init ==
    /\ alpnSupported \in BOOLEAN
    /\ m_portOverride = 0
    /\ m_websocketConfig \in {Nothing, "noProxy", "ownProxy"}
    /\ m_proxyOptions = FALSE
    /\ m_username = <<>>
    /\ m_isUsingCustomAuthorizer = FALSE
    /\ alpnList = Nothing
    /\ m_lastError \in BOOLEAN
    /\ throughBuilder = FALSE
    /\ calls = 0
    /\ config = Nothing
    /\ connection = Nothing

-----------------------------------------------------------------------------
(* Settings *)

WithPortOverride(port) ==
    /\ m_portOverride' = port
    /\ UNCHANGED <<platform, m_proxyOptions, m_username, m_isUsingCustomAuthorizer, alpnList,
                   m_lastError, throughBuilder, results>>

WithHttpProxyOptions ==
    /\ m_proxyOptions' = TRUE
    /\ UNCHANGED <<platform, m_portOverride, m_username, m_isUsingCustomAuthorizer, alpnList,
                   m_lastError, throughBuilder, results>>

\* A trust store that cannot be read is remembered as the builder's error.
WithCertificateAuthority ==
    /\ m_lastError' = TRUE
    /\ UNCHANGED <<platform, m_portOverride, m_proxyOptions, m_username,
                   m_isUsingCustomAuthorizer, alpnList, throughBuilder, results>>

WithUsername(name) ==
    /\ m_username' = name
    /\ UNCHANGED <<platform, m_portOverride, m_proxyOptions, m_isUsingCustomAuthorizer, alpnList,
                   m_lastError, throughBuilder, results>>

\* The user name with the parameters given, in the order they are added.
AuthorizerName(name, given) ==
    LET base == IF name = <<>> THEN m_username ELSE name
        named == AddWhen("authorizerName" \in given, base, "authorizerName")
        signed == AddWhen("tokenSignature" \in given, named, "tokenSignature")
    IN AddWhen("tokenValue" \in given, signed, "tokenValue")

\* WithCustomAuthorizer: refused without ALPN; else the user name is extended and,
\* without websockets, the protocol and the port are set at once.  SetAlpnList()
\* may fail.
WithCustomAuthorizer(name, given) ==
    /\ IF ~alpnSupported
       THEN /\ m_lastError' = TRUE
            /\ UNCHANGED <<m_portOverride, m_username, m_isUsingCustomAuthorizer, alpnList,
                           throughBuilder>>
       ELSE /\ m_isUsingCustomAuthorizer' = TRUE
            /\ throughBuilder' = TRUE
            /\ m_username' = AuthorizerName(name, given)
            /\ IF m_websocketConfig # Nothing
               THEN UNCHANGED <<m_portOverride, alpnList, m_lastError>>
               ELSE /\ m_portOverride' = 443
                    /\ \/ alpnList' = "mqtt" /\ UNCHANGED m_lastError
                       \/ m_lastError' = TRUE /\ UNCHANGED alpnList
    /\ UNCHANGED <<platform, m_proxyOptions, results>>

-----------------------------------------------------------------------------
(* Build() and NewConnection() *)

Port ==
    IF m_portOverride # 0 THEN m_portOverride
    ELSE IF m_websocketConfig # Nothing \/ alpnSupported THEN 443 ELSE 8883

\* Tokens without a character of "x-amz-customauthorizer-name=" or "...signature=".
\* m_username.find_first_of() looks for any one of these characters.
Unlike == {"?", "&", "42"}

LooksCustom == \E i \in DOMAIN m_username : m_username[i] \notin Unlike

UsesCustom == m_isUsingCustomAuthorizer \/ LooksCustom

\* Mutant of SetsAlpn: a custom authorizer does not keep Build() from setting the protocol.
SetsAlpnAlways == Port = 443 /\ m_websocketConfig = Nothing /\ alpnSupported

SetsAlpn == Port = 443 /\ m_websocketConfig = Nothing /\ alpnSupported /\ ~UsesCustom

AlpnAfter == IF SetsAlpn THEN "x-amzn-mqtt-ca" ELSE alpnList

Proxy ==
    IF m_proxyOptions THEN "explicit"
    ELSE IF m_websocketConfig = "ownProxy" THEN "websocket" ELSE Nothing

\* Build() returns CreateInvalid(): for an error of the builder nothing else happens.
BuildRefused ==
    /\ m_lastError
    /\ config' = Invalid
    /\ UNCHANGED <<m_isUsingCustomAuthorizer, alpnList>>

\* Build() returns CreateInvalid(): the protocol or the TLS context cannot be set up.
BuildFails ==
    /\ ~m_lastError
    /\ m_isUsingCustomAuthorizer' = UsesCustom
    /\ alpnList' \in {AlpnAfter} \cup (IF SetsAlpn THEN {alpnList} ELSE {})
    /\ config' = Invalid

BuildConfig ==
    /\ ~m_lastError
    /\ m_isUsingCustomAuthorizer' = UsesCustom
    /\ alpnList' = AlpnAfter
    /\ config' = [port |-> Port, alpn |-> AlpnAfter, proxy |-> Proxy, name |-> m_username,
                  websocket |-> m_websocketConfig, supported |-> alpnSupported,
                  custom |-> UsesCustom, through |-> throughBuilder,
                  explicitProxy |-> m_proxyOptions]

Build ==
    /\ BuildRefused \/ BuildFails \/ BuildConfig
    /\ connection' = Nothing
    /\ UNCHANGED <<platform, m_portOverride, m_proxyOptions, m_username, m_lastError,
                   throughBuilder>>

\* MqttClient::NewConnection: an invalid configuration yields nullptr, and so does a
\* connection that cannot be made or whose login cannot be set.
NewConnection ==
    /\ config # Nothing
    /\ connection = Nothing
    /\ \/ connection' = Invalid
       \/ /\ config # Invalid
          /\ connection' = [login |-> config.name # <<>>, port |-> config.port,
                            interceptor |-> config.websocket # Nothing,
                            proxy |-> config.proxy]
    /\ UNCHANGED <<platform, m_portOverride, m_proxyOptions, m_username,
                   m_isUsingCustomAuthorizer, alpnList, m_lastError, throughBuilder, config>>

UserNames == {<<>>, <<"user">>, <<"42">>, <<"user", "?", "authorizerName">>}

Call ==
    \/ \E port \in {443, 8883} : WithPortOverride(port)
    \/ WithHttpProxyOptions \/ WithCertificateAuthority
    \/ \E name \in UserNames : WithUsername(name)
    \/ \E name \in {<<>>, <<"user">>}, given \in SUBSET Parameters : WithCustomAuthorizer(name, given)
    \/ Build \/ NewConnection

Next == calls < MaxCalls /\ calls' = calls + 1 /\ Call

Spec == Init /\ [][Next]_builderVars

-----------------------------------------------------------------------------
(* Properties *)

NamesAuthorizer(c) == Range(c.name) \cap {"authorizerName", "tokenSignature"} # {}

\* A valid configuration has no protocol over websockets other than the one an
\* earlier step set, is never without a protocol on the HTTPS port unless it has a
\* user name or uses a custom authorizer, and one that came through the builder's
\* custom authorizer says "mqtt".  A connection is made from valid configurations
\* only, signs the handshake exactly when websockets are used, and goes through the
\* proxy named explicitly before the one of the websocket configuration.
ConfigAsBuilt ==
    /\ config \notin {Nothing, Invalid} =>
        /\ config.websocket # Nothing => config.alpn = Nothing
        /\ (config.websocket = Nothing /\ config.port = 443 /\ config.supported
              /\ config.alpn # "x-amzn-mqtt-ca") => config.custom
        /\ config.through /\ config.websocket = Nothing => config.alpn = "mqtt"
        /\ config.explicitProxy => config.proxy = "explicit"
    /\ connection \notin {Nothing, Invalid} =>
        /\ config # Invalid
        /\ connection.interceptor <=> config.websocket # Nothing
        /\ config.websocket = "ownProxy" => connection.proxy # Nothing

\* Build() says "Check to see if a custom authorizer is being used but not through the
\* builder": a configuration is taken for one with a custom authorizer only if it came
\* through the builder or its user name has the authorizer's name or signature.
OnlyAuthorizersDetected ==
    config \notin {Nothing, Invalid} =>
        (config.custom => config.through \/ NamesAuthorizer(config))

=============================================================================
