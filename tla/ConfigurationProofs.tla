------------------------- MODULE ConfigurationProofs -------------------------
(***************************************************************************)
(* What the C library is given is what the user configured, for any number *)
(* of threads, values, list lengths, authorizer configurations, calls and  *)
(* metrics objects: proofs about the module Configuration.                 *)
(***************************************************************************)
EXTENDS Configuration, TLAPS

-----------------------------------------------------------------------------
(* Inductive invariants *)

\* The raw entries of metrics objects: RawEntriesAreOwn, and the arrays have an entry
\* for every object.
MetricsIInv ==
    /\ DOMAIN m_metadata = Objects /\ m_metadata = [o \in Objects |-> m_metadata[o]]
    /\ m_rawMetadataEntries = [o \in Objects |-> m_rawMetadataEntries[o]]
    /\ Metrics!RawEntriesAreOwn

\* The texts a user name is made of.
Tokens == {"user", "authUser", "key", "?", "&"} \cup Parameters

\* Before the first Build() there is no protocol in the TLS options, over websockets there
\* never is, and while there is no custom authorizer there is none but that of port 443;
\* whatever Build() wrote to a connect packet, its user name has at most one query; and
\* the last client is as configured.
ClientIInv ==
    /\ built \in BOOLEAN
    /\ ~built => alpnList = Nothing
    /\ m_websocketConfig # Nothing => alpnList = Nothing
    /\ m_customAuthConfig = Nothing /\ alpnList # Nothing =>
        alpnList = "x-amzn-mqtt-ca" /\ alpnSupported
    /\ m_customAuthConfig \in {Nothing} \cup SUBSET AuthFields
    /\ m_connectOptions \in {Nothing, "user", "builder"}
    /\ userName \in [{"user", "builder"} -> Seq(Tokens)]
    /\ \A p \in {"user", "builder"} : AtMostOnce(userName[p], "?")
    /\ BuiltAsConfigured
    /\ AuthParametersOnce

\* No step writes a protocol over websockets; a custom authorizer given to the builder
\* leaves "mqtt" or an error, and later builds keep it; a connection has what the
\* configuration it was made from says.
ConnectionIInv ==
    /\ m_websocketConfig # Nothing => alpnList = Nothing
    /\ throughBuilder => m_isUsingCustomAuthorizer
    /\ throughBuilder /\ m_websocketConfig = Nothing /\ ~m_lastError => alpnList = "mqtt"
    /\ config \notin {Nothing, Invalid} /\ config.websocket = "ownProxy"
          => config.proxy # Nothing
    /\ connection \notin {Nothing, Invalid} =>
        /\ config \notin {Nothing, Invalid}
        /\ connection.interceptor <=> config.websocket # Nothing
        /\ connection.proxy = config.proxy
    /\ ConfigAsBuilt

Owner == Threads \cup {"user", "ConnectPacket", "Mqtt5ClientOptions"}

PacketTypeOK ==
    /\ probe \in Packets!Probes
    /\ member = [c \in Packets!Classes |-> member[c]]
    /\ \A c \in Packets!Classes :
        member[c] = [f \in Packets!Followed(probe, c) |-> member[c][f]]
    /\ given = member
    /\ holders \in [Packets!Classes -> SUBSET Owner]
    /\ view = [s \in Packets!Slots |-> view[s]]
    /\ \A s \in Packets!Slots :
        /\ view[s] = [of |-> view[s].of, sees |-> view[s].sees]
        /\ view[s].of \in Packets!Sending \cup {NoClass}

\* Who keeps the object of a view alive: the operation that a thread is in, the packet
\* the will was attached to, or the options the connect packet was attached to.
ViewsAreHeld ==
    \A s \in Packets!Slots : view[s].of # NoClass =>
        /\ s \in Threads => s \in holders[view[s].of]
        /\ s = "m_willStorage" =>
            view[s].of = "PublishPacket" /\ "ConnectPacket" \in holders["PublishPacket"]
        /\ s = "m_packetConnectViewStorage" =>
            view[s].of = "ConnectPacket" /\ "Mqtt5ClientOptions" \in holders["ConnectPacket"]

\* A view that is not stale has what initializeRawOptions() would write now.
FreshViewsAreCurrent ==
    \A s \in Packets!Slots \ stale : view[s].of # NoClass =>
        view[s].sees = [f \in DOMAIN member[view[s].of] |-> Packets!Written(view[s].of, f)]

\* One whose object was not changed still has that for all members but the lists.
UnchangedViewsAreCurrent ==
    \A s \in Packets!Slots \ changed : view[s].of # NoClass =>
        /\ DOMAIN view[s].sees = DOMAIN member[view[s].of]
        /\ \A f \in DOMAIN view[s].sees \ Packets!Raw(view[s].of).array :
            view[s].sees[f] = Packets!Written(view[s].of, f)

PacketIInv ==
    PacketTypeOK /\ ViewsAreHeld /\ FreshViewsAreCurrent /\ UnchangedViewsAreCurrent

\* The invariant of each subject, while a behaviour is about it.
ConfigurationIInv ==
    /\ MetricsIInv
    /\ subject = "packets" => PacketIInv
    /\ subject = "builders" =>
        /\ builder \in {"mqtt5", "mqtt311"}
        /\ builder = "mqtt5" => ClientIInv
        /\ builder = "mqtt311" => ConnectionIInv

-----------------------------------------------------------------------------
(* Metrics *)

\* The step of a metrics object keeps the raw entries of every object its own.
LEMMA MetricsStep == MetricsIInv /\ [Metrics!Next]_metricsVars => MetricsIInv'
<1> SUFFICES ASSUME MetricsIInv, [Metrics!Next]_metricsVars PROVE MetricsIInv'
    BY Zenon
<1> USE DEF MetricsIInv, Metrics!RawEntriesAreOwn
<1>1. CASE UNCHANGED metricsVars
    BY <1>1, Zenon DEF metricsVars
<1>2. ASSUME NEW o \in Objects, Metrics!initializeRawOptions(o) PROVE MetricsIInv'
    BY <1>2, Zenon DEF Metrics!initializeRawOptions
<1>3. ASSUME NEW o \in Objects, NEW name \in Names, Metrics!SetLibraryName(o, name)
      PROVE  MetricsIInv'
    BY <1>3, Zenon DEF Metrics!SetLibraryName, Metrics!resetRawData
<1>4. ASSUME NEW o \in Objects, NEW k \in Metrics!Keys, Metrics!RemoveMetadataEntry(o, k)
      PROVE  MetricsIInv'
    BY <1>4, Zenon DEF Metrics!RemoveMetadataEntry, Metrics!resetRawData
<1>5. ASSUME NEW o \in Objects, NEW k \in Metrics!Keys, NEW v \in Metrics!MetadataValues(k),
             Metrics!SetMetadataEntry(o, k, v)
      PROVE  MetricsIInv'
    BY <1>5, Zenon DEF Metrics!SetMetadataEntry, Metrics!resetRawData
<1>6. ASSUME NEW o \in Objects, NEW p \in Objects, Metrics!CopyMetrics(o, p) PROVE MetricsIInv'
    BY <1>6, Zenon DEF Metrics!CopyMetrics, Metrics!resetRawData
<1>7. ASSUME NEW o \in Objects, NEW p \in Objects, Metrics!MoveMetrics(o, p) PROVE MetricsIInv'
    BY <1>7, ZenonT(60) DEF Metrics!MoveMetrics
<1>8. QED
    BY <1>1, <1>2, <1>3, <1>4, <1>5, <1>6, <1>7 DEF Metrics!Next

-----------------------------------------------------------------------------
(* User names *)

\* What a parameter added to a user name leaves: still one query, the other
\* parameters as often as before, and the new one once if it was not there.
LEMMA AddedParameter ==
    ASSUME NEW u \in Seq(Tokens), NEW p \in Parameters, NEW g \in BOOLEAN
    PROVE  /\ AddWhen(g, u, p) \in Seq(Tokens)
           /\ AtMostOnce(u, "?") => AtMostOnce(AddWhen(g, u, p), "?")
           /\ \A q \in Parameters : AtMostOnce(u, q) /\ (q = p => p \notin Range(u))
                => AtMostOnce(AddWhen(g, u, p), q)
           /\ \A q \in Parameters : q \in Range(AddWhen(g, u, p)) <=>
                q \in Range(u) \/ (g /\ q = p)
<1>1. CASE ~g
    BY <1>1, Zenon DEF AddWhen
<1>2. CASE g
    <2> DEFINE a == IF "?" \in Range(u) THEN "&" ELSE "?"
               w == u \o <<a, p>>
    <2>1. AddWhen(g, u, p) = w
        BY <1>2, Zenon DEF AddWhen, AddToUsernameParameter
    <2>2. a \in Tokens /\ p \in Tokens
        BY Zenon DEF Tokens
    <2>3. w \in Seq(Tokens) /\ Len(u) \in Nat /\ DOMAIN u = 1..Len(u)
        BY <2>2
    <2>4. /\ DOMAIN w = 1..(Len(u) + 2)
          /\ \A i \in 1..Len(u) : w[i] = u[i]
          /\ w[Len(u) + 1] = a /\ w[Len(u) + 2] = p
        <3>1. Len(<<a, p>>) = 2 /\ <<a, p>> \in Seq(Tokens)
            BY <2>2
        <3>2. QED
            BY <2>3, <3>1
    <2>5. p # "?" /\ p # "&" /\ a \in {"?", "&"} /\ \A q \in Parameters : q # a
        BY Zenon DEF Parameters
    <2>6. a = "?" <=> "?" \notin Range(u)
        BY Zenon
    <2> HIDE DEF a, w
    <2>7. AtMostOnce(u, "?") => AtMostOnce(w, "?")
        BY <2>3, <2>4, <2>5, <2>6 DEF AtMostOnce, Range
    <2>8. ASSUME NEW q \in Parameters, AtMostOnce(u, q), q = p => p \notin Range(u)
          PROVE  AtMostOnce(w, q)
        BY <2>3, <2>4, <2>5, <2>8 DEF AtMostOnce, Range
    <2>9. ASSUME NEW q \in Parameters
          PROVE  q \in Range(w) <=> q \in Range(u) \/ q = p
        <3>1. ASSUME q \in Range(w) PROVE q \in Range(u) \/ q = p
            <4>1. PICK i \in DOMAIN w : w[i] = q
                BY <3>1, Zenon DEF Range
            <4>2. i \in 1..Len(u) \/ i = Len(u) + 1 \/ i = Len(u) + 2
                BY <2>3, <2>4
            <4>3. QED
                BY <2>3, <2>4, <2>5, <4>1, <4>2, Zenon DEF Range
        <3>2. ASSUME q \in Range(u) PROVE q \in Range(w)
            <4>1. PICK i \in DOMAIN u : u[i] = q
                BY <3>2, Zenon DEF Range
            <4>2. i \in DOMAIN w /\ w[i] = q
                BY <2>3, <2>4, <4>1
            <4>3. QED
                BY <4>2, Zenon DEF Range
        <3>3. p \in Range(w)
            <4>1. Len(u) + 2 \in DOMAIN w
                BY <2>3, <2>4
            <4>2. QED
                BY <2>4, <4>1, Zenon DEF Range
        <3>4. QED
            BY <3>1, <3>2, <3>3, Zenon
    <2>10. QED
        BY <1>2, <2>1, <2>3, <2>7, <2>8, <2>9, Zenon
<1>3. QED
    BY <1>1, <1>2, Zenon

\* buildMqtt5FinalUsername: one query at most, and from a name that had no parameter those
\* of the configuration, once.
LEMMA FinalUsername ==
    ASSUME NEW c, NEW name \in Seq(Tokens), AtMostOnce(name, "?")
    PROVE  LET final == buildMqtt5FinalUsername(c, name)
           IN /\ final \in Seq(Tokens)
              /\ AtMostOnce(final, "?")
              /\ "username" \in c \/ Range(name) \cap Parameters = {} =>
                 \A q \in Parameters :
                    /\ AtMostOnce(final, q)
                    /\ q \in Range(final) <=>
                        \/ q = "authorizerName" /\ q \in c
                        \/ q # "authorizerName" /\ Signing \subseteq c
<1> DEFINE base == IF "username" \in c THEN <<"authUser">> ELSE name
           b1 == "authorizerName" \in c
           b2 == Signing \subseteq c
           named == AddWhen(b1, base, "authorizerName")
           token == AddWhen(b2, named, "tokenValue")
           final == AddWhen(b2, token, "tokenSignature")
           free == "username" \in c \/ Range(name) \cap Parameters = {}
<1>1. buildMqtt5FinalUsername(c, name) = final
    BY Zenon DEF buildMqtt5FinalUsername
<1>2. b1 \in BOOLEAN /\ b2 \in BOOLEAN
    OBVIOUS
<1>3. /\ "authorizerName" \in Parameters /\ "tokenValue" \in Parameters
      /\ "tokenSignature" \in Parameters
    BY Zenon DEF Parameters
<1>4. /\ base \in Seq(Tokens)
      /\ AtMostOnce(base, "?")
      /\ free => Range(base) \cap Parameters = {}
    <2>1. CASE "username" \in c
        <3>1. base = <<"authUser">> /\ "authUser" \in Tokens /\ "authUser" \notin Parameters
            BY <2>1, Zenon DEF Tokens, Parameters
        <3>2. base \in Seq(Tokens) /\ DOMAIN base = {1} /\ base[1] = "authUser"
            BY <3>1
        <3>3. QED
            BY <3>1, <3>2, Zenon DEF AtMostOnce, Range
    <2>2. CASE "username" \notin c
        BY <2>2, Zenon
    <2>3. QED
        BY <2>1, <2>2, Zenon
<1> HIDE DEF base, b1, b2, free
<1>5. /\ named \in Seq(Tokens) /\ AtMostOnce(named, "?")
      /\ \A q \in Parameters : /\ AtMostOnce(base, q)
                               /\ q = "authorizerName" => q \notin Range(base)
            => AtMostOnce(named, q)
      /\ \A q \in Parameters : q \in Range(named) <=>
            q \in Range(base) \/ (b1 /\ q = "authorizerName")
    BY <1>2, <1>3, <1>4, AddedParameter, ZenonT(60)
<1> HIDE DEF named
<1>6. /\ token \in Seq(Tokens) /\ AtMostOnce(token, "?")
      /\ \A q \in Parameters : /\ AtMostOnce(named, q)
                               /\ q = "tokenValue" => q \notin Range(named)
            => AtMostOnce(token, q)
      /\ \A q \in Parameters : q \in Range(token) <=>
            q \in Range(named) \/ (b2 /\ q = "tokenValue")
    <2>1. named \in Seq(Tokens) /\ AtMostOnce(named, "?")
        BY <1>5, Zenon
    <2>2. QED
        BY <1>2, <1>3, <2>1, AddedParameter, ZenonT(60)
<1> HIDE DEF token
<1>7. /\ final \in Seq(Tokens) /\ AtMostOnce(final, "?")
      /\ \A q \in Parameters : /\ AtMostOnce(token, q)
                               /\ q = "tokenSignature" => q \notin Range(token)
            => AtMostOnce(final, q)
      /\ \A q \in Parameters : q \in Range(final) <=>
            q \in Range(token) \/ (b2 /\ q = "tokenSignature")
    <2>1. token \in Seq(Tokens) /\ AtMostOnce(token, "?")
        BY <1>6, Zenon
    <2>2. QED
        BY <1>2, <1>3, <2>1, AddedParameter, ZenonT(60)
<1> HIDE DEF final
<1>8. ASSUME free, NEW q \in Parameters PROVE AtMostOnce(final, q)
    <2>1. q \notin Range(base)
        BY <1>4, <1>8, Zenon
    <2>2. AtMostOnce(base, q)
        BY <2>1, Zenon DEF AtMostOnce, Range
    <2>3. AtMostOnce(named, q)
        BY <1>5, <2>1, <2>2, Zenon
    <2>4. q = "tokenValue" => q \notin Range(named)
        BY <1>5, <2>1, Zenon
    <2>5. AtMostOnce(token, q)
        BY <1>6, <2>3, <2>4, Zenon
    <2>6. q = "tokenSignature" => q \notin Range(token)
        BY <1>5, <1>6, <2>1, Zenon
    <2>7. QED
        BY <1>7, <2>5, <2>6, Zenon
<1>9. ASSUME free, NEW q \in Parameters
      PROVE  q \in Range(final) <=>
                \/ q = "authorizerName" /\ b1
                \/ q # "authorizerName" /\ b2
    <2>1. q \notin Range(base)
        BY <1>4, <1>9, Zenon
    <2>2. q \in {"authorizerName", "tokenValue", "tokenSignature"}
        BY Zenon DEF Parameters
    <2>3. QED
        BY <1>5, <1>6, <1>7, <2>1, <2>2, Zenon
<1>10. QED
    BY <1>1, <1>7, <1>8, <1>9, Zenon DEF free, b1, b2

-----------------------------------------------------------------------------
(* The builder of MQTT5 clients *)

\* What Build() has done before it makes the TLS context keeps what it needs later, and
\* the name it gives the client's packet is proper.
LEMMA PreparedNames ==
    ASSUME ClientIInv, Prepare
    PROVE  /\ m_connectOptions' \in {Nothing, "user", "builder"}
           /\ userName' \in [{"user", "builder"} -> Seq(Tokens)]
           /\ \A p \in {"user", "builder"} : AtMostOnce(userName'[p], "?")
           /\ m_customAuthConfig # Nothing => AtMostOnce(NameAfter, "?")
           /\ m_customAuthConfig # Nothing
                /\ ("username" \in m_customAuthConfig \/ Range(NameBefore) \cap Parameters = {})
              => \A q \in Parameters :
                    /\ AtMostOnce(NameAfter, q)
                    /\ q \in Range(NameAfter) <=> q \in ParametersOf(m_customAuthConfig)
<1>1. Packet \in {"user", "builder"}
    BY Zenon DEF Packet, ClientIInv
<1>2. NameBefore \in Seq(Tokens) /\ AtMostOnce(NameBefore, "?")
    BY DEF NameBefore, ClientIInv, AtMostOnce
<1>3. CASE m_customAuthConfig = Nothing
    BY <1>3, Zenon DEF Prepare, PacketAfter, ClientIInv
<1>4. CASE m_customAuthConfig # Nothing
    <2> DEFINE final == buildMqtt5FinalUsername(m_customAuthConfig, NameBefore)
    <2>1. /\ final \in Seq(Tokens)
          /\ AtMostOnce(final, "?")
          /\ "username" \in m_customAuthConfig \/ Range(NameBefore) \cap Parameters = {} =>
             \A q \in Parameters :
                /\ AtMostOnce(final, q)
                /\ q \in Range(final) <=>
                    \/ q = "authorizerName" /\ q \in m_customAuthConfig
                    \/ q # "authorizerName" /\ Signing \subseteq m_customAuthConfig
        BY <1>2, FinalUsername, Zenon
    <2>2. NameAfter = final
        BY <1>4, Zenon DEF NameAfter
    <2> HIDE DEF final
    <2>3. userName' = [userName EXCEPT ![Packet] = final] /\ m_connectOptions' = Packet
        BY <1>4, <2>2, Zenon DEF Prepare, PacketAfter
    <2>4. ASSUME NEW q \in Parameters
          PROVE  q \in ParametersOf(m_customAuthConfig) <=>
                    \/ q = "authorizerName" /\ q \in m_customAuthConfig
                    \/ q # "authorizerName" /\ Signing \subseteq m_customAuthConfig
        <3>1. m_customAuthConfig \cap Signing = {} \/ Signing \subseteq m_customAuthConfig
            BY <1>4, Zenon DEF Prepare, SigningComplete
        <3>2. Signing # {}
            BY Zenon DEF Signing
        <3>3. q \in {"authorizerName", "tokenValue", "tokenSignature"}
            BY Zenon DEF Parameters
        <3>4. QED
            BY <3>1, <3>2, <3>3, Zenon DEF ParametersOf
    <2>5. /\ userName' \in [{"user", "builder"} -> Seq(Tokens)]
          /\ \A p \in {"user", "builder"} : AtMostOnce(userName'[p], "?")
        <3>1. userName \in [{"user", "builder"} -> Seq(Tokens)]
            BY Zenon DEF ClientIInv
        <3>2. \A p \in {"user", "builder"} : AtMostOnce(userName[p], "?")
            BY Zenon DEF ClientIInv
        <3>3. userName' \in [{"user", "builder"} -> Seq(Tokens)]
            BY <1>1, <2>1, <2>3, <3>1, Zenon
        <3>4. \A p \in {"user", "builder"} :
                 userName'[p] = IF p = Packet THEN final ELSE userName[p]
            BY <1>1, <2>3, <3>1, Zenon
        <3>5. QED
            BY <2>1, <3>2, <3>3, <3>4, Zenon
    <2>6. QED
        BY <1>1, <2>1, <2>2, <2>3, <2>4, <2>5, Zenon
<1>5. QED
    BY <1>3, <1>4, Zenon

\* What Build() leaves in the TLS options, whether or not it returns a client.
LEMMA AlpnLeft ==
    ASSUME ClientIInv, alpnList' = AlpnAfter,
           UNCHANGED <<m_websocketConfig, m_customAuthConfig, alpnSupported>>
    PROVE  /\ (m_websocketConfig # Nothing => alpnList = Nothing)'
           /\ (m_customAuthConfig = Nothing /\ alpnList # Nothing =>
                    alpnList = "x-amzn-mqtt-ca" /\ alpnSupported)'
           /\ (m_customAuthConfig \in {Nothing} \cup SUBSET AuthFields)'
BY Zenon DEF ClientIInv, AlpnAfter, AlpnToSet

\* The client that BuildClient returns is as configured.
LEMMA BuiltClient ==
    ASSUME ClientIInv, BuildClient
    PROVE  ClientIInv'
<1>1. Prepare /\ built' = TRUE
    BY Zenon DEF BuildClient, Prepare
<1>2. /\ client'.port = Port /\ client'.alpn = AlpnAfter
      /\ client'.supported = alpnSupported /\ client'.websocket = m_websocketConfig
      /\ client'.auth = m_customAuthConfig /\ client'.name = NameAfter
      /\ client'.before = NameBefore /\ client'.first = ~built
    BY DEF BuildClient
<1>3. BuiltAsConfigured'
    <2>1. Expected(client)' = AlpnToSet
        BY <1>2 DEF Expected, AlpnToSet
    <2>2. AlpnAfter # AlpnToSet => /\ built /\ AlpnToSet = Nothing
                                   /\ AlpnAfter = alpnList /\ alpnList # Nothing
        BY Zenon DEF AlpnAfter, ClientIInv
    <2>3. AlpnAfter # AlpnToSet => m_websocketConfig = Nothing
        BY <2>2, Zenon DEF ClientIInv
    <2>4. AlpnAfter # AlpnToSet => m_customAuthConfig = Nothing
        BY <2>2, <2>3, IotBuildersAssumption, Zenon DEF AlpnToSet
    <2>5. AlpnAfter # AlpnToSet =>
            AlpnAfter = "x-amzn-mqtt-ca" /\ alpnSupported /\ Port # 443
        BY <2>2, <2>3, <2>4, IotBuildersAssumption, Zenon DEF AlpnToSet, ClientIInv
    <2>6. QED
        BY <1>2, <2>1, <2>2, <2>3, <2>4, <2>5, Zenon DEF BuiltAsConfigured
<1>4. AuthParametersOnce'
    BY <1>1, <1>2, PreparedNames DEF AuthParametersOnce
<1>5. QED
    BY <1>1, <1>3, <1>4, PreparedNames, AlpnLeft, Zenon DEF ClientIInv, Prepare, settings

\* Every call on the builder, refused, failed or complete, keeps the invariant.
LEMMA ClientStep == ClientIInv /\ [Next]_builderVars => ClientIInv'
<1> SUFFICES ASSUME ClientIInv, [Next]_builderVars PROVE ClientIInv'
    OBVIOUS
<1> DEFINE kept == <<m_connectOptions, userName, alpnList, built, client, alpnSupported,
                     m_websocketConfig>>
<1>1. ASSUME UNCHANGED kept, m_customAuthConfig' \in {Nothing} \cup SUBSET AuthFields,
             m_customAuthConfig' = Nothing => m_customAuthConfig = Nothing
      PROVE  ClientIInv'
    <2>1. BuiltAsConfigured' /\ AuthParametersOnce'
        BY <1>1 DEF ClientIInv, BuiltAsConfigured, AuthParametersOnce, AtMostOnce
    <2>2. QED
        BY <1>1, <2>1, Zenon DEF ClientIInv, AtMostOnce
<1>2. ASSUME UNCHANGED <<kept, m_customAuthConfig>> PROVE ClientIInv'
    BY <1>1, <1>2, Zenon DEF ClientIInv
<1>3. CASE UNCHANGED builderVars
    BY <1>2, <1>3, Zenon DEF builderVars
<1>4. ASSUME NEW port, WithPort(port) PROVE ClientIInv'
    BY <1>2, <1>4, Zenon DEF WithPort
<1>5. CASE WithHttpProxyOptions
    BY <1>2, <1>5, Zenon DEF WithHttpProxyOptions
<1>6. CASE WithCertificateAuthority
    BY <1>2, <1>6, Zenon DEF WithCertificateAuthority, settings
<1>7. CASE WithConnectOptions
    BY <1>7 DEF WithConnectOptions, settings, ClientIInv, BuiltAsConfigured,
                AuthParametersOnce, AtMostOnce
<1>8. ASSUME NEW c \in Configs, WithCustomAuthorizer(c) PROVE ClientIInv'
    <2>1. m_customAuthConfig' \in SUBSET AuthFields
        BY <1>8, IotBuildersAssumption, Zenon DEF WithCustomAuthorizer, AssignConfig, ClientIInv
    <2>2. m_customAuthConfig' # Nothing
        BY <2>1, IotBuildersAssumption, Zenon
    <2>3. UNCHANGED kept
        BY <1>8, Zenon DEF WithCustomAuthorizer
    <2>4. QED
        BY <1>1, <2>1, <2>2, <2>3, Zenon
<1>9. CASE BuildRefused
    BY <1>9 DEF BuildRefused, settings, ClientIInv, BuiltAsConfigured, AuthParametersOnce,
                AtMostOnce
<1>10. CASE BuildIncomplete
    <2>1. /\ m_connectOptions' \in {"user", "builder"}
          /\ built' = TRUE /\ client' = client
        BY <1>10, Zenon DEF BuildIncomplete, Packet, ClientIInv
    <2>2. userName' = userName \/ userName' = [userName EXCEPT !["builder"] = <<>>]
        BY <1>10, Zenon DEF BuildIncomplete
    <2>3. /\ userName' \in [{"user", "builder"} -> Seq(Tokens)]
          /\ \A p \in {"user", "builder"} : AtMostOnce(userName'[p], "?")
        <3>1. <<>> \in Seq(Tokens) /\ AtMostOnce(<<>>, "?")
            BY DEF AtMostOnce
        <3>2. CASE userName' = userName
            BY <3>2, Zenon DEF ClientIInv
        <3>3. CASE userName' = [userName EXCEPT !["builder"] = <<>>]
            BY <3>1, <3>3, Zenon DEF ClientIInv
        <3>4. QED
            BY <2>2, <3>2, <3>3, Zenon
    <2>4. BuiltAsConfigured' /\ AuthParametersOnce'
        BY <2>1 DEF ClientIInv, BuiltAsConfigured, AuthParametersOnce
    <2>5. QED
        BY <1>10, <2>1, <2>3, <2>4, AlpnLeft, Zenon DEF ClientIInv, BuildIncomplete, settings
<1>11. CASE BuildFails
    <2>1. Prepare /\ built' = TRUE /\ client' = client
        BY <1>11 DEF BuildFails, Prepare
    <2>2. BuiltAsConfigured' /\ AuthParametersOnce'
        BY <2>1 DEF ClientIInv, BuiltAsConfigured, AuthParametersOnce
    <2>3. QED
        BY <2>1, <2>2, PreparedNames, AlpnLeft, Zenon DEF ClientIInv, Prepare, settings
<1>12. CASE BuildClient
    BY <1>12, BuiltClient, Zenon
<1>13. QED
    BY <1>3, <1>4, <1>5, <1>6, <1>7, <1>8, <1>9, <1>10, <1>11, <1>12, SMTT(60) DEF Next, Call, Build

-----------------------------------------------------------------------------
(* The builder of MQTT 3.1.1 connections *)

\* The configuration that BuildConfig returns is as built.
LEMMA BuiltConfig ==
    ASSUME ConnectionIInv, Mqtt311!BuildConfig, connection' = Nothing,
           UNCHANGED <<alpnSupported, m_websocketConfig, m_lastError, throughBuilder>>
    PROVE  ConnectionIInv'
<1>1. /\ config'.port = Mqtt311!Port /\ config'.alpn = Mqtt311!AlpnAfter
      /\ config'.proxy = Mqtt311!Proxy /\ config'.websocket = m_websocketConfig
      /\ config'.supported = alpnSupported
      /\ config'.explicitProxy = m_proxyOptions
    BY Zenon DEF Mqtt311!BuildConfig
<1>2. config'.custom = Mqtt311!UsesCustom /\ config'.through = throughBuilder
    BY Zenon DEF Mqtt311!BuildConfig
<1>3. alpnList' = Mqtt311!AlpnAfter /\ m_isUsingCustomAuthorizer' = Mqtt311!UsesCustom
      /\ ~m_lastError
    BY Zenon DEF Mqtt311!BuildConfig
<1>4. m_websocketConfig # Nothing => Mqtt311!AlpnAfter = Nothing
    BY Zenon DEF Mqtt311!AlpnAfter, Mqtt311!SetsAlpn, ConnectionIInv
<1>5. throughBuilder => Mqtt311!UsesCustom
    BY Zenon DEF Mqtt311!UsesCustom, ConnectionIInv
<1>6. throughBuilder /\ m_websocketConfig = Nothing => Mqtt311!AlpnAfter = "mqtt"
    BY <1>3, <1>5, Zenon DEF Mqtt311!AlpnAfter, Mqtt311!SetsAlpn, ConnectionIInv
<1>7. m_websocketConfig = "ownProxy" => Mqtt311!Proxy # Nothing
    BY IotBuildersAssumption, Zenon DEF Mqtt311!Proxy
<1>8. m_proxyOptions => Mqtt311!Proxy = "explicit"
    BY Zenon DEF Mqtt311!Proxy
<1>9. m_websocketConfig = Nothing /\ Mqtt311!Port = 443 /\ alpnSupported
        /\ Mqtt311!AlpnAfter # "x-amzn-mqtt-ca" => Mqtt311!UsesCustom
    BY Zenon DEF Mqtt311!AlpnAfter, Mqtt311!SetsAlpn
<1>10. ConfigAsBuilt'
    <2>1. /\ config.websocket' # Nothing => config.alpn' = Nothing
          /\ (config.websocket' = Nothing /\ config.port' = 443 /\ config.supported'
                /\ config.alpn' # "x-amzn-mqtt-ca") => config.custom'
        BY <1>1, <1>2, <1>4, <1>9
    <2>2. config.through' /\ config.websocket' = Nothing => config.alpn' = "mqtt"
        BY <1>1, <1>2, <1>6, Zenon
    <2>3. config.explicitProxy' => config.proxy' = "explicit"
        BY <1>1, <1>8, Zenon
    <2>4. QED
        BY <2>1, <2>2, <2>3, Zenon DEF ConfigAsBuilt, Mqtt311!ConfigAsBuilt
<1>11. QED
    BY <1>1, <1>3, <1>4, <1>5, <1>6, <1>7, <1>10, Zenon DEF ConnectionIInv

\* Every call on the builder, every Build() and every NewConnection() keeps the invariant.
LEMMA ConnectionStep == ConnectionIInv /\ [Mqtt311!Next]_Mqtt311!builderVars => ConnectionIInv'
<1> SUFFICES ASSUME ConnectionIInv, [Mqtt311!Next]_Mqtt311!builderVars PROVE ConnectionIInv'
    BY Zenon
<1> DEFINE kept == <<m_websocketConfig, alpnList, throughBuilder, m_isUsingCustomAuthorizer>>
<1>1. ASSUME UNCHANGED <<kept, config, connection>>, m_lastError => m_lastError'
      PROVE  ConnectionIInv'
    BY <1>1 DEF ConnectionIInv, ConfigAsBuilt, Mqtt311!ConfigAsBuilt
<1>2. CASE UNCHANGED Mqtt311!builderVars
    BY <1>1, <1>2, Zenon DEF Mqtt311!builderVars
<1>3. ASSUME NEW port \in {443, 8883}, Mqtt311!WithPortOverride(port) PROVE ConnectionIInv'
    BY <1>1, <1>3 DEF Mqtt311!WithPortOverride, Mqtt311!platform, Mqtt311!results
<1>4. CASE Mqtt311!WithHttpProxyOptions
    BY <1>1, <1>4, Zenon DEF Mqtt311!WithHttpProxyOptions, Mqtt311!platform, Mqtt311!results
<1>5. CASE Mqtt311!WithCertificateAuthority
    BY <1>1, <1>5, Zenon DEF Mqtt311!WithCertificateAuthority, Mqtt311!platform, Mqtt311!results
<1>6. ASSUME NEW name, Mqtt311!WithUsername(name) PROVE ConnectionIInv'
    BY <1>1, <1>6, Zenon DEF Mqtt311!WithUsername, Mqtt311!platform, Mqtt311!results
<1>7. ASSUME NEW name, NEW g, Mqtt311!WithCustomAuthorizer(name, g) PROVE ConnectionIInv'
    <2>1. UNCHANGED <<m_websocketConfig, config, connection>>
        BY <1>7, Zenon DEF Mqtt311!WithCustomAuthorizer, Mqtt311!platform, Mqtt311!results
    <2>2. ConfigAsBuilt'
        BY <2>1 DEF ConnectionIInv, ConfigAsBuilt, Mqtt311!ConfigAsBuilt
    <2>3. CASE ~alpnSupported
        BY <1>1, <1>7, <2>1, <2>3, Zenon DEF Mqtt311!WithCustomAuthorizer
    <2>4. CASE alpnSupported
        <3>1. m_isUsingCustomAuthorizer' = TRUE
            BY <1>7, <2>4, Zenon DEF Mqtt311!WithCustomAuthorizer
        <3>2. /\ m_websocketConfig # Nothing => alpnList' = alpnList
              /\ m_websocketConfig = Nothing => alpnList' = "mqtt" \/ m_lastError' = TRUE
            BY <1>7, <2>4, Zenon DEF Mqtt311!WithCustomAuthorizer
        <3>3. QED
            BY <2>1, <2>2, <3>1, <3>2, Zenon DEF ConnectionIInv
    <2>5. QED
        BY <2>3, <2>4, Zenon
<1>8. CASE Mqtt311!Build
    <2>1. /\ UNCHANGED <<alpnSupported, m_websocketConfig, m_lastError, throughBuilder>>
          /\ connection' = Nothing
        BY <1>8, Zenon DEF Mqtt311!Build, Mqtt311!platform
    <2>2. ASSUME config' = Invalid PROVE ConfigAsBuilt'
        BY <2>1, <2>2, Zenon DEF ConfigAsBuilt, Mqtt311!ConfigAsBuilt
    <2>3. CASE Mqtt311!BuildRefused
        BY <2>1, <2>2, <2>3, Zenon DEF Mqtt311!BuildRefused, ConnectionIInv
    <2>4. CASE Mqtt311!BuildFails
        <3>1. alpnList' = alpnList \/ (Mqtt311!SetsAlpn /\ alpnList' = "x-amzn-mqtt-ca")
            BY <2>4, Zenon DEF Mqtt311!BuildFails, Mqtt311!AlpnAfter
        <3>2. Mqtt311!SetsAlpn => m_websocketConfig = Nothing /\ ~throughBuilder
            BY Zenon DEF Mqtt311!SetsAlpn, Mqtt311!UsesCustom, ConnectionIInv
        <3>3. throughBuilder => Mqtt311!UsesCustom
            BY Zenon DEF Mqtt311!UsesCustom, ConnectionIInv
        <3>4. m_isUsingCustomAuthorizer' = Mqtt311!UsesCustom /\ config' = Invalid
            BY <2>4, Zenon DEF Mqtt311!BuildFails
        <3>5. QED
            BY <2>1, <2>2, <3>1, <3>2, <3>3, <3>4, Zenon DEF ConnectionIInv
    <2>5. CASE Mqtt311!BuildConfig
        BY <2>1, <2>5, BuiltConfig, Zenon
    <2>6. QED
        BY <1>8, <2>3, <2>4, <2>5, Zenon DEF Mqtt311!Build
<1>9. CASE Mqtt311!NewConnection
    <2>1. UNCHANGED <<m_websocketConfig, alpnList, throughBuilder, m_isUsingCustomAuthorizer,
                      m_lastError, config>>
        BY <1>9, Zenon DEF Mqtt311!NewConnection, Mqtt311!platform
    <2>2. CASE connection' = Invalid
        BY <2>1, <2>2 DEF ConnectionIInv, ConfigAsBuilt, Mqtt311!ConfigAsBuilt
    <2>3. CASE connection' # Invalid
        <3>1. /\ config \notin {Nothing, Invalid}
              /\ connection'.interceptor = (config.websocket # Nothing)
              /\ connection'.proxy = config.proxy
            BY <1>9, <2>3 DEF Mqtt311!NewConnection
        <3>2. (connection.interceptor <=> config.websocket # Nothing)'
            BY <2>1, <3>1, ZenonT(60)
        <3>3. ConfigAsBuilt'
            BY <2>1, <3>1, <3>2 DEF ConnectionIInv, ConfigAsBuilt, Mqtt311!ConfigAsBuilt
        <3>4. QED
            BY <2>1, <3>1, <3>2, <3>3, Zenon DEF ConnectionIInv
    <2>4. QED
        BY <2>2, <2>3, Zenon
<1>10. QED
    BY <1>2, <1>3, <1>4, <1>5, <1>6, <1>7, <1>8, <1>9, SMTT(60) DEF Mqtt311!Next, Mqtt311!Call

-----------------------------------------------------------------------------
(* Packets and views *)

\* What can be sent and received, and the members that are not attachments and not
\* the subscription identifier of a SUBSCRIBE: initializeRawOptions() looks at each
\* one that a With... function sets, copies none that it brings up to date, and a
\* constructor takes each one from the view.
LEMMA PacketTables ==
    /\ Packets!Sending = {"PublishPacket", "ConnectPacket", "DisconnectPacket",
                          "SubscribePacket", "UnsubscribePacket", "Mqtt5ClientOptions"}
    /\ Packets!Sending \subseteq Packets!Classes
    /\ \A c \in Packets!Sending :
        Packets!Setters[c] \ (Packets!Attachments \cup {"m_subscriptionIdentifier"})
            \subseteq Packets!Raw(c).copied \cup Packets!SeenBy(c)
    /\ \A c \in Packets!Sending : Packets!Raw(c).late \cap Packets!Raw(c).copied = {}
    /\ \A c \in DOMAIN Packets!Incoming : Packets!MembersOf(c) = Packets!Incoming[c]
<1>1. Packets!Sending = {"PublishPacket", "ConnectPacket", "DisconnectPacket",
                         "SubscribePacket", "UnsubscribePacket", "Mqtt5ClientOptions"}
    BY Zenon DEF Packets!Sending, Packets!Outgoing
<1>2. Packets!Sending \subseteq Packets!Classes
    BY Zenon DEF Packets!Sending, Packets!Classes
<1>3. ASSUME NEW c \in Packets!Sending
      PROVE  Packets!Setters[c] \ (Packets!Attachments \cup {"m_subscriptionIdentifier"})
                \subseteq Packets!Raw(c).copied \cup Packets!SeenBy(c)
    <2> USE DEF Packets!Setters, Packets!Raw, Packets!Outgoing, Packets!SeenBy,
                Packets!Attachments
    <2>1. CASE c = "PublishPacket"
        BY <2>1, ZenonT(60) DEF Packets!PublishSetters, Packets!PublishMembers, Packets!PublishRaw
    <2>2. CASE c = "ConnectPacket"
        BY <2>2, Zenon DEF Packets!ConnectSetters, Packets!ConnectMembers, Packets!ConnectRaw
    <2>3. CASE c = "DisconnectPacket"
        BY <2>3, Zenon DEF Packets!DisconnectSetters, Packets!DisconnectMembers,
           Packets!DisconnectRaw
    <2>4. CASE c = "SubscribePacket"
        BY <2>4, ZenonT(60)
           DEF Packets!SubscribeSetters, Packets!SubscribeMembers, Packets!SubscribeRaw
    <2>5. CASE c = "UnsubscribePacket"
        BY <2>5, ZenonT(60)
           DEF Packets!UnsubscribeSetters, Packets!UnsubscribeMembers, Packets!UnsubscribeRaw
    <2>6. CASE c = "Mqtt5ClientOptions"
        BY <2>6, Zenon DEF Packets!OptionsSetters, Packets!OptionsMembers, Packets!OptionsRaw
    <2>7. QED
        BY <1>1, <2>1, <2>2, <2>3, <2>4, <2>5, <2>6, ZenonT(60)
<1>4. ASSUME NEW c \in DOMAIN Packets!Incoming
      PROVE  Packets!MembersOf(c) = Packets!Incoming[c]
    <2>1. DOMAIN Packets!Incoming =
            {"PublishPacket", "DisconnectPacket", "ConnAckPacket", "NegotiatedSettings",
             "PubAckPacket", "SubAckPacket", "UnSubAckPacket"}
        BY Zenon DEF Packets!Incoming
    <2>2. DOMAIN Packets!Getters =
            {"PublishPacket", "ConnectPacket", "DisconnectPacket", "ConnAckPacket",
             "NegotiatedSettings", "PubAckPacket", "SubAckPacket", "UnSubAckPacket"}
        BY Zenon DEF Packets!Getters
    <2>3. Packets!Getters[c] = Packets!Incoming[c]
        BY <2>1, SMTT(60)
           DEF Packets!Getters, Packets!Incoming, Packets!PublishGetters, Packets!PublishFromView,
               Packets!DisconnectGetters, Packets!DisconnectFromView, Packets!ConnAckGetters,
               Packets!ConnAckFromView, Packets!SettingsGetters, Packets!SettingsFromView,
               Packets!PubAckGetters, Packets!PubAckFromView, Packets!SubAckGetters,
               Packets!SubAckFromView, Packets!UnSubAckGetters, Packets!UnSubAckFromView
    <2>4. c \in Packets!Sending => Packets!Setters[c] \subseteq Packets!Incoming[c]
        BY <1>1, <2>1 DEF Packets!Setters, Packets!Incoming,
            Packets!PublishSetters, Packets!PublishFromView, Packets!DisconnectSetters,
            Packets!DisconnectFromView
    <2>5. c \in DOMAIN Packets!Getters
        BY <2>1, <2>2, Zenon
    <2>6. QED
        BY <2>3, <2>4, <2>5, Zenon DEF Packets!MembersOf
<1>5. ASSUME NEW c \in Packets!Sending
      PROVE  Packets!Raw(c).late \cap Packets!Raw(c).copied = {}
    BY <1>1, SMTT(60) DEF Packets!Raw, Packets!Outgoing, Packets!PublishRaw, Packets!ConnectRaw,
       Packets!DisconnectRaw, Packets!SubscribeRaw, Packets!UnsubscribeRaw, Packets!OptionsRaw
<1>6. QED
    BY <1>1, <1>2, <1>3, <1>4, <1>5, Zenon

\* What keeps the object of a view alive is among its holders.
LEMMA ViewedIsHeld ==
    ASSUME PacketIInv, NEW s \in Packets!Slots, view[s].of # NoClass
    PROVE  view[s].of \in Packets!Sending /\ holders[view[s].of] # {}
BY Zenon DEF PacketIInv, PacketTypeOK, ViewsAreHeld, Packets!Slots

\* A view that has what initializeRawOptions() would write now reads as given.
LEMMA PacketIInvIsEnough == PacketIInv => Packets!FreshViewReadsAsGiven
<1> SUFFICES ASSUME PacketIInv PROVE Packets!FreshViewReadsAsGiven
    BY Zenon
<1>1. ASSUME NEW s \in Packets!Slots, view[s].of # NoClass,
             NEW f \in DOMAIN view[s].sees,
             s \notin stale \/ (s \notin changed /\ f \notin Packets!Raw(view[s].of).array)
      PROVE  /\ f \in DOMAIN member[view[s].of]
             /\ view[s].sees[f] = Packets!Written(view[s].of, f)
    <2>1. CASE s \notin stale
        <3>1. view[s].sees =
                [g \in DOMAIN member[view[s].of] |-> Packets!Written(view[s].of, g)]
            BY <1>1, <2>1, Zenon DEF PacketIInv, FreshViewsAreCurrent
        <3>2. QED
            BY <1>1, <3>1, Zenon
    <2>2. CASE s \notin changed /\ f \notin Packets!Raw(view[s].of).array
        BY <1>1, <2>2, Zenon DEF PacketIInv, UnchangedViewsAreCurrent
    <2>3. QED
        BY <1>1, <2>1, <2>2, Zenon
<1>2. ASSUME NEW s \in Packets!Slots, view[s].of # NoClass,
             NEW f \in DOMAIN view[s].sees \ {"m_subscriptionIdentifier"},
             s \notin stale \/ (s \notin changed /\ f \notin Packets!Raw(view[s].of).array),
             f \in Packets!Setters[view[s].of]
      PROVE  Packets!Read(s, f) = given[view[s].of][f]
    <2> DEFINE c == view[s].of
    <2>1. c \in Packets!Sending /\ c \in Packets!Classes
        BY <1>2, ViewedIsHeld, PacketTables, ZenonT(60)
    <2>3. f \in DOMAIN member[c] /\ view[s].sees[f] = Packets!Written(c, f)
        BY <1>1, <1>2, Zenon
    <2>4. f \notin Packets!Attachments
        <3>1. DOMAIN member[c] = Packets!Followed(probe, c)
            BY <2>1, SMTT(60) DEF PacketIInv, PacketTypeOK
        <3>2. QED
            BY <2>3, <3>1, Zenon DEF Packets!Followed
    <2>5. f \in Packets!Raw(c).copied \cup Packets!SeenBy(c)
        BY <1>2, <2>1, <2>4, PacketTables, Zenon
    <2>6. Packets!Read(s, f) = member[c][f]
        BY <2>3, <2>5, ZenonT(60) DEF Packets!Read, Packets!Written
    <2>7. given = member
        BY Zenon DEF PacketIInv, PacketTypeOK
    <2>8. QED
        BY <2>6, <2>7, Zenon
<1>3. Packets!FreshViewReadsAsGiven
    BY <1>2, ViewedIsHeld, Zenon DEF Packets!FreshViewReadsAsGiven, Packets!ReadsAsGiven
<1>4. QED
    BY <1>3, Zenon

\* Nothing is held by a view when the program starts.
LEMMA PacketInit == Packets!Init => PacketIInv
<1> SUFFICES ASSUME Packets!Init PROVE PacketIInv
    BY Zenon
<1> USE DEF Packets!Init
<1>1. \A s \in Packets!Slots : view[s].of = NoClass
    BY Zenon DEF Packets!NoView
<1>2. PacketTypeOK
    <2>1. holders \in [Packets!Classes -> SUBSET Owner]
        BY Zenon DEF Owner
    <2>2. view = [s \in Packets!Slots |-> view[s]]
        BY Zenon
    <2>3. \A s \in Packets!Slots : view[s] = [of |-> view[s].of, sees |-> view[s].sees]
        BY Zenon DEF Packets!NoView
    <2>4. \A c \in Packets!Classes :
            member[c] = [f \in Packets!Followed(probe, c) |-> member[c][f]]
        BY Zenon
    <2>5. probe \in Packets!Probes
        BY Zenon
    <2>6. member = [c \in Packets!Classes |-> member[c]] /\ given = member
        BY Zenon
    <2>7. QED
        BY <1>1, <2>1, <2>2, <2>3, <2>4, <2>5, <2>6, Zenon DEF PacketTypeOK
<1>3. ViewsAreHeld /\ FreshViewsAreCurrent /\ UnchangedViewsAreCurrent
    BY <1>1, Zenon DEF ViewsAreHeld, FreshViewsAreCurrent, UnchangedViewsAreCurrent
<1>4. QED
    BY <1>2, <1>3, Zenon DEF PacketIInv

\* The views ws are those of vs, but for what the views of one object see.
KeptBut(c, vs, ws) ==
    /\ ws = [s \in Packets!Slots |-> ws[s]]
    /\ \A s \in Packets!Slots :
        /\ ws[s] = [of |-> ws[s].of, sees |-> ws[s].sees]
        /\ ws[s].of = vs[s].of
        /\ vs[s].of # c => ws[s] = vs[s]

\* Outdating and refreshing views changes what they see, not of which object, and only
\* those of one object.
LEMMA ViewsOfOthersStay ==
    ASSUME NEW vs, NEW c, NEW fs,
           \A s \in Packets!Slots : vs[s] = [of |-> vs[s].of, sees |-> vs[s].sees]
    PROVE  /\ KeptBut(c, vs, Packets!Outdate(vs, c, fs))
           /\ KeptBut(c, vs, Packets!Refresh(vs, c))
<1>1. KeptBut(c, vs, Packets!Outdate(vs, c, fs))
    <2> DEFINE ws == Packets!Outdate(vs, c, fs)
    <2>1. ws = [s \in Packets!Slots |-> ws[s]]
        BY Zenon DEF Packets!Outdate
    <2>2. ASSUME NEW s \in Packets!Slots
          PROVE  /\ ws[s] = [of |-> ws[s].of, sees |-> ws[s].sees]
                 /\ ws[s].of = vs[s].of
                 /\ vs[s].of # c => ws[s] = vs[s]
        <3>1. CASE vs[s].of # c
            <4>1. ws[s] = vs[s]
                BY <3>1, Zenon DEF Packets!Outdate
            <4> HIDE DEF ws
            <4>2. QED
                BY <3>1, <4>1, Zenon
        <3>2. CASE vs[s].of = c
            <4>1. PICK seen : ws[s] = [vs[s] EXCEPT !.sees = seen]
                BY <3>2, Zenon DEF Packets!Outdate
            <4> HIDE DEF ws
            <4>2. ws[s] = [of |-> vs[s].of, sees |-> seen]
                BY <4>1, ZenonT(60)
            <4>3. QED
                BY <3>2, <4>2
        <3>3. QED
            BY <3>1, <3>2, Zenon
    <2>3. QED
        BY <2>1, <2>2, Zenon DEF KeptBut
<1>2. KeptBut(c, vs, Packets!Refresh(vs, c))
    <2> DEFINE ws == Packets!Refresh(vs, c)
    <2>1. ws = [s \in Packets!Slots |-> ws[s]]
        BY Zenon DEF Packets!Refresh
    <2>2. ASSUME NEW s \in Packets!Slots
          PROVE  /\ ws[s] = [of |-> ws[s].of, sees |-> ws[s].sees]
                 /\ ws[s].of = vs[s].of
                 /\ vs[s].of # c => ws[s] = vs[s]
        <3>1. CASE vs[s].of # c
            <4>1. ws[s] = vs[s]
                BY <3>1, Zenon DEF Packets!Refresh
            <4> HIDE DEF ws
            <4>2. QED
                BY <3>1, <4>1, Zenon
        <3>2. CASE vs[s].of = c
            <4>1. PICK seen : ws[s] = [vs[s] EXCEPT !.sees = seen]
                BY <3>2, ZenonT(60) DEF Packets!Refresh
            <4> HIDE DEF ws
            <4>2. ws[s] = [of |-> vs[s].of, sees |-> seen]
                BY <4>1, Zenon
            <4>3. QED
                BY <3>2, <4>2
        <3>3. QED
            BY <3>1, <3>2, Zenon
    <2>3. QED
        BY <2>1, <2>2, Zenon DEF KeptBut
<1>3. QED
    BY <1>1, <1>2, Zenon

\* In ws every view sees what it saw in vs, but for the lists of c and for late members
\* that had been outdated.
SeesAllButLists(c, vs, ws) ==
    \A s \in Packets!Slots :
        /\ DOMAIN ws[s].sees = DOMAIN vs[s].sees
        /\ \A f \in DOMAIN vs[s].sees \ Packets!Raw(c).array :
            (f \in Packets!Raw(c).late => vs[s].sees[f] # Outdated)
                => ws[s].sees[f] = vs[s].sees[f]

\* So it is after initializeRawOptions() has outdated the lists and refreshed late members.
LEMMA SeenAfterReading ==
    ASSUME NEW c, NEW vs,
           \A z \in Packets!Slots : vs[z] = [of |-> vs[z].of, sees |-> vs[z].sees]
    PROVE  SeesAllButLists(c, vs,
                Packets!Refresh(Packets!Outdate(vs, c, Packets!Raw(c).array), c))
<1> DEFINE us == Packets!Outdate(vs, c, Packets!Raw(c).array)
           ws == Packets!Refresh(us, c)
<1> SUFFICES ASSUME NEW s \in Packets!Slots
             PROVE  /\ DOMAIN ws[s].sees = DOMAIN vs[s].sees
                    /\ \A f \in DOMAIN vs[s].sees \ Packets!Raw(c).array :
                        (f \in Packets!Raw(c).late => vs[s].sees[f] # Outdated)
                            => ws[s].sees[f] = vs[s].sees[f]
    BY Zenon DEF SeesAllButLists
<1>1. KeptBut(c, vs, us)
    BY ViewsOfOthersStay, Zenon
<1>2. /\ DOMAIN us[s].sees = DOMAIN vs[s].sees
      /\ \A f \in DOMAIN vs[s].sees \ Packets!Raw(c).array : us[s].sees[f] = vs[s].sees[f]
    <2>1. CASE vs[s].of # c
        BY <1>1, <2>1, Zenon DEF KeptBut
    <2>2. CASE vs[s].of = c
        <3> DEFINE seen == [f \in DOMAIN vs[s].sees |->
                                IF f \in Packets!Raw(c).array /\ vs[s].sees[f] = Pointer
                                THEN Outdated ELSE vs[s].sees[f]]
        <3>1. us[s] = [vs[s] EXCEPT !.sees = seen]
            BY <2>2, Zenon DEF Packets!Outdate
        <3>2. us[s].sees = seen
            BY <3>1, SMTT(30)
        <3>3. QED
            BY <3>2, Zenon
    <2>3. QED
        BY <2>1, <2>2, Zenon
<1>3. \A z \in Packets!Slots : us[z] = [of |-> us[z].of, sees |-> us[z].sees]
    BY <1>1, Zenon DEF KeptBut
<1> HIDE DEF us
<1>4. KeptBut(c, us, ws)
    BY <1>3, ViewsOfOthersStay, Zenon
<1>5. /\ DOMAIN ws[s].sees = DOMAIN us[s].sees
      /\ \A f \in DOMAIN us[s].sees :
            (f \in Packets!Raw(c).late => us[s].sees[f] # Outdated)
                => ws[s].sees[f] = us[s].sees[f]
    <2>1. CASE us[s].of # c
        BY <1>4, <2>1, Zenon DEF KeptBut
    <2>2. CASE us[s].of = c
        <3> DEFINE seen == [f \in DOMAIN us[s].sees |->
                                IF f \in Packets!Raw(c).late /\ us[s].sees[f] = Outdated
                                THEN Pointer ELSE us[s].sees[f]]
        <3>1. ws[s] = [us[s] EXCEPT !.sees = seen]
            BY <2>2, Zenon DEF Packets!Refresh
        <3>2. ws[s].sees = seen
            BY <1>3, <3>1, SMTT(30)
        <3>3. QED
            BY <3>2, Zenon
    <2>3. QED
        BY <2>1, <2>2, Zenon
<1> HIDE DEF ws
<1>6. QED
    BY <1>2, <1>5, Zenon

\* A With... function: the views of the object become stale, the others are untouched.
LEMMA SetMemberStep ==
    ASSUME PacketIInv, NEW c \in Packets!Sending, NEW f, NEW v, Packets!SetMember(c, f, v)
    PROVE  PacketIInv'
<1> USE DEF Packets!SetMember
<1>1. c \in Packets!Classes /\ f \in DOMAIN member[c] /\ holders[c] # {}
    BY PacketTables, Zenon
<1>2. UNCHANGED <<probe, holders>>
    BY Zenon
<1>3. /\ view' = [s \in Packets!Slots |-> view'[s]]
      /\ \A s \in Packets!Slots :
            /\ view'[s] = [of |-> view'[s].of, sees |-> view'[s].sees]
            /\ view'[s].of = view[s].of
            /\ view[s].of # c => view'[s] = view[s]
    <2> DEFINE fs == {f} \cap (Packets!Raw(c).cursor \cup Packets!Raw(c).late
                                \cup Packets!Raw(c).array)
    <2>1. view' = Packets!Outdate(view, c, fs)
        BY Zenon
    <2>2. \A s \in Packets!Slots : view[s] = [of |-> view[s].of, sees |-> view[s].sees]
        BY Zenon DEF PacketIInv, PacketTypeOK
    <2> HIDE DEF fs
    <2>3. KeptBut(c, view, view')
        BY <2>1, <2>2, ViewsOfOthersStay, Zenon
    <2>4. QED
        BY <2>3, ZenonT(60) DEF KeptBut
<1>4. /\ member' = [d \in Packets!Classes |-> member'[d]]
      /\ \A d \in Packets!Classes : d # c => member'[d] = member[d]
      /\ member'[c] = [member[c] EXCEPT ![f] = v]
    BY <1>1, Zenon DEF PacketIInv, PacketTypeOK
<1>5. PacketTypeOK'
    <2>1. \A d \in Packets!Classes :
            member'[d] = [g \in Packets!Followed(probe, d) |-> member'[d][g]]
        <3>1. \A d \in Packets!Classes :
                member[d] = [g \in Packets!Followed(probe, d) |-> member[d][g]]
            BY Zenon DEF PacketIInv, PacketTypeOK
        <3>2. QED
            BY <1>1, <1>4, <3>1, ZenonT(60)
    <2>2. given' = member'
        BY Zenon DEF PacketIInv, PacketTypeOK
    <2>3. \A s \in Packets!Slots : view'[s].of \in Packets!Sending \cup {NoClass}
        BY <1>3, ZenonT(60) DEF PacketIInv, PacketTypeOK
    <2>4. Packets!Followed(probe, c)' = Packets!Followed(probe, c)
        BY <1>2, Zenon
    <2>5. QED
        BY <1>2, <1>3, <1>4, <2>1, <2>2, <2>3, ZenonT(60) DEF PacketIInv, PacketTypeOK
<1>6. ViewsAreHeld'
    BY <1>2, <1>3, ZenonT(60) DEF PacketIInv, ViewsAreHeld
<1>7. FreshViewsAreCurrent'
    <2> SUFFICES ASSUME NEW s \in Packets!Slots, s \notin stale', view'[s].of # NoClass
                 PROVE  view'[s].sees =
                    [g \in DOMAIN member'[view'[s].of] |-> Packets!Written(view[s].of, g)']
        BY <1>3, ZenonT(60) DEF FreshViewsAreCurrent
    <2>1. s \notin stale /\ view[s].of # c
        BY Zenon DEF Packets!ViewsOf
    <2>2. view'[s] = view[s] /\ view[s].of \in Packets!Classes
        BY <1>3, <2>1, ViewedIsHeld, PacketTables, ZenonT(60)
    <2>3. member'[view[s].of] = member[view[s].of]
        BY <1>4, <2>1, <2>2, Zenon
    <2>4. \A g : Packets!Written(view[s].of, g)' = Packets!Written(view[s].of, g)
        BY <2>2, <2>3, SMTT(30) DEF Packets!Written
    <2>5. view[s].sees = [g \in DOMAIN member[view[s].of] |-> Packets!Written(view[s].of, g)]
        BY <2>1, <2>2, Zenon DEF PacketIInv, FreshViewsAreCurrent
    <2>6. QED
        BY <2>2, <2>3, <2>4, <2>5, ZenonT(60)
<1>8. UnchangedViewsAreCurrent'
    <2> SUFFICES ASSUME NEW s \in Packets!Slots, s \notin changed', view'[s].of # NoClass
                 PROVE  /\ DOMAIN view'[s].sees = DOMAIN member'[view'[s].of]
                        /\ \A g \in DOMAIN view'[s].sees \ Packets!Raw(view'[s].of).array :
                            view'[s].sees[g] = Packets!Written(view[s].of, g)'
        BY <1>3, ZenonT(60) DEF UnchangedViewsAreCurrent
    <2>1. s \notin changed /\ view[s].of # c
        BY Zenon DEF Packets!ViewsOf
    <2>2. view'[s] = view[s] /\ view[s].of \in Packets!Classes
        BY <1>3, <2>1, ViewedIsHeld, PacketTables, ZenonT(60)
    <2>3. member'[view[s].of] = member[view[s].of]
        BY <1>4, <2>1, <2>2, Zenon
    <2>4. \A g : Packets!Written(view[s].of, g)' = Packets!Written(view[s].of, g)
        BY <2>2, <2>3, SMTT(30) DEF Packets!Written
    <2>5. /\ DOMAIN view[s].sees = DOMAIN member[view[s].of]
          /\ \A g \in DOMAIN view[s].sees \ Packets!Raw(view[s].of).array :
                view[s].sees[g] = Packets!Written(view[s].of, g)
        BY <2>1, <2>2, Zenon DEF PacketIInv, UnchangedViewsAreCurrent
    <2>6. QED
        BY <2>2, <2>3, <2>4, <2>5, ZenonT(60)
<1>9. QED
    BY <1>5, <1>6, <1>7, <1>8, Zenon DEF PacketIInv

\* initializeRawOptions() into the view at s, when somebody comes to hold the object for
\* that view: the other views of the object keep all but their lists.
LEMMA InitializeRawOptionsStep ==
    ASSUME PacketIInv, NEW c \in Packets!Sending, NEW s \in Packets!Slots,
           Packets!initializeRawOptions(c, s), UNCHANGED <<probe, member, given>>,
           holders' \in [Packets!Classes -> SUBSET Owner], holders'[c] # {},
           \A d \in Packets!Classes : holders[d] \subseteq holders'[d],
           s \in Threads => s \in holders'[c],
           s = "m_willStorage" =>
                c = "PublishPacket" /\ "ConnectPacket" \in holders'["PublishPacket"],
           s = "m_packetConnectViewStorage" =>
                c = "ConnectPacket" /\ "Mqtt5ClientOptions" \in holders'["ConnectPacket"]
    PROVE  PacketIInv'
<1>1. c \in Packets!Classes /\ {"PublishPacket", "ConnectPacket"} \subseteq Packets!Classes
    BY PacketTables, Zenon
<1> DEFINE filled == [of |-> c, sees |-> [f \in DOMAIN member[c] |-> Packets!Written(c, f)]]
           outdated == Packets!Outdate(view, c, Packets!Raw(c).array)
           others == Packets!Refresh(outdated, c)
<1>2. /\ view' = [others EXCEPT ![s] = filled]
      /\ stale' = (stale \cup Packets!ViewsOf(c)) \ {s}
      /\ changed' = changed \ {s}
    BY ZenonT(60) DEF Packets!initializeRawOptions
<1>3. KeptBut(c, view, others)
    <2>1. \A z \in Packets!Slots : view[z] = [of |-> view[z].of, sees |-> view[z].sees]
        BY Zenon DEF PacketIInv, PacketTypeOK
    <2>2. KeptBut(c, view, outdated)
        BY <2>1, ViewsOfOthersStay, ZenonT(60)
    <2> HIDE DEF outdated
    <2>3. \A z \in Packets!Slots :
            outdated[z] = [of |-> outdated[z].of, sees |-> outdated[z].sees]
        BY <2>2, Zenon DEF KeptBut
    <2>4. KeptBut(c, outdated, others)
        BY <2>3, ViewsOfOthersStay, Zenon
    <2> HIDE DEF others
    <2>5. QED
        BY <2>2, <2>4, Zenon DEF KeptBut
<1>4. ASSUME NEW z \in Packets!Slots, view[z].of = c
       PROVE  /\ DOMAIN others[z].sees = DOMAIN view[z].sees
              /\ \A f \in DOMAIN view[z].sees \ Packets!Raw(c).array :
                    (f \in Packets!Raw(c).late => view[z].sees[f] # Outdated)
                        => others[z].sees[f] = view[z].sees[f]
    <2>1. \A y \in Packets!Slots : view[y] = [of |-> view[y].of, sees |-> view[y].sees]
        BY Zenon DEF PacketIInv, PacketTypeOK
    <2>2. SeesAllButLists(c, view, others)
        BY <2>1, SeenAfterReading, Zenon
    <2> HIDE DEF others, outdated
    <2>3. QED
        BY <2>2, Zenon DEF SeesAllButLists
<1> HIDE DEF others, outdated
<1>5. /\ view' = [z \in Packets!Slots |-> view'[z]]
      /\ view'[s] = filled
      /\ \A z \in Packets!Slots \ {s} :
            /\ view'[z] = [of |-> view'[z].of, sees |-> view'[z].sees]
            /\ view'[z].of = view[z].of
            /\ view[z].of # c => view'[z] = view[z]
            /\ view'[z] = others[z]
    BY <1>2, <1>3, Zenon DEF KeptBut
<1>6. \A d, f : Packets!Written(d, f)' = Packets!Written(d, f)
    BY Zenon DEF Packets!Written
<1>7. PacketTypeOK'
    <2>1. \A z \in Packets!Slots :
            /\ view'[z] = [of |-> view'[z].of, sees |-> view'[z].sees]
            /\ view'[z].of \in Packets!Sending \cup {NoClass}
        <3>1. \A z \in Packets!Slots : view[z].of \in Packets!Sending \cup {NoClass}
            BY Zenon DEF PacketIInv, PacketTypeOK
        <3>2. QED
            BY <1>5, <3>1, SMTT(60)
    <2>2. QED
        BY <1>5, <2>1, Zenon DEF PacketIInv, PacketTypeOK
<1>8. ViewsAreHeld'
    <2> SUFFICES ASSUME NEW z \in Packets!Slots, view'[z].of # NoClass
                 PROVE  /\ z \in Threads => z \in holders'[view'[z].of]
                        /\ z = "m_willStorage" =>
                            /\ view'[z].of = "PublishPacket"
                            /\ "ConnectPacket" \in holders'["PublishPacket"]
                        /\ z = "m_packetConnectViewStorage" =>
                            /\ view'[z].of = "ConnectPacket"
                            /\ "Mqtt5ClientOptions" \in holders'["ConnectPacket"]
        BY Zenon DEF ViewsAreHeld
    <2>1. CASE z = s
        BY <1>5, <2>1, SMTT(60)
    <2>2. CASE z # s
        <3>1. view'[z].of = view[z].of /\ view[z].of \in Packets!Classes
            BY <1>5, <2>2, ViewedIsHeld, PacketTables, Zenon
        <3>2. QED
            BY <1>1, <3>1, Zenon DEF PacketIInv, ViewsAreHeld
    <2>3. QED
        BY <2>1, <2>2, ZenonT(60)
<1>9. FreshViewsAreCurrent'
    <2> SUFFICES ASSUME NEW z \in Packets!Slots, z \notin stale', view'[z].of # NoClass
                 PROVE  view'[z].sees =
                    [f \in DOMAIN member[view'[z].of] |-> Packets!Written(view'[z].of, f)]
        BY <1>6, Zenon DEF FreshViewsAreCurrent
    <2>1. CASE z = s
        BY <1>5, <2>1, SMTT(60)
    <2>2. CASE z # s
        <3>1. z \notin stale /\ view[z].of # c
            BY <1>2, <2>2, ZenonT(60) DEF Packets!ViewsOf
        <3>2. view'[z] = view[z]
            BY <1>5, <2>2, <3>1, Zenon
        <3>3. QED
            BY <3>1, <3>2, ZenonT(60) DEF PacketIInv, FreshViewsAreCurrent
    <2>3. QED
        BY <2>1, <2>2, Zenon
<1>10. UnchangedViewsAreCurrent'
    <2> SUFFICES ASSUME NEW z \in Packets!Slots, z \notin changed', view'[z].of # NoClass
                 PROVE  /\ DOMAIN view'[z].sees = DOMAIN member[view'[z].of]
                        /\ \A f \in DOMAIN view'[z].sees \ Packets!Raw(view'[z].of).array :
                            view'[z].sees[f] = Packets!Written(view'[z].of, f)
        BY <1>6, Zenon DEF UnchangedViewsAreCurrent
    <2>1. CASE z = s
        BY <1>5, <2>1, SMTT(60)
    <2>2. CASE z # s /\ view[z].of # c
        <3>1. z \notin changed /\ view'[z] = view[z]
            BY <1>2, <1>5, <2>2, Zenon
        <3>2. QED
            BY <3>1, Zenon DEF PacketIInv, UnchangedViewsAreCurrent
    <2>3. CASE z # s /\ view[z].of = c
        <3>1. /\ z \notin changed /\ view'[z] = others[z]
              /\ view'[z].of = c /\ view[z].of # NoClass
            BY <1>2, <1>5, <2>3, Zenon
        <3>2. /\ DOMAIN view[z].sees = DOMAIN member[c]
              /\ \A f \in DOMAIN view[z].sees \ Packets!Raw(c).array :
                    view[z].sees[f] = Packets!Written(c, f)
            BY <2>3, <3>1, Zenon DEF PacketIInv, UnchangedViewsAreCurrent
        <3>3. ASSUME NEW f \in Packets!Raw(c).late PROVE Packets!Written(c, f) # Outdated
            <4>1. f \notin Packets!Raw(c).copied
                BY <3>3, PacketTables, Zenon
            <4>2. Packets!Written(c, f) \in {Pointer, Packets!Empty(f)}
                BY <4>1, Zenon DEF Packets!Written
            <4>3. Packets!Empty(f) \in {Absent, <<>>}
                BY Zenon DEF Packets!Empty
            <4>4. QED
                BY <4>2, <4>3, ConfigurationAssumption, Zenon
        <3>4. \A f \in DOMAIN view[z].sees \ Packets!Raw(c).array :
                others[z].sees[f] = Packets!Written(c, f)
            BY <1>4, <2>3, <3>2, <3>3, Zenon
        <3>5. QED
            BY <1>4, <2>3, <3>1, <3>2, <3>4, Zenon
    <2>4. QED
        BY <2>1, <2>2, <2>3, Zenon
<1>11. QED
    BY <1>7, <1>8, <1>9, <1>10, Zenon DEF PacketIInv

\* Who holds what when the owner h has let go of c: the others keep what they held, and
\* so do the connect packet and the options unless they are destroyed with it.
LEMMA HoldersLeft ==
    ASSUME PacketIInv, NEW c \in Packets!Classes, NEW h, NEW vs, Packets!DropOwner(c, h, vs),
           h \notin {"ConnectPacket", "Mqtt5ClientOptions"}
    PROVE  /\ holders' \in [Packets!Classes -> SUBSET Owner]
           /\ \A d \in Packets!Classes : holders'[d] \subseteq holders[d]
           /\ \A d \in Packets!Classes, t \in Threads \ {h} :
                 t \in holders[d] => t \in holders'[d]
           /\ "ConnectPacket" \in holders["PublishPacket"] /\ holders'["ConnectPacket"] # {}
                => "ConnectPacket" \in holders'["PublishPacket"]
           /\ "Mqtt5ClientOptions" \in holders["ConnectPacket"]
                    /\ holders'["Mqtt5ClientOptions"] # {}
                => "Mqtt5ClientOptions" \in holders'["ConnectPacket"]
<1> DEFINE h1 == Packets!Without(holders, c, h)
           h2 == IF h1["Mqtt5ClientOptions"] = {}
                 THEN Packets!Without(h1, "ConnectPacket", "Mqtt5ClientOptions") ELSE h1
           h3 == IF h2["ConnectPacket"] = {}
                 THEN Packets!Without(h2, "PublishPacket", "ConnectPacket") ELSE h2
<1>1. holders' = h3
    BY ZenonT(60) DEF Packets!DropOwner
<1>2. holders \in [Packets!Classes -> SUBSET Owner]
    BY Zenon DEF PacketIInv, PacketTypeOK
<1>3. {"PublishPacket", "ConnectPacket", "Mqtt5ClientOptions"} \subseteq Packets!Classes
    BY PacketTables, ZenonT(60)
<1>4. /\ h1 \in [Packets!Classes -> SUBSET Owner]
      /\ \A d \in Packets!Classes : h1[d] = IF d = c THEN holders[d] \ {h} ELSE holders[d]
    BY <1>2, Zenon DEF Packets!Without
<1> HIDE DEF h1
<1>5. /\ h2 \in [Packets!Classes -> SUBSET Owner]
      /\ \A d \in Packets!Classes :
            h2[d] = IF h1["Mqtt5ClientOptions"] = {} /\ d = "ConnectPacket"
                    THEN h1[d] \ {"Mqtt5ClientOptions"} ELSE h1[d]
    BY <1>4, Zenon DEF Packets!Without
<1> HIDE DEF h2
<1>6. /\ h3 \in [Packets!Classes -> SUBSET Owner]
      /\ \A d \in Packets!Classes :
            h3[d] = IF h2["ConnectPacket"] = {} /\ d = "PublishPacket"
                    THEN h2[d] \ {"ConnectPacket"} ELSE h2[d]
    BY <1>5, ZenonT(60) DEF Packets!Without
<1> HIDE DEF h3
<1>7. \A d \in Packets!Classes : holders'[d] \subseteq holders[d]
    BY <1>1, <1>4, <1>5, <1>6, SMTT(60)
<1>8. \A d \in Packets!Classes, t \in Threads \ {h} : t \in holders[d] => t \in holders'[d]
    BY <1>1, <1>4, <1>5, <1>6, ConfigurationAssumption, SMTT(60)
<1>9. h3["ConnectPacket"] = h2["ConnectPacket"]
      /\ h3["Mqtt5ClientOptions"] = h1["Mqtt5ClientOptions"]
    BY <1>3, <1>5, <1>6, Zenon
<1>10. "ConnectPacket" \in holders["PublishPacket"] /\ holders'["ConnectPacket"] # {}
        => "ConnectPacket" \in holders'["PublishPacket"]
    BY <1>1, <1>3, <1>4, <1>5, <1>6, <1>9, Zenon
<1>11. "Mqtt5ClientOptions" \in holders["ConnectPacket"] /\ holders'["Mqtt5ClientOptions"] # {}
        => "Mqtt5ClientOptions" \in holders'["ConnectPacket"]
    BY <1>1, <1>3, <1>4, <1>5, <1>6, <1>9, Zenon
<1>12. QED
    BY <1>1, <1>6, <1>7, <1>8, <1>10, <1>11, Zenon

\* The end of an owner h, whose own view, if any, is gone from vs: no view is left of what
\* nobody holds.
LEMMA DropOwnerStep ==
    ASSUME PacketIInv, NEW c \in Packets!Classes, NEW h, NEW vs, Packets!DropOwner(c, h, vs),
           UNCHANGED <<probe, member, given>>,
           h \notin {"ConnectPacket", "Mqtt5ClientOptions"},
           vs = [s \in Packets!Slots |-> vs[s]],
           \A s \in Packets!Slots : vs[s] = view[s] \/ vs[s] = Packets!NoView,
           h \in Threads => vs[h] = Packets!NoView
    PROVE  PacketIInv'
<1> DEFINE gone == {s \in Packets!Slots :
                        \/ s = "m_willStorage" /\ holders'["ConnectPacket"] = {}
                        \/ s = "m_packetConnectViewStorage" /\ holders'["Mqtt5ClientOptions"] = {}}
<1>1. /\ view' = [s \in Packets!Slots |-> IF s \in gone THEN Packets!NoView ELSE vs[s]]
      /\ stale' = {s \in stale \ gone : vs[s].of # NoClass}
      /\ changed' = {s \in changed \ gone : vs[s].of # NoClass}
    BY ZenonT(60) DEF Packets!DropOwner
<1> HIDE DEF gone
<1>2. /\ holders' \in [Packets!Classes -> SUBSET Owner]
      /\ \A d \in Packets!Classes : holders'[d] \subseteq holders[d]
      /\ \A d \in Packets!Classes, t \in Threads \ {h} : t \in holders[d] => t \in holders'[d]
      /\ "ConnectPacket" \in holders["PublishPacket"] /\ holders'["ConnectPacket"] # {}
            => "ConnectPacket" \in holders'["PublishPacket"]
      /\ "Mqtt5ClientOptions" \in holders["ConnectPacket"] /\ holders'["Mqtt5ClientOptions"] # {}
            => "Mqtt5ClientOptions" \in holders'["ConnectPacket"]
    BY HoldersLeft, Zenon
<1>3. \A s \in Packets!Slots : view'[s] = view[s] \/ view'[s] = Packets!NoView
    BY <1>1, Zenon
<1>4. \A d, f : Packets!Written(d, f)' = Packets!Written(d, f)
    BY Zenon DEF Packets!Written
<1>5. PacketTypeOK'
    <2>1. Packets!NoView = [of |-> NoClass, sees |-> <<>>]
        BY Zenon DEF Packets!NoView
    <2>2. \A s \in Packets!Slots :
            /\ view'[s] = [of |-> view'[s].of, sees |-> view'[s].sees]
            /\ view'[s].of \in Packets!Sending \cup {NoClass}
        BY <1>3, <2>1, SMTT(30) DEF PacketIInv, PacketTypeOK
    <2>3. QED
        BY <1>1, <1>2, <2>2 DEF PacketIInv, PacketTypeOK
<1>6. ViewsAreHeld'
    <2> SUFFICES ASSUME NEW s \in Packets!Slots, view'[s].of # NoClass
                 PROVE  /\ s \in Threads => s \in holders'[view'[s].of]
                        /\ s = "m_willStorage" =>
                            /\ view'[s].of = "PublishPacket"
                            /\ "ConnectPacket" \in holders'["PublishPacket"]
                        /\ s = "m_packetConnectViewStorage" =>
                            /\ view'[s].of = "ConnectPacket"
                            /\ "Mqtt5ClientOptions" \in holders'["ConnectPacket"]
        BY Zenon DEF ViewsAreHeld
    <2>1. view'[s] = view[s] /\ s \notin gone /\ view'[s] = vs[s]
        BY <1>1, <1>3 DEF Packets!NoView
    <2>2. view[s].of \in Packets!Classes
        BY <2>1, ViewedIsHeld, PacketTables, ZenonT(60)
    <2>3. s \in Threads => s # h
        BY <2>1 DEF Packets!NoView
    <2>4. s \in Threads => s \in holders'[view'[s].of]
        BY <1>2, <2>1, <2>2, <2>3, ZenonT(60) DEF PacketIInv, ViewsAreHeld
    <2>5. s = "m_willStorage" => holders'["ConnectPacket"] # {}
        BY <2>1, Zenon DEF gone
    <2>6. s = "m_packetConnectViewStorage" => holders'["Mqtt5ClientOptions"] # {}
        BY <2>1, Zenon DEF gone
    <2>7. QED
        BY <1>2, <2>1, <2>4, <2>5, <2>6, Zenon DEF PacketIInv, ViewsAreHeld
<1>7. FreshViewsAreCurrent'
    <2> SUFFICES ASSUME NEW s \in Packets!Slots, s \notin stale', view'[s].of # NoClass
                 PROVE  view'[s].sees =
                    [f \in DOMAIN member[view'[s].of] |-> Packets!Written(view'[s].of, f)]
        BY <1>4, Zenon DEF FreshViewsAreCurrent
    <2>1. view'[s] = view[s] /\ s \notin gone /\ view'[s] = vs[s]
        BY <1>1, <1>3 DEF Packets!NoView
    <2>2. s \notin stale
        BY <1>1, <2>1, Zenon
    <2>3. QED
        BY <2>1, <2>2, ZenonT(60) DEF PacketIInv, FreshViewsAreCurrent
<1>8. UnchangedViewsAreCurrent'
    <2> SUFFICES ASSUME NEW s \in Packets!Slots, s \notin changed', view'[s].of # NoClass
                 PROVE  /\ DOMAIN view'[s].sees = DOMAIN member[view'[s].of]
                        /\ \A f \in DOMAIN view'[s].sees \ Packets!Raw(view'[s].of).array :
                            view'[s].sees[f] = Packets!Written(view'[s].of, f)
        BY <1>4, Zenon DEF UnchangedViewsAreCurrent
    <2>1. view'[s] = view[s] /\ s \notin gone /\ view'[s] = vs[s]
        BY <1>1, <1>3 DEF Packets!NoView
    <2>2. s \notin changed
        BY <1>1, <2>1, Zenon
    <2>3. QED
        BY <2>1, <2>2, Zenon DEF PacketIInv, UnchangedViewsAreCurrent
<1>9. QED
    BY <1>5, <1>6, <1>7, <1>8, Zenon DEF PacketIInv

\* A packet received in a callback takes the place of one that nobody held, so that no
\* view can be of it, and has every field of the view it was made from.
LEMMA ReceivePacketStep ==
    ASSUME PacketIInv, NEW c \in Packets!Classes, NEW fields \in Packets!FieldValues(c),
           Packets!ReceivePacket(c, fields)
    PROVE  PacketIInv'
<1>1. /\ c \in DOMAIN Packets!Incoming /\ holders[c] = {}
      /\ UNCHANGED <<probe, view, stale, changed>>
      /\ holders' = [holders EXCEPT ![c] = {"user"}]
      /\ given' = [given EXCEPT ![c] = fields]
    BY Zenon DEF Packets!ReceivePacket
<1>2. DOMAIN member[c] = Packets!Followed(probe, c)
    BY Zenon DEF PacketIInv, PacketTypeOK
<1>3. Packets!Followed(probe, c) \subseteq Packets!Incoming[c]
    BY <1>1, PacketTables, ZenonT(60) DEF Packets!Followed
<1>4. fields = [f \in Packets!Followed(probe, c) |-> fields[f]]
    BY <1>2, Zenon DEF Packets!FieldValues
<1>5. member' = [member EXCEPT ![c] = fields]
    <2>1. [f \in DOMAIN member[c] |->
             IF f \in Packets!Incoming[c] THEN fields[f] ELSE Packets!Empty(f)] = fields
        BY <1>2, <1>3, <1>4, Zenon
    <2>2. QED
        BY <2>1, ZenonT(60) DEF Packets!ReceivePacket
<1>6. /\ member' = [d \in Packets!Classes |-> member'[d]]
      /\ member'[c] = fields
      /\ \A d \in Packets!Classes \ {c} : member'[d] = member[d]
    BY <1>5, Zenon DEF PacketIInv, PacketTypeOK
<1>7. PacketTypeOK'
    <2>1. given' = member'
        BY <1>1, <1>5, Zenon DEF PacketIInv, PacketTypeOK
    <2>2. \A d \in Packets!Classes :
            member'[d] = [f \in Packets!Followed(probe, d) |-> member'[d][f]]
        BY <1>4, <1>6, Zenon DEF PacketIInv, PacketTypeOK
    <2>3. holders' \in [Packets!Classes -> SUBSET Owner]
        BY <1>1, Zenon DEF PacketIInv, PacketTypeOK, Owner
    <2>4. QED
        BY <1>1, <1>6, <2>1, <2>2, <2>3, Zenon DEF PacketIInv, PacketTypeOK
<1>8. ASSUME NEW s \in Packets!Slots, view[s].of # NoClass
      PROVE  view[s].of \in Packets!Classes \ {c}
    BY <1>1, <1>8, ViewedIsHeld, PacketTables, ZenonT(60)
<1>9. ViewsAreHeld'
    <2>1. \A d \in Packets!Classes : holders[d] \subseteq holders'[d]
        BY <1>1, Zenon DEF PacketIInv, PacketTypeOK
    <2>2. {"PublishPacket", "ConnectPacket"} \subseteq Packets!Classes
        BY PacketTables, Zenon
    <2>3. QED
        BY <1>1, <1>8, <2>1, <2>2, ZenonT(60) DEF PacketIInv, ViewsAreHeld
<1>10. FreshViewsAreCurrent'
    <2> SUFFICES ASSUME NEW s \in Packets!Slots, s \notin stale, view[s].of # NoClass
                 PROVE  view[s].sees =
                    [f \in DOMAIN member'[view[s].of] |-> Packets!Written(view[s].of, f)']
        BY <1>1, ZenonT(60) DEF FreshViewsAreCurrent
    <2>1. member'[view[s].of] = member[view[s].of]
        BY <1>6, <1>8, Zenon
    <2>2. \A f : Packets!Written(view[s].of, f)' = Packets!Written(view[s].of, f)
        BY <1>1, <2>1, ZenonT(60) DEF Packets!Written
    <2>3. view[s].sees = [f \in DOMAIN member[view[s].of] |-> Packets!Written(view[s].of, f)]
        BY Zenon DEF PacketIInv, FreshViewsAreCurrent
    <2>4. QED
        BY <2>1, <2>2, <2>3, ZenonT(60)
<1>11. UnchangedViewsAreCurrent'
    <2> SUFFICES ASSUME NEW s \in Packets!Slots, s \notin changed, view[s].of # NoClass
                 PROVE  /\ DOMAIN view[s].sees = DOMAIN member'[view[s].of]
                        /\ \A f \in DOMAIN view[s].sees \ Packets!Raw(view[s].of).array :
                            view[s].sees[f] = Packets!Written(view[s].of, f)'
        BY <1>1, ZenonT(60) DEF UnchangedViewsAreCurrent
    <2>1. member'[view[s].of] = member[view[s].of]
        BY <1>6, <1>8, Zenon
    <2>2. \A f : Packets!Written(view[s].of, f)' = Packets!Written(view[s].of, f)
        BY <1>1, <2>1, ZenonT(60) DEF Packets!Written
    <2>3. QED
        BY <2>1, <2>2, Zenon DEF PacketIInv, UnchangedViewsAreCurrent
<1>12. QED
    BY <1>7, <1>9, <1>10, <1>11, Zenon DEF PacketIInv

\* Every step of the user, of the threads and of the C library keeps the invariant.
LEMMA PacketStep == PacketIInv /\ [Packets!Next]_packetVars => PacketIInv'
<1> SUFFICES ASSUME PacketIInv, [Packets!Next]_packetVars PROVE PacketIInv'
    BY Zenon
<1>1. /\ {"PublishPacket", "ConnectPacket", "DisconnectPacket", "SubscribePacket",
          "UnsubscribePacket", "Mqtt5ClientOptions"} = Packets!Sending
      /\ Packets!Sending \subseteq Packets!Classes
    BY PacketTables, Zenon
<1>2. holders \in [Packets!Classes -> SUBSET Owner]
    BY Zenon DEF PacketIInv, PacketTypeOK
<1>3. CASE UNCHANGED packetVars
    <2>1. UNCHANGED <<probe, member, given, holders, view, stale, changed>>
        BY <1>3, Zenon DEF packetVars
    <2>2. PacketTypeOK'
        BY <2>1, Zenon DEF PacketIInv, PacketTypeOK
    <2>3. ViewsAreHeld'
        BY <2>1, ZenonT(60) DEF PacketIInv, ViewsAreHeld
    <2>4. \A c, f : Packets!Written(c, f)' = Packets!Written(c, f)
        BY <2>1, Zenon DEF Packets!Written
    <2>5. FreshViewsAreCurrent'
        BY <2>1, <2>4, Zenon DEF PacketIInv, FreshViewsAreCurrent
    <2>6. UnchangedViewsAreCurrent'
        BY <2>1, <2>4, Zenon DEF PacketIInv, UnchangedViewsAreCurrent
    <2>7. QED
        BY <2>2, <2>3, <2>5, <2>6, Zenon DEF PacketIInv
<1>4. CASE Packets!UserSets
    <2>1. \E c \in Packets!Sending : \E f, v : Packets!SetMember(c, f, v)
        BY <1>1, <1>4, ZenonT(60) DEF Packets!UserSets, Packets!WithPublishField,
               Packets!WithConnectField, Packets!WithDisconnectField, Packets!WithSubscribeField,
               Packets!WithUnsubscribeField, Packets!WithOptionsField, Packets!WithItem
    <2>2. QED
        BY <2>1, SetMemberStep, Zenon
<1>5. CASE Packets!WithWill
    <2>1. /\ holders' = [holders EXCEPT !["PublishPacket"] = @ \cup {"ConnectPacket"}]
          /\ Packets!initializeRawOptions("PublishPacket", "m_willStorage")
          /\ UNCHANGED <<probe, member, given>>
        BY <1>5, Zenon DEF Packets!WithWill
    <2>2. /\ holders' \in [Packets!Classes -> SUBSET Owner]
          /\ \A d \in Packets!Classes : holders[d] \subseteq holders'[d]
          /\ "ConnectPacket" \in holders'["PublishPacket"]
        BY <1>1, <1>2, <2>1, Zenon DEF Owner
    <2>3. /\ "m_willStorage" \in Packets!Slots /\ "m_willStorage" \notin Threads
          /\ "PublishPacket" \in Packets!Sending
        BY <1>1, ConfigurationAssumption, Zenon DEF Packets!Slots
    <2>4. QED
        BY <2>1, <2>2, <2>3, InitializeRawOptionsStep, Zenon
<1>6. CASE Packets!WithConnectOptions
    <2>1. /\ holders' = [holders EXCEPT !["ConnectPacket"] = @ \cup {"Mqtt5ClientOptions"}]
          /\ Packets!initializeRawOptions("ConnectPacket", "m_packetConnectViewStorage")
          /\ UNCHANGED <<probe, member, given>>
        BY <1>6, Zenon DEF Packets!WithConnectOptions
    <2>2. /\ holders' \in [Packets!Classes -> SUBSET Owner]
          /\ \A d \in Packets!Classes : holders[d] \subseteq holders'[d]
          /\ "Mqtt5ClientOptions" \in holders'["ConnectPacket"]
        BY <1>1, <1>2, <2>1, Zenon DEF Owner
    <2>3. /\ "m_packetConnectViewStorage" \in Packets!Slots
          /\ "m_packetConnectViewStorage" \notin Threads
          /\ "ConnectPacket" \in Packets!Sending
        BY <1>1, ConfigurationAssumption, Zenon DEF Packets!Slots
    <2>4. QED
        BY <2>1, <2>2, <2>3, InitializeRawOptionsStep, Zenon
<1>7. ASSUME NEW t \in Threads, Packets!EndOperation(t) PROVE PacketIInv'
    <2> DEFINE c == view[t].of
               vs == [view EXCEPT ![t] = Packets!NoView]
    <2>1. t \in Packets!Slots /\ t \notin {"ConnectPacket", "Mqtt5ClientOptions"}
        BY ConfigurationAssumption, Zenon DEF Packets!Slots
    <2>2. /\ c # NoClass /\ Packets!DropOwner(c, t, vs)
          /\ UNCHANGED <<probe, member, given>>
        BY <1>7, Zenon DEF Packets!EndOperation
    <2>3. c \in Packets!Classes
        BY <1>1, <2>1, <2>2, ViewedIsHeld, Zenon
    <2>4. /\ vs = [s \in Packets!Slots |-> vs[s]]
          /\ \A s \in Packets!Slots : vs[s] = view[s] \/ vs[s] = Packets!NoView
          /\ vs[t] = Packets!NoView
        BY <2>1, Zenon DEF PacketIInv, PacketTypeOK
    <2> HIDE DEF c, vs
    <2>5. QED
        BY <2>1, <2>2, <2>3, <2>4, DropOwnerStep, Zenon
<1>8. ASSUME NEW t \in Threads, NEW c \in Packets!Sending, Packets!BeginOperation(t, c)
      PROVE  PacketIInv'
    <2>1. /\ Packets!initializeRawOptions(c, t)
          /\ holders' = [holders EXCEPT ![c] = @ \cup {t}]
          /\ UNCHANGED <<probe, member, given>>
        BY <1>8, Zenon DEF Packets!BeginOperation
    <2>2. /\ holders' \in [Packets!Classes -> SUBSET Owner]
          /\ \A d \in Packets!Classes : holders[d] \subseteq holders'[d]
          /\ t \in holders'[c]
        BY <1>1, <1>2, <2>1, Zenon DEF Owner
    <2>3. /\ t \in Packets!Slots /\ t # "m_willStorage" /\ t # "m_packetConnectViewStorage"
        BY ConfigurationAssumption, Zenon DEF Packets!Slots
    <2>4. QED
        BY <2>1, <2>2, <2>3, InitializeRawOptionsStep, Zenon
<1>9. ASSUME NEW c \in Packets!Classes, Packets!ReleaseObject(c) PROVE PacketIInv'
    <2>1. /\ Packets!DropOwner(c, "user", view)
          /\ UNCHANGED <<probe, member, given>>
        BY <1>9, Zenon DEF Packets!ReleaseObject
    <2>2. "user" \notin Threads /\ view = [s \in Packets!Slots |-> view[s]]
        BY ConfigurationAssumption, Zenon DEF PacketIInv, PacketTypeOK
    <2>3. QED
        BY <2>1, <2>2, DropOwnerStep, Zenon
<1>10. ASSUME NEW c \in Packets!Classes, NEW fields \in Packets!FieldValues(c),
              Packets!ReceivePacket(c, fields)
       PROVE  PacketIInv'
    BY <1>10, ReceivePacketStep, Zenon
<1>11. QED
    BY <1>3, <1>4, <1>5, <1>6, <1>7, <1>8, <1>9, <1>10, Zenon DEF Packets!Next

-----------------------------------------------------------------------------
(* The configuration *)

\* The builders start without a name, a protocol or a client.
LEMMA BuildersStart ==
    ASSUME BuildersInit
    PROVE  /\ builder \in {"mqtt5", "mqtt311"}
           /\ builder = "mqtt5" => ClientIInv
           /\ builder = "mqtt311" => ConnectionIInv
<1>1. ASSUME builder = "mqtt5" PROVE ClientIInv
    <2> USE <1>1 DEF BuildersInit, Init
    <2> DEFINE names == {<<>>, <<"user">>, <<"user", "?", "key">>}
    <2>1. userName \in [{"user", "builder"} -> names]
        BY Zenon
    <2>2. ASSUME NEW u \in names PROVE u \in Seq(Tokens) /\ AtMostOnce(u, "?")
        <3>1. {"user", "?", "key"} \subseteq Tokens
            BY Zenon DEF Tokens
        <3>2. CASE u = <<>>
            BY <3>2 DEF AtMostOnce
        <3>3. CASE u = <<"user">>
            <4>1. u \in Seq(Tokens) /\ DOMAIN u = {1}
                BY <3>1, <3>3
            <4>2. QED
                BY <4>1, Zenon DEF AtMostOnce
        <3>4. CASE u = <<"user", "?", "key">>
            <4>1. u \in Seq(Tokens)
                BY <3>1, <3>4
            <4>2. DOMAIN u = 1..3 /\ u[1] = "user" /\ u[2] = "?" /\ u[3] = "key"
                BY <3>4
            <4>3. QED
                BY <4>1, <4>2 DEF AtMostOnce
        <3>5. QED
            BY <2>2, <3>2, <3>3, <3>4, Zenon
    <2>3. /\ userName \in [{"user", "builder"} -> Seq(Tokens)]
          /\ \A p \in {"user", "builder"} : AtMostOnce(userName[p], "?")
        BY <2>1, <2>2, ZenonT(60)
    <2>4. BuiltAsConfigured /\ AuthParametersOnce
        BY Zenon DEF BuiltAsConfigured, AuthParametersOnce
    <2>5. m_customAuthConfig \in {Nothing} \cup SUBSET AuthFields
        BY IotBuildersAssumption, Zenon
    <2>6. QED
        BY <2>3, <2>4, <2>5, ZenonT(60) DEF ClientIInv
<1>2. ASSUME builder = "mqtt311" PROVE ConnectionIInv
    BY <1>2, Zenon DEF BuildersInit, Mqtt311!Init, ConnectionIInv, ConfigAsBuilt,
       Mqtt311!ConfigAsBuilt
<1>3. QED
    BY <1>1, <1>2, Zenon DEF BuildersInit

\* The metrics start with the default name and nothing else.
LEMMA MetricsStart == Metrics!Init => MetricsIInv
BY Zenon DEF Metrics!Init, MetricsIInv, Metrics!RawEntriesAreOwn

\* Steps of the builders, whichever of the two a behaviour is about.
LEMMA BuildersStep ==
    ASSUME builder = "mqtt5" => ClientIInv, builder = "mqtt311" => ConnectionIInv,
           [BuildersNext]_buildersVars
    PROVE  /\ builder' = builder
           /\ builder = "mqtt5" => ClientIInv'
           /\ builder = "mqtt311" => ConnectionIInv'
<1>1. UNCHANGED buildersVars => UNCHANGED builderVars /\ UNCHANGED Mqtt311!builderVars
    BY Zenon DEF buildersVars, builderVars, mqtt311Only, Mqtt311!builderVars
<1>2. builder' = builder
    BY Zenon DEF BuildersNext, buildersVars
<1>3. builder = "mqtt5" => [Next]_builderVars
    BY <1>1, Zenon DEF BuildersNext
<1>4. builder = "mqtt311" => [Mqtt311!Next]_Mqtt311!builderVars
    BY <1>1, Zenon DEF BuildersNext
<1>5. QED
    BY <1>2, <1>3, <1>4, ClientStep, ConnectionStep, Zenon

\* The invariants of all subjects hold together.
THEOREM ConfigurationInvariance == ConfigurationSpec => []ConfigurationIInv
<1>1. ConfigurationInit => ConfigurationIInv
    <2> SUFFICES ASSUME ConfigurationInit PROVE ConfigurationIInv
        BY Zenon
    <2>1. MetricsIInv
        BY MetricsStart, Zenon DEF ConfigurationInit
    <2>2. subject = "packets" => PacketIInv
        BY PacketInit, Zenon DEF ConfigurationInit
    <2>3. subject = "builders" => BuildersInit
        BY Zenon DEF ConfigurationInit
    <2>4. QED
        BY <2>1, <2>2, <2>3, BuildersStart, Zenon DEF ConfigurationIInv
<1>2. ConfigurationIInv /\ [ConfigurationNext]_configurationVars => ConfigurationIInv'
    <2> SUFFICES ASSUME ConfigurationIInv, [ConfigurationNext]_configurationVars
                 PROVE  ConfigurationIInv'
        BY Zenon
    <2>1. subject' = subject
        BY Zenon DEF ConfigurationNext, configurationVars
    <2>2. [Metrics!Next]_metricsVars
        BY Zenon DEF ConfigurationNext, configurationVars
    <2>3. subject = "packets" => [Packets!Next]_packetVars
        BY Zenon DEF ConfigurationNext, configurationVars
    <2>4. subject = "builders" => [BuildersNext]_buildersVars
        BY Zenon DEF ConfigurationNext, configurationVars
    <2>5. MetricsIInv'
        BY <2>2, MetricsStep, Zenon DEF ConfigurationIInv
    <2>6. subject = "packets" => PacketIInv'
        BY <2>3, PacketStep, Zenon DEF ConfigurationIInv
    <2>7. subject = "builders" =>
            /\ builder' = builder
            /\ builder = "mqtt5" => ClientIInv'
            /\ builder = "mqtt311" => ConnectionIInv'
        BY <2>4, BuildersStep, Zenon DEF ConfigurationIInv
    <2>8. QED
        BY <2>1, <2>5, <2>6, <2>7, Zenon DEF ConfigurationIInv
<1>3. QED
    BY <1>1, <1>2, PTL DEF ConfigurationSpec

\* The packet of a view that the C library was given is alive, and if it was not changed
\* since, the view reads every field as it was set, but for the lists of a packet that was
\* sent again meanwhile: for any number of threads, values and elements.
THEOREM FreshViewsReadAsGiven == ConfigurationSpec => []FreshViewReadsAsGiven
<1>1. ConfigurationIInv => FreshViewReadsAsGiven
    BY PacketIInvIsEnough, Zenon DEF ConfigurationIInv, FreshViewReadsAsGiven
<1>2. QED
    BY <1>1, ConfigurationInvariance, PTL

\* Mqtt5ClientBuilder::Build() returns clients with the protocol and the user name that
\* were asked for, whatever was built or failed before, for any authorizer configurations
\* and any number of calls.
THEOREM ClientsAreAsConfigured == ConfigurationSpec => []ClientAsConfigured
<1>1. ConfigurationIInv => ClientAsConfigured
    BY Zenon DEF ConfigurationIInv, ClientIInv, ClientAsConfigured
<1>2. QED
    BY <1>1, ConfigurationInvariance, PTL

\* So do MqttClientConnectionConfigBuilder::Build() and MqttClient::NewConnection().
THEOREM ConnectionsAreAsConfigured == ConfigurationSpec => []ConnectionAsConfigured
<1>1. ConfigurationIInv => ConnectionAsConfigured
    BY Zenon DEF ConfigurationIInv, ConnectionIInv, ConnectionAsConfigured
<1>2. QED
    BY <1>1, ConfigurationInvariance, PTL

\* The raw entries of a metrics object never point into metadata it does not have.
THEOREM RawEntriesAreAlwaysOwn == ConfigurationSpec => []RawEntriesAreOwn
<1>1. ConfigurationIInv => RawEntriesAreOwn
    BY Zenon DEF ConfigurationIInv, MetricsIInv, RawEntriesAreOwn
<1>2. QED
    BY <1>1, ConfigurationInvariance, PTL

=============================================================================
