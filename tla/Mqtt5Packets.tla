---------------------------- MODULE Mqtt5Packets ----------------------------
(***************************************************************************)
(* How the fields of MQTT5 packets and client options reach the C library. *)
(*                                                                         *)
(* A packet object keeps its fields; initializeRawOptions() fills a view   *)
(* that the C library reads and that mostly points into the object.  Four  *)
(* views exist at a time: one on the stack of each of two threads that     *)
(* call an operation, m_willStorage of the ConnectPacket, filled when the  *)
(* will is attached, and m_packetConnectViewStorage of the options, filled *)
(* when the connect packet is attached.  Between filling a view and the    *)
(* reading of it the packet may be changed, or another view be filled from *)
(* it, which replaces the arrays of its lists: the view is then stale.     *)
(*                                                                         *)
(* A behaviour follows one field of one class and its user properties; the *)
(* other fields keep their defaults, and of the other objects only those   *)
(* that may own the one in question play a part.                           *)
(***************************************************************************)
EXTENDS Mqtt5PacketFields, Naturals, Sequences

CONSTANTS
    Threads,   \* threads that call operations on the client
    Values,    \* values of a field, elements of a list
    MaxList,   \* bound on the length of a list
    Absent,    \* an optional without a value, a null pointer of a view
    Pointer,   \* a view's field that reads what the member holds
    Outdated,  \* a view's field that reads an old value, or freed storage
    NoClass    \* a view that is not in use

Outgoing ==
    [PublishPacket |-> PublishRaw, ConnectPacket |-> ConnectRaw,
     DisconnectPacket |-> DisconnectRaw, SubscribePacket |-> SubscribeRaw,
     UnsubscribePacket |-> UnsubscribeRaw, Mqtt5ClientOptions |-> OptionsRaw]

Setters ==
    [PublishPacket |-> PublishSetters, ConnectPacket |-> ConnectSetters,
     DisconnectPacket |-> DisconnectSetters, SubscribePacket |-> SubscribeSetters,
     UnsubscribePacket |-> UnsubscribeSetters, Mqtt5ClientOptions |-> OptionsSetters]

Incoming ==
    [PublishPacket |-> PublishFromView, DisconnectPacket |-> DisconnectFromView,
     ConnAckPacket |-> ConnAckFromView, NegotiatedSettings |-> SettingsFromView,
     PubAckPacket |-> PubAckFromView, SubAckPacket |-> SubAckFromView,
     UnSubAckPacket |-> UnSubAckFromView]

Getters ==
    [PublishPacket |-> PublishGetters, ConnectPacket |-> ConnectGetters,
     DisconnectPacket |-> DisconnectGetters, ConnAckPacket |-> ConnAckGetters,
     NegotiatedSettings |-> SettingsGetters, PubAckPacket |-> PubAckGetters,
     SubAckPacket |-> SubAckGetters, UnSubAckPacket |-> UnSubAckGetters]

Classes == DOMAIN Outgoing \cup DOMAIN Incoming

Lists == {"m_userProperties", "m_subscriptions", "m_topicFilters",
          "m_subscriptionIdentifiers", "m_reasonCodes"}

\* Members that attach another packet.
Attachments == {"m_will", "m_connectOptions"}

Sending == DOMAIN Outgoing

MembersOf(c) ==
    UNION {IF c \in Sending THEN Setters[c] ELSE {},
           IF c \in DOMAIN Incoming THEN Incoming[c] ELSE {},
           IF c \in DOMAIN Getters THEN Getters[c] ELSE {}}

Probes == UNION {{<<c, f>> : f \in MembersOf(c)} : c \in Classes}

\* The options refer to a connect packet, which refers to a will: the objects that
\* may keep an object of a class alive.
Owners(c) ==
    CASE c = "PublishPacket" -> {"ConnectPacket", "Mqtt5ClientOptions"}
      [] c = "ConnectPacket" -> {"Mqtt5ClientOptions"}
      [] OTHER -> {}

Slots == Threads \cup {"m_willStorage", "m_packetConnectViewStorage"}

VARIABLES
    probe,    \* the class and the field this behaviour is about
    member,   \* the members of each object
    given,    \* what the user, or the C library, gave last for each field
    holders,  \* owners of each object
    view,     \* the views, by where they are: of which object, seeing what
    stale,    \* views whose object was changed or read again since
    changed   \* those whose object was changed

packetVars == <<probe, member, given, holders, view, stale, changed>>

InPlay(c) == c \in {probe[1]} \cup Owners(probe[1])

\* The members a behaviour about the probe p follows.
Followed(p, c) ==
    {f \in MembersOf(c) \ Attachments : c = p[1] /\ f \in {"m_userProperties", p[2]}}

Empty(f) == IF f \in Lists THEN <<>> ELSE Absent

Contents(f) ==
    IF f \in Lists THEN UNION {[1..n -> Values] : n \in 0..MaxList} ELSE Values

NoView == [of |-> NoClass, sees |-> <<>>]

Init ==
    /\ probe \in Probes
    /\ member = [c \in Classes |-> [f \in Followed(probe, c) |-> Empty(f)]]
    /\ given = member
    /\ holders \in [Classes -> {{}, {"user"}}]
    /\ \A c \in Classes : c \notin Sending \/ ~InPlay(c) => holders[c] = {}
    /\ \A c \in Sending \ DOMAIN Incoming : InPlay(c) => holders[c] = {"user"}
    /\ view = [s \in Slots |-> NoView]
    /\ stale = {} /\ changed = {}

-----------------------------------------------------------------------------
(* Filling and outdating views *)

Raw(c) == Outgoing[c]

SeenBy(c) == Raw(c).pointed \cup Raw(c).cursor \cup Raw(c).late \cup Raw(c).array

\* What initializeRawOptions() writes for a member: its value, nothing for an absent
\* optional, an empty list or a member it does not look at, or a pointer.
Written(c, f) ==
    IF f \in Raw(c).copied \/ (f \in SeenBy(c) /\ member[c][f] = Empty(f)) THEN member[c][f]
    ELSE IF f \in SeenBy(c) THEN Pointer ELSE Empty(f)

\* In the views of an object, the fields fs read no longer what the member holds.
Outdate(vs, c, fs) ==
    [s \in Slots |->
        IF vs[s].of # c THEN vs[s]
        ELSE [vs[s] EXCEPT !.sees =
                [f \in DOMAIN @ |-> IF f \in fs /\ @[f] = Pointer THEN Outdated ELSE @[f]]]]

\* The late members of an object are up to date again, in all its views.
Refresh(vs, c) ==
    [s \in Slots |->
        IF vs[s].of # c THEN vs[s]
        ELSE [vs[s] EXCEPT !.sees =
                [f \in DOMAIN @ |-> IF f \in Raw(c).late /\ @[f] = Outdated THEN Pointer ELSE @[f]]]]

ViewsOf(c) == {s \in Slots : view[s].of = c}

\* Mutant of initializeRawOptions: the strings of cursors are copied anew as well.
RawOptionsCopyStrings(c, s) ==
    /\ view' = [Refresh(Outdate(view, c, Raw(c).array \cup Raw(c).cursor), c) EXCEPT
                    ![s] = [of |-> c, sees |-> [f \in DOMAIN member[c] |-> Written(c, f)]]]
    /\ stale' = (stale \cup ViewsOf(c)) \ {s}
    /\ changed' = changed \ {s}

\* initializeRawOptions() into the view at s: the arrays of an earlier call are
\* released and allocated again.
initializeRawOptions(c, s) ==
    /\ view' = [Refresh(Outdate(view, c, Raw(c).array), c) EXCEPT
                    ![s] = [of |-> c, sees |-> [f \in DOMAIN member[c] |-> Written(c, f)]]]
    /\ stale' = (stale \cup ViewsOf(c)) \ {s}
    /\ changed' = changed \ {s}

-----------------------------------------------------------------------------
(* What the user does with an object *)

\* A With... function stores its argument.  Strings, buffers and vectors get new
\* storage, and a cursor that only initializeRawOptions() sets is left behind.
SetMember(c, f, v) ==
    /\ "user" \in holders[c]
    /\ f \in DOMAIN member[c] \cap Setters[c]
    /\ v # member[c][f]
    /\ member' = [member EXCEPT ![c][f] = v]
    /\ given' = [given EXCEPT ![c][f] = v]
    /\ view' = Outdate(view, c, {f} \cap (Raw(c).cursor \cup Raw(c).late \cup Raw(c).array))
    /\ stale' = stale \cup ViewsOf(c)
    /\ changed' = changed \cup ViewsOf(c)
    /\ UNCHANGED <<probe, holders>>

WithPublishField(f, v) == SetMember("PublishPacket", f, v)

WithConnectField(f, v) == SetMember("ConnectPacket", f, v)

WithDisconnectField(f, v) == SetMember("DisconnectPacket", f, v)

WithSubscribeField(f, v) == SetMember("SubscribePacket", f, v)

WithUnsubscribeField(f, v) == SetMember("UnsubscribePacket", f, v)

WithOptionsField(f, v) == SetMember("Mqtt5ClientOptions", f, v)

\* WithUserProperty, WithSubscription, WithTopicFilter: append to the list.
WithItem(c, f, v) ==
    /\ f \in Lists
    /\ Len(member[c][f]) < MaxList
    /\ SetMember(c, f, Append(member[c][f], v))

Without(hs, c, h) == [hs EXCEPT ![c] = @ \ {h}]

\* The owner h lets go of the object c.  The last one destroys it, and with it its
\* reference to the packet attached to it and the view of that packet.
DropOwner(c, h, vs) ==
    LET h1 == Without(holders, c, h)
        h2 == IF h1["Mqtt5ClientOptions"] = {}
              THEN Without(h1, "ConnectPacket", "Mqtt5ClientOptions") ELSE h1
        h3 == IF h2["ConnectPacket"] = {} THEN Without(h2, "PublishPacket", "ConnectPacket") ELSE h2
        gone == {s \in Slots : \/ s = "m_willStorage" /\ h3["ConnectPacket"] = {}
                               \/ s = "m_packetConnectViewStorage" /\ h3["Mqtt5ClientOptions"] = {}}
    IN /\ holders' = h3
       /\ view' = [s \in Slots |-> IF s \in gone THEN NoView ELSE vs[s]]
       /\ stale' = {s \in stale \ gone : vs[s].of # NoClass}
       /\ changed' = {s \in changed \ gone : vs[s].of # NoClass}

ReleaseObject(c) ==
    /\ "user" \in holders[c]
    /\ DropOwner(c, "user", view)
    /\ UNCHANGED <<probe, member, given>>

\* Mutant of WithWill: the packet is not kept with its view.
WillNotKept ==
    /\ "user" \in holders["ConnectPacket"] \cap holders["PublishPacket"]
    /\ UNCHANGED holders
    /\ initializeRawOptions("PublishPacket", "m_willStorage")
    /\ UNCHANGED <<probe, member, given>>

\* ConnectPacket::WithWill: keep the packet and fill m_willStorage now.
WithWill ==
    /\ "user" \in holders["ConnectPacket"] \cap holders["PublishPacket"]
    /\ holders' = [holders EXCEPT !["PublishPacket"] = @ \cup {"ConnectPacket"}]
    /\ initializeRawOptions("PublishPacket", "m_willStorage")
    /\ UNCHANGED <<probe, member, given>>

\* Mqtt5ClientOptions::WithConnectOptions: keep the packet and fill
\* m_packetConnectViewStorage now.
WithConnectOptions ==
    /\ "user" \in holders["Mqtt5ClientOptions"] \cap holders["ConnectPacket"]
    /\ holders' = [holders EXCEPT !["ConnectPacket"] = @ \cup {"Mqtt5ClientOptions"}]
    /\ initializeRawOptions("ConnectPacket", "m_packetConnectViewStorage")
    /\ UNCHANGED <<probe, member, given>>

-----------------------------------------------------------------------------
(* Calls of the C library *)

\* Publish, Subscribe, Unsubscribe, Stop and the creation of a client fill a view on
\* the stack and hand it to the C library, which copies what it reads.
BeginOperation(t, c) ==
    /\ c = probe[1] /\ c # "ConnectPacket"
    /\ "user" \in holders[c]
    /\ view[t].of = NoClass
    /\ initializeRawOptions(c, t)
    /\ holders' = [holders EXCEPT ![c] = @ \cup {t}]
    /\ UNCHANGED <<probe, member, given>>

EndOperation(t) ==
    /\ view[t].of # NoClass
    /\ DropOwner(view[t].of, t, [view EXCEPT ![t] = NoView])
    /\ UNCHANGED <<probe, member, given>>

\* A callback of the C library: the constructor copies the fields of its view, which
\* is gone when the callback returns.
ReceivePacket(c, fields) ==
    /\ c = probe[1]
    /\ c \in DOMAIN Incoming
    /\ holders[c] = {}
    /\ holders' = [holders EXCEPT ![c] = {"user"}]
    /\ given' = [given EXCEPT ![c] = fields]
    /\ member' = [member EXCEPT ![c] =
        [f \in DOMAIN @ |-> IF f \in Incoming[c] THEN fields[f] ELSE Empty(f)]]
    /\ UNCHANGED <<probe, view, stale, changed>>

FieldValues(c) ==
    {fields \in [DOMAIN member[c] -> UNION {Contents(f) \cup {Empty(f)} : f \in DOMAIN member[c]}] :
        \A f \in DOMAIN member[c] : fields[f] \in Contents(f) \cup {Empty(f)}}

UserSets ==
    \/ \E f \in DOMAIN member["PublishPacket"] : \E v \in Contents(f) : WithPublishField(f, v)
    \/ \E f \in DOMAIN member["ConnectPacket"] : \E v \in Contents(f) : WithConnectField(f, v)
    \/ \E f \in DOMAIN member["DisconnectPacket"] : \E v \in Contents(f) : WithDisconnectField(f, v)
    \/ \E f \in DOMAIN member["SubscribePacket"] : \E v \in Contents(f) : WithSubscribeField(f, v)
    \/ \E f \in DOMAIN member["UnsubscribePacket"] : \E v \in Contents(f) : WithUnsubscribeField(f, v)
    \/ \E f \in DOMAIN member["Mqtt5ClientOptions"] : \E v \in Contents(f) : WithOptionsField(f, v)
    \/ \E c \in Sending : \E f \in DOMAIN member[c], v \in Values : WithItem(c, f, v)

Next ==
    \/ UserSets \/ WithWill \/ WithConnectOptions
    \/ \E t \in Threads : EndOperation(t) \/ \E c \in Sending : BeginOperation(t, c)
    \/ \E c \in Classes :
        ReleaseObject(c) \/ \E fields \in FieldValues(c) : ReceivePacket(c, fields)

Spec == Init /\ [][Next]_packetVars

-----------------------------------------------------------------------------
(* Properties *)

Read(s, f) == IF view[s].sees[f] = Pointer THEN member[view[s].of][f] ELSE view[s].sees[f]

ReadsAsGiven(s, f) ==
    LET c == view[s].of
    IN f \in Setters[c] => Read(s, f) = given[c][f]

\* A view in use points to an object that is alive, whichever of the others the user
\* let go of.  Unless the object was changed since, it shows the C library every field
\* as it was given, also when another thread sends the same packet or it is attached as
\* a will meanwhile; only the lists it then shows no more.  The subscription identifier
\* of a SUBSCRIBE is not among the fields.
FreshViewReadsAsGiven ==
    \A s \in Slots : view[s].of # NoClass =>
        /\ holders[view[s].of] # {}
        /\ \A f \in DOMAIN view[s].sees \ {"m_subscriptionIdentifier"} :
            \/ s \notin stale
            \/ s \notin changed /\ f \notin Raw(view[s].of).array
            => ReadsAsGiven(s, f)

\* "Sets the value to associate with all subscriptions in this request."
SubscriptionIdentifierSent ==
    \A s \in Slots \ stale :
        view[s].of = "SubscribePacket" /\ "m_subscriptionIdentifier" \in DOMAIN view[s].sees
            => ReadsAsGiven(s, "m_subscriptionIdentifier")

=============================================================================
