----------------------------- MODULE TlsOptions -----------------------------
(***************************************************************************)
(* TlsContextOptions, TlsContext and TlsConnectionOptions: the options     *)
(* from which a context is made, the context, and the options of one       *)
(* connection made from it.  The first and the last own a C struct, which  *)
(* an object that was moved from no longer does; the C context is shared   *)
(* by TlsContext objects through a shared_ptr and referred to by the C     *)
(* structs of connection options.  Each object also carries what the SDK   *)
(* metrics report of the configuration: certificate source, TLS version    *)
(* and cipher preference, of which the last two are treated alike.  The    *)
(* server name and ALPN list belong to the C struct; m_lastError, which no *)
(* operation here reads, is left out.                                      *)
(***************************************************************************)
EXTENDS Naturals, FiniteSets

CONSTANTS
    Options, Contexts, Connections,   \* C++ objects of the three classes
    NativeOptions, NativeContexts,    \* C structs and contexts
    Sources, Versions,                \* values of the metrics
    Zero                              \* no struct, no context, no object

VARIABLES
    options,      \* per object: m_isInit, the struct in m_options, metrics
    context,      \* per object: m_ctx and metrics
    connection,   \* per object: m_isInit, context of the struct, metrics
    structs,      \* settings of each aws_tls_ctx_options that is initialized
    native        \* per aws_tls_ctx: its reference count and settings

tlsVars == <<options, context, connection, structs, native>>

\* The values of the variables, next to Zero.
Metrics == [source : Sources \cup {"None"}, version : Versions \cup {"DEFAULT"}]

TlsContextOptions == [isInit : BOOLEAN, struct : NativeOptions \cup {Zero}, metrics : Metrics]

TlsContext == [ctx : NativeContexts \cup {Zero}, metrics : Metrics]

TlsConnectionOptions == [isInit : BOOLEAN, ctx : NativeContexts \cup {Zero}, metrics : Metrics]

DefaultMetrics == [source |-> "None", version |-> "DEFAULT"]

Empty == [isInit |-> FALSE, struct |-> Zero, metrics |-> DefaultMetrics]

NoConnection == [isInit |-> FALSE, ctx |-> Zero, metrics |-> DefaultMetrics]

Freed == [refs |-> 0, made |-> DefaultMetrics]

Init ==
    /\ options = [o \in Options |-> Zero]
    /\ context = [x \in Contexts |-> Zero]
    /\ connection = [c \in Connections |-> Zero]
    /\ structs = [s \in NativeOptions |-> Zero]
    /\ native = [n \in NativeContexts |-> Freed]

Is(value) == value # Zero

-----------------------------------------------------------------------------
(* TlsContextOptions *)

\* InitDefaultClient() and the InitClientWithMtls() family, which can fail.
InitOptions(o, source) ==
    /\ ~Is(options[o])
    /\ \/ /\ \E s \in NativeOptions : ~Is(structs[s])
          /\ LET metrics == [DefaultMetrics EXCEPT !.source = source]
                 s == CHOOSE s \in NativeOptions : ~Is(structs[s])
             IN /\ structs' = [structs EXCEPT ![s] = metrics]
                /\ options' = [options EXCEPT ![o] = [isInit |-> TRUE, struct |-> s, metrics |-> metrics]]
       \/ /\ source # "None"
          /\ options' = [options EXCEPT ![o] = Empty]
          /\ UNCHANGED structs
    /\ UNCHANGED <<context, connection, native>>

\* aws_tls_ctx_options_clean_up, for an object that is initialized.
CleanUp(o) ==
    structs' = [s \in NativeOptions |->
                    IF Is(options[o]) /\ options[o].isInit /\ options[o].struct = s THEN Zero ELSE structs[s]]

\* The move constructor, and the move assignment, which first cleans up.
MoveOptions(o, p) ==
    /\ o # p /\ Is(options[p])
    /\ CleanUp(o)
    /\ options' = [options EXCEPT ![o] = options[p], ![p] = Empty]
    /\ UNCHANGED <<context, connection, native>>

DestroyOptions(o) ==
    /\ Is(options[o])
    /\ CleanUp(o)
    /\ options' = [options EXCEPT ![o] = Zero]
    /\ UNCHANGED <<context, connection, native>>

\* SetMinimumTlsVersion() and SetTlsCipherPreference(), which want an initialized object.
SetVersion(o, version) ==
    /\ Is(options[o]) /\ options[o].isInit
    /\ structs' = [structs EXCEPT ![options[o].struct].version = version]
    /\ options' = [options EXCEPT ![o].metrics.version = version]
    /\ UNCHANGED <<context, connection, native>>

-----------------------------------------------------------------------------
(* References to a C context: by the shared_ptr of all TlsContext objects, and *)
(* by the struct of each set of connection options                             *)

Acquire(natives, n) == [natives EXCEPT ![n].refs = @ + 1]

\* The last reference frees the context.
Release(natives, n) ==
    IF ~Is(n) THEN natives
    ELSE IF natives[n].refs = 1 THEN [natives EXCEPT ![n] = Freed]
    ELSE [natives EXCEPT ![n].refs = @ - 1]

\* What is left when object x no longer shares its context.
Unshare(natives, x) ==
    IF Is(context[x]) /\ \A y \in Contexts \ {x} : Is(context[y]) => context[y].ctx # context[x].ctx
    THEN Release(natives, context[x].ctx) ELSE natives

-----------------------------------------------------------------------------
(* TlsContext *)

\* A context that could not be made leaves an initialization error.  That the options
\* are initialized is left to the caller: the constructor does not look.
NewContext(x, o) ==
    /\ ~Is(context[x]) /\ Is(options[o]) /\ options[o].isInit
    /\ \/ /\ \E n \in NativeContexts : native[n].refs = 0
          /\ LET n == CHOOSE n \in NativeContexts : native[n].refs = 0
             IN /\ native' = [native EXCEPT ![n] = [refs |-> 1, made |-> structs[options[o].struct]]]
                /\ context' = [context EXCEPT ![x] = [ctx |-> n, metrics |-> options[o].metrics]]
       \/ /\ context' = [context EXCEPT ![x] = [ctx |-> Zero, metrics |-> options[o].metrics]]
          /\ UNCHANGED native
    /\ UNCHANGED <<options, connection, structs>>

\* The copy constructor and assignment that the compiler writes.
CopyContext(x, y) ==
    /\ x # y /\ Is(context[y])
    /\ context' = [context EXCEPT ![x] = context[y]]
    /\ native' = IF Is(context[x]) /\ context[x].ctx = context[y].ctx THEN native ELSE Unshare(native, x)
    /\ UNCHANGED <<options, connection, structs>>

MoveContext(x, y) ==
    /\ x # y /\ Is(context[y])
    /\ context' = [context EXCEPT ![x] = context[y], ![y].ctx = Zero]
    /\ native' = IF Is(context[x]) /\ context[x].ctx = context[y].ctx THEN native ELSE Unshare(native, x)
    /\ UNCHANGED <<options, connection, structs>>

DestroyContext(x) ==
    /\ Is(context[x])
    /\ context' = [context EXCEPT ![x] = Zero]
    /\ native' = Unshare(native, x)
    /\ UNCHANGED <<options, connection, structs>>

-----------------------------------------------------------------------------
(* TlsConnectionOptions *)

\* The context of an initialized object.
CtxOf(c) == IF Is(connection[c]) /\ connection[c].isInit THEN connection[c].ctx ELSE Zero

\* TlsContext::NewConnectionOptions(): of a context that is not valid, options that are
\* not either.
NewConnectionOptions(c, x) ==
    /\ ~Is(connection[c]) /\ Is(context[x])
    /\ IF Is(context[x].ctx)
       THEN /\ native' = Acquire(native, context[x].ctx)
            /\ connection' = [connection EXCEPT ![c] =
                    [isInit |-> TRUE, ctx |-> context[x].ctx, metrics |-> context[x].metrics]]
       ELSE /\ connection' = [connection EXCEPT ![c] = NoConnection]
            /\ UNCHANGED native
    /\ UNCHANGED <<options, context, structs>>

\* Mutant of CopyConnection: the copy assignment does not clean up what was there.
CopyWithoutCleanUp(c, d) ==
    /\ c # d /\ Is(connection[d])
    /\ LET cleaned == native
       IN IF connection[d].isInit
          THEN \/ /\ native' = Acquire(cleaned, connection[d].ctx)
                  /\ connection' = [connection EXCEPT ![c] = connection[d]]
               \/ /\ native' = cleaned
                  /\ connection' = [connection EXCEPT ![c] =
                        [connection[d] EXCEPT !.isInit = FALSE, !.ctx = Zero]]
          ELSE /\ native' = cleaned
               /\ connection' = [connection EXCEPT ![c] = NoConnection]
    /\ UNCHANGED <<options, context, structs>>

\* The copy constructor, and the copy assignment, which first cleans up.  When the
\* struct cannot be copied the metrics are those of the source all the same.
CopyConnection(c, d) ==
    /\ c # d /\ Is(connection[d])
    /\ LET cleaned == Release(native, CtxOf(c))
       IN IF connection[d].isInit
          THEN \/ /\ native' = Acquire(cleaned, connection[d].ctx)
                  /\ connection' = [connection EXCEPT ![c] = connection[d]]
               \/ /\ native' = cleaned
                  /\ connection' = [connection EXCEPT ![c] =
                        [connection[d] EXCEPT !.isInit = FALSE, !.ctx = Zero]]
          ELSE /\ native' = cleaned
               /\ connection' = [connection EXCEPT ![c] = NoConnection]
    /\ UNCHANGED <<options, context, structs>>

\* The move assignment; the source is left without struct and metrics.
MoveAssignConnection(c, d) ==
    /\ c # d /\ Is(connection[c]) /\ Is(connection[d])
    /\ native' = Release(native, CtxOf(c))
    /\ connection' = IF connection[d].isInit
                     THEN [connection EXCEPT ![c] = connection[d], ![d] = NoConnection]
                     ELSE [connection EXCEPT ![c] = NoConnection]
    /\ UNCHANGED <<options, context, structs>>

\* The move constructor takes the metrics of a source that is not initialized too.
MoveConnection(c, d) ==
    /\ ~Is(connection[c]) /\ Is(connection[d])
    /\ connection' = [connection EXCEPT ![c] = connection[d],
                                        ![d] = IF @.isInit THEN NoConnection ELSE @]
    /\ UNCHANGED <<options, context, structs, native>>

DestroyConnection(c) ==
    /\ Is(connection[c])
    /\ native' = Release(native, CtxOf(c))
    /\ connection' = [connection EXCEPT ![c] = Zero]
    /\ UNCHANGED <<options, context, structs>>

Next ==
    \/ \E o \in Options :
        \/ DestroyOptions(o)
        \/ \E source \in Sources : InitOptions(o, source)
        \/ \E version \in Versions : SetVersion(o, version)
        \/ \E p \in Options : MoveOptions(o, p)
        \/ \E x \in Contexts : NewContext(x, o)
    \/ \E x \in Contexts :
        \/ DestroyContext(x)
        \/ \E y \in Contexts : CopyContext(x, y) \/ MoveContext(x, y)
        \/ \E c \in Connections : NewConnectionOptions(c, x)
    \/ \E c \in Connections :
        \/ DestroyConnection(c)
        \/ \E d \in Connections :
            CopyConnection(c, d) \/ MoveAssignConnection(c, d) \/ MoveConnection(c, d)

Spec == Init /\ [][Next]_tlsVars

-----------------------------------------------------------------------------
(* Properties *)

Sharing(n) == \E x \in Contexts : Is(context[x]) /\ context[x].ctx = n

Using(n) == {c \in Connections : CtxOf(c) = n}

\* However the objects are copied, moved, assigned and destroyed, and whatever copy
\* fails on the way: every C struct is cleaned up by the one object that has it, the
\* references to a context are those of its shared_ptr and of the connection options
\* that use it, so that it lives as long as they do and no longer, and options that
\* are valid report the configuration that their context was really made with.
TlsObjectsAreSound ==
    /\ \A s \in NativeOptions :
        Cardinality({o \in Options : Is(options[o]) /\ options[o].isInit /\ options[o].struct = s})
            = (IF Is(structs[s]) THEN 1 ELSE 0)
    /\ \A n \in NativeContexts :
        native[n].refs = Cardinality(Using(n)) + (IF Sharing(n) THEN 1 ELSE 0)
    /\ \A c \in Connections : Is(CtxOf(c)) => connection[c].metrics = native[CtxOf(c)].made

=============================================================================
