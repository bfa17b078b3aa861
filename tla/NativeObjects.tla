---------------------------- MODULE NativeObjects ----------------------------
(***************************************************************************)
(* The classes whose objects live by a count that the C library shares.  A *)
(* behaviour is about one subject, chosen at the start; the other stays as *)
(* it was created.                                                         *)
(*   refs    an object shared with C code, counted by RefCounted;          *)
(*   tls     TLS options, the contexts made from them, which are counted,  *)
(*           and connection options.                                       *)
(***************************************************************************)
EXTENDS RefCounted

CONSTANTS
    Subjects,  \* what a behaviour may be about
    Options, Contexts, Connections, NativeOptions, NativeContexts, Sources, Versions, Zero

VARIABLES
    subject,
    options, context, connection, structs, native

tlsVars == <<options, context, connection, structs, native>>

Tls == INSTANCE TlsOptions

\* Zero is none of the things it is the absence of.
ASSUME NativeObjectsAssumption ==
    /\ IsFiniteSet(Connections)
    /\ Zero \notin NativeOptions /\ Zero \notin NativeContexts
    /\ Zero \notin Tls!Metrics /\ Zero \notin Tls!TlsContextOptions
    /\ Zero \notin Tls!TlsContext /\ Zero \notin Tls!TlsConnectionOptions

ObjectsInit ==
    /\ subject \in Subjects
    /\ Init /\ Tls!Init
    /\ subject # "refs" => \A t \in Threads : sharedPtr[t]

ObjectsNext ==
    \/ subject = "refs" /\ Next /\ UNCHANGED <<subject, tlsVars>>
    \/ subject = "tls" /\ Tls!Next /\ UNCHANGED <<subject, refVars>>

objectsVars == <<subject, refVars, tlsVars>>

ObjectsSpec == ObjectsInit /\ [][ObjectsNext]_objectsVars

-----------------------------------------------------------------------------
(* The properties of the components, explained in their modules.             *)

\* TLS objects clean up what they own, keep contexts alive and report their settings.
TlsObjectsAreSound == Tls!TlsObjectsAreSound

=============================================================================
