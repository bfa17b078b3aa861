---------------------------- MODULE IoTSDKMetrics ----------------------------
(***************************************************************************)
(* The metrics that an AWS IoT client sends with its user name: the        *)
(* AWSIoTMetrics objects of the user, which are copied, moved and changed, *)
(* and whose raw entries point into their own metadata.                    *)
(***************************************************************************)
CONSTANTS
    Objects,      \* AWSIoTMetrics objects of the user
    Names,        \* library names the user sets
    UserLists,    \* feature lists the user sets
    Nothing       \* a key that is not in the metadata, an empty raw array

DefaultName == "IoTDeviceSDK/CPP"

\* The reserved keys and one of the user's own.
Keys == {"IoTSDKFeature", "IoTSDKMetricsVersion", "CRTVersion", "IoTSDKVersion"}

\* What the user may set: "1b" is a number for atoi() too, "old" is none.
MetadataValues(k) ==
    CASE k = "IoTSDKFeature" -> UserLists
      [] k = "IoTSDKMetricsVersion" -> {"1b", "2"}
      [] OTHER -> {"old"}

VARIABLES
    m_libraryName,         \* of each object
    m_metadata,            \* the value of each key, or Nothing
    m_rawMetadataEntries   \* the metadata the raw entries show, or Nothing

metricsVars == <<m_libraryName, m_metadata, m_rawMetadataEntries>>

NoMetadata == [k \in Keys |-> Nothing]

Init ==
    /\ m_libraryName = [o \in Objects |-> DefaultName]
    /\ m_metadata = [o \in Objects |-> NoMetadata]
    /\ m_rawMetadataEntries = [o \in Objects |-> NoMetadata]

-----------------------------------------------------------------------------
(* AWSIoTMetrics *)

resetRawData(o) == m_rawMetadataEntries' = [m_rawMetadataEntries EXCEPT ![o] = NoMetadata]

SetLibraryName(o, name) ==
    /\ m_libraryName' = [m_libraryName EXCEPT ![o] = name]
    /\ resetRawData(o)
    /\ UNCHANGED m_metadata

SetMetadataEntry(o, k, v) ==
    /\ m_metadata' = [m_metadata EXCEPT ![o][k] = v]
    /\ resetRawData(o)
    /\ UNCHANGED m_libraryName

RemoveMetadataEntry(o, k) ==
    /\ m_metadata' = [m_metadata EXCEPT ![o][k] = Nothing]
    /\ resetRawData(o)
    /\ UNCHANGED m_libraryName

CopyMetrics(o, p) ==
    /\ o # p
    /\ m_libraryName' = [m_libraryName EXCEPT ![o] = m_libraryName[p]]
    /\ m_metadata' = [m_metadata EXCEPT ![o] = m_metadata[p]]
    /\ resetRawData(o)

\* Mutant of MoveMetrics: the raw entries move with the metadata and stay behind too.
MoveKeepsRawEntries(o, p) ==
    /\ o # p
    /\ \E left \in {"", m_libraryName[p]} :
        m_libraryName' = [m_libraryName EXCEPT ![o] = m_libraryName[p], ![p] = left]
    /\ m_metadata' = [m_metadata EXCEPT ![o] = m_metadata[p], ![p] = NoMetadata]
    /\ m_rawMetadataEntries' = [m_rawMetadataEntries EXCEPT ![o] = m_rawMetadataEntries[p]]

\* The entries of the map change hands; the name left behind may be anything.
MoveMetrics(o, p) ==
    /\ o # p
    /\ \E left \in {"", m_libraryName[p]} :
        m_libraryName' = [m_libraryName EXCEPT ![o] = m_libraryName[p], ![p] = left]
    /\ m_metadata' = [m_metadata EXCEPT ![o] = m_metadata[p], ![p] = NoMetadata]
    /\ m_rawMetadataEntries' = [m_rawMetadataEntries EXCEPT ![o] = NoMetadata, ![p] = NoMetadata]

initializeRawOptions(o) ==
    /\ m_rawMetadataEntries' = [m_rawMetadataEntries EXCEPT ![o] = m_metadata[o]]
    /\ UNCHANGED <<m_libraryName, m_metadata>>

Next ==
    \E o \in Objects :
        \/ initializeRawOptions(o)
        \/ \E name \in Names : SetLibraryName(o, name)
        \/ \E k \in Keys : RemoveMetadataEntry(o, k)
        \/ \E k \in Keys : \E v \in MetadataValues(k) : SetMetadataEntry(o, k, v)
        \/ \E p \in Objects : CopyMetrics(o, p) \/ MoveMetrics(o, p)

Spec == Init /\ [][Next]_metricsVars

-----------------------------------------------------------------------------
(* Properties *)

\* The raw entries of an object are none, or those of the metadata it has now: no
\* copy, move or change leaves cursors into metadata that is not the object's.
RawEntriesAreOwn ==
    \A o \in Objects : m_rawMetadataEntries[o] \in {NoMetadata, m_metadata[o]}

=============================================================================
