----------------------------- MODULE StoreKeys -----------------------------
(***************************************************************************)
(* The two stores behind the trait Store: MemoryStore, a map, and          *)
(* FileStore, a directory with a file for each key, whose name is the key  *)
(* percent-encoded.  Both are given the same calls, one after the other;   *)
(* how the calls of FileStore interleave is module SnapshotStore.          *)
(***************************************************************************)
EXTENDS SequencesExt, FiniteSets

CONSTANTS
    SafeBytes,    \* bytes that may be in a file name: letters, digits, _ and -
    OtherBytes,   \* bytes that may not, "%" is one of them
    Hex,          \* the two hexadecimal digits of each byte of OtherBytes
    MaxKey,       \* bound on the length of a key
    MaxKeys       \* bound on the number of keys

VARIABLES
    memory,       \* keys of MemoryStore's map
    files,        \* names, without .json, of the files of FileStore
    answers       \* what delete or exists has answered: of the map, of the directory

keyVars == <<memory, files, answers>>

StoreKeys == BoundedSeq(SafeBytes \cup OtherBytes, MaxKey)

-----------------------------------------------------------------------------
\* safe_key(): byte by byte.
SafeKey(key) ==
    FlattenSeq([i \in DOMAIN key |->
        IF key[i] \in SafeBytes THEN <<key[i]>> ELSE <<"%">> \o Hex[key[i]]])

\* unsafe_key(): a "%" and what follows are a byte if they are its code, and
\* stand for themselves otherwise.
UnsafeKey(name) ==
    LET decoded[i \in 1..Len(name) + 1] ==
            IF i > Len(name) THEN <<>>
            ELSE LET code == SubSeq(name, i + 1, IF Len(name) < i + 2 THEN Len(name) ELSE i + 2)
                     rest == decoded[i + 1 + Len(code)]
                 IN  IF name[i] # "%" THEN <<name[i]>> \o decoded[i + 1]
                     ELSE IF \E b \in OtherBytes : Hex[b] = code
                          THEN <<CHOOSE b \in OtherBytes : Hex[b] = code>> \o rest
                          ELSE <<"%">> \o code \o rest
    IN  decoded[1]

-----------------------------------------------------------------------------
MemorySet(key) == memory' = memory \cup {key}
MemoryDelete(key) == memory' = memory \ {key}
MemoryExists(key) == key \in memory
MemoryKeys(prefix) == {key \in memory : IsPrefix(prefix, key)}

FileSet(key) == files' = files \cup {SafeKey(key)}
FileDelete(key) == files' = files \ {SafeKey(key)}
FileExists(key) == SafeKey(key) \in files
FileKeys(prefix) == {key \in {UnsafeKey(name) : name \in files} : IsPrefix(prefix, key)}

TypeOK == memory \subseteq StoreKeys /\ Cardinality(memory) <= MaxKeys /\ answers \in BOOLEAN \X BOOLEAN

Init == memory = {} /\ files = {} /\ answers = <<FALSE, FALSE>>

Set(key) ==
    /\ Cardinality(memory \cup {key}) <= MaxKeys
    /\ MemorySet(key) /\ FileSet(key) /\ UNCHANGED answers

Delete(key) ==
    /\ MemoryDelete(key) /\ FileDelete(key)
    /\ answers' = <<MemoryExists(key), FileExists(key)>>

Exists(key) ==
    /\ answers' = <<MemoryExists(key), FileExists(key)>>
    /\ UNCHANGED <<memory, files>>

Next == \E key \in StoreKeys : Set(key) \/ Delete(key) \/ Exists(key)

-----------------------------------------------------------------------------
\* FileStore answers as MemoryStore does: no two keys share a file, and the
\* keys are read back from the names of the files as they were, also those
\* that look encoded themselves.  Recovery finds the tasks by these names.
StoresAgree ==
    /\ answers[1] = answers[2]
    /\ \A prefix \in {<<>>} \cup {<<b>> : b \in SafeBytes \cup OtherBytes} :
        FileKeys(prefix) = MemoryKeys(prefix)
=============================================================================
