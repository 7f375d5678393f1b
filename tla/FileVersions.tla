---------------------------- MODULE FileVersions ----------------------------
(***************************************************************************)
(* The versions of one file: record_file_version and restore_file_version  *)
(* of protofs-core/src/vfs/tree.rs and the commands of protofs-tauri/src/  *)
(* commands/versions.rs.  Each version is a document of its own; the file  *)
(* has a current one and a history, the latest first.                      *)
(*                                                                         *)
(* The command that restores works on a copy of the tree, which it answers *)
(* with and drops: the shipped program never writes the history.  The      *)
(* model has the methods of the tree too, as their callers would see them. *)
(***************************************************************************)
EXTENDS Naturals, Sequences, FiniteSets

CONSTANTS
    Documents,
    Nothing,        \* no answer yet
    MaxHistory,     \* 10 in the code
    MaxRestores     \* bounds the restores

VARIABLES
    file,           \* the node: its document, its number and its history
    answer,         \* what a command answered last: a file, or Nothing
    latest,         \* history: the documents in the order they were current
    restores        \* how many restores there were

versionVars == <<file, answer, latest, restores>>

Past(f) == [version |-> f.version, doc |-> f.doc]
Without(s, i) == SubSeq(s, 1, i - 1) \o SubSeq(s, i + 1, Len(s))
Truncated(s) == SubSeq(s, 1, IF Len(s) > MaxHistory THEN MaxHistory ELSE Len(s))

\* record_file_version
Recorded(f, doc) ==
    [doc |-> doc, version |-> f.version + 1, history |-> Truncated(<<Past(f)>> \o f.history)]

\* The places of a number in the history; the code takes the first.
Places(f, n) == {i \in DOMAIN f.history : f.history[i].version = n}
Place(f, n) == CHOOSE i \in Places(f, n) : \A j \in Places(f, n) : i <= j

\* Mutant: what came after the restored version is dropped.
RestoredDropsLater(f, n) ==
    LET i == Place(f, n) IN
    [doc |-> f.history[i].doc, version |-> n,
     history |-> SubSeq(f.history, i + 1, Len(f.history))]

\* restore_file_version: the version keeps its number, so that the next one
\* recorded may get a number the history has already.
Restored(f, n) ==
    LET i == Place(f, n) IN
    [doc |-> f.history[i].doc, version |-> n,
     history |-> <<Past(f)>> \o Without(f.history, i)]

Numbers(f) == {f.history[i].version : i \in DOMAIN f.history}

-----------------------------------------------------------------------------
Record(doc) ==
    /\ \A i \in DOMAIN latest : latest[i] # doc     \* a new message
    /\ file' = Recorded(file, doc)
    /\ latest' = <<doc>> \o latest
    /\ UNCHANGED <<answer, restores>>

Restore(n) ==
    /\ n \in Numbers(file) /\ restores < MaxRestores /\ restores' = restores + 1
    /\ file' = Restored(file, n)
    /\ LET old == CHOOSE i \in DOMAIN latest : latest[i] = file'.doc
       IN latest' = <<file'.doc>> \o Without(latest, old)
    /\ UNCHANGED answer

\* restore_file_version_command
RestoreCommand(n) ==
    /\ answer' = IF n \in Numbers(file) THEN Restored(file, n) ELSE Nothing
    /\ UNCHANGED <<file, latest, restores>>

\* get_file_versions_command
ListVersions == answer' = file /\ UNCHANGED <<file, latest, restores>>

VersionNext ==
    \/ \E d \in Documents : Record(d)
    \/ \E n \in 1 .. Cardinality(Documents) : Restore(n) \/ RestoreCommand(n)
    \/ ListVersions

VersionInit ==
    /\ \E d \in Documents : file = [doc |-> d, version |-> 1, history |-> <<>>]
    /\ latest = <<file.doc>>
    /\ answer = Nothing /\ restores = 0

-----------------------------------------------------------------------------
VersionRecords == [version : Nat \ {0}, doc : Documents]
File(f) ==
    /\ DOMAIN f = {"doc", "version", "history"}
    /\ Past(f) \in VersionRecords /\ \A i \in DOMAIN f.history : f.history[i] \in VersionRecords
    /\ Len(f.history) <= MaxHistory

VersionTypeOK ==
    /\ File(file) /\ (answer = Nothing \/ File(answer))
    /\ \A i \in DOMAIN latest : latest[i] \in Documents

Kept == [i \in 1 .. Len(file.history) + 1 |->
            IF i = 1 THEN file.doc ELSE file.history[i - 1].doc]

\* Whatever is recorded and restored, in whatever order and however the
\* numbers repeat, the file and its history are the MaxHistory + 1 documents
\* that were current last, in that order, and none is lost before.
HistoryKeepsTen ==
    Kept = SubSeq(latest, 1, IF Len(latest) > MaxHistory + 1
                             THEN MaxHistory + 1 ELSE Len(latest))
=============================================================================
