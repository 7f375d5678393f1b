----------------------------- MODULE FileContent -----------------------------
(***************************************************************************)
(* The bytes of a file: sealed in chunks before the upload and opened when *)
(* they are read (upload_file_data and download_file_data of protofs-core/ *)
(* src/sync/engine.rs, crypto/aead.rs), fetched in parts (do_download_range*)
(* of mtproto/real/transfers.rs), answered whole or by range (GET of       *)
(* webdav/server.rs, download_file_command).                               *)
(*                                                                         *)
(* A byte is its place in the file; the sizes of the code are cut down and *)
(* keep their proportions: the parts do not fall on the ends of the chunks *)
(* and the slack is just enough for the tags of the longest file.  AES-GCM *)
(* opens what was sealed with the same key, number, last flag and length.  *)
(***************************************************************************)
EXTENDS Integers, Sequences

CONSTANTS
    Keys, None,
    PlainChunk,     \* 64 KiB in the code
    Tag,            \* 16 bytes
    Part,           \* 512 KiB
    Slack,          \* 1 MiB
    MaxSize         \* the longest file, about 4 GB at Telegram

VARIABLES
    node,           \* the file: its size, and the key it was sealed with or None
    memoryKey,      \* AppState::master_key: a key, or None
    listed,         \* the drive of the file is in AppState::drives
    get             \* the read under way, or the last one

contentVars == <<node, memoryKey, listed, get>>

Least(a, b) == IF a < b THEN a ELSE b
Most(a, b) == IF a < b THEN b ELSE a
DivCeil(a, b) == (a + b - 1) \div b

Encrypted == node.key # None
EncryptedChunk == PlainChunk + Tag
Chunks == Most(1, DivCeil(node.size, PlainChunk))

\* Mutant: the last chunk is the one that is not full.
LastIsShort(c) == node.size < (c + 1) * PlainChunk

\* is_final of upload_file_data
IsLast(c) == c + 1 = Chunks

\* What upload_file_data stores: chunks of bytes, with a tag at the end of each
\* (a unit of a tag is the byte -1).
StoredSize == node.size + IF Encrypted THEN Chunks * Tag ELSE 0
Sealed(j) ==
    LET c == j \div EncryptedChunk
        o == j % EncryptedChunk
        len == Least(PlainChunk, node.size - c * PlainChunk)
    IN [byte |-> IF o < len THEN c * PlainChunk + o ELSE -1,
        chunk |-> c, last |-> IsLast(c), key |-> node.key, len |-> len]
Plain(j) == [byte |-> j]
Stored == [j \in 1 .. StoredSize |-> IF Encrypted THEN Sealed(j - 1) ELSE Plain(j - 1)]

\* decrypt_chunk
Opens(slice, c, last, key) ==
    /\ Len(slice) >= Tag
    /\ Len(slice) = slice[1].len + Tag
    /\ \A j \in DOMAIN slice :
         slice[j].chunk = c /\ slice[j].last = last /\ slice[j].key = key

\* The slices download_file_data cuts what it got into; all have to open.
Slice(bytes, c) ==
    SubSeq(bytes, c * EncryptedChunk + 1, Least((c + 1) * EncryptedChunk, Len(bytes)))
AllOpen(bytes, key) ==
    LET n == DivCeil(Len(bytes), EncryptedChunk)
    IN \A c \in 0 .. n - 1 : Opens(Slice(bytes, c), c, c + 1 = n, key)

\* The opened slices, each without its tag, one after the other.
Opened(bytes) ==
    LET n == DivCeil(Len(bytes), EncryptedChunk)
        Place(j) == (j \div PlainChunk) * EncryptedChunk + (j % PlainChunk)
    IN [j \in 1 .. Len(bytes) - n * Tag |-> bytes[Place(j - 1) + 1].byte]
Unsealed(bytes) == [j \in DOMAIN bytes |-> bytes[j].byte]

-----------------------------------------------------------------------------
\* The requests: the whole file; a range from a byte, to a byte or to the
\* end; the last bytes.  The last form is read as a range from the start.
Whole == [kind |-> "whole"]
Ranges == {[kind |-> "range", from |-> f, to |-> t] :
               f \in 0 .. MaxSize, t \in 0 .. MaxSize \cup {None}}
Suffixes == {[kind |-> "suffix", count |-> n] : n \in 1 .. MaxSize}

NoGet == [at |-> None, by |-> None, asked |-> Whole, key |-> None, known |-> TRUE,
          got |-> 0, failed |-> FALSE, status |-> None, header |-> <<0, 0>>, body |-> <<>>]

First(r) == IF r.kind = "range" THEN r.from ELSE 0
Last(r, len) ==
    LET end == Most(len - 1, 0) IN
    CASE r.kind = "whole" -> end
      [] r.kind = "suffix" -> Least(r.count, end)
      [] OTHER -> IF r.to = None THEN end ELSE Least(r.to, end)

\* The answer to a GET with the bytes read, or the file the command writes.
Answered(g, data) ==
    LET first == First(g.asked)
        last == Last(g.asked, Len(data))
        count == IF data = <<>> THEN 0 ELSE Most(0, last - first + 1)
    IN [g EXCEPT !.at = "done", !.status = "ok", !.header = <<first, count>>,
                 !.body = SubSeq(data, first + 1, Least(first + count, Len(data)))]
Refused(g) == [g EXCEPT !.at = "done", !.status = "refused"]

\* download_range and the length download_file_data asks for.
Limit == node.size + Slack

\* A read begins: the node, the drive and the key are looked up.  A GET of
\* an empty file is answered at once; a sealed file needs a key; a drive that
\* is not listed has no channel, and no bytes.
Begin(by, r) ==
    /\ get.at = None
    /\ LET g == [NoGet EXCEPT !.by = by, !.asked = r, !.key = memoryKey, !.known = listed]
       IN get' = IF by = "dav" /\ node.size = 0 THEN Answered(g, <<>>)
                 ELSE IF Encrypted /\ memoryKey = None THEN Refused(g)
                 ELSE IF ~ listed THEN Answered(g, <<>>)
                 ELSE [g EXCEPT !.at = "fetch"]
    /\ UNCHANGED <<node, memoryKey, listed>>

HandleGet == \E r \in {Whole} \cup Ranges \cup Suffixes : Begin("dav", r)
DownloadCommand == Begin("command", Whole)

\* upload.getFile: a part of the document, nothing behind its end.
FetchPart ==
    /\ get.at = "fetch" /\ get.got < Limit
    /\ LET n == Least(Part, StoredSize - get.got)
       IN get' = [get EXCEPT !.got = @ + n, !.at = IF n < Part THEN "open" ELSE "fetch"]
    /\ UNCHANGED <<node, memoryKey, listed>>

FetchFails ==
    /\ get.at = "fetch" /\ get.got < Limit
    /\ get' = Refused([get EXCEPT !.failed = TRUE])
    /\ UNCHANGED <<node, memoryKey, listed>>

\* The bytes up to the limit are opened and answered; nothing is nothing.
OpenAndAnswer ==
    /\ get.at = "open" \/ (get.at = "fetch" /\ get.got >= Limit)
    /\ LET bytes == SubSeq(Stored, 1, Least(get.got, Limit))
       IN get' = IF ~ Encrypted THEN Answered(get, Unsealed(bytes))
                 ELSE IF AllOpen(bytes, get.key) THEN Answered(get, Opened(bytes))
                 ELSE Refused(get)
    /\ UNCHANGED <<node, memoryKey, listed>>

\* The next read may begin.
ReadEnds == get.at = "done" /\ get' = NoGet /\ UNCHANGED <<node, memoryKey, listed>>

\* The vault is locked, unlocked or recovered; the list of drives is
\* replaced by another account's, or comes back.
KeyChanges ==
    /\ memoryKey' \in (Keys \cup {None}) \ {memoryKey}
    /\ UNCHANGED <<node, listed, get>>
DrivesChange == listed' = ~ listed /\ UNCHANGED <<node, memoryKey, get>>

ContentNext ==
    \/ HandleGet \/ DownloadCommand \/ FetchPart \/ FetchFails \/ OpenAndAnswer
    \/ ReadEnds \/ KeyChanges \/ DrivesChange

\* A file that was uploaded, sealed with the key in memory or not at all.
ContentInit ==
    /\ node \in [size : 0 .. MaxSize, key : Keys \cup {None}]
    /\ memoryKey = node.key /\ listed = TRUE /\ get = NoGet

-----------------------------------------------------------------------------
ContentTypeOK ==
    /\ node \in [size : 0 .. MaxSize, key : Keys \cup {None}]
    /\ memoryKey \in Keys \cup {None} /\ listed \in BOOLEAN
    /\ get.at \in {None, "fetch", "open", "done"} /\ get.got \in 0 .. StoredSize

\* The bytes a header names, by their places: a first one and a count.
Named(header) == [j \in 1 .. header[2] |-> header[1] + j - 1]

\* What a request is to be answered with: as far as the file goes.
Due(r) ==
    IF r.kind # "range" THEN <<0, node.size>>
    ELSE LET end == IF r.to = None THEN node.size - 1 ELSE Least(r.to, node.size - 1)
         IN <<r.from, Most(0, end - r.from + 1)>>
WrongKey == Encrypted /\ get.key # node.key

\* Whatever the sizes of chunks, parts and file, a read is refused only when
\* a request failed or the key in memory is not the file's.  An answer from a
\* drive that was listed has exactly the bytes its header names, and to all
\* requests but one for the last bytes the header names what was asked.  Of
\* an answer from a drive that was not listed nothing is said: it is empty.
ReadsWhatWasWritten ==
    /\ get.status = "refused" => get.failed \/ WrongKey
    /\ get.status = "ok" /\ get.known =>
         /\ get.body = Named(get.header)
         /\ get.asked.kind # "suffix" => get.header = Due(get.asked)
=============================================================================
