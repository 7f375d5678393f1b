--------------------------- MODULE PinnedManifest ---------------------------
(***************************************************************************)
(* How the real transport keeps the manifest in a Telegram channel         *)
(* (crates/protofs-core/src/mtproto/real/manifest.rs).  To the engine an   *)
(* update is one call; here it is the requests it is made of: six searches *)
(* for the manifest messages there may be, the edit of one of them or a    *)
(* new message, a pin, the unpinning of every other message and the        *)
(* deletion of every other manifest.  A reader makes the same searches and *)
(* then downloads.                                                         *)
(*                                                                         *)
(* Updates follow one another, as the lock on the versions makes those of  *)
(* flush_manifest do; a reader may run beside them, users pin and post     *)
(* messages, any request may fail and the process may be restarted.        *)
(***************************************************************************)
EXTENDS Naturals, FiniteSetsExt

CONSTANTS
    First,      \* bound on the ids given out before the start
    MaxId,      \* bound on message ids
    Early,      \* the 10 early ids that are asked for
    Recent,     \* the 20 latest messages that are asked for
    PinLimit,   \* the 50 pinned messages a search returns at most
    TagLimit,   \* the 20 manifests a search returns at most
    Updates,    \* bound on the updates
    Reads,      \* bound on the readers
    Crashes,    \* bound on the restarts
    Faults      \* the kinds of request that may fail

ASSUME ChannelAssumption ==
    /\ MaxId \in Nat /\ First \in 0..MaxId
    /\ {Early, Recent, PinLimit, TagLimit, Updates, Reads, Crashes} \subseteq Nat
    /\ Faults \subseteq {"upload", "fetch", "edit", "send", "pin", "unpin",
                         "delete", "download"}

VARIABLES
    ch,         \* the channel: message id -> message
    lastId,     \* the latest id Telegram gave out
    upd,        \* do_update_pinned_manifest
    rd,         \* do_get_pinned_manifest
    acked,      \* history: the content of the last update that returned Ok
    missed,     \* history: since it began, the last update passed over a
                \* failed search, pin, unpin or deletion, or a search that
                \* left out messages
    tidy,       \* history: no user pinned a message since that update began
    started, reads, crashes     \* counters against the bounds

vars == <<ch, lastId, upd, rd, acked, missed, tidy, started, reads, crashes>>
bounds == <<started, reads, crashes>>

\* A message is a manifest by its tag or its file name; its content is known
\* by the order of the updates, 1 and 2 being there from the start.
Message == [manifest: BOOLEAN, pinned: BOOLEAN, body: Nat]

WithBody(m, v) == [m EXCEPT !.body = v]
WithPin(m, b) == [m EXCEPT !.pinned = b]

Ids == DOMAIN ch
Manifests == {i \in Ids : ch[i].manifest}
Pinned == {i \in Ids : ch[i].pinned}

IdleUpdate == [pc |-> "idle", ver |-> 0, k |-> 1, found |-> {}, pinned |-> {},
               primary |-> 0, target |-> 0, todo |-> {}]
IdleReader == [pc |-> "idle", k |-> 1, seen |-> {}, since |-> 0, got |-> 0,
               missed |-> FALSE]

\* A request takes effect, takes effect and its answer is lost, or fails.
Outcomes(kind) == {"ok"} \cup IF kind \in Faults THEN {"lost", "failed"} ELSE {}

\* The update passes over a request: what it, or a reader beside it, relies on
\* is not known any more.  (A failed upload or new message ends the update with
\* an error, and after a failed edit a new message is sent: these are no misses.)
Note(miss) ==
    /\ missed' = (missed \/ miss)
    /\ rd' = [rd EXCEPT !.missed = @ \/ miss]

-----------------------------------------------------------------------------
LatestOf(S, n) == {i \in S : Cardinality({j \in S : j > i}) < n}

\* The six searches of fetch_candidate_messages, in their order: pinned
\* messages, the pinned one of the channel's description, early ids, the tag,
\* the file name, the latest messages.
Answer(k) ==
    CASE k = 1 -> LatestOf(Pinned, PinLimit)
      [] k = 2 -> LatestOf(Pinned, 1)
      [] k = 3 -> {i \in Ids : i <= Early}
      [] k \in {4, 5} -> LatestOf(Manifests, TagLimit)
      [] k = 6 -> LatestOf(Ids, Recent)

\* The searches for pins and manifests that met their limit.
LeavesOut(k) == \/ k = 1 /\ ~ Pinned \subseteq Answer(k)
                \/ k \in {4, 5} /\ ~ Manifests \subseteq Answer(k)

\* Mutant: only the pins of manifests are remembered.
CollectManifestPins(u, A) ==
    {[u EXCEPT !.found = @ \cup (A \cap Manifests),
               !.pinned = @ \cup (A \cap Manifests \cap Pinned),
               !.primary = p] :
        p \in IF u.primary # 0 \/ A \cap Manifests \cap Pinned = {}
              THEN {u.primary} ELSE A \cap Manifests \cap Pinned}

\* What the loop over the candidates keeps of one answer.
Collect(u, A) ==
    {[u EXCEPT !.found = @ \cup (A \cap Manifests),
               !.pinned = @ \cup (A \cap Pinned),
               !.primary = p] :
        p \in IF u.primary # 0 \/ A \cap Manifests \cap Pinned = {}
              THEN {u.primary} ELSE A \cap Manifests \cap Pinned}

\* A pinned manifest first, or else the earliest one.
Target(u) == IF u.primary # 0 THEN u.primary
             ELSE IF u.found # {} THEN Min(u.found) ELSE 0

Start ==
    /\ upd.pc = "idle" /\ started < Updates
    /\ started' = started + 1
    /\ upd' = [IdleUpdate EXCEPT !.pc = "upload", !.ver = 3 + started]
    /\ tidy' = TRUE /\ missed' = FALSE
    /\ UNCHANGED <<ch, lastId, rd, acked, reads, crashes>>

\* upload_bytes_to_telegram: the parts of the file, not yet a message.
Upload ==
    /\ upd.pc = "upload"
    /\ \E o \in Outcomes("upload") :
         upd' = IF o = "ok" THEN [upd EXCEPT !.pc = "fetch"] ELSE IdleUpdate
    /\ UNCHANGED <<ch, lastId, rd, acked, missed, tidy, bounds>>

\* A search that fails is passed over.
Fetch ==
    /\ upd.pc = "fetch"
    /\ \E o \in Outcomes("fetch") :
       \E u \in IF o = "ok" THEN Collect(upd, Answer(upd.k)) ELSE {upd} :
         /\ upd' = IF u.k < 6 THEN [u EXCEPT !.k = @ + 1]
                   ELSE [u EXCEPT !.k = 1, !.primary = 0, !.target = Target(u),
                                  !.pc = IF Target(u) = 0 THEN "send" ELSE "edit"]
         /\ Note(o # "ok" \/ LeavesOut(upd.k))
    /\ UNCHANGED <<ch, lastId, acked, tidy, bounds>>

\* Mutant: a successful edit ends the update.
EditEndsUpdate ==
    /\ upd.pc = "edit"
    /\ \E o \in Outcomes("edit") :
         /\ ch' = IF o # "failed" /\ upd.target \in Ids
                  THEN [ch EXCEPT ![upd.target] = WithBody(@, upd.ver)] ELSE ch
         /\ upd' = IF o = "ok" /\ upd.target \in Ids
                   THEN [upd EXCEPT !.pc = "delete"] ELSE [upd EXCEPT !.pc = "send"]
    /\ UNCHANGED <<lastId, rd, acked, missed, tidy, bounds>>

\* Mutant: a message that cannot be edited is deleted before the new one is sent.
EditOrDelete ==
    /\ upd.pc = "edit"
    /\ \E o \in Outcomes("edit") :
         /\ ch' = IF o # "ok" THEN [i \in Ids \ {upd.target} |-> ch[i]]
                  ELSE IF upd.target \in Ids
                       THEN [ch EXCEPT ![upd.target] = WithBody(@, upd.ver)] ELSE ch
         /\ upd' = [upd EXCEPT !.pc = IF o = "ok" /\ upd.target \in Ids
                                      THEN "pin" ELSE "send"]
    /\ UNCHANGED <<lastId, rd, acked, missed, tidy, bounds>>

\* EditMessage of the target; any error, that of a message deleted meanwhile
\* included, falls through to a new message.
Edit ==
    /\ upd.pc = "edit"
    /\ \E o \in Outcomes("edit") :
         /\ ch' = IF o # "failed" /\ upd.target \in Ids
                  THEN [ch EXCEPT ![upd.target] = WithBody(@, upd.ver)] ELSE ch
         /\ upd' = [upd EXCEPT !.pc = IF o = "ok" /\ upd.target \in Ids
                                      THEN "pin" ELSE "send"]
    /\ UNCHANGED <<lastId, rd, acked, missed, tidy, bounds>>

\* Mutant: the id of the message of a lost answer is given out again.
SendForgetsId ==
    /\ upd.pc = "send" /\ lastId < MaxId
    /\ \E o \in Outcomes("send") :
         /\ ch' = IF o # "failed" THEN [i \in Ids \cup {lastId + 1} |->
                                  IF i \in Ids THEN ch[i]
                                  ELSE [manifest |-> TRUE, pinned |-> FALSE,
                                        body |-> upd.ver]]
                  ELSE ch
         /\ lastId' = IF o = "ok" THEN lastId + 1 ELSE lastId
         /\ upd' = IF o = "ok"
                   THEN [upd EXCEPT !.pc = "pin", !.target = lastId + 1]
                   ELSE IdleUpdate
    /\ UNCHANGED <<rd, acked, missed, tidy, bounds>>

Send ==
    /\ upd.pc = "send" /\ lastId < MaxId
    /\ \E o \in Outcomes("send") :
         /\ ch' = IF o # "failed" THEN [i \in Ids \cup {lastId + 1} |->
                                  IF i \in Ids THEN ch[i]
                                  ELSE [manifest |-> TRUE, pinned |-> FALSE,
                                        body |-> upd.ver]]
                  ELSE ch
         /\ lastId' = IF o # "failed" THEN lastId + 1 ELSE lastId
         /\ upd' = IF o = "ok"
                   THEN [upd EXCEPT !.pc = "pin", !.target = lastId + 1]
                   ELSE IdleUpdate
    /\ UNCHANGED <<rd, acked, missed, tidy, bounds>>

\* From here on errors are ignored.
Pin ==
    /\ upd.pc = "pin"
    /\ \E o \in Outcomes("pin") :
         /\ ch' = IF o # "failed" THEN [ch EXCEPT ![upd.target] = WithPin(@, TRUE)] ELSE ch
         /\ upd' = [upd EXCEPT !.pc = "unpin", !.pinned = {},
                                !.todo = upd.pinned \ {upd.target}]
         /\ Note(o # "ok")
    /\ UNCHANGED <<lastId, acked, tidy, bounds>>

\* Mutant: every manifest found is deleted, the target included.
UnpinThenDeleteAll ==
    /\ upd.pc = "unpin"
    /\ IF upd.todo = {}
       THEN /\ upd' = [upd EXCEPT !.pc = "delete", !.found = {}, !.todo = upd.found]
            /\ UNCHANGED <<ch, rd, missed>>
       ELSE \E o \in Outcomes("unpin") :
              /\ ch' = IF o # "failed" THEN [ch EXCEPT ![Min(upd.todo)] = WithPin(@, FALSE)] ELSE ch
              /\ upd' = [upd EXCEPT !.todo = @ \ {Min(@)}]
              /\ Note(o # "ok")
    /\ UNCHANGED <<lastId, acked, tidy, bounds>>

Unpin ==
    /\ upd.pc = "unpin"
    /\ IF upd.todo = {}
       THEN /\ upd' = [upd EXCEPT !.pc = "delete", !.found = {},
                                     !.todo = upd.found \ {upd.target}]
            /\ UNCHANGED <<ch, rd, missed>>
       ELSE \E o \in Outcomes("unpin") :
              /\ ch' = IF o # "failed" THEN [ch EXCEPT ![Min(upd.todo)] = WithPin(@, FALSE)] ELSE ch
              /\ upd' = [upd EXCEPT !.todo = @ \ {Min(@)}]
              /\ Note(o # "ok")
    /\ UNCHANGED <<lastId, acked, tidy, bounds>>

DeleteDuplicates ==
    /\ upd.pc = "delete"
    /\ IF upd.todo = {}
       THEN /\ acked' = upd.ver
            /\ upd' = IdleUpdate
            /\ UNCHANGED <<ch, rd, missed>>
       ELSE \E o \in Outcomes("delete") :
              /\ ch' = IF o # "failed" THEN [i \in Ids \ {Min(upd.todo)} |-> ch[i]] ELSE ch
              /\ upd' = [upd EXCEPT !.todo = @ \ {Min(@)}]
              /\ Note(o # "ok")
              /\ UNCHANGED acked
    /\ UNCHANGED <<lastId, tidy, bounds>>

-----------------------------------------------------------------------------
\* Mutant: the latest candidate, pinned or not.
PreferredLatest(c) == {m \in c : \A n \in c : n.id <= m.id}

\* Pinned before not pinned, then the latest id.
Preferred(c) ==
    {m \in c : \A n \in c : /\ n.pinned => m.pinned
                            /\ n.pinned = m.pinned => n.id <= m.id}

\* What a candidate tells of itself.
AsSeen(I) == {[id |-> i, pinned |-> ch[i].pinned, body |-> ch[i].body] : i \in I}

\* What a reader alone in the channel gets.
Current ==
    IF Manifests = {} THEN 0
    ELSE (CHOOSE m \in Preferred(AsSeen(Manifests)) : TRUE).body

\* do_get_pinned_manifest.
ReadStart ==
    /\ rd.pc = "idle" /\ reads < Reads
    /\ reads' = reads + 1
    /\ rd' = [IdleReader EXCEPT !.pc = "fetch", !.since = Current,
                                !.missed = missed /\ upd.pc # "idle"]
    /\ UNCHANGED <<ch, lastId, upd, acked, missed, tidy, started, crashes>>

ReadFetch ==
    /\ rd.pc = "fetch"
    /\ \E o \in Outcomes("fetch") :
         rd' = [rd EXCEPT
                !.seen = IF o = "ok"
                         THEN @ \cup AsSeen(Answer(rd.k) \cap Manifests)
                         ELSE @,
                !.missed = @ \/ o # "ok" \/ LeavesOut(rd.k),
                !.k = @ + 1,
                !.pc = IF rd.k = 6 THEN "download" ELSE "fetch"]
    /\ UNCHANGED <<ch, lastId, upd, acked, missed, tidy, bounds>>

\* The candidates are tried in turn; with none left the answer is None.
ReadDownload ==
    /\ rd.pc = "download"
    /\ \/ /\ rd.seen = {}
          /\ rd' = [rd EXCEPT !.pc = "done", !.got = 0]
       \/ \E m \in Preferred(rd.seen), o \in Outcomes("download") :
            rd' = IF o = "ok"
                  THEN [rd EXCEPT !.pc = "done", !.seen = {}, !.got = m.body]
                  ELSE [rd EXCEPT !.seen = @ \ {m}, !.missed = TRUE]
    /\ UNCHANGED <<ch, lastId, upd, acked, missed, tidy, bounds>>

-----------------------------------------------------------------------------
(* The world around                                                         *)

\* Somebody pins a message that is no manifest, or posts one.
UserPin(i) ==
    /\ i \in Ids \ (Manifests \cup Pinned)
    /\ ch' = [ch EXCEPT ![i] = WithPin(@, TRUE)]
    /\ tidy' = FALSE
    /\ UNCHANGED <<lastId, upd, rd, acked, missed, bounds>>

Post ==
    /\ lastId < MaxId
    /\ lastId' = lastId + 1
    /\ ch' = [i \in Ids \cup {lastId'} |->
                IF i \in Ids THEN ch[i]
                ELSE [manifest |-> FALSE, pinned |-> FALSE, body |-> 0]]
    /\ UNCHANGED <<upd, rd, acked, missed, tidy, bounds>>

Crash ==
    /\ crashes < Crashes
    /\ crashes' = crashes + 1
    /\ upd' = IdleUpdate /\ rd' = IdleReader
    /\ UNCHANGED <<ch, lastId, acked, missed, tidy, started, reads>>

-----------------------------------------------------------------------------
Found == {m \in [manifest: BOOLEAN, pinned: BOOLEAN, body: 0..2] :
            m.manifest <=> m.body # 0}

\* Any channel the drive is on: one that never had a manifest, or several of
\* them, pinned or not, as earlier releases left behind.
Init ==
    /\ lastId \in 0..First
    /\ \E D \in SUBSET (1..lastId) : ch \in [D -> Found]
    /\ upd = IdleUpdate /\ rd = IdleReader
    /\ acked = 0 /\ missed = FALSE /\ tidy = FALSE
    /\ started = 0 /\ reads = 0 /\ crashes = 0

Next ==
    \/ Start \/ Upload \/ Fetch \/ Edit \/ Send \/ Pin \/ Unpin \/ DeleteDuplicates
    \/ ReadStart \/ ReadFetch \/ ReadDownload
    \/ (\E i \in Ids : UserPin(i)) \/ Post \/ Crash

Spec == Init /\ [][Next]_vars

TypeOK ==
    /\ Ids \subseteq 1..lastId /\ lastId <= MaxId
    /\ \A i \in Ids : ch[i] \in Message
    /\ upd.ver \in Nat /\ upd.k \in 1..6
    /\ upd.found \cup upd.pinned \cup upd.todo \subseteq 1..MaxId
    /\ {upd.primary, upd.target} \subseteq 0..MaxId
    /\ rd.k \in 1..7 /\ rd.since \in Nat /\ rd.got \in Nat
    /\ acked \in Nat /\ {missed, rd.missed} \subseteq BOOLEAN /\ tidy \in BOOLEAN

-----------------------------------------------------------------------------
\* A channel that has a manifest never ceases to have one, and what the last
\* successful update wrote, or something later, stays in it: an update that
\* fails or is cut short at any request deletes only what it has replaced.
ManifestSurvives ==
    [][Manifests # {} => Manifests' # {}]_ch

AckedIsKept == acked # 0 => \E i \in Manifests : ch[i].body >= acked

\* After an update that passed nothing over, the manifest is the one message
\* pinned in the channel ("guarantees that only one pinned message remains",
\* CHANGELOG.md), whatever was pinned and posted before and whichever updates
\* failed, until a user pins another.  Passing over is what the code does with
\* a failed search, pin, unpin or deletion, and with the pins beyond the fifty
\* and the manifests beyond the twenty that a search returns.
OnePinned ==
    upd.pc = "idle" /\ started > 0 /\ acked = 2 + started /\ tidy /\ ~missed =>
        Cardinality(Pinned) = 1 /\ Pinned = Manifests

\* A reader, also one beside an update, gets nothing older than what the
\* channel held when it started, in particular not None, which would make the
\* engine rebuild the drive from its messages: provided that its searches and
\* downloads succeed (a failed download makes it take an older candidate, or
\* None), that no search of it or of an update beside it meets its limit, and
\* that no such update passes over a failed request.  Updates that fail to
\* upload, edit or send, and restarts, do not matter.
ReadIsFresh == rd.pc = "done" /\ ~rd.missed => rd.got >= rd.since

Register == INSTANCE ManifestRegister WITH value <- Current, pending <- upd.ver

\* The six searches and the edits, pins and deletions of an update amount to
\* one atomic write, for every update that passes nothing over; one that fails
\* or is cut short has written or not.
ActsAsRegister == Register!Spec
=============================================================================
