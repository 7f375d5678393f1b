------------------------------ MODULE Transfers ------------------------------
(***************************************************************************)
(* Uploads and downloads: the queue of dropped files                       *)
(* (frontend/src/hooks/useUploadManager.ts), the commands that carry them  *)
(* out (protofs-tauri/src/commands/transfers.rs), the table of signals by  *)
(* which a user pauses, resumes and cancels them (transfer_controls.rs)    *)
(* and the requests to Telegram (protofs-core/src/mtproto/real/            *)
(* transfers.rs).                                                          *)
(*                                                                         *)
(* One drive, one folder, one run of the program.  What the disk and the   *)
(* folder hold is fixed, and for which uploads the drive is listed when    *)
(* they look it up.  Any request and any access to the disk may fail.  An  *)
(* action is the code between two awaits.                                  *)
(***************************************************************************)
EXTENDS Naturals, Sequences, FiniteSetsExt

CONSTANTS
    Uploads, Downloads,     \* the transfers a user may start
    None,                   \* no file, no choice
    Worlds,                 \* sizes in parts of 512 KiB, names in the folder,
                            \* uploads that do not find their drive
    ByPath,                 \* the uploads dropped as a path, not as contents
    MaxConcurrency,         \* 2: uploads at a time
    Permits,                \* 4: transfers of bytes at a time
    Retries,                \* 2: retries after FLOOD_WAIT
    MaxPauses               \* bound on the pauses

Transfer == Uploads \cup Downloads

ASSUME TransferAssumption ==
    /\ Uploads \cap Downloads = {} /\ None \notin Transfer
    /\ None \notin {"upload", "skip"}
    /\ ByPath \subseteq Uploads
    /\ Worlds \subseteq [size: [Uploads -> Nat], taken: SUBSET Uploads,
                          unlisted: SUBSET Uploads]
    /\ MaxConcurrency \in Nat \ {0} /\ Permits \in Nat \ {0}
    /\ Retries \in Nat /\ MaxPauses \in Nat

VARIABLES
    world,      \* an element of Worlds
    ui,         \* useUploadManager: the refs and the dialog
    stage,      \* the await each transfer is at
    table,      \* active_transfers: the transfers that have a sender
    signal,     \* the value of each watch channel
    read,       \* parts read from the disk
    permits,    \* transfer_semaphore
    retries,    \* of do_upload_document
    docs,       \* documents each upload left in the channel
    result,     \* what the command answers
    pausedAt,   \* history: the parts read when the pause was asked
    stopped,    \* history: cancelled with something left to check
    pauses      \* counter against MaxPauses

control == <<world, table, signal, pausedAt, stopped, pauses>>
wire == <<permits, retries, docs>>
vars == <<ui, stage, control, read, wire, result>>

\* In the order an upload meets them; "leaving" is the call of
\* unregister_transfer, "refreshing" that of onUploadSuccess.
Stage == {"new", "queued", "asking", "skipped", "called", "opening", "gate",
          "reading", "permit", "moving", "sending", "waiting", "leaving",
          "returned", "refreshing", "done"}

Registered == {"opening", "gate", "reading", "permit", "moving", "sending",
               "waiting", "leaving"}
Working == Registered \cup {"called", "returned", "refreshing"}

Size == world.size
Conflicting == world.taken

\* An upload has something to send and a channel to send it to; the channel of
\* a drive that is not in state.drives is 0.
Sends(i) == Size[i] > 0 /\ i \notin world.unlisted

At(i, s) == stage[i] = s
Go(i, s) == stage' = [stage EXCEPT ![i] = s]

\* What the command answers, once it has unregistered.
Leave(i, r) == Go(i, "leaving") /\ result' = [result EXCEPT ![i] = r]

-----------------------------------------------------------------------------
\* The queue.  The functions of useUploadManager run to their next await
\* without a break: operators on the interface u and the stages st.

\* Published: the manifest is flushed once for all the uploads of a batch.
CheckBatch(u) ==
    IF u.active = 0 /\ u.queue = <<>>
    THEN [u EXCEPT !.choice = None, !.uploaded = FALSE] ELSE u

\* The first file of the queue that is not skipped by a choice for all.
FirstServed(u) ==
    LET S == {k \in DOMAIN u.queue : ~ (u.choice = "skip" /\ u.queue[k] \in Conflicting)}
    IN IF S = {} THEN Len(u.queue) + 1 ELSE Min(S)

Begin(u) == [u EXCEPT !.active = @ + 1]

\* Mutant: the number of uploads in progress is not looked at.
ProcessNextAtOnce(u, st) ==
    LET k == FirstServed(u)
        i == u.queue[k]
        rest == [u EXCEPT !.queue = SubSeq(@, k + 1, Len(@))]
        st1 == [j \in Transfer |-> IF \E n \in 1..(k - 1) : u.queue[n] = j
                                   THEN "skipped" ELSE st[j]]
    IN \/ /\ k > Len(u.queue)
          /\ ui' = CheckBatch([u EXCEPT !.queue = <<>>])
          /\ stage' = st1
       \/ /\ k <= Len(u.queue)
          /\ i \in Conflicting /\ u.choice = None
          /\ ui' = [rest EXCEPT !.dialog = i, !.asked = @ \cup {i}]
          /\ stage' = [st1 EXCEPT ![i] = "asking"]
       \/ /\ k <= Len(u.queue)
          /\ ~ (i \in Conflicting /\ u.choice = None)
          /\ ui' = Begin(rest)
          /\ stage' = [st1 EXCEPT ![i] = "called"]

\* A conflict without a choice for all opens the dialog, in the place of one
\* that may be open; its file is in "asking" and nothing answers it any more.
ProcessNext(u, st) ==
    IF u.active >= MaxConcurrency
    THEN ui' = CheckBatch(u) /\ stage' = st
    ELSE ProcessNextAtOnce(u, st)

\* One gesture drops one or two files.
Gestures == {<<a>> : a \in Uploads} \cup {s \in Uploads \X Uploads : s[1] # s[2]}

Drop ==
    \E s \in Gestures :
      /\ \A k \in DOMAIN s : At(s[k], "new")
      /\ ProcessNext([ui EXCEPT !.queue = @ \o s],
                     [j \in Transfer |-> IF \E k \in DOMAIN s : s[k] = j
                                         THEN "queued" ELSE stage[j]])
      /\ UNCHANGED <<control, read, wire, result>>

\* Mutant: a skipped file ends the chain.
AnswerEndsOnSkip ==
    /\ ui.dialog # None
    /\ \E a \in {"upload", "skip"}, c \in {"upload", "skip", None} :
         LET u == [ui EXCEPT !.dialog = None, !.choice = c]
         IN /\ c \in {a, ui.choice}
            /\ \/ /\ a = "skip" /\ ui' = u /\ Go(ui.dialog, "skipped")
               \/ /\ a = "upload" /\ ui' = Begin(u)
                  /\ Go(ui.dialog, "called")
    /\ UNCHANGED <<control, read, wire, result>>

\* The dialog is answered, for this file or for all ("replace" and "rename"
\* go on alike); the number of uploads in progress is not looked at again.
Answer ==
    /\ ui.dialog # None
    /\ \E a \in {"upload", "skip"}, c \in {"upload", "skip", None} :
         LET u == [ui EXCEPT !.dialog = None, !.choice = c]
         IN /\ c \in {a, ui.choice}
            /\ \/ /\ a = "skip"
                  /\ ProcessNext(u, [stage EXCEPT ![ui.dialog] = "skipped"])
               \/ /\ a = "upload" /\ ui' = Begin(u)
                  /\ Go(ui.dialog, "called")
    /\ UNCHANGED <<control, read, wire, result>>

\* The answer of upload_file_command is back: a success is refreshed first.
Success(i) ==
    /\ i \in Uploads /\ At(i, "returned") /\ result[i] = "ok"
    /\ ui' = [ui EXCEPT !.uploaded = TRUE]
    /\ Go(i, "refreshing")
    /\ UNCHANGED <<control, read, wire, result>>

Failed(i) == At(i, "returned") /\ result[i] # "ok"

\* Mutant: a failure ends the chain.
CloseWithoutNext(i) ==
    /\ i \in Uploads
    /\ At(i, "refreshing") \/ Failed(i)
    /\ LET u == CheckBatch([ui EXCEPT !.active = @ - 1])
           st == [stage EXCEPT ![i] = "done"]
       IN IF result[i] = "ok" THEN ProcessNext(u, st) ELSE ui' = u /\ stage' = st
    /\ UNCHANGED <<control, read, wire, result>>

\* The finally clause of processNext.
Close(i) ==
    /\ i \in Uploads
    /\ At(i, "refreshing") \/ Failed(i)
    /\ ProcessNext(CheckBatch([ui EXCEPT !.active = @ - 1]),
                   [stage EXCEPT ![i] = "done"])
    /\ UNCHANGED <<control, read, wire, result>>

-----------------------------------------------------------------------------
\* The commands.
Download(i) ==
    /\ i \in Downloads /\ At(i, "new")
    /\ Go(i, "called")
    /\ UNCHANGED <<ui, control, read, wire, result>>

\* A channel of its own, with the signal "running".
Register(i) ==
    /\ At(i, "called")
    /\ table' = table \cup {i}
    /\ signal' = [signal EXCEPT ![i] = "running"]
    /\ Go(i, "opening")
    /\ UNCHANGED <<ui, world, pausedAt, stopped, pauses, read, wire, result>>

\* Mutant: the return for a locked vault forgets to unregister.
OpenForgetsTable(i) ==
    /\ At(i, "opening")
    /\ \/ Go(i, "returned") /\ result' = [result EXCEPT ![i] = "failed"]
       \/ /\ Go(i, IF i \in ByPath \cup Downloads THEN "gate" ELSE "permit")
          /\ UNCHANGED result
    /\ UNCHANGED <<ui, control, read, wire>>

\* The master key, the drive, the path.  Contents that came with the call
\* pass no gate; a file without contents, and one whose drive is not listed,
\* is answered for without an upload ("Mock fallback").
Open(i) ==
    /\ At(i, "opening")
    /\ \/ Leave(i, "failed")
       \/ /\ i \in ByPath \cup Downloads
          /\ Go(i, "gate") /\ UNCHANGED result
       \/ /\ i \in Uploads \ ByPath /\ Sends(i)
          /\ Go(i, "permit") /\ UNCHANGED result
       \/ /\ i \in Uploads \ ByPath /\ ~ Sends(i)
          /\ Leave(i, "ok")
    /\ UNCHANGED <<ui, control, read, wire>>

\* Mutant: a pause is not waited for.
GateCancelOnly(i) ==
    /\ At(i, "gate")
    /\ \/ signal[i] = "cancelled" /\ Leave(i, "failed")
       \/ /\ signal[i] # "cancelled"
          /\ \/ i \in Uploads /\ Go(i, "reading") /\ UNCHANGED result
             \/ i \in Downloads /\ Go(i, "permit") /\ UNCHANGED result
    /\ UNCHANGED <<ui, control, read, wire>>

\* check_transfer_gate waits while the signal is "paused".  A download passes
\* it once; its file may have left the tree.
Gate(i) ==
    /\ At(i, "gate")
    /\ \/ signal[i] = "cancelled" /\ Leave(i, "failed")
       \/ /\ signal[i] = "running"
          /\ \/ i \in Uploads /\ Go(i, "reading") /\ UNCHANGED result
             \/ i \in Downloads /\ Go(i, "permit") /\ UNCHANGED result
             \/ i \in Downloads /\ Leave(i, "failed")
    /\ UNCHANGED <<ui, control, read, wire>>

Read(i) ==
    /\ At(i, "reading")
    /\ \/ Leave(i, "failed") /\ UNCHANGED read
       \/ /\ read[i] < Size[i]
          /\ read' = [read EXCEPT ![i] = @ + 1]
          /\ Go(i, "gate") /\ UNCHANGED result
       \/ /\ read[i] = Size[i] /\ Sends(i)
          /\ Go(i, "permit") /\ UNCHANGED <<read, result>>
       \/ /\ read[i] = Size[i] /\ ~ Sends(i)
          /\ Leave(i, "ok") /\ UNCHANGED read
    /\ UNCHANGED <<ui, control, wire>>

TakePermit(i) ==
    /\ At(i, "permit") /\ permits > 0
    /\ permits' = permits - 1
    /\ Go(i, "moving")
    /\ UNCHANGED <<ui, control, read, retries, docs, result>>

\* The bytes; the permit is dropped on every way out.  A download writes its
\* destination afterwards.
Move(i) ==
    /\ At(i, "moving")
    /\ permits' = permits + 1
    /\ \/ Leave(i, "failed")
       \/ i \in Downloads /\ Leave(i, "ok")
       \/ i \in Uploads /\ Go(i, "sending") /\ UNCHANGED result
    /\ UNCHANGED <<ui, control, read, retries, docs>>

\* Mutants: the permit is held over the request and dropped again; a retry
\* that is not counted; a retry whatever the error.
SendDropsPermit(i) ==
    /\ At(i, "sending")
    /\ permits' = permits + 1
    /\ docs' = [docs EXCEPT ![i] = @ + 1] /\ Leave(i, "ok")
    /\ UNCHANGED <<ui, control, read, retries>>

SendUncounted(i) ==
    /\ At(i, "sending")
    /\ \/ docs' = [docs EXCEPT ![i] = @ + 1] /\ Leave(i, "ok")
       \/ Go(i, "waiting") /\ UNCHANGED <<docs, result>>
    /\ UNCHANGED <<ui, control, read, permits, retries>>

SendRetriesAll(i) ==
    /\ At(i, "sending")
    /\ \/ docs' = [docs EXCEPT ![i] = @ + 1] /\ Leave(i, "ok") /\ UNCHANGED retries
       \/ /\ retries[i] < Retries
          /\ retries' = [retries EXCEPT ![i] = @ + 1]
          /\ \E n \in 0..1 : docs' = [docs EXCEPT ![i] = @ + n]
          /\ Go(i, "waiting") /\ UNCHANGED result
       \/ retries[i] = Retries /\ Leave(i, "failed") /\ UNCHANGED <<docs, retries>>
    /\ UNCHANGED <<ui, control, read, permits>>

\* messages.sendMedia, and on success the node in the tree.  FLOOD_WAIT says
\* that nothing was sent; a wait of more than a minute is an error like any
\* other, and so is an answer that is lost.
Send(i) ==
    /\ At(i, "sending")
    /\ \/ /\ docs' = [docs EXCEPT ![i] = @ + 1]
          /\ \E r \in {"ok", "failed"} : Leave(i, r)
          /\ UNCHANGED retries
       \/ Leave(i, "failed") /\ UNCHANGED <<docs, retries>>
       \/ /\ retries[i] < Retries
          /\ retries' = [retries EXCEPT ![i] = @ + 1]
          /\ Go(i, "waiting") /\ UNCHANGED <<docs, result>>
    /\ UNCHANGED <<ui, control, read, permits>>

\* The bytes are uploaded again.
Wait(i) ==
    /\ At(i, "waiting")
    /\ Go(i, "permit")
    /\ UNCHANGED <<ui, control, read, wire, result>>

\* The locals of the command are gone with it.
Unregister(i) ==
    /\ At(i, "leaving")
    /\ table' = table \ {i}
    /\ Go(i, IF i \in Uploads THEN "returned" ELSE "done")
    /\ signal' = [signal EXCEPT ![i] = "running"]
    /\ read' = [read EXCEPT ![i] = 0]
    /\ pausedAt' = [pausedAt EXCEPT ![i] = 0]
    /\ retries' = [retries EXCEPT ![i] = 0]
    /\ UNCHANGED <<ui, world, stopped, pauses, permits, docs, result>>

-----------------------------------------------------------------------------
\* The user.  The three commands do nothing for a transfer without a sender.

\* A pass of the gate is still to come.
GateAhead(i) ==
    \/ At(i, "opening") /\ i \in ByPath \cup Downloads
    \/ At(i, "gate")
    \/ At(i, "reading") /\ read[i] < Size[i]

\* Mutant: the sender stays in the table.
CancelKeepsSender(i) ==
    /\ i \in table /\ signal[i] # "cancelled"
    /\ signal' = [signal EXCEPT ![i] = "cancelled"]
    /\ stopped' = IF GateAhead(i) THEN stopped \cup {i} ELSE stopped
    /\ UNCHANGED <<ui, world, stage, table, pausedAt, pauses, read, wire, result>>

Cancel(i) ==
    /\ i \in table
    /\ table' = table \ {i}
    /\ signal' = [signal EXCEPT ![i] = "cancelled"]
    /\ stopped' = IF GateAhead(i) THEN stopped \cup {i} ELSE stopped
    /\ UNCHANGED <<ui, world, stage, pausedAt, pauses, read, wire, result>>

Pause(i) ==
    /\ i \in table /\ pauses < MaxPauses /\ signal[i] # "paused"
    /\ pauses' = pauses + 1
    /\ signal' = [signal EXCEPT ![i] = "paused"]
    /\ pausedAt' = [pausedAt EXCEPT ![i] = read[i]]
    /\ UNCHANGED <<ui, world, stage, table, stopped, read, wire, result>>

Resume(i) ==
    /\ i \in table /\ signal[i] # "running"
    /\ signal' = [signal EXCEPT ![i] = "running"]
    /\ UNCHANGED <<ui, world, stage, table, pausedAt, stopped, pauses, read, wire, result>>

-----------------------------------------------------------------------------
Init ==
    /\ world \in Worlds
    /\ ui = [queue |-> <<>>, active |-> 0, choice |-> None, uploaded |-> FALSE,
             dialog |-> None, asked |-> {}]
    /\ stage = [i \in Transfer |-> "new"]
    /\ table = {}
    /\ signal = [i \in Transfer |-> "running"]
    /\ read = [i \in Transfer |-> 0]
    /\ permits = Permits
    /\ retries = [i \in Transfer |-> 0]
    /\ docs = [i \in Transfer |-> 0]
    /\ result = [i \in Transfer |-> "none"]
    /\ pausedAt = [i \in Transfer |-> 0]
    /\ stopped = {}
    /\ pauses = 0

\* What happens by itself once a transfer was started.
Step(i) ==
    \/ Register(i) \/ Open(i) \/ Gate(i) \/ Read(i) \/ TakePermit(i)
    \/ Move(i) \/ Send(i) \/ Wait(i) \/ Unregister(i)
    \/ Success(i) \/ Close(i)

User(i) == Download(i) \/ Cancel(i) \/ Pause(i) \/ Resume(i)

Next == Drop \/ Answer \/ \E i \in Transfer : Step(i) \/ User(i)

Spec == Init /\ [][Next]_vars /\ \A i \in Transfer : SF_vars(Step(i))

-----------------------------------------------------------------------------
TypeOK ==
    /\ world \in Worlds
    /\ ui.queue \in Seq(Uploads) /\ ui.active \in Nat
    /\ ui.choice \in {None, "upload", "skip"} /\ ui.uploaded \in BOOLEAN
    /\ ui.dialog \in Conflicting \cup {None} /\ ui.asked \subseteq Conflicting
    /\ stage \in [Transfer -> Stage]
    /\ table \subseteq Transfer
    /\ signal \in [Transfer -> {"running", "paused", "cancelled"}]
    /\ read \in [Transfer -> Nat] /\ pausedAt \in [Transfer -> Nat]
    /\ \A i \in Uploads : read[i] <= Size[i]
    /\ permits \in 0..Permits
    /\ retries \in [Transfer -> 0..Retries] /\ docs \in [Transfer -> Nat]
    /\ result \in [Transfer -> {"none", "ok", "failed"}]
    /\ stopped \subseteq Transfer /\ pauses \in 0..MaxPauses

\* A transfer has a sender in active_transfers exactly from register_transfer
\* to unregister_transfer, unless it was cancelled: no return of the commands
\* leaks an entry, and a running transfer can always be paused and cancelled.
TableIsExact ==
    \A i \in Transfer :
        i \in table <=> stage[i] \in Registered /\ signal[i] # "cancelled"

\* A cancel that arrives while check_transfer_gate is still to be passed is
\* final: the transfer fails and leaves no document, whatever is paused or
\* resumed around it.
CancelTakesEffect ==
    \A i \in stopped : docs[i] = 0 /\ result[i] # "ok"

\* From the pause on, at most the part whose reading had begun is read.
PauseHolds ==
    \A i \in Uploads : signal[i] = "paused" => read[i] <= pausedAt[i] + 1

\* do_upload_document sends again only what Telegram has refused: an upload
\* never leaves two documents.  One that succeeds has exactly one, except that
\* it has none when the file is empty or its drive is not listed.
OneDocumentPerUpload ==
    \A i \in Uploads : /\ docs[i] <= 1
                       /\ result[i] = "ok" => docs[i] = (IF Sends(i) THEN 1 ELSE 0)

\* activeCountRef is the number of uploads in progress, whatever fails or is
\* skipped, and those that did not pass the dialog respect MAX_CONCURRENCY.
LimitHolds ==
    LET inProgress == {i \in Uploads : stage[i] \in Working}
    IN /\ ui.active = Cardinality(inProgress)
       /\ Cardinality(inProgress \ ui.asked) <= MaxConcurrency

\* When no upload runs, waits or is asked about, every upload has been
\* followed by a flush of the manifest (checkBatchComplete).
BatchIsPublished ==
    ui.active = 0 /\ ui.queue = <<>> /\ ui.dialog = None => ~ ui.uploaded

Halted(i) == At(i, "gate") /\ signal[i] = "paused"

\* Every transfer that was started ends, unless it is paused: errors, retries
\* and waiting for a permit all come to an end.
TransfersEnd == \A i \in Transfer : []<>(stage[i] \notin Working \/ Halted(i))

\* The queue is served to its end, unless a dialog or a pause holds it up.
QueueDrains ==
    []<>(ui.queue = <<>> \/ ui.dialog # None \/ \E i \in Uploads : Halted(i))
=============================================================================
