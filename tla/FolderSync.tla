----------------------------- MODULE FolderSync -----------------------------
(***************************************************************************)
(* A local folder paired with a folder of a drive: trigger_sync_command of *)
(* protofs-tauri/src/commands/sync.rs.  It looks once at the files of the  *)
(* folder in memory, then reads the local files one after the other and    *)
(* uploads those whose hash is not the one it saw under that name; an      *)
(* upload is an await, and what was seen is not looked at again.           *)
(*                                                                         *)
(* A changed file becomes a second node of the same name, and the children *)
(* of a folder have no order (a HashSet): which of the two the next look   *)
(* remembers is open.  The trashed children are among them, and some have  *)
(* no hash: files that came by a link or from a caption without one.       *)
(* Nothing publishes the uploads; a later call does.                       *)
(***************************************************************************)
EXTENDS Naturals, FiniteSets

CONSTANTS
    None,
    Names, Contents,    \* a content is its hash
    Triggers            \* the triggers that may be under way together

Files == Names \X Contents

\* A file of the folder: its name, its hash or None, and whether it is trashed.
Hashes == Contents \cup {None}
Nodes == Names \X Hashes \X BOOLEAN

VARIABLES
    disk,           \* the local folder: a content per name, or None
    files,          \* the folder of the drive: the nodes there
    trigger         \* what each trigger is doing

folderVars == <<disk, files, trigger>>

\* seen: existing_files, as far as it is still needed; steady: so far no
\* upload failed and nobody changed either folder; alone: so far no other
\* trigger ran and nobody changed the folder of the drive.
Idle == [at |-> None, seen |-> [n \in Names |-> None], todo |-> {}, file |-> None,
         steady |-> FALSE, alone |-> FALSE]
Active == {t \in Triggers : trigger[t].at # None}

\* The hashes a name has among all the children, the trashed ones too.
Under(n) == {h \in Hashes : \E trashed \in BOOLEAN : <<n, h, trashed>> \in files}

\* existing_files: under each name one of the hashes there are, None also
\* for the empty one of a file without a hash.
Seen == {f \in [Names -> Hashes] :
           \A n \in Names : IF Under(n) = {} THEN f[n] = None ELSE f[n] \in Under(n)}

Present == {n \in Names : disk[n] # None}
Begin(t) ==
    /\ trigger[t].at = None
    /\ \E f \in Seen :
         trigger' = [u \in Triggers |->
           IF u = t
           THEN [Idle EXCEPT !.at = "next", !.todo = Present, !.steady = TRUE,
                             !.seen = [n \in Names |-> IF n \in Present THEN f[n] ELSE None],
                             !.alone = Active = {}]
           ELSE [trigger[u] EXCEPT !.alone = FALSE]]
    /\ UNCHANGED <<disk, files>>

\* Mutant: what has a name already is left alone.
SkipsByName(t, n) == disk[n] = None \/ trigger[t].seen[n] # None

\* The file is gone, or is the one that was seen.
Skips(t, n) == disk[n] \in {None, trigger[t].seen[n]}

\* The next file of read_dir, in any order.
Take(t) ==
    /\ trigger[t].at = "next"
    /\ \E n \in trigger[t].todo :
         trigger' = [trigger EXCEPT
             ![t].todo = @ \ {n}, ![t].seen[n] = None,
             ![t].at = IF Skips(t, n) THEN "next" ELSE "upload",
             ![t].file = IF Skips(t, n) THEN None ELSE <<n, disk[n]>>]
    /\ UNCHANGED <<disk, files>>

\* upload_file_data: the document and its node, or an error that is logged.
Upload(t) ==
    /\ trigger[t].at = "upload"
    /\ \/ /\ files' = files \cup {<<trigger[t].file[1], trigger[t].file[2], FALSE>>}
          /\ trigger' = [trigger EXCEPT ![t].at = "next", ![t].file = None]
       \/ /\ trigger' = [trigger EXCEPT ![t].at = "next", ![t].file = None,
                                        ![t].steady = FALSE]
          /\ UNCHANGED files
    /\ UNCHANGED disk

\* update_sync_pair_last_synced
Finish(t) ==
    /\ trigger[t].at = "next" /\ trigger[t].todo = {}
    /\ trigger' = [trigger EXCEPT ![t] = Idle]
    /\ UNCHANGED <<disk, files>>

\* Another program writes or deletes a local file.
Edit(n) ==
    /\ \E c \in Hashes \ {disk[n]} : disk' = [disk EXCEPT ![n] = c]
    /\ trigger' = [t \in Triggers |-> [trigger[t] EXCEPT !.steady = FALSE]]
    /\ UNCHANGED files

\* The user uploads a file in the drive or adds one by a link, deletes,
\* renames or moves it, puts it in the trash or restores it.  More than one
\* node may have the name and the hash.
Rearrange(n, h) ==
    LET live == <<n, h, FALSE>>
        gone == <<n, h, TRUE>>
    IN
    /\ \/ files' \in {files \cup {live}, files \ {live}, files \ {gone}}
       \/ live \in files /\ files' \in {files \cup {gone}, (files \ {live}) \cup {gone}}
       \/ gone \in files /\ files' = (files \ {gone}) \cup {live}
    /\ trigger' = [t \in Triggers |-> [trigger[t] EXCEPT !.steady = FALSE, !.alone = FALSE]]
    /\ UNCHANGED disk

\* The program starts again.  It loads a manifest over the folder, and as a
\* trigger publishes nothing, any of its uploads may be gone: as if removed.
Restart ==
    /\ Active # {} /\ trigger' = [t \in Triggers |-> Idle]
    /\ UNCHANGED <<disk, files>>

FolderNext ==
    \/ \E t \in Triggers : Begin(t) \/ Take(t) \/ Upload(t) \/ Finish(t)
    \/ \E n \in Names : Edit(n)
    \/ \E n \in Names, h \in Hashes : Rearrange(n, h)
    \/ Restart

FolderInit ==
    /\ disk \in [Names -> Hashes]
    /\ files = {}
    /\ trigger = [t \in Triggers |-> Idle]

-----------------------------------------------------------------------------
FolderTypeOK ==
    /\ disk \in [Names -> Hashes]
    /\ files \subseteq Nodes
    /\ \A t \in Triggers :
         /\ trigger[t].at \in {None, "next", "upload"}
         /\ trigger[t].file \in Files \cup {None} /\ trigger[t].todo \subseteq Names

\* A trigger that nobody disturbs and whose uploads succeed leaves no local
\* file that no child of the folder has the name and hash of, whatever was
\* there before and also beside other triggers.  A trashed child is enough:
\* the file is not uploaded again, and the drive does not show it.  And a
\* trigger that runs alone does not upload a file again if all the children
\* of that name have its hash; beside a child of another hash or of none, as
\* when the file has changed once, every trigger may, and two at a time may
\* both do it.
SyncIsExact ==
    \A t \in Triggers :
      /\ trigger[t].at = "next" /\ trigger[t].todo = {} /\ trigger[t].steady =>
           \A n \in Names : disk[n] # None => disk[n] \in Under(n)
      /\ trigger[t].at = "upload" /\ trigger[t].alone =>
           LET f == trigger[t].file IN Under(f[1]) # {f[2]}
=============================================================================
