---------------------------- MODULE AccountDrives ----------------------------
(***************************************************************************)
(* The accounts a user has logged in with and the drives each account      *)
(* sees: protofs-tauri/src/commands/auth.rs and drives.rs, the state they  *)
(* share (AppState of commands/mod.rs), the transport they switch          *)
(* (protofs-core/src/mtproto/dynamic.rs) and the channels it creates,      *)
(* lists and deletes (mtproto/real/channels.rs).                           *)
(*                                                                         *)
(* A command runs in a task.  An action is the code between two awaits,    *)
(* cut further where a crash, or a thread that holds no lock, may find a   *)
(* file written and the next one not.  A drive is named by its channel, so *)
(* a list of drives is a set of channels; writing a file does not fail.    *)
(***************************************************************************)
EXTENDS Naturals, Sequences, FiniteSets

CONSTANTS
    Users, Channels, Tasks, None,
    Commands        \* the commands offered, of those Start knows

VARIABLES
    registry,       \* accounts.enc: the accounts and the active one, or None
    creds,          \* telegram_session_<u>.enc: whose session it holds
    legacy,         \* telegram_session.enc: whose session it holds
    auth,           \* session.enc: whose it is
    saved,          \* drives_<u>.json
    session, drives,\* AppState: the account shown and its drives
    transport,      \* DynamicTelegramTransport: whose connection, or None
    owner,          \* Telegram: who created each channel, None if no one
    writer,         \* who holds the write locks on session and on drives
    readers,        \* who holds a read lock on session across a step
    task,           \* what each task is doing
    alone,          \* one command at a time, with crashes; or side by side
    begun,          \* side by side, a task runs one command
    stale           \* history: the last reconnect failed

files == <<registry, creds, legacy, auth, saved>>
memory == <<session, drives, transport>>
locks == <<writer, readers>>
mode == <<alone, begun>>
accountVars == <<files, memory, owner, locks, task, mode, stale>>

Lock == {"session", "drives"}
Owned(u) == {c \in Channels : owner[c] = u}
NoTask == [op |-> None, at |-> None, user |-> None, list |-> {}, reg |-> None]

Where == {"signed", "register", "read", "rewrite", "list", "enter", "look", "connect",
          "choose", "swap", "forget", "purge", "unlist", "closing", "clearing",
          "whoami", "ping", "drop", "refresh", "guard", "make", "hold", "push",
          "store", "unlink", "owned", "retain"}

At(t, l) == task[t].at = l
Goto(t, l) == task' = [task EXCEPT ![t].at = l]
GotoWith(t, l, u) == task' = [task EXCEPT ![t].at = l, ![t].user = u]
Keep(t, l, S) == task' = [task EXCEPT ![t].at = l, ![t].list = S]
Finish(t) == task' = [task EXCEPT ![t] = NoTask]
Op(t) == task[t].op
User(t) == task[t].user
List(t) == task[t].list

CanWrite(l) == writer[l] = None /\ (l = "session" => readers = {})
CanReadSession == writer["session"] = None
CanReadDrives == writer["drives"] = None

-----------------------------------------------------------------------------
\* The files.  load_account_registry builds the registry from the session
\* file of a version that knew one account, and copies that account's
\* connection file.
Members(accounts) == {accounts[i] : i \in DOMAIN accounts}

LoadedRegistry ==
    IF registry # None THEN registry
    ELSE IF auth # None THEN [accounts |-> <<auth>>, active |-> auth]
    ELSE [accounts |-> <<>>, active |-> None]

Migrates == registry = None /\ auth # None

MigratedCreds ==
    IF Migrates /\ creds[auth] = None THEN [creds EXCEPT ![auth] = legacy] ELSE creds

LoadRegistry ==
    /\ registry' = IF Migrates THEN LoadedRegistry ELSE registry
    /\ creds' = MigratedCreds

\* load_real_telegram_session_for_user
Credentials(u) == IF creds[u] # None THEN creds[u] ELSE legacy

Registered(reg, u) ==
    IF u \in Members(reg.accounts) THEN reg.accounts ELSE Append(reg.accounts, u)

\* retain; no account is listed twice (IsRegistry).
Unregistered(reg, u) ==
    LET all == reg.accounts
        i == CHOOSE i \in DOMAIN all : all[i] = u
    IN  IF u \in Members(all) THEN SubSeq(all, 1, i - 1) \o SubSeq(all, i + 1, Len(all))
        ELSE all

-----------------------------------------------------------------------------
\* A command comes from the interface, which shows the drives and the other
\* accounts once there is a session, and asks for the status (which migrates
\* the files) before it offers a login.
Start(op) ==
    CASE op = "login" -> {<<"signed", u, {}>> : u \in Users}
      [] op = "status" -> {<<"look", None, {}>>}
      [] op = "switch" -> {<<"choose", u, {}>> : u \in Members(LoadedRegistry.accounts)}
      [] op = "remove" -> {<<"forget", u, {}>> : u \in Members(LoadedRegistry.accounts)}
      [] op = "logout" -> {<<"whoami", None, {}>>}
      [] op = "check" -> {<<"ping", None, {}>>}
      [] op = "reconnect" -> {<<"refresh", None, {}>>}
      [] op = "drives" -> {<<"guard", None, {}>>}
      [] op = "create" -> {<<"make", None, {c}>> : c \in {d \in Channels : owner[d] = None}}
      [] op = "link" -> {<<"push", None, {c}>> : c \in Channels \ drives}
      [] op = "adopt" -> {<<"hold", None, {c}>> : c \in Channels}
      [] op = "delete" -> {<<"unlink", None, {c}>> : c \in drives}
      [] op = "prune" -> {<<"owned", None, {}>>}

Offered(op) ==
    /\ op \in Commands
    /\ op = "login" => ~ Migrates
    /\ op \notin {"login", "status", "check", "reconnect", "drives"} => session # None
    \* get_owned_channels lists the channels of the connection
    /\ op \in {"link", "adopt"} => transport # None

BeginCommand(t) ==
    /\ At(t, None)
    /\ alone => \A s \in Tasks : At(s, None)
    /\ t \notin begun /\ t = CHOOSE s \in Tasks \ begun : TRUE   \* any of them
    /\ \E op \in Commands :
         /\ Offered(op)
         /\ \E s \in Start(op) :
              /\ op \in {"link", "adopt"} =>
                     \A c \in s[3] : owner[c] = transport
              /\ task' = [task EXCEPT ![t] =
                             [NoTask EXCEPT !.op = op, !.at = s[1], !.user = s[2],
                                            !.list = s[3]]]
    /\ begun' = IF alone THEN begun ELSE begun \cup {t}
    /\ UNCHANGED <<files, memory, owner, locks, alone, stale>>

-----------------------------------------------------------------------------
\* finalize_login, after a login has succeeded for User(t): the connection
\* and its file, in the user's place and in that of the older versions.
Signed(t) ==
    /\ At(t, "signed") /\ Goto(t, "register")
    /\ transport' = User(t)
    /\ creds' = [creds EXCEPT ![User(t)] = User(t)] /\ legacy' = User(t)
    /\ stale' = FALSE
    /\ UNCHANGED <<registry, auth, saved, session, drives, owner, locks, mode>>

Register(t) ==
    /\ At(t, "register") /\ Goto(t, "read")
    /\ registry' = [accounts |-> Registered(LoadedRegistry, User(t)), active |-> User(t)]
    /\ creds' = MigratedCreds
    /\ UNCHANGED <<legacy, auth, saved, memory, owner, locks, mode, stale>>

\* load_user_drives
ReadDrives(t) ==
    /\ At(t, "read")
    /\ Keep(t, IF Op(t) = "status" THEN "list" ELSE "rewrite", saved[User(t)])
    /\ UNCHANGED <<files, memory, owner, locks, mode, stale>>

\* Mutant: the guard on the session is kept while the drives are locked.
RewriteDrivesGuarded(t) ==
    /\ At(t, "rewrite") /\ Goto(t, "list")
    /\ saved' = [saved EXCEPT ![User(t)] = List(t)]
    /\ UNCHANGED <<registry, creds, legacy, auth, memory, owner, locks, mode, stale>>

\* save_user_drives with the list just loaded; get_drives then drops the
\* guard it has on the session.
RewriteDrives(t) ==
    /\ At(t, "rewrite") /\ Goto(t, "list")
    /\ saved' = [saved EXCEPT ![User(t)] = List(t)]
    /\ readers' = readers \ {t}
    /\ UNCHANGED <<registry, creds, legacy, auth, memory, owner, writer, mode, stale>>

ListDrives(t) ==
    /\ At(t, "list") /\ CanWrite("drives")
    /\ drives' = List(t)
    /\ IF Op(t) = "drives" THEN Finish(t) ELSE Goto(t, "enter")
    /\ UNCHANGED <<files, session, transport, owner, locks, mode, stale>>

\* The session is set; a switch or a removal still holds the drives.  The
\* status leaves session.enc alone.
EnterSession(t) ==
    /\ At(t, "enter") /\ CanWrite("session")
    /\ session' = User(t)
    /\ auth' = IF Op(t) = "status" THEN auth ELSE User(t)
    /\ writer' = [writer EXCEPT !["drives"] = IF @ = t THEN None ELSE @]
    /\ Finish(t)
    /\ UNCHANGED <<registry, creds, legacy, saved, drives, transport, owner, readers,
                   mode, stale>>

-----------------------------------------------------------------------------
\* get_session_status: what is in memory, or else the active account.
LookForSession(t) ==
    /\ At(t, "look") /\ CanReadSession
    /\ \/ session # None /\ Finish(t) /\ UNCHANGED <<registry, creds>>
       \/ /\ session = None /\ LoadRegistry
          /\ IF LoadedRegistry.active \in Members(LoadedRegistry.accounts)
             THEN GotoWith(t, "connect", LoadedRegistry.active)
             ELSE Finish(t)
    /\ UNCHANGED <<legacy, auth, saved, memory, owner, locks, mode, stale>>

\* Only the connection is wanted.
Refreshes(t) == Op(t) \in {"check", "reconnect"}

\* reconnect_from_session_with_proxy and switch_to_real.  A failure is
\* ignored and leaves the connection there was.
Connect(t) ==
    /\ At(t, "connect")
    /\ IF Refreshes(t) THEN Finish(t)
       ELSE Goto(t, IF Op(t) = "status" THEN "read" ELSE "swap")
    /\ \/ /\ Credentials(User(t)) # None
          /\ transport' = Credentials(User(t)) /\ stale' = FALSE
       \/ transport' = transport /\ stale' = (stale \/ ~ Refreshes(t))
    /\ UNCHANGED <<files, session, drives, owner, locks, mode>>

\* switch_account: the choice is saved before the connection is tried.
ChooseAccount(t) ==
    /\ At(t, "choose") /\ creds' = MigratedCreds
    /\ LET reg == LoadedRegistry IN
       IF User(t) \in Members(reg.accounts)
       THEN /\ registry' = [reg EXCEPT !.active = User(t)]
            /\ Goto(t, "connect")
       ELSE /\ registry' = IF Migrates THEN reg ELSE registry
            /\ Finish(t)
    /\ UNCHANGED <<legacy, auth, saved, memory, owner, locks, mode, stale>>

\* Mutant: the drives of the account before stay in the list.
SwapNothing(t) ==
    /\ At(t, "swap") /\ CanWrite("drives") /\ Goto(t, "enter")
    /\ drives' = drives
    /\ writer' = [writer EXCEPT !["drives"] = t]
    /\ UNCHANGED <<files, session, transport, owner, readers, mode, stale>>

\* The list of the account is loaded under the lock on the drives, which
\* stays held until the session is set.
SwapDrives(t) ==
    /\ At(t, "swap") /\ CanWrite("drives") /\ Goto(t, "enter")
    /\ drives' = saved[User(t)]
    /\ writer' = [writer EXCEPT !["drives"] = t]
    /\ UNCHANGED <<files, session, transport, owner, readers, mode, stale>>

-----------------------------------------------------------------------------
\* remove_account: the accounts that will be left, then the files of the
\* user, then the registry.
ForgetUser(t) ==
    /\ At(t, "forget")
    /\ task' = [task EXCEPT ![t].at = "purge",
                            ![t].reg = [LoadedRegistry EXCEPT
                                          !.accounts = Unregistered(LoadedRegistry, User(t))]]
    /\ registry' = IF Migrates THEN LoadedRegistry ELSE registry
    /\ creds' = [MigratedCreds EXCEPT ![User(t)] = None]
    /\ UNCHANGED <<legacy, auth, saved, memory, owner, locks, mode, stale>>

PurgeDrives(t) ==
    /\ At(t, "purge") /\ Goto(t, "unlist")
    /\ saved' = [saved EXCEPT ![User(t)] = {}]
    /\ UNCHANGED <<registry, creds, legacy, auth, memory, owner, locks, mode, stale>>

\* The first account left takes the place of the active one.  The registry
\* is saved as it was loaded, less the user.
UnlistUser(t) ==
    LET reg == task[t].reg
        rest == reg.accounts
    IN  /\ At(t, "unlist")
        /\ \/ /\ reg.active = User(t) /\ rest # <<>>
              /\ registry' = [reg EXCEPT !.active = Head(rest)]
              /\ task' = [task EXCEPT ![t].at = "connect", ![t].user = Head(rest),
                                      ![t].reg = None]
           \/ /\ reg.active = User(t) /\ rest = <<>>
              /\ registry' = [reg EXCEPT !.active = None]
              /\ task' = [task EXCEPT ![t].at = "closing", ![t].reg = None]
           \/ /\ reg.active # User(t) /\ CanReadSession
              /\ registry' = reg
              /\ Finish(t)
        /\ UNCHANGED <<creds, legacy, auth, saved, memory, owner, locks, mode, stale>>

\* No account is left: the session is locked first, then the drives.
CloseSession(t) ==
    /\ At(t, "closing") /\ CanWrite("session") /\ Goto(t, "clearing")
    /\ session' = None
    /\ writer' = [writer EXCEPT !["session"] = t]
    /\ UNCHANGED <<files, drives, transport, owner, readers, mode, stale>>

\* session.enc goes when an account was removed; the file of the connection
\* that older versions read stays, and so does the connection.
ClearDrives(t) ==
    /\ At(t, "clearing") /\ CanWrite("drives") /\ Finish(t)
    /\ drives' = {}
    /\ auth' = IF User(t) = None THEN auth ELSE None
    /\ writer' = [writer EXCEPT !["session"] = None]
    /\ UNCHANGED <<registry, creds, legacy, saved, session, transport, owner, readers,
                   mode, stale>>

\* logout: the account shown is removed, connection and all.
WhoAmI(t) ==
    /\ At(t, "whoami") /\ CanReadSession
    /\ IF session = None THEN Goto(t, "closing") ELSE GotoWith(t, "forget", session)
    /\ UNCHANGED <<files, memory, owner, locks, mode, stale>>

-----------------------------------------------------------------------------
\* check_telegram_connection: get_me within five seconds, or a reconnect.
Ping(t) ==
    /\ At(t, "ping")
    /\ \/ transport = None /\ Goto(t, "refresh")
       \/ transport # None /\ Finish(t)
       \/ transport # None /\ Goto(t, "drop")
    /\ UNCHANGED <<files, memory, owner, locks, mode, stale>>

Disconnect(t) ==
    /\ At(t, "drop") /\ Goto(t, "refresh")
    /\ transport' = None
    /\ UNCHANGED <<files, session, drives, owner, locks, mode, stale>>

\* The reconnect of the active account, also after a change of proxy.
Refresh(t) ==
    /\ At(t, "refresh") /\ LoadRegistry
    /\ IF LoadedRegistry.active \in Members(LoadedRegistry.accounts)
       THEN GotoWith(t, "connect", LoadedRegistry.active)
       ELSE Finish(t)
    /\ UNCHANGED <<legacy, auth, saved, memory, owner, locks, mode, stale>>

-----------------------------------------------------------------------------
\* get_drives: the user is read under a guard, which is kept for the file.
GuardSession(t) ==
    /\ At(t, "guard") /\ CanReadSession
    /\ \/ /\ session # None /\ GotoWith(t, "read", session)
          /\ readers' = readers \cup {t}
       \/ /\ session = None /\ CanReadDrives /\ Finish(t)
          /\ readers' = readers
    /\ UNCHANGED <<files, memory, owner, writer, mode, stale>>

\* create_drive with a new channel.
MakeChannel(t) ==
    /\ At(t, "make")
    /\ \/ /\ transport # None /\ \A c \in List(t) : owner[c] = None
          /\ owner' = [c \in Channels |-> IF c \in List(t) THEN transport ELSE owner[c]]
          /\ Goto(t, "push")
       \/ owner' = owner /\ Finish(t)
    /\ UNCHANGED <<files, memory, locks, mode, stale>>

\* adopt_channel_as_drive takes the lock before it talks to Telegram.
HoldDrives(t) ==
    /\ At(t, "hold") /\ CanWrite("drives")
    /\ \/ /\ List(t) \subseteq drives /\ Finish(t) /\ writer' = writer
       \/ /\ ~ List(t) \subseteq drives /\ Goto(t, "push")
          /\ writer' = [writer EXCEPT !["drives"] = t]
    /\ UNCHANGED <<files, memory, owner, readers, mode, stale>>

\* The drive is added once its first manifest has been pinned, or not.
PushDrive(t) ==
    /\ At(t, "push") /\ (CanWrite("drives") \/ writer["drives"] = t)
    /\ Goto(t, "store")
    /\ drives' = drives \cup List(t)
    /\ writer' = [writer EXCEPT !["drives"] = t]
    /\ UNCHANGED <<files, session, transport, owner, readers, mode, stale>>

\* Mutant: the list is kept in memory only.
StoreDrivesNowhere(t) ==
    /\ At(t, "store") /\ CanReadSession /\ Finish(t)
    /\ writer' = [writer EXCEPT !["drives"] = None]
    /\ UNCHANGED <<files, memory, owner, readers, mode, stale>>

\* The list goes to the file of the user of the session.
StoreDrives(t) ==
    /\ At(t, "store") /\ CanReadSession /\ Finish(t)
    /\ saved' = IF session = None THEN saved ELSE [saved EXCEPT ![session] = drives]
    /\ writer' = [writer EXCEPT !["drives"] = None]
    /\ UNCHANGED <<registry, creds, legacy, auth, memory, owner, readers, mode, stale>>

\* delete_drive: the channel is deleted if the user asks so and created it
\* (and left if not); a failure is logged.
UnlinkChannel(t) ==
    /\ At(t, "unlink") /\ CanReadDrives
    /\ Keep(t, "retain", Channels \ List(t))
    /\ \/ owner' = owner
       \/ /\ transport # None /\ List(t) \subseteq drives
          /\ owner' = [c \in Channels |-> IF c \in List(t) /\ owner[c] = transport
                                          THEN None ELSE owner[c]]
    /\ UNCHANGED <<files, memory, locks, mode, stale>>

\* sync_and_prune_drives: the channels of the connection's account, of
\* which those after its hundred latest dialogs are left out; if the request
\* fails the drives are shown as they are.
ListOwned(t) ==
    /\ At(t, "owned")
    /\ \/ transport # None /\ \E S \in SUBSET Owned(transport) : Keep(t, "retain", S)
       \/ CanReadDrives /\ Finish(t)
    /\ UNCHANGED <<files, memory, owner, locks, mode, stale>>

RetainDrives(t) ==
    /\ At(t, "retain") /\ CanWrite("drives") /\ Goto(t, "store")
    /\ drives' = drives \cap List(t)
    /\ writer' = [writer EXCEPT !["drives"] = t]
    /\ UNCHANGED <<files, session, transport, owner, readers, mode, stale>>

-----------------------------------------------------------------------------
\* The program ends between two steps and starts again.
Restart ==
    /\ alone
    /\ session' = None /\ drives' = {} /\ transport' = None
    /\ writer' = [l \in Lock |-> None] /\ readers' = {}
    /\ task' = [t \in Tasks |-> NoTask]
    /\ stale' = FALSE
    /\ UNCHANGED <<files, owner, mode>>

Step(t) ==
    \/ Signed(t) \/ Register(t) \/ ReadDrives(t) \/ RewriteDrives(t)
    \/ ListDrives(t) \/ EnterSession(t) \/ LookForSession(t) \/ Connect(t)
    \/ ChooseAccount(t) \/ SwapDrives(t) \/ ForgetUser(t) \/ PurgeDrives(t)
    \/ UnlistUser(t) \/ CloseSession(t) \/ ClearDrives(t) \/ WhoAmI(t)
    \/ Ping(t) \/ Disconnect(t) \/ Refresh(t) \/ GuardSession(t)
    \/ MakeChannel(t) \/ HoldDrives(t) \/ PushDrive(t) \/ StoreDrives(t)
    \/ UnlinkChannel(t) \/ ListOwned(t) \/ RetainDrives(t)

AccountNext == Restart \/ \E t \in Tasks : BeginCommand(t) \/ Step(t)

\* Nothing installed, the files of a version that knew one account, or an
\* installation in use, just started or with its session restored.
NewInstallation ==
    /\ registry = None /\ legacy = None /\ auth = None
    /\ creds = [u \in Users |-> None] /\ saved = [u \in Users |-> {}]
    /\ owner = [c \in Channels |-> None]
    /\ session = None /\ drives = {} /\ transport = None

OldInstallation ==
    \E u \in Users, c \in Channels :
      /\ registry = None /\ legacy = u /\ auth = u
      /\ creds = [v \in Users |-> None]
      /\ saved = [v \in Users |-> IF v = u THEN {c} ELSE {}]
      /\ owner = [d \in Channels |-> IF d = c THEN u ELSE None]
      /\ session = None /\ drives = {} /\ transport = None

InstallationInUse ==
    \E u, v \in Users, c \in Channels :
      /\ registry = [accounts |-> IF u = v THEN <<u>> ELSE <<u, v>>, active |-> u]
      /\ legacy = v /\ auth = u
      /\ creds = [w \in Users |-> IF w \in {u, v} THEN w ELSE None]
      /\ saved = [w \in Users |-> IF w = u THEN {c} ELSE {}]
      /\ owner = [d \in Channels |-> IF d = c THEN u ELSE None]
      /\ session \in {u, None} /\ transport = session
      /\ drives = IF session = None THEN {} ELSE {c}

AccountInit ==
    /\ alone \in BOOLEAN
    /\ IF alone THEN NewInstallation \/ OldInstallation ELSE InstallationInUse
    /\ writer = [l \in Lock |-> None] /\ readers = {}
    /\ task = [t \in Tasks |-> NoTask]
    /\ begun = {} /\ stale = FALSE

\* A command's requests are answered or time out, and the queue of a lock
\* serves whoever waits.
AccountFairness == WF_accountVars(\E t \in Tasks : ~ At(t, None) /\ Step(t))

-----------------------------------------------------------------------------
\* No account is listed twice.
IsRegistry(reg) ==
    reg = None \/
        /\ Members(reg.accounts) \subseteq Users
        /\ Len(reg.accounts) = Cardinality(Members(reg.accounts))
        /\ reg.active \in Users \cup {None}

AccountTypeOK ==
    /\ IsRegistry(registry)
    /\ creds \in [Users -> Users \cup {None}]
    /\ {legacy, auth, session, transport} \subseteq Users \cup {None}
    /\ saved \in [Users -> SUBSET Channels] /\ drives \subseteq Channels
    /\ owner \in [Channels -> Users \cup {None}]
    /\ writer \in [Lock -> Tasks \cup {None}] /\ readers \subseteq Tasks
    /\ DOMAIN task = Tasks
    /\ \A t \in Tasks :
         /\ task[t].op \in Commands \cup {None} /\ task[t].at \in Where \cup {None}
         /\ task[t].user \in Users \cup {None} /\ task[t].list \subseteq Channels
         /\ IsRegistry(task[t].reg)
    /\ alone \in BOOLEAN /\ begun \subseteq Tasks /\ stale \in BOOLEAN

AllIdle == \A t \in Tasks : At(t, None)

\* While no command runs, the list in memory is the session's saved list.
DriveListIsSaved == AllIdle /\ session # None => drives = saved[session]

\* Commands given one at a time, with the program ending at any point: when
\* none runs, the account shown is the active one of the registry, its
\* drives are those of its file, and Telegram is spoken to as that account
\* or not at all, unless the reconnect failed or the account's connection
\* file was deleted by a removal that was cut short.
SessionIsConsistent ==
    alone /\ AllIdle /\ session # None =>
        /\ drives = saved[session]
        /\ registry # None /\ registry.active = session
        /\ transport \in {session, None} \/ stale \/ creds[session] = None

Removing(u) == \E t \in Tasks : At(t, "purge") /\ User(t) = u
Deleting(c) == \E t \in Tasks : Op(t) = "delete" /\ c \notin List(t)
Pruned(c) == \E t \in Tasks : Op(t) = "prune" /\ c \notin List(t)

\* With one command at a time, and the program ending after any step, a drive
\* leaves the file of a user only when the user deletes it or the account, or
\* when a prune gets an answer of Telegram without its channel: a switch of
\* account, a login, a restart, a failed reconnect, a look at the drives or a
\* new one costs none.  The answer to a prune need not have every channel the
\* user owns: the real client looks at the hundred latest dialogs.
DriveKept ==
    [][alone =>
         \A u \in Users : \A c \in saved[u] \ saved'[u] :
           Removing(u) \/ Deleting(c) \/ Pruned(c)]_accountVars

\* The removal of the last account holds the session and waits for the
\* drives; a command that holds the drives waits for the session.
Deadlocked ==
    \E s, t \in Tasks :
      /\ At(s, "clearing") /\ writer["drives"] = t
      /\ task[t].at \in {"enter", "store"}

\* Alone or two at a time, commands end, unless one of them removes the last
\* account and the other came to hold the drives in between.
CommandsEnd == (~ AllIdle) ~> (AllIdle \/ Deadlocked)

AccountSpec == AccountInit /\ [][AccountNext]_accountVars /\ AccountFairness
=============================================================================
