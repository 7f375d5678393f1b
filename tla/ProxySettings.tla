---------------------------- MODULE ProxySettings ----------------------------
(***************************************************************************)
(* The proxies the user keeps and the one that is used: the tables of      *)
(* protofs-core/src/cache/proxy.rs, the commands of protofs-tauri/src/     *)
(* commands/proxy.rs, which bring the login and the connection in line,    *)
(* and the start of the program (protofs-tauri/src/lib.rs).                *)
(*                                                                         *)
(* Every profile is an MTProto one, whose secret is kept apart from its    *)
(* row and which needs the bridge.  A row and a secret are of a version,   *)
(* 0 if there is none; statements on the database do not fail.             *)
(***************************************************************************)
EXTENDS TelegramLogin

CONSTANTS
    Profiles, Versions,
    Settlers        \* the tasks that run the proxy commands

VARIABLES
    rows, secrets,  \* table proxies, and the secrets in the secure store
    flagged,        \* the rows with is_active
    chosen, enabled,\* table proxy_settings
    command,        \* what each settler is doing
    startup,        \* what the task spawned at the start has yet to set
    overlap,        \* history: two commands were under way together
    torn,           \* history: the flag and the choice were left apart
    behind          \* history: who was left on another route

settings == <<rows, secrets, flagged, chosen, enabled>>
history == <<overlap, torn, behind>>
proxyVars == <<loginVars, settings, command, startup, history>>

Free == [at |-> None, op |-> None, id |-> None, ver |-> 0, flag |-> FALSE, cfg |-> Direct]
CommandAt(s, l) == command[s].at = l
Then(s, l) == command' = [command EXCEPT ![s].at = l]
ThenWith(s, l, c) == command' = [command EXCEPT ![s] = [Free EXCEPT !.at = l, !.cfg = c]]
Done(s) == command' = [command EXCEPT ![s] = Free]
Is(s, op) == command[s].op = op
Id(s) == command[s].id

Saved == {p \in Profiles : rows[p] # 0}

\* The database is locked from one statement to the next.
Unlocked == \A s \in Settlers : ~ CommandAt(s, "setting")

-----------------------------------------------------------------------------
\* get_active_proxy: the choice, or else a flagged row.
ActiveProxy ==
    IF chosen # None THEN {chosen} \cap Saved ELSE flagged

\* to_proxy_config: a profile without its secret has no configuration.
Config(p) == IF secrets[p] = 0 THEN Direct ELSE <<p, rows[p], secrets[p]>>

\* What sync_transport_proxy reads.
Route ==
    IF enabled /\ ActiveProxy # {} THEN Config(CHOOSE p \in ActiveProxy : TRUE) ELSE Direct

-----------------------------------------------------------------------------
\* ProxyTab: a first profile is saved as the active one, any other as it
\* was.  A new profile has an id that was never used.
BeginCommand(s) ==
    /\ CommandAt(s, None) /\ Spend
    /\ s = CHOOSE r \in Settlers : CommandAt(r, None)     \* any of the free ones
    /\ \/ \E p \in Saved \cup {q \in Profiles \ {chosen} : secrets[q] = 0}, v \in Versions :
            command' = [command EXCEPT ![s] = [Free EXCEPT !.at = "store", !.op = "save",
                !.id = p, !.ver = v, !.flag = (p \in flagged \/ Saved = {})]]
       \/ \E p \in Saved :
            command' = [command EXCEPT ![s] = [Free EXCEPT !.at = "store", !.op = "delete",
                !.id = p]]
       \/ \E p \in Saved \cup {None} :
            command' = [command EXCEPT ![s] = [Free EXCEPT !.at = "store", !.op = "activate",
                !.id = p]]
       \/ \E b \in BOOLEAN :
            command' = [command EXCEPT ![s] = [Free EXCEPT !.at = "store", !.op = "toggle",
                !.flag = b]]
    /\ overlap' = \E r \in Settlers \ {s} : overlap \/ ~ CommandAt(r, None)
    /\ UNCHANGED <<authProxy, pending, holder, login, connection, account, settings,
                   startup, torn, behind>>

\* save_proxy: one transaction, then the secret.  The editor read is_active
\* when it was opened: a profile that was made active meanwhile loses its
\* flag and stays the choice.
SaveRow(s) ==
    /\ CommandAt(s, "store") /\ Is(s, "save") /\ Unlocked /\ Then(s, "secret")
    /\ rows' = [rows EXCEPT ![Id(s)] = command[s].ver]
    /\ flagged' = IF command[s].flag THEN {Id(s)} ELSE flagged \ {Id(s)}
    /\ chosen' = IF command[s].flag THEN Id(s) ELSE chosen
    /\ torn' = (~ command[s].flag /\ (torn \/ chosen = Id(s)))
    /\ UNCHANGED <<loginVars, secrets, enabled, startup, overlap, behind>>

SaveSecret(s) ==
    /\ CommandAt(s, "secret") /\ Unlocked /\ ThenWith(s, "sync", Direct)
    /\ secrets' = [secrets EXCEPT ![Id(s)] = IF Is(s, "save") THEN command[s].ver ELSE 0]
    /\ UNCHANGED <<loginVars, rows, flagged, chosen, enabled, startup, history>>

\* Mutant: the other rows keep their flag.
FlagOneMore(s) ==
    /\ CommandAt(s, "store") /\ Is(s, "activate") /\ Unlocked /\ Then(s, "setting")
    /\ flagged' = IF Id(s) = None THEN {} ELSE flagged \cup ({Id(s)} \cap Saved)
    /\ UNCHANGED <<loginVars, rows, secrets, chosen, enabled, startup, history>>

\* set_active_proxy and delete_proxy: two statements under the lock.
FlagActive(s) ==
    /\ CommandAt(s, "store") /\ Is(s, "activate") /\ Unlocked /\ Then(s, "setting")
    /\ flagged' = {Id(s)} \cap Saved
    /\ UNCHANGED <<loginVars, rows, secrets, chosen, enabled, startup, history>>

DeleteRow(s) ==
    /\ CommandAt(s, "store") /\ Is(s, "delete") /\ Unlocked /\ Then(s, "setting")
    /\ rows' = [rows EXCEPT ![Id(s)] = 0]
    /\ flagged' = flagged \ {Id(s)}
    /\ UNCHANGED <<loginVars, secrets, chosen, enabled, startup, history>>

WriteSetting(s) ==
    /\ CommandAt(s, "setting")
    /\ IF Is(s, "activate")
       THEN chosen' = Id(s) /\ ThenWith(s, "sync", Direct) /\ torn' = FALSE
       ELSE /\ chosen' = IF chosen = Id(s) THEN None ELSE chosen
            /\ Then(s, "secret") /\ torn' = torn
    /\ UNCHANGED <<loginVars, rows, secrets, flagged, enabled, startup, overlap, behind>>

SetEnabled(s) ==
    /\ CommandAt(s, "store") /\ Is(s, "toggle") /\ Unlocked /\ ThenWith(s, "sync", Direct)
    /\ enabled' = command[s].flag
    /\ UNCHANGED <<loginVars, rows, secrets, flagged, chosen, startup, history>>

-----------------------------------------------------------------------------
\* sync_transport_proxy reads the settings and sets the proxy for the
\* connections to come.  (It labels the present connection too; nothing
\* reads the label.)
ReadSettings(s) ==
    /\ CommandAt(s, "sync") /\ Unlocked /\ ThenWith(s, "apply", Route)
    /\ UNCHANGED <<loginVars, settings, startup, history>>

ApplyProxy(s) ==
    /\ CommandAt(s, "apply") /\ ThenWith(s, "account", Direct)
    /\ authProxy' = command[s].cfg
    /\ behind' = behind \ {"login"}
    /\ UNCHANGED <<pending, holder, login, connection, account, calls, settings, startup,
                   overlap, torn>>

\* An account that is logged in is connected again, through the proxy set
\* by then.
FindAccount(s) ==
    /\ CommandAt(s, "account")
    /\ IF account THEN ThenWith(s, "reconnect", authProxy) ELSE Done(s)
    /\ UNCHANGED <<loginVars, settings, startup, history>>

\* Whether the new connection is on another route than the settings say.
Lags(via) ==
    behind' = IF via = Route THEN behind \ {"connection"} ELSE behind \cup {"connection"}

\* A failure leaves the connection there was.
Reconnect(s) ==
    /\ CommandAt(s, "reconnect") /\ Done(s)
    /\ \/ /\ connection' = command[s].cfg
          /\ behind' = IF "login" \in behind THEN behind \cup {"connection"}
                       ELSE behind \ {"connection"}
       \/ /\ connection' \in {connection, Direct}
          /\ behind' = behind \cup {"connection"}
    /\ UNCHANGED <<authProxy, pending, holder, login, account, calls, settings, startup,
                   overlap, torn>>

\* A login brings the connection it was begun with.
EndLogin(c) ==
    /\ RegisterAccount(c) /\ Lags(connection)
    /\ UNCHANGED <<settings, command, startup, overlap, torn>>

-----------------------------------------------------------------------------
\* setup: the login's proxy is set at once, and again by a task that runs
\* whenever it does.
Restart ==
    /\ Spend
    /\ authProxy' = Route /\ startup' = IF Route = Direct THEN None ELSE Route
    /\ pending' = None /\ holder' = None /\ connection' = NoConnection
    /\ login' = [c \in Callers |-> Idle]
    /\ command' = [s \in Settlers |-> Free]
    /\ torn' = (torn \/ \E s \in Settlers : CommandAt(s, "setting") /\ Is(s, "activate"))
    /\ overlap' = FALSE /\ behind' = {}
    /\ UNCHANGED <<account, settings>>

StartupTask ==
    /\ startup # None /\ startup' = None
    /\ authProxy' = startup
    /\ behind' = IF startup = Route THEN behind ELSE behind \cup {"login"}
    /\ UNCHANGED <<pending, holder, login, connection, account, calls, settings, command,
                   overlap, torn>>

\* get_session_status connects the account that was active.
RestoreSession ==
    /\ account /\ connection = NoConnection
    /\ \E via \in Connected(authProxy) : connection' = via /\ Lags(via)
    /\ UNCHANGED <<authProxy, pending, holder, login, account, calls, settings, command,
                   startup, overlap, torn>>

SettlerStep(s) ==
    \/ SaveRow(s) \/ SaveSecret(s) \/ FlagActive(s) \/ DeleteRow(s) \/ WriteSetting(s)
    \/ SetEnabled(s) \/ ReadSettings(s) \/ ApplyProxy(s) \/ FindAccount(s) \/ Reconnect(s)

ProxyNext ==
    \/ \E s \in Settlers : BeginCommand(s) \/ SettlerStep(s)
    \/ \E c \in Callers :
         \/ LoginStep(c) /\ UNCHANGED <<settings, command, startup, history>>
         \/ EndLogin(c)
    \/ StartupTask \/ RestoreSession \/ Restart

\* The program has just been started, with the settings a user has made.
ProxyInit ==
    /\ rows \in [Profiles -> {0, CHOOSE v \in Versions : TRUE}] /\ secrets = rows
    /\ chosen \in Saved \cup {None} /\ flagged = {chosen} \cap Saved
    /\ enabled \in BOOLEAN
    /\ command = [s \in Settlers |-> Free]
    /\ startup = IF Route = Direct THEN None ELSE Route
    /\ overlap = FALSE /\ torn = FALSE /\ behind = {} /\ calls = 0
    /\ authProxy = Route /\ pending = None /\ holder = None
    /\ login = [c \in Callers |-> Idle]
    /\ connection = NoConnection /\ account \in BOOLEAN

-----------------------------------------------------------------------------
Routes == {Direct} \cup Profiles \X Versions \X Versions

ProxyTypeOK ==
    /\ LoginTypeOK
    /\ {rows, secrets} \subseteq [Profiles -> Versions \cup {0}]
    /\ flagged \subseteq Saved /\ chosen \in Profiles \cup {None}
    /\ {enabled, overlap, torn} \subseteq BOOLEAN /\ calls \in 0 .. Budget
    /\ authProxy \in Routes /\ connection \in Routes \cup {NoConnection}
    /\ startup = None \/ startup \in Routes \ {Direct}
    /\ \A s \in Settlers : command[s].cfg \in Routes
    /\ behind \subseteq {"login", "connection"}

Settled ==
    /\ \A s \in Settlers : CommandAt(s, None)
    /\ \A c \in Callers : ~ (LoginAt(c, "signed") \/ LoginAt(c, "register"))

\* The proxy the interface shows (get_proxy_status).
Shown ==
    IF enabled /\ flagged # {} THEN Config(CHOOSE p \in flagged : TRUE) ELSE Direct

\* When no command is under way, unless the program once ended inside
\* set_active_proxy or a profile was activated while it was being edited:
\* one proxy at most is shown as active and it is the one chosen; the next
\* login goes through it, unless two commands were under way together or
\* the task spawned at the start came late; and so does the connection,
\* unless the login behind it was begun before the settings changed, or a
\* reconnect failed or found no bridge.
ProxyFollowsSettings ==
    Settled /\ ~ torn =>
        /\ flagged = {chosen} \cap Saved
        /\ overlap \/ "login" \in behind \/ authProxy = Shown
        /\ overlap \/ "connection" \in behind \/ connection \in {Shown, NoConnection}
=============================================================================
