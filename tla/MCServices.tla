------------------------------ MODULE MCServices ------------------------------
(***************************************************************************)
(* The parts of the program that share no state with the tree or with each *)
(* other: accounts and drives, proxies and logins, a tunnel, the versions  *)
(* of a file, its bytes, a paired folder, the WebDAV listener.             *)
(* A behaviour is one of one part, which `part' names; the others stay as  *)
(* they are when the program starts.                                       *)
(***************************************************************************)
EXTENDS TunnelPart, FiniteSets

CONSTANTS
    None, Users, Channels, Tasks, Commands,
    Callers, Budget, Profiles, Versions, Settlers,
    Documents, MaxHistory, MaxRestores,
    Keys, PlainChunk, Tag, Part, Slack, MaxSize,
    Names, Contents, Triggers,
    Openers, Listeners, Ports, Span, MaxForeign

VARIABLES
    registry, creds, legacy, auth, saved, session, drives, transport, owner,
    writer, readers, task, alone, begun, stale,
    authProxy, pending, holder, login, connection, account, calls,
    rows, proxySecrets, flagged, chosen, enabled, command, startup,
    overlap, torn, behind,
    file, answer, latest, restores,
    node, memoryKey, listed, get,
    disk, files, trigger,
    port, bound, sender, listener, foreign, lock, caller, crossed,
    part

\* None is nothing else; the commands are those there are; bounds are numbers.
ASSUME ServicesAssumption ==
    /\ None \notin {"next", "upload"} /\ None \notin Contents
    /\ \A f \in Names \X Contents : None # f
    /\ None \notin {"startup", "configure", "decide", "clear", "start", "announce"}
    /\ None \notin Openers /\ None \notin Listeners /\ None \notin Ports
    /\ Listeners \subseteq Nat /\ Ports \subseteq Nat
    /\ MaxHistory \in Nat

ASSUME AccountAssumption ==
    /\ None \notin Users /\ None \notin [accounts : Seq(Users), active : Users \cup {None}]
    /\ None \notin {"signed", "register", "read", "rewrite", "list", "enter", "look",
                    "connect", "choose", "swap", "forget", "purge", "unlist", "closing",
                    "clearing", "whoami", "ping", "drop", "refresh", "guard", "make",
                    "hold", "push", "store", "unlink", "owned", "retain"}
    /\ Commands \subseteq {"login", "status", "switch", "remove", "logout", "check",
                           "reconnect", "drives", "create", "link", "adopt", "delete",
                           "prune"}

A == INSTANCE AccountDrives
P == INSTANCE ProxySettings WITH secrets <- proxySecrets
V == INSTANCE FileVersions WITH Nothing <- None
B == INSTANCE FileContent
F == INSTANCE FolderSync
W == INSTANCE WebDavListener WITH Callers <- Openers

\* None is neither a login nor a route, and a profile that is saved has a version.
ASSUME ProxyAssumption ==
    /\ None \notin Profiles /\ None \notin Callers /\ 0 \notin Versions /\ Versions # {}
    /\ Budget \in Nat
    /\ None \notin P!Routes
    /\ None \notin [kind : {"phone", "qr"}, via : P!Routes, password : BOOLEAN]
    /\ None \notin {"request", "phone", "qr", "2fa", "signed", "register", "store", "secret",
                    "setting", "sync", "apply", "account", "reconnect", "save", "delete",
                    "activate", "toggle"}

\* Sizes are positive, and the slack takes the tags of the longest file.
ASSUME ContentAssumption ==
    /\ {PlainChunk, Tag, Part} \subseteq Nat \ {0} /\ {Slack, MaxSize} \subseteq Nat
    /\ B!Most(1, B!DivCeil(MaxSize, PlainChunk)) * Tag <= Slack
    /\ None \notin Keys /\ None \notin Nat /\ None \notin {"fetch", "open", "done"}
    /\ None \notin {"ok", "refused"}

accountVars == <<registry, creds, legacy, auth, saved, session, drives, transport, owner,
                 writer, readers, task, alone, begun, stale>>
proxyVars == <<authProxy, pending, holder, login, connection, account, calls, rows,
               proxySecrets, flagged, chosen, enabled, command, startup, overlap, torn,
               behind>>
versionVars == <<file, answer, latest, restores>>
contentVars == <<node, memoryKey, listed, get>>
folderVars == <<disk, files, trigger>>
davVars == <<port, bound, sender, listener, foreign, lock, caller, crossed>>
servicesVars == <<accountVars, proxyVars, tunnelVars, versionVars, contentVars,
                  folderVars, davVars, part>>

Init ==
    /\ part \in {"accounts", "proxies", "tunnel", "versions", "content", "folder", "dav"}
    /\ A!AccountInit /\ (part # "accounts" => alone /\ A!NewInstallation)
    /\ P!ProxyInit /\ (part # "proxies" => P!Saved = {} /\ ~ enabled /\ ~ account)
    /\ T!TunnelInit /\ (part # "tunnel" => ~ tls)
    /\ V!VersionInit /\ (part # "versions" => file.doc = CHOOSE d \in Documents : TRUE)
    /\ B!ContentInit /\ (part # "content" => node = [size |-> 0, key |-> None])
    /\ F!FolderInit /\ (part # "folder" => F!Present = {})
    /\ W!DavInit /\ Cardinality(foreign) <= MaxForeign
    /\ (part # "dav" => port = 1 /\ foreign = {} /\ W!Quiet)

Next ==
    \/ /\ part = "accounts" /\ A!AccountNext
       /\ UNCHANGED <<proxyVars, tunnelVars, versionVars, contentVars, folderVars,
                     davVars, part>>
    \/ /\ part = "proxies" /\ P!ProxyNext
       /\ UNCHANGED <<accountVars, tunnelVars, versionVars, contentVars, folderVars,
                     davVars, part>>
    \/ /\ part = "tunnel" /\ T!TunnelNext
       /\ UNCHANGED <<accountVars, proxyVars, versionVars, contentVars, folderVars,
                     davVars, part>>
    \/ /\ part = "versions" /\ V!VersionNext
       /\ UNCHANGED <<accountVars, proxyVars, tunnelVars, contentVars, folderVars,
                     davVars, part>>
    \/ /\ part = "content" /\ B!ContentNext
       /\ UNCHANGED <<accountVars, proxyVars, tunnelVars, versionVars, folderVars,
                     davVars, part>>
    \/ /\ part = "folder" /\ F!FolderNext
       /\ UNCHANGED <<accountVars, proxyVars, tunnelVars, versionVars, contentVars,
                     davVars, part>>
    \/ /\ part = "dav" /\ W!DavNext
       /\ UNCHANGED <<accountVars, proxyVars, tunnelVars, versionVars, contentVars,
                     folderVars, part>>

Spec == Init /\ [][Next]_servicesVars /\ A!AccountFairness

\* Users, profiles and keys are but names: of two beginnings that differ in
\* them alone the runs take one.
NamedInit ==
    /\ Init
    /\ part = "accounts" => auth \in {None, CHOOSE u \in Users : TRUE}
    /\ part = "proxies" => chosen \in {None, CHOOSE f \in Profiles : TRUE}
    /\ part = "content" => node.key \in {None, CHOOSE k \in Keys : TRUE}

NamedSpec == NamedInit /\ [][Next]_servicesVars /\ A!AccountFairness

\* Every variable has its type, in the tunnel the numbers of the two ends
\* never cross, and the login is held by who asks for its answer.
TypeOK ==
    /\ A!AccountTypeOK /\ P!ProxyTypeOK /\ T!TunnelTypeOK
    /\ V!VersionTypeOK /\ B!ContentTypeOK /\ F!FolderTypeOK /\ W!DavTypeOK

\* With one command at a time, whatever step the program ended after, the
\* account shown, its drives, the registry and the connection are of one
\* user (AccountDrives says with which exceptions).
SessionIsConsistent == A!SessionIsConsistent

\* With one command at a time, a drive leaves the file of its user only when
\* the user deletes it or the account, or a prune is not told of its channel.
DriveKept == A!DriveKept

\* Every command on accounts and drives ends, but for one pair of them.
CommandsEnd == A!CommandsEnd

\* Once the commands are done, the proxy shown as active, the one chosen
\* and the one connections go through are the same.
ProxyFollowsSettings == P!ProxyFollowsSettings

\* The history of a file holds the last documents that were current.
HistoryKeepsTen == V!HistoryKeepsTen

\* A read from a listed drive has the bytes its header names, whatever the
\* chunks and parts, and but for the last bytes those that were asked for.
ReadsWhatWasWritten == B!ReadsWhatWasWritten

\* A sync nobody disturbs leaves no local file that no child of the folder,
\* a trashed one included, has the name and hash of; and one that runs alone
\* uploads none again if all the children of that name have its hash.
SyncIsExact == F!SyncIsExact

\* The WebDAV server is shown where it listens, and can be stopped.
ListenerIsShown == W!ListenerIsShown
=============================================================================
