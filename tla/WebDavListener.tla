--------------------------- MODULE WebDavListener ---------------------------
(***************************************************************************)
(* The listener of the WebDAV server: start and stop of protofs-core/src/  *)
(* webdav/server.rs under the commands of protofs-tauri/src/commands/      *)
(* native (webdav.rs, webdav_mount.rs) and the task that starts it with    *)
(* the program (lib.rs).  The lock on the server puts the commands in a    *)
(* row; the task of a listener does not take it and, when it ends, clears  *)
(* the address of whatever listener there is by then.                      *)
(***************************************************************************)
EXTENDS Naturals, FiniteSets

CONSTANTS
    None,
    Callers,        \* the commands that may be under way together
    Listeners,      \* bounds the listeners of one run: 1, 2, ...
    Ports,          \* 1 .. n; the next number is 0 again (a u16 in the code)
    Span            \* how many ports after its own a start tries, 10 in the code

Width == Cardinality(Ports) + 1

VARIABLES
    port,           \* WebDavConfig: its port
    bound,          \* bound_addr: a port, or None
    sender,         \* shutdown_tx: the listener it stops, or None
    listener,       \* per listener what its task is doing, and its port
    foreign,        \* ports other programs listen on
    lock,           \* who holds the lock on the server, or None
    caller,         \* what each command is doing
    crossed         \* history: an address was cleared or left by a listener not its own

davVars == <<port, bound, sender, listener, foreign, lock, caller, crossed>>

Absent == [at |-> "absent", port |-> None]
Idle == [at |-> None, on |-> FALSE, port |-> None, was |-> FALSE]
Become(c, l) == caller' = [caller EXCEPT ![c].at = l]
Quiet == \A c \in Callers : caller[c] = Idle
Leave(c) == caller' = [caller EXCEPT ![c] = Idle] /\ lock' = None

Alive == {l \in Listeners : listener[l].at # "absent"}
Listening == {l \in Listeners : listener[l].at = "listening"}
New == CHOOSE l \in Listeners \ Alive : \A k \in Listeners \ Alive : l <= k

\* The ports a start tries, from p up; none when the last number overflows.
Tried(p) == {q \in Ports : p <= q /\ q <= (p + Span) % Width}
Free(p) == Tried(p) \ (foreign \cup {listener[l].port : l \in Alive})

-----------------------------------------------------------------------------
\* configure_webdav_command; the settings it saves are for the next run.
Configure(c) ==
    /\ caller[c].at = None
    /\ \E on \in BOOLEAN, p \in Ports :
         caller' = [caller EXCEPT ![c] =
                        [at |-> "configure", on |-> on, port |-> p, was |-> FALSE]]
    /\ UNCHANGED <<port, bound, sender, listener, foreign, lock, crossed>>

\* It looks whether the server runs ...
Look(c) ==
    /\ caller[c].at = "configure" /\ lock = None /\ lock' = c
    /\ caller' = [caller EXCEPT ![c].at = "decide", ![c].was = bound # None]
    /\ UNCHANGED <<port, bound, sender, listener, foreign, crossed>>

\* WebDavServer::stop, up to its write of the address.
Signal ==
    /\ sender' = None
    /\ listener' = IF sender = None THEN listener
                   ELSE [listener EXCEPT ![sender].at = "ending"]

\* ... and on which port, and stops, starts, does both or neither.
Decide(c) ==
    /\ caller[c].at = "decide"
    /\ LET old == IF bound = None THEN port ELSE bound
           want == caller[c].port
       IN \/ /\ caller[c].was /\ (caller[c].on => old # want)
             /\ Signal /\ Become(c, "clear") /\ UNCHANGED lock
          \/ /\ caller[c].on /\ ~ caller[c].was
             /\ Become(c, "start") /\ UNCHANGED <<sender, listener, lock>>
          \/ /\ IF caller[c].on THEN caller[c].was /\ old = want ELSE ~ caller[c].was
             /\ Leave(c) /\ UNCHANGED <<sender, listener>>
    /\ port' = IF caller[c].on THEN caller[c].port ELSE port
    /\ UNCHANGED <<bound, foreign, crossed>>

\* The rest of stop.
Clear(c) ==
    /\ caller[c].at = "clear" /\ bound' = None
    /\ IF caller[c].on THEN Become(c, "start") /\ UNCHANGED lock ELSE Leave(c)
    /\ UNCHANGED <<port, sender, listener, foreign, crossed>>

\* Mutant: a drive is mounted without a look at what runs.
MountAnyway(c) ==
    /\ caller[c].at = None /\ lock = None /\ lock' = c /\ Become(c, "start")
    /\ UNCHANGED <<port, bound, sender, listener, foreign, crossed>>

\* mount_virtual_drive_command starts what does not run, enabled or not.
Mount(c) ==
    /\ caller[c].at = None /\ lock = None /\ bound = None
    /\ lock' = c /\ Become(c, "start")
    /\ UNCHANGED <<port, bound, sender, listener, foreign, crossed>>

\* The task of setup gets the lock; it starts whatever runs by then.
StartUp(c) ==
    /\ caller[c].at = "startup" /\ lock = None /\ lock' = c /\ Become(c, "start")
    /\ crossed' = (crossed \/ Listening # {})
    /\ UNCHANGED <<port, bound, sender, listener, foreign>>

\* WebDavServer::start: the first free port, and a sender of its own; the
\* one there was is dropped, which no listener takes for a signal.
Bind(c) ==
    /\ caller[c].at = "start" /\ Alive # Listeners
    /\ IF Free(port) # {}
       THEN /\ sender' = New
            /\ listener' = [listener EXCEPT ![New] =
                 [at |-> "listening",
                  port |-> CHOOSE p \in Free(port) : \A q \in Free(port) : p <= q]]
            /\ Become(c, "announce") /\ UNCHANGED lock
       ELSE sender' = None /\ Leave(c) /\ UNCHANGED listener
    /\ UNCHANGED <<port, bound, foreign, crossed>>

Announce(c) ==
    /\ caller[c].at = "announce" /\ bound' = listener[sender].port /\ Leave(c)
    /\ UNCHANGED <<port, sender, listener, foreign, crossed>>

\* The task of a listener was told to end: it clears the address, then its
\* port is free.
EndTask(l) ==
    /\ listener[l].at = "ending" /\ listener' = [listener EXCEPT ![l].at = "ended"]
    /\ bound' = None
    /\ crossed' = (crossed \/ bound \notin {None, listener[l].port})
    /\ UNCHANGED <<port, sender, foreign, lock, caller>>

DropSocket(l) ==
    /\ listener[l].at = "ended" /\ listener' = [listener EXCEPT ![l] = Absent]
    /\ UNCHANGED <<port, bound, sender, foreign, lock, caller, crossed>>

DavNext ==
    \/ \E c \in Callers :
         \/ Configure(c) \/ Look(c) \/ Decide(c) \/ Clear(c)
         \/ Mount(c) \/ StartUp(c) \/ Bind(c) \/ Announce(c)
    \/ \E l \in Listeners : EndTask(l) \/ DropSocket(l)

\* The program starts: the server enabled or not, on any port, beside any
\* other programs.
DavInit ==
    /\ port \in Ports /\ bound = None /\ sender = None
    /\ listener = [l \in Listeners |-> Absent]
    /\ foreign \in SUBSET Ports /\ lock = None /\ crossed = FALSE
    /\ \E enabled \in {"startup", None} : LET first == CHOOSE c \in Callers : TRUE
       IN caller = [c \in Callers |->
            IF c = first THEN [Idle EXCEPT !.at = enabled] ELSE Idle]

-----------------------------------------------------------------------------
DavTypeOK ==
    /\ crossed \in BOOLEAN /\ port \in Ports
    /\ bound \in Ports \cup {None} /\ sender \in Listeners \cup {None}
    /\ \A l \in Listeners :
         /\ listener[l].at \in {"absent", "listening", "ending", "ended"}
         /\ listener[l].port \in Ports \cup {None}
    /\ lock \in Callers \cup {None}
    /\ \A c \in Callers : caller[c].at \in
         {None, "startup", "configure", "decide", "clear", "start", "announce"}

\* When no command is at work and no listener is ending, the server is shown
\* as running on a port exactly when one listener listens, on that port, and
\* the next stop will end it: whatever ports are taken, and in whatever
\* order commands and endings came.  It is not so once the task of a stopped
\* listener came after the start that followed and cleared its address, nor
\* once the start of the program came after a command that had started one.
ListenerIsShown ==
    (/\ \A c \in Callers : caller[c].at \in {None, "startup", "configure"}
     /\ Alive = Listening /\ ~ crossed)
    => IF bound = None THEN Listening = {}
       ELSE Listening = {sender} /\ listener[sender].port = bound
=============================================================================
