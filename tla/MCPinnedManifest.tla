-------------------------- MODULE MCPinnedManifest --------------------------
(***************************************************************************)
(* PinnedManifest from every channel of two messages, with the windows on  *)
(* early and late messages cut down to one message each and the limits of  *)
(* the searches to two, which a pin or a manifest more exceeds; beside a   *)
(* reader within ReaderBounds.                                             *)
(***************************************************************************)
EXTENDS PinnedManifest

FirstTwo == 2

\* The reader is not followed beyond what ReadIsFresh speaks of, and beside it
\* the channel gets at most one more message and the program does not end.
ReaderBounds ==
    reads > 0 =>
        /\ rd.pc \in {"fetch", "download"} /\ ~ missed /\ ~ rd.missed
        /\ lastId <= FirstTwo + 1 /\ crashes = 0
=============================================================================
