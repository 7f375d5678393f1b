-------------------------- MODULE MCTreeVaultTunnel --------------------------
(***************************************************************************)
(* The tree of a drive, the vault and a tunnel to a proxy, which share no  *)
(* state, one behaviour for one of them: TreeStore on three folders and    *)
(* one file, enough for a folder moved into a folder inside another, and   *)
(* for a node with a parent, a child and a bystander; Vault with two keys  *)
(* and two commands at a time; and the tunnel.                             *)
(***************************************************************************)
EXTENDS TreeStore, Vault, TunnelPart, TLC

VARIABLE part       \* "tree", "vault" or "tunnel"

FolderSymmetry == Permutations(Folders)

partsVars == <<tree, vaultVars, tunnelVars, part>>

PartsInit ==
    /\ part \in {"tree", "vault", "tunnel"}
    /\ Init
    /\ VaultInit /\ (part # "vault" => phrases = {})
    /\ T!TunnelInit /\ (part # "tunnel" => ~ tls)

PartsNext ==
    \/ part = "tree" /\ Next /\ UNCHANGED <<vaultVars, tunnelVars, part>>
    \/ part = "vault" /\ VaultNext /\ UNCHANGED <<tree, tunnelVars, part>>
    \/ part = "tunnel" /\ T!TunnelNext /\ UNCHANGED <<tree, vaultVars, part>>

PartsSpec == PartsInit /\ [][PartsNext]_partsVars
=============================================================================
