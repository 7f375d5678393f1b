-------------------------------- MODULE Vault --------------------------------
(***************************************************************************)
(* The vault: protofs-tauri/src/commands/vault.rs and the unlocking at the *)
(* start of the program (protofs-tauri/src/lib.rs).  The root key is kept  *)
(* in an envelope that a passphrase opens, if the user asks so in a secret *)
(* bound to the machine, and in memory while the vault is unlocked.        *)
(*                                                                         *)
(* A command is a chain of separate writes; commands run on several        *)
(* threads and the program may end between any two writes.  A wrong        *)
(* passphrase or phrase changes nothing, so that only right ones are       *)
(* given: an envelope is the key inside it, and a phrase is the key it     *)
(* spells.  The interface always says whether to remember.                 *)
(***************************************************************************)
CONSTANTS
    Keys,           \* root keys
    Askers,         \* the commands that may be under way together
    None

Places == {"change", "recover", "auto", "open"}

ASSUME VaultAssumption == None \notin Keys \cup Places

VARIABLES
    envelope,       \* the secret vault_envelope: its key, or None
    autoUnlock,     \* the secret vault_auto_unlock: a key, or None
    masterKey,      \* AppState::master_key: a key, or None if locked
    asker,          \* what each command is doing
    made,           \* the keys there are, here or on another machine
    phrases,        \* the recovery phrases the user has written down
    sealed,         \* history: the keys files were encrypted with
    replaced,       \* history: the keys a recovery put another in place of
    apart           \* history: copies of the key were left to differ

secrets == <<envelope, autoUnlock>>
history == <<sealed, replaced, apart>>
vaultVars == <<secrets, masterKey, asker, made, phrases, history>>

NoAsker == [at |-> None, key |-> None, remember |-> FALSE]
At(a, l) == asker[a].at = l
Goto(a, l) == asker' = [asker EXCEPT ![a].at = l]
Finish(a) == asker' = [asker EXCEPT ![a] = NoAsker]
Begin(a, l, key) ==
    /\ At(a, None)
    /\ \E r \in BOOLEAN :
         asker' = [asker EXCEPT ![a] = [at |-> l, key |-> key, remember |-> r]]

Differs(copy, key) == copy \notin {None, key}

-----------------------------------------------------------------------------
\* unlock_vault: the key of the envelope.
Unlock(a) ==
    /\ envelope # None /\ Begin(a, "auto", envelope)
    /\ UNCHANGED <<secrets, masterKey, made, phrases, history>>

\* Mutant: a change of passphrase makes a new key.
RootKeyAnew == Keys \ made

\* set_vault_passphrase: the key there is, or a new one.
RootKey == IF envelope # None THEN {envelope} ELSE Keys \ made

SetPassphrase(a) ==
    \E key \in RootKey :
      /\ Begin(a, "change", key)
      /\ made' = made \cup {key}
      /\ UNCHANGED <<secrets, masterKey, phrases, history>>

\* recover_vault: any valid phrase, whether it spells this key or another.
Recover(a) ==
    \E key \in phrases :
      /\ Begin(a, "recover", key)
      /\ UNCHANGED <<secrets, masterKey, made, phrases, history>>

\* The first write; a failure ends the command.
StoreEnvelope(a) ==
    /\ At(a, "change") \/ At(a, "recover")
    /\ \/ /\ envelope' = asker[a].key /\ Goto(a, "auto")
          /\ replaced' = IF At(a, "recover")
                         THEN replaced \cup ({envelope} \ {None, asker[a].key})
                         ELSE replaced
          /\ apart' = (apart \/ (envelope # asker[a].key
                                 /\ \E b \in Askers \ {a} : ~ At(b, None)))
       \/ Finish(a) /\ UNCHANGED <<envelope, replaced, apart>>
    /\ UNCHANGED <<autoUnlock, masterKey, made, phrases, sealed>>

\* The second: a failure to remember ends the command, one to forget is
\* passed over.
StoreAuto(a) ==
    /\ At(a, "auto")
    /\ \/ /\ autoUnlock' = IF asker[a].remember THEN asker[a].key ELSE None
          /\ Goto(a, "open") /\ apart' = apart
       \/ /\ asker[a].remember /\ Finish(a)
          /\ apart' = (apart \/ Differs(autoUnlock, asker[a].key)
                             \/ Differs(masterKey, asker[a].key))
          /\ autoUnlock' = autoUnlock
       \/ /\ ~ asker[a].remember /\ Goto(a, "open")
          /\ apart' = (apart \/ Differs(autoUnlock, asker[a].key))
          /\ autoUnlock' = autoUnlock
    /\ UNCHANGED <<envelope, masterKey, made, phrases, sealed, replaced>>

\* The third: the vault is unlocked.
OpenVault(a) ==
    /\ At(a, "open") /\ Finish(a)
    /\ masterKey' = asker[a].key
    /\ UNCHANGED <<secrets, made, phrases, history>>

\* lock_vault
LockVault ==
    /\ masterKey # None /\ masterKey' = None
    /\ UNCHANGED <<secrets, asker, made, phrases, history>>

\* get_recovery_phrase
ShowPhrase ==
    /\ envelope # None /\ phrases' = phrases \cup {envelope}
    /\ UNCHANGED <<secrets, masterKey, asker, made, history>>

\* An upload takes the key in memory; without one it is refused.
Seal ==
    /\ masterKey # None /\ sealed' = sealed \cup {masterKey}
    /\ UNCHANGED <<secrets, masterKey, asker, made, phrases, replaced, apart>>

\* The program ends and starts again, unlocked if the machine remembers.
Restart ==
    /\ masterKey' = autoUnlock
    /\ asker' = [a \in Askers |-> NoAsker]
    /\ apart' = (apart \/ \E a \in Askers :
                     At(a, "auto") /\ Differs(autoUnlock, asker[a].key))
    /\ UNCHANGED <<secrets, made, phrases, sealed, replaced>>

VaultNext ==
    \/ \E a \in Askers :
         \/ Unlock(a) \/ SetPassphrase(a) \/ Recover(a)
         \/ StoreEnvelope(a) \/ StoreAuto(a) \/ OpenVault(a)
    \/ LockVault \/ ShowPhrase \/ Seal \/ Restart

\* A new installation; the user may have a phrase from another machine.
VaultInit ==
    /\ envelope = None /\ autoUnlock = None /\ masterKey = None
    /\ asker = [a \in Askers |-> NoAsker]
    /\ phrases \in SUBSET Keys /\ made = phrases
    /\ sealed = {} /\ replaced = {} /\ apart = FALSE

VaultSpec == VaultInit /\ [][VaultNext]_vaultVars

-----------------------------------------------------------------------------
VaultTypeOK ==
    /\ {envelope, autoUnlock, masterKey} \subseteq Keys \cup {None}
    /\ asker \in [Askers -> [at : Places \cup {None},
                             key : Keys \cup {None}, remember : BOOLEAN]]
    /\ {made, phrases, sealed, replaced} \subseteq SUBSET Keys
    /\ phrases \subseteq made /\ apart \in BOOLEAN

\* When no command is under way, the key in memory and the one the machine
\* remembers are the envelope's, and every file is encrypted with the
\* envelope's key or with one that a recovery has replaced: whatever
\* write the program ended after, and with commands side by side.  It is not
\* so after a command stored another key while one was under way, nor after
\* a recovery with another key ended before its second write was done.
KeysAgree ==
    (\A a \in Askers : At(a, None)) /\ ~ apart =>
        /\ ~ Differs(masterKey, envelope) /\ ~ Differs(autoUnlock, envelope)
        /\ sealed \subseteq {envelope} \cup replaced
=============================================================================
