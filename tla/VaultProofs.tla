----------------------------- MODULE VaultProofs -----------------------------
(***************************************************************************)
(* The copies of the root key agree, for any number of keys and commands.  *)
(***************************************************************************)
EXTENDS Vault, TLAPS

Asking(a) == asker[a].at # None

\* A command past its first write has the envelope's key, and so has a
\* change of passphrase unless it makes the first envelope.
Followed ==
    /\ \A a \in Askers : asker[a].at \in {"auto", "open"} => asker[a].key = envelope
    /\ \A a \in Askers : asker[a].at = "change" => envelope \in {None, asker[a].key}

\* A copy that differs is about to be written.
MemoryFollows ==
    masterKey \notin {None, envelope} =>
        /\ masterKey \in replaced
        /\ \E a \in Askers : asker[a].at \in {"auto", "open"}
AutoFollows ==
    autoUnlock \notin {None, envelope} =>
        \E a \in Askers : asker[a].at = "auto"

\* A new key, or the envelope's, is on its way to the envelope.
FilesFollow == sealed \subseteq {envelope} \cup replaced

Typed ==
    /\ envelope \in made \cup {None} /\ masterKey \in Keys \cup {None}
    /\ autoUnlock \in Keys \cup {None} /\ apart \in BOOLEAN
    /\ asker \in [Askers -> [at : Places \cup {None},
                             key : Keys \cup {None}, remember : BOOLEAN]]
    /\ made \in SUBSET Keys /\ phrases \in SUBSET Keys /\ phrases \subseteq made
    /\ sealed \in SUBSET Keys /\ replaced \in SUBSET Keys
    /\ \A a \in Askers : Asking(a) => asker[a].key \in made

Agree == Followed /\ MemoryFollows /\ AutoFollows /\ FilesFollow

IInv == Typed /\ (~ apart => Agree)

-----------------------------------------------------------------------------
LEMMA InitHolds == VaultInit => IInv
<1> SUFFICES ASSUME VaultInit PROVE IInv
  OBVIOUS
<1>1. \A a \in Askers : asker[a].at = None
  BY DEF VaultInit, NoAsker
<1>2. Typed
  <2>1. asker \in [Askers -> [at : Places \cup {None},
                             key : Keys \cup {None}, remember : BOOLEAN]]
    BY DEF VaultInit, NoAsker
  <2> QED
    BY <1>1, <2>1 DEF VaultInit, Typed, Asking
<1>3. Agree
  BY <1>1, VaultAssumption
  DEF Places, VaultInit, Agree, Followed, MemoryFollows, AutoFollows, FilesFollow
<1> QED
  BY <1>2, <1>3 DEF IInv

\* Each action keeps the types.
Askings == [Askers -> [at : Places \cup {None},
                       key : Keys \cup {None}, remember : BOOLEAN]]
KnownKeys == \A a \in Askers : Asking(a) => asker[a].key \in made

\* The steps of one command.
LEMMA BeginTyped ==
  ASSUME Typed, NEW a \in Askers, NEW l \in Places,
         NEW key \in Keys, Begin(a, l, key), made \subseteq made', key \in made'
  PROVE  asker' \in Askings /\ KnownKeys'
<1>1. PICK r \in BOOLEAN :
        asker' = [asker EXCEPT ![a] = [at |-> l, key |-> key, remember |-> r]]
  BY DEF Begin
<1> QED
  BY <1>1 DEF Typed, Askings, KnownKeys, Asking

LEMMA GotoTyped ==
  ASSUME Typed, NEW a \in Askers, NEW l \in Places,
         Asking(a), Goto(a, l), made' = made
  PROVE  asker' \in Askings /\ KnownKeys'
  BY DEF Typed, Askings, KnownKeys, Asking, Goto

LEMMA FinishTyped ==
  ASSUME Typed, NEW a \in Askers, Finish(a), made' = made
  PROVE  asker' \in Askings /\ KnownKeys'
  BY DEF Typed, Askings, KnownKeys, Asking, Finish, NoAsker

\* The variables of Typed that are not about the commands.
Copies ==
    /\ envelope \in made \cup {None} /\ masterKey \in Keys \cup {None}
    /\ autoUnlock \in Keys \cup {None} /\ apart \in BOOLEAN
    /\ made \in SUBSET Keys /\ phrases \in SUBSET Keys /\ phrases \subseteq made
    /\ sealed \in SUBSET Keys /\ replaced \in SUBSET Keys

LEMMA TypedParts == Typed <=> Copies /\ asker \in Askings /\ KnownKeys
  BY DEF Typed, Copies, Askings, KnownKeys

LEMMA TypedPartsNext == Typed' <=> Copies' /\ (asker \in Askings)' /\ KnownKeys'
  BY DEF Typed, Copies, Askings, KnownKeys

LEMMA KeyOf == ASSUME Typed, NEW a \in Askers, Asking(a) PROVE asker[a].key \in made
  BY DEF Typed

\* The place a command is at is not that of one that does nothing.
LEMMA AtBusy ==
  ASSUME NEW a \in Askers, NEW l \in Places, At(a, l)
  PROVE  Asking(a)
  BY VaultAssumption DEF At, Asking

LEMMA StepTyped == Typed /\ [VaultNext]_vaultVars => Typed'
<1> SUFFICES ASSUME Typed, [VaultNext]_vaultVars PROVE Typed'
  OBVIOUS
<1>0. Copies /\ asker \in Askings /\ KnownKeys
  BY TypedParts
<1> SUFFICES Copies' /\ asker' \in Askings /\ KnownKeys'
  BY TypedPartsNext DEF Askings
<1> USE VaultAssumption DEF secrets, history
<1>1. ASSUME NEW a \in Askers, Unlock(a) PROVE Copies' /\ asker' \in Askings /\ KnownKeys'
  BY <1>0, <1>1, BeginTyped DEF Unlock, Copies, Places
<1>2. ASSUME NEW a \in Askers, SetPassphrase(a)
      PROVE  Copies' /\ asker' \in Askings /\ KnownKeys'
  <2>1. PICK key \in RootKey : Begin(a, "change", key) /\ made' = made \cup {key}
    BY <1>2 DEF SetPassphrase
  <2>2. key \in Keys
    BY <1>0, <2>1 DEF RootKey, Copies
  <2> QED
    BY <1>0, <1>2, <2>1, <2>2, BeginTyped DEF SetPassphrase, Copies, Places
<1>3. ASSUME NEW a \in Askers, Recover(a) PROVE Copies' /\ asker' \in Askings /\ KnownKeys'
  BY <1>0, <1>3, BeginTyped DEF Recover, Copies, Places
<1>4. ASSUME NEW a \in Askers, StoreEnvelope(a)
      PROVE  Copies' /\ asker' \in Askings /\ KnownKeys'
  <2>1. asker[a].key \in made
    BY <1>4, AtBusy, KeyOf DEF StoreEnvelope, Places
  <2>2. asker' \in Askings /\ KnownKeys'
    BY <1>4, AtBusy, GotoTyped, FinishTyped DEF StoreEnvelope, Places
  <2>3. apart' \in BOOLEAN
    BY <1>0, <1>4, Zenon DEF StoreEnvelope, Copies
  <2> QED
    BY <1>0, <1>4, <2>1, <2>2, <2>3 DEF StoreEnvelope, Copies
<1>5. ASSUME NEW a \in Askers, StoreAuto(a)
      PROVE  Copies' /\ asker' \in Askings /\ KnownKeys'
  <2>1. asker[a].key \in made
    BY <1>5, AtBusy, KeyOf DEF StoreAuto, Places
  <2>2. asker' \in Askings /\ KnownKeys'
    BY <1>5, AtBusy, GotoTyped, FinishTyped DEF StoreAuto, Places
  <2>3. apart' \in BOOLEAN
    BY <1>0, <1>5, Zenon DEF StoreAuto, Copies
  <2> QED
    BY <1>0, <1>5, <2>1, <2>2, <2>3 DEF StoreAuto, Copies
<1>6. ASSUME NEW a \in Askers, OpenVault(a)
      PROVE  Copies' /\ asker' \in Askings /\ KnownKeys'
  <2>1. asker[a].key \in made
    BY <1>6, AtBusy, KeyOf DEF OpenVault, Places
  <2> QED
    BY <1>0, <1>6, <2>1, FinishTyped DEF OpenVault, Copies
<1>7. CASE LockVault
  BY <1>0, <1>7 DEF LockVault, Copies, Askings, KnownKeys, Asking
<1>8. CASE ShowPhrase
  BY <1>0, <1>8 DEF ShowPhrase, Copies, Askings, KnownKeys, Asking
<1>9. CASE Seal
  BY <1>0, <1>9 DEF Seal, Copies, Askings, KnownKeys, Asking
<1>10. CASE Restart
  <2>1. asker' \in Askings /\ KnownKeys'
    BY <1>10 DEF Restart, NoAsker, Askings, KnownKeys, Asking
  <2>2. apart' \in BOOLEAN
    BY <1>0, <1>10, Zenon DEF Restart, Copies
  <2> QED
    BY <1>0, <1>10, <2>1, <2>2 DEF Restart, Copies
<1>11. CASE UNCHANGED vaultVars
  BY <1>0, <1>11 DEF vaultVars, Copies, Askings, KnownKeys, Asking
<1> QED
  BY <1>1, <1>2, <1>3, <1>4, <1>5, <1>6, <1>7, <1>8, <1>9, <1>10, <1>11 DEF VaultNext

-----------------------------------------------------------------------------
\* A command that begins is not past its first write, or has the envelope's
\* key; those past it stay.
LEMMA BeginAgrees ==
  ASSUME Typed, Agree, NEW a \in Askers, NEW l \in {"change", "recover", "auto"}, NEW key \in Keys,
         Begin(a, l, key), l = "auto" => key = envelope,
         l = "change" => envelope \in {None, key},
         UNCHANGED <<envelope, autoUnlock, masterKey, sealed, replaced>>
  PROVE  Agree'
<1>1. PICK r \in BOOLEAN :
        asker' = [asker EXCEPT ![a] = [at |-> l, key |-> key, remember |-> r]]
  BY DEF Begin
<1>2. /\ asker'[a].at = l /\ asker'[a].key = key
      /\ \A b \in Askers \ {a} : asker'[b] = asker[b]
  BY <1>1 DEF Typed
<1>3. asker[a].at \notin Places
  BY VaultAssumption DEF Begin, At, Places
<1>4. Followed'
  BY <1>2, <1>3 DEF Followed, Agree
<1>5. MemoryFollows' /\ AutoFollows'
  BY <1>2, <1>3 DEF MemoryFollows, AutoFollows, Agree, Places
<1> QED
  BY <1>4, <1>5 DEF Agree, FilesFollow

\* The first write: another key comes in only while no other command is
\* under way, so that no copy is written after it with the key before.
LEMMA StoreEnvelopeAgrees ==
  ASSUME Typed, Agree, NEW a \in Askers, StoreEnvelope(a), ~ apart'
  PROVE  Agree'
<1>0. asker[a].at \in {"change", "recover"} /\ asker[a] \in [at : Places \cup {None},
                             key : Keys \cup {None}, remember : BOOLEAN]
  BY DEF StoreEnvelope, At, Typed
<1>1. CASE Finish(a) /\ UNCHANGED <<envelope, replaced, apart>>
  <2>1. /\ asker'[a].at = None /\ \A b \in Askers \ {a} : asker'[b] = asker[b]
    BY <1>1 DEF Finish, Typed, NoAsker
  <2>2. UNCHANGED <<envelope, autoUnlock, masterKey, sealed, replaced>>
    BY <1>1 DEF StoreEnvelope
  <2> QED
    BY <1>0, <2>1, <2>2, VaultAssumption
    DEF Agree, Followed, MemoryFollows, AutoFollows, FilesFollow, Places
<1>2. CASE /\ envelope' = asker[a].key /\ Goto(a, "auto")
           /\ replaced' = IF At(a, "recover")
                          THEN replaced \cup ({envelope} \ {None, asker[a].key})
                          ELSE replaced
           /\ apart' = (apart \/ (envelope # asker[a].key
                                 /\ \E b \in Askers \ {a} : ~ At(b, None)))
  <2>1. /\ asker'[a].at = "auto" /\ asker'[a].key = envelope'
        /\ \A b \in Askers \ {a} : asker'[b] = asker[b]
    BY <1>2 DEF Goto, Typed
  <2>2. UNCHANGED <<autoUnlock, masterKey, sealed>>
    BY <1>2 DEF StoreEnvelope
  <2>3. envelope = envelope' \/ \A b \in Askers \ {a} : asker[b].at = None
    BY <1>2, Zenon DEF At
  <2>4. Followed'
    BY <2>1, <2>3, VaultAssumption DEF Agree, Followed, Places
  <2>5. AutoFollows'
    BY <2>1 DEF AutoFollows
  <2>6. masterKey \notin {None, envelope'} => masterKey \in replaced'
    <3>1. CASE envelope = envelope'
      BY <1>2, <3>1 DEF Agree, MemoryFollows
    <3>2. CASE \A b \in Askers \ {a} : asker[b].at = None
      <4>1. masterKey \in {None, envelope}
        BY <1>0, <3>2, VaultAssumption DEF Agree, MemoryFollows, Places
      <4>2. CASE asker[a].at = "recover"
        BY <1>2, <4>1, <4>2 DEF At
      <4>3. CASE asker[a].at = "change"
        BY <1>2, <4>1, <4>3 DEF Agree, Followed
      <4> QED
        BY <1>0, <4>2, <4>3
    <3> QED
      BY <2>3, <3>1, <3>2
  <2>7. FilesFollow'
    <3>1. envelope \in {None, envelope'} \cup replaced'
      BY <1>0, <1>2 DEF At, Agree, Followed
    <3>2. replaced \subseteq replaced'
      BY <1>2
    <3> QED
      BY <2>2, <3>1, <3>2, VaultAssumption DEF Agree, FilesFollow, Typed
  <2> QED
    BY <2>1, <2>2, <2>4, <2>5, <2>6, <2>7 DEF Agree, MemoryFollows
<1> QED
  BY <1>1, <1>2 DEF StoreEnvelope

\* The second write, done or failed.
LEMMA StoreAutoAgrees ==
  ASSUME Typed, Agree, NEW a \in Askers, StoreAuto(a), ~ apart'
  PROVE  Agree'
<1>0. asker[a].at = "auto" /\ asker[a].key = envelope /\ envelope \in Keys
  BY VaultAssumption DEF StoreAuto, At, Typed, Agree, Followed, Places, Asking
<1>1. UNCHANGED <<envelope, masterKey, sealed, replaced>>
  BY DEF StoreAuto
<1>2. FilesFollow'
  BY <1>1 DEF Agree, FilesFollow
<1>3. CASE Finish(a) /\ ~ Differs(autoUnlock, asker[a].key)
           /\ ~ Differs(masterKey, asker[a].key) /\ autoUnlock' = autoUnlock
  <2>1. /\ asker'[a].at = None /\ \A b \in Askers \ {a} : asker'[b] = asker[b]
    BY <1>3 DEF Finish, Typed, NoAsker
  <2>2. Followed'
    BY <1>1, <2>1, VaultAssumption DEF Agree, Followed, Places
  <2> QED
    BY <1>0, <1>1, <1>2, <1>3, <2>2 DEF Agree, MemoryFollows, AutoFollows, Differs
<1>4. CASE Goto(a, "open") /\ autoUnlock' \in {None, envelope}
  <2>1. /\ asker'[a].at = "open" /\ asker'[a].key = envelope
        /\ \A b \in Askers \ {a} : asker'[b] = asker[b]
    BY <1>0, <1>4 DEF Goto, Typed
  <2>2. Followed'
    BY <1>1, <2>1 DEF Agree, Followed
  <2> QED
    BY <1>1, <1>2, <1>4, <2>1, <2>2 DEF Agree, MemoryFollows, AutoFollows
<1>5. \/ Finish(a) /\ ~ Differs(autoUnlock, asker[a].key)
          /\ ~ Differs(masterKey, asker[a].key) /\ autoUnlock' = autoUnlock
      \/ Goto(a, "open") /\ autoUnlock' \in {None, envelope}
  <2>1. CASE /\ autoUnlock' = IF asker[a].remember THEN asker[a].key ELSE None
             /\ Goto(a, "open") /\ apart' = apart
    BY <1>0, <2>1
  <2>2. CASE /\ asker[a].remember /\ Finish(a)
             /\ apart' = (apart \/ Differs(autoUnlock, asker[a].key)
                                \/ Differs(masterKey, asker[a].key))
             /\ autoUnlock' = autoUnlock
    <3>1. ~ Differs(autoUnlock, asker[a].key) /\ ~ Differs(masterKey, asker[a].key)
      BY <2>2, Zenon
    <3> QED
      BY <2>2, <3>1
  <2>3. CASE /\ ~ asker[a].remember /\ Goto(a, "open")
             /\ apart' = (apart \/ Differs(autoUnlock, asker[a].key))
             /\ autoUnlock' = autoUnlock
    <3>1. ~ Differs(autoUnlock, asker[a].key)
      BY <2>3, Zenon
    <3> QED
      BY <1>0, <2>3, <3>1 DEF Differs
  <2> QED
    BY <2>1, <2>2, <2>3 DEF StoreAuto
<1> QED
  BY <1>3, <1>4, <1>5

LEMMA OpenVaultAgrees ==
  ASSUME Typed, Agree, NEW a \in Askers, OpenVault(a)
  PROVE  Agree'
<1>1. asker[a].at = "open" /\ asker[a].key = envelope
  BY DEF OpenVault, At, Agree, Followed
<1>2. /\ asker'[a].at = None /\ \A b \in Askers \ {a} : asker'[b] = asker[b]
  BY DEF OpenVault, Finish, Typed, NoAsker
<1>3. /\ masterKey' = envelope
      /\ UNCHANGED <<envelope, autoUnlock, sealed, replaced>>
  BY <1>1 DEF OpenVault, secrets, history
<1>4. Followed'
  BY <1>2, <1>3, VaultAssumption DEF Agree, Followed, Places
<1>5. AutoFollows'
  BY <1>1, <1>2, <1>3 DEF Agree, AutoFollows
<1> QED
  BY <1>3, <1>4, <1>5 DEF Agree, MemoryFollows, FilesFollow

\* What the machine remembers becomes the key in memory.
LEMMA RestartAgrees ==
  ASSUME Typed, Agree, Restart, ~ apart'
  PROVE  Agree'
<1>1. /\ masterKey' = autoUnlock
      /\ UNCHANGED <<envelope, autoUnlock, sealed, replaced>>
  BY DEF Restart, secrets
<1>2. \A a \in Askers : asker'[a].at = None
  BY DEF Restart, NoAsker
<1>3. \A a \in Askers : ~ (At(a, "auto") /\ Differs(autoUnlock, asker[a].key))
  BY Zenon DEF Restart
<1>4. autoUnlock \in {None, envelope}
  BY <1>3 DEF Agree, AutoFollows, Followed, At, Differs
<1>5. Followed'
  BY <1>2, VaultAssumption DEF Followed, Places
<1> QED
  BY <1>1, <1>4, <1>5 DEF Agree, MemoryFollows, AutoFollows, FilesFollow

\* Once copies have been left apart the history says so for good.
LEMMA ApartStays == [VaultNext]_vaultVars /\ ~ apart' => ~ apart
<1> SUFFICES ASSUME [VaultNext]_vaultVars, apart PROVE apart'
  OBVIOUS
<1>1. ASSUME NEW a \in Askers,
             Unlock(a) \/ SetPassphrase(a) \/ Recover(a) \/ OpenVault(a)
      PROVE  apart'
  BY <1>1, Zenon DEF Unlock, SetPassphrase, Recover, OpenVault, history
<1>2. ASSUME NEW a \in Askers, StoreEnvelope(a) PROVE apart'
  BY <1>2, Zenon DEF StoreEnvelope
<1>3. ASSUME NEW a \in Askers, StoreAuto(a) PROVE apart'
  BY <1>3, Zenon DEF StoreAuto
<1>4. CASE LockVault \/ ShowPhrase \/ Seal \/ Restart \/ UNCHANGED vaultVars
  BY <1>4, Zenon DEF LockVault, ShowPhrase, Seal, Restart, vaultVars, history
<1> QED
  BY <1>1, <1>2, <1>3, <1>4, Zenon DEF VaultNext

LEMMA StepAgrees ==
  ASSUME Typed, Agree, [VaultNext]_vaultVars, ~ apart'
  PROVE  Agree'
<1>1. ASSUME NEW a \in Askers, Unlock(a) PROVE Agree'
  <2>1. envelope \in Keys /\ Begin(a, "auto", envelope)
    BY <1>1 DEF Unlock, Typed
  <2> QED
    BY <1>1, <2>1, BeginAgrees DEF Unlock, secrets, history
<1>2. ASSUME NEW a \in Askers, SetPassphrase(a) PROVE Agree'
  <2>1. PICK key \in RootKey : Begin(a, "change", key)
    BY <1>2 DEF SetPassphrase
  <2>2. key \in Keys /\ envelope \in {None, key}
    BY <2>1 DEF RootKey, Typed
  <2> QED
    BY <1>2, <2>1, <2>2, BeginAgrees, VaultAssumption DEF SetPassphrase, secrets, history, Places
<1>3. ASSUME NEW a \in Askers, Recover(a) PROVE Agree'
  <2>1. PICK key \in phrases : Begin(a, "recover", key)
    BY <1>3 DEF Recover
  <2>2. key \in Keys
    BY <2>1 DEF Typed
  <2> QED
    BY <1>3, <2>1, <2>2, BeginAgrees DEF Recover, secrets, history
<1>4. ASSUME NEW a \in Askers, StoreEnvelope(a) PROVE Agree'
  BY <1>4, StoreEnvelopeAgrees
<1>5. ASSUME NEW a \in Askers, StoreAuto(a) PROVE Agree'
  BY <1>5, StoreAutoAgrees
<1>6. ASSUME NEW a \in Askers, OpenVault(a) PROVE Agree'
  BY <1>6, OpenVaultAgrees
<1>7. CASE LockVault
  BY <1>7 DEF LockVault, secrets, history,
             Agree, Followed, MemoryFollows, AutoFollows, FilesFollow
<1>8. CASE ShowPhrase
  BY <1>8 DEF ShowPhrase, secrets, history,
             Agree, Followed, MemoryFollows, AutoFollows, FilesFollow
<1>9. CASE Seal
  BY <1>9 DEF Seal, secrets,
             Agree, Followed, MemoryFollows, AutoFollows, FilesFollow
<1>10. CASE Restart
  BY <1>10, RestartAgrees
<1>11. CASE UNCHANGED vaultVars
  BY <1>11 DEF vaultVars, secrets, history,
             Agree, Followed, MemoryFollows, AutoFollows, FilesFollow
<1> QED
  BY <1>1, <1>2, <1>3, <1>4, <1>5, <1>6, <1>7, <1>8, <1>9, <1>10, <1>11 DEF VaultNext

-----------------------------------------------------------------------------
\* For any number of keys and of commands under way together, and wherever
\* the program ends: the copies of the root key agree and no file is
\* encrypted with a key that is nowhere, unless two commands met or a
\* recovery was cut short (set_vault_passphrase, unlock_vault,
\* recover_vault).
THEOREM KeysStayTogether == VaultSpec => []KeysAgree
<1>1. VaultInit => IInv
  BY InitHolds
<1>2. IInv /\ [VaultNext]_vaultVars => IInv'
  <2> SUFFICES ASSUME IInv, [VaultNext]_vaultVars PROVE IInv'
    OBVIOUS
  <2>1. Typed'
    BY StepTyped DEF IInv
  <2>2. ASSUME ~ apart' PROVE Agree'
    BY <2>2, ApartStays, StepAgrees DEF IInv
  <2> QED
    BY <2>1, <2>2 DEF IInv
<1>3. IInv => KeysAgree
  BY VaultAssumption DEF IInv, Agree, KeysAgree, At, Differs, Places,
     Followed, MemoryFollows, AutoFollows, FilesFollow
<1> QED
  BY <1>1, <1>2, <1>3, PTL DEF VaultSpec

\* The keys of the copies, of the files and of the commands are keys that were
\* made or recovered from a phrase, and a phrase spells one of them.
THEOREM VaultTyped == VaultSpec => []VaultTypeOK
<1>1. VaultInit => Typed
  BY InitHolds DEF IInv
<1>2. Typed /\ [VaultNext]_vaultVars => Typed'
  BY StepTyped
<1>3. Typed => VaultTypeOK
  BY DEF Typed, VaultTypeOK
<1> QED
  BY <1>1, <1>2, <1>3, PTL DEF VaultSpec
=============================================================================
