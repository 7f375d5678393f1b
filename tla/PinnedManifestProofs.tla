------------------------ MODULE PinnedManifestProofs ------------------------
(***************************************************************************)
(* That an update never loses the manifest of a channel, whatever fails    *)
(* and wherever it is cut short; that it leaves one pin and acts as one    *)
(* write when it passes nothing over; and that a reader beside it is not   *)
(* behind.                                                                 *)
(* The first argument is in Replaced: from the moment an update may delete *)
(* anything, the message it has chosen holds what it writes, is a          *)
(* manifest, and is not among those to be deleted.  The others are in      *)
(* Ended, Writes and Told.                                                 *)
(***************************************************************************)
EXTENDS PinnedManifest, NatFacts, FiniteSetTheorems

Phases == {"idle", "upload", "fetch", "edit", "send", "pin", "unpin", "delete"}

UpdateState == [pc: Phases, ver: Nat, k: Nat, found: SUBSET Nat, pinned: SUBSET Nat,
                primary: Nat, target: Nat, todo: SUBSET Nat]

ChannelTyped ==
    /\ ch = [i \in Ids |-> ch[i]] /\ Ids \subseteq Nat \ {0}
    /\ \A i \in Ids : ch[i] \in Message
    /\ lastId \in Nat /\ \A i \in Ids : i <= lastId
    /\ upd \in UpdateState /\ acked \in Nat /\ started \in Nat

\* Updates are numbered upwards.
Numbered ==
    /\ acked < 3 + started /\ upd.ver < 3 + started
    /\ upd.pc # "idle" => acked < upd.ver

\* What an update remembers of the channel is there.
Remembered ==
    /\ upd.found \subseteq Manifests
    /\ upd.primary \in Manifests \cup {0}
    /\ upd.pc = "edit" => upd.target \in Manifests
    /\ upd.pc # "fetch" => upd.primary = 0
    /\ upd.pc = "delete" => upd.found = {}

Replaced ==
    /\ upd.pc \in {"pin", "unpin", "delete"} =>
         upd.target \in Manifests /\ ch[upd.target].body = upd.ver
    /\ upd.pc = "delete" => upd.target \notin upd.todo

IInv == ChannelTyped /\ Numbered /\ Remembered /\ Replaced /\ AckedIsKept

-----------------------------------------------------------------------------
LEMMA PinFields ==
    ASSUME NEW m \in Message, NEW b \in BOOLEAN
    PROVE  /\ WithPin(m, b) \in Message
           /\ WithPin(m, b).manifest = m.manifest /\ WithPin(m, b).body = m.body
BY DEF Message, WithPin

LEMMA BodyFields ==
    ASSUME NEW m \in Message, NEW v \in Nat
    PROVE  /\ WithBody(m, v) \in Message
           /\ WithBody(m, v).manifest = m.manifest /\ WithBody(m, v).body = v
BY DEF Message, WithBody

\* A pin or an unpin changes neither the ids nor the manifests.
LEMMA RepinSame ==
    ASSUME ChannelTyped, NEW i, NEW b \in BOOLEAN,
           ch' = [ch EXCEPT ![i] = WithPin(@, b)]
    PROVE  /\ Ids' = Ids /\ Manifests' = Manifests
           /\ \A j \in Ids : ch'[j].body = ch[j].body /\ ch'[j] \in Message
           /\ ch' = [j \in Ids' |-> ch'[j]]
<1>1. Ids' = Ids /\ ch' = [j \in Ids' |-> ch'[j]]
  BY DEF Ids, ChannelTyped
<1>2. \A j \in Ids : ch'[j] = ch[j] \/ ch'[j] = WithPin(ch[j], b)
  BY DEF ChannelTyped
<1>3. \A j \in Ids : /\ ch'[j].manifest = ch[j].manifest
                     /\ ch'[j].body = ch[j].body /\ ch'[j] \in Message
  BY <1>2, PinFields DEF ChannelTyped
<1> QED BY <1>1, <1>3 DEF Manifests

\* Adding a message after the last keeps the others.
LEMMA AddMessage ==
    ASSUME ChannelTyped, NEW n \in Message, lastId' = lastId + 1,
           ch' = [i \in Ids \cup {lastId + 1} |-> IF i \in Ids THEN ch[i] ELSE n]
    PROVE  /\ Ids' = Ids \cup {lastId + 1} /\ lastId + 1 \notin Ids
           /\ ch' = [j \in Ids' |-> ch'[j]]
           /\ Ids' \subseteq Nat \ {0} /\ \A i \in Ids' : i <= lastId'
           /\ \A i \in Ids' : ch'[i] \in Message
           /\ \A i \in Ids : ch'[i] = ch[i]
           /\ ch'[lastId + 1] = n
           /\ Manifests \subseteq Manifests'
<1>1. Ids' = Ids \cup {lastId + 1} /\ lastId + 1 \notin Ids
  BY DEF Ids, ChannelTyped
<1>2. /\ \A i \in Ids : ch'[i] = ch[i]
      /\ ch'[lastId + 1] = n
      /\ ch' = [j \in Ids' |-> ch'[j]]
  BY <1>1 DEF ChannelTyped
<1>3. Ids' \subseteq Nat \ {0} /\ \A i \in Ids' : i <= lastId'
  BY <1>1 DEF ChannelTyped
<1>4. \A i \in Ids' : ch'[i] \in Message
  BY <1>1, <1>2 DEF ChannelTyped
<1>5. Manifests \subseteq Manifests'
  BY <1>1, <1>2 DEF Manifests
<1> QED BY <1>1, <1>2, <1>3, <1>4, <1>5

-----------------------------------------------------------------------------
\* A manifest that is at least as new as the last acknowledged one stays.
LEMMA StaysKept ==
    ASSUME ChannelTyped, AckedIsKept, acked' = acked, Manifests \subseteq Manifests',
           \A i \in Manifests : ch'[i].body = ch[i].body \/ ch'[i].body >= acked
    PROVE  AckedIsKept'
BY DEF AckedIsKept

LEMMA IdleTyped == IdleUpdate \in UpdateState /\ IdleUpdate.pc = "idle"
                   /\ IdleUpdate.ver = 0 /\ IdleUpdate.found = {}
                   /\ IdleUpdate.primary = 0
BY DEF IdleUpdate, UpdateState, Phases

LEMMA InitKept == Init => IInv
<1> SUFFICES ASSUME Init PROVE IInv
  OBVIOUS
<1>1. /\ lastId \in Nat /\ upd = IdleUpdate /\ acked = 0 /\ started = 0
  BY ChannelAssumption DEF Init
<1>2. PICK D \in SUBSET (1..lastId) : ch \in [D -> Found]
  BY DEF Init
<1>3. Found \subseteq Message
  BY DEF Found, Message
<1>4. Ids = D
  BY <1>2 DEF Ids
<1>5. ChannelTyped
  BY <1>1, <1>2, <1>3, <1>4, IdleTyped DEF ChannelTyped
<1>6. Numbered /\ AckedIsKept
  BY <1>1, IdleTyped DEF Numbered, AckedIsKept
<1>7. Remembered /\ Replaced
  BY <1>1, IdleTyped DEF Remembered, Replaced
<1> QED BY <1>5, <1>6, <1>7 DEF IInv

\* What a step does to the update record is read off its fields.
LEMMA QuietStep ==
    ASSUME IInv, UNCHANGED <<ch, lastId, acked, upd, started>>
    PROVE  IInv'
BY DEF IInv, ChannelTyped, Numbered, Remembered, Replaced, AckedIsKept, Manifests, Ids

LEMMA BackToIdle ==
    ASSUME IInv, upd' = IdleUpdate, UNCHANGED <<ch, lastId, acked, started>>
    PROVE  IInv'
<1>1. ChannelTyped'
  BY IdleTyped DEF IInv, ChannelTyped, Ids
<1>2. Numbered' /\ AckedIsKept'
  BY IdleTyped DEF IInv, Numbered, AckedIsKept, Manifests, Ids, ChannelTyped
<1>3. Remembered' /\ Replaced'
  BY IdleTyped DEF Remembered, Replaced
<1> QED BY <1>1, <1>2, <1>3 DEF IInv

LEMMA StepStart == ASSUME IInv, Start PROVE IInv'
<1>1. /\ upd.pc = "idle" /\ started' = started + 1
      /\ upd' = [IdleUpdate EXCEPT !.pc = "upload", !.ver = 3 + started]
      /\ UNCHANGED <<ch, lastId, acked>>
  BY DEF Start
<1>2. ChannelTyped'
  <2>1. started \in Nat /\ 3 + started \in Nat
    BY DEF IInv, ChannelTyped
  <2>2. upd' \in UpdateState
    BY <1>1, <2>1, IdleTyped DEF UpdateState, Phases
  <2> QED BY <1>1, <2>1, <2>2 DEF IInv, ChannelTyped, Ids
<1>3. Numbered' /\ AckedIsKept'
  BY <1>1, IdleTyped DEF IInv, Numbered, AckedIsKept, Manifests, Ids, ChannelTyped, UpdateState
<1>4. Remembered' /\ Replaced'
  BY <1>1, IdleTyped DEF Remembered, Replaced, UpdateState
<1> QED BY <1>2, <1>3, <1>4 DEF IInv

LEMMA StepUpload == ASSUME IInv, Upload PROVE IInv'
<1>1. upd.pc = "upload" /\ UNCHANGED <<ch, lastId, acked, started>>
  BY DEF Upload, bounds
<1>2. CASE upd' = IdleUpdate
  BY <1>1, <1>2, BackToIdle
<1>3. CASE upd' = [upd EXCEPT !.pc = "fetch"]
  <2>1. ChannelTyped'
    BY <1>1, <1>3 DEF IInv, ChannelTyped, Ids, UpdateState, Phases
  <2>2. Numbered' /\ AckedIsKept'
    BY <1>1, <1>3 DEF IInv, Numbered, AckedIsKept, Manifests, Ids, ChannelTyped, UpdateState
  <2>3. Remembered' /\ Replaced'
    BY <1>1, <1>3 DEF IInv, Remembered, Replaced, ChannelTyped, UpdateState, Manifests, Ids
  <2> QED BY <2>1, <2>2, <2>3 DEF IInv
<1> QED BY <1>2, <1>3 DEF Upload

\* The searches add manifests of the channel to what is remembered.
LEMMA CollectRemembers ==
    ASSUME ChannelTyped, Remembered, NEW A, NEW u \in Collect(upd, A)
    PROVE  /\ u \in UpdateState /\ u.pc = upd.pc /\ u.ver = upd.ver /\ u.k = upd.k
           /\ u.todo = upd.todo /\ u.target = upd.target
           /\ u.found \subseteq Manifests /\ u.primary \in Manifests \cup {0}
<1>1. PICK p \in Manifests \cup {0} :
        u = [upd EXCEPT !.found = @ \cup (A \cap Manifests),
                        !.pinned = @ \cup (A \cap Pinned), !.primary = p]
  BY DEF Collect, Remembered
<1>2. Manifests \subseteq Nat /\ Pinned \subseteq Nat /\ p \in Nat
  BY DEF ChannelTyped, Manifests, Pinned
<1> QED BY <1>1, <1>2 DEF ChannelTyped, UpdateState, Remembered

LEMMA TargetIsManifest ==
    ASSUME ChannelTyped, NEW u \in UpdateState,
           u.found \subseteq Manifests, u.primary \in Manifests \cup {0}
    PROVE  Target(u) \in Nat /\ (Target(u) # 0 => Target(u) \in Manifests)
<1>1. u.found # {} => Min(u.found) \in u.found
  BY MinIsMember DEF UpdateState
<1>2. Manifests \subseteq Nat
  BY DEF Manifests, ChannelTyped
<1> QED BY <1>1, <1>2 DEF Target

LEMMA StepFetch == ASSUME IInv, Fetch PROVE IInv'
<1>1. upd.pc = "fetch" /\ UNCHANGED <<ch, lastId, acked, started>>
  BY DEF Fetch, bounds
<1>2. PICK u : /\ u = upd \/ \E A : u \in Collect(upd, A)
               /\ upd' = IF u.k < 6 THEN [u EXCEPT !.k = @ + 1]
                   ELSE [u EXCEPT !.k = 1, !.primary = 0, !.target = Target(u),
                                  !.pc = IF Target(u) = 0 THEN "send" ELSE "edit"]
  BY DEF Fetch
<1>3. /\ u \in UpdateState /\ u.pc = upd.pc /\ u.ver = upd.ver
      /\ u.found \subseteq Manifests /\ u.primary \in Manifests \cup {0}
  BY <1>2, CollectRemembers DEF IInv, ChannelTyped, Remembered
<1>4. Target(u) \in Nat /\ (Target(u) # 0 => Target(u) \in Manifests)
  BY <1>3, TargetIsManifest DEF IInv
<1>5. /\ upd' \in UpdateState /\ upd'.pc \in {"fetch", "send", "edit"}
      /\ upd'.ver = upd.ver /\ upd'.found = u.found
      /\ upd'.primary \in Manifests \cup {0}
      /\ upd'.pc # "fetch" => upd'.primary = 0
      /\ upd'.pc = "edit" => upd'.target \in Manifests
  <2>1. CASE u.k < 6
    BY <1>1, <1>2, <1>3, <2>1 DEF UpdateState
  <2>2. CASE ~(u.k < 6)
    BY <1>2, <1>3, <1>4, <2>2 DEF UpdateState, Phases
  <2> QED BY <2>1, <2>2
<1>6. Manifests' = Manifests
  BY <1>1 DEF Manifests, Ids
<1>7. ChannelTyped'
  BY <1>1, <1>5 DEF IInv, ChannelTyped, Ids
<1>8. Numbered' /\ AckedIsKept'
  BY <1>1, <1>5, <1>6 DEF IInv, Numbered, AckedIsKept
<1>9. Remembered' /\ Replaced'
  BY <1>3, <1>5, <1>6 DEF Remembered, Replaced
<1> QED BY <1>7, <1>8, <1>9 DEF IInv

LEMMA StepEdit == ASSUME IInv, Edit PROVE IInv'
<1>1. upd.pc = "edit" /\ UNCHANGED <<lastId, acked, started>>
  BY DEF Edit, bounds
<1> DEFINE i == upd.target
<1>2. /\ i \in Manifests /\ i \in Ids /\ ch[i] \in Message
      /\ upd \in UpdateState /\ upd.ver \in Nat /\ upd.ver > acked
  BY <1>1 DEF IInv, Remembered, Manifests, ChannelTyped, Numbered, UpdateState
<1>3. PICK edited \in BOOLEAN :
        /\ ch' = IF edited THEN [ch EXCEPT ![i] = WithBody(@, upd.ver)] ELSE ch
        /\ \/ upd' = [upd EXCEPT !.pc = "send"]
           \/ edited /\ upd' = [upd EXCEPT !.pc = "pin"]
  BY <1>2 DEF Edit
<1>4. Ids' = Ids /\ ch' = [j \in Ids' |-> ch'[j]]
  BY <1>3 DEF IInv, ChannelTyped, Ids
<1>5. \A j \in Ids : /\ ch'[j] \in Message /\ ch'[j].manifest = ch[j].manifest
                     /\ ch'[j].body = ch[j].body \/ ch'[j].body = upd.ver
  <2>1. \A j \in Ids : ch'[j] = ch[j] \/ ch'[j] = WithBody(ch[j], upd.ver)
    BY <1>3 DEF IInv, ChannelTyped
  <2>2. \A j \in Ids : ch[j] \in Message
    BY DEF IInv, ChannelTyped
  <2>3. \A j \in Ids : /\ WithBody(ch[j], upd.ver) \in Message
                       /\ WithBody(ch[j], upd.ver).manifest = ch[j].manifest
                       /\ WithBody(ch[j], upd.ver).body = upd.ver
    BY <1>2, <2>2, BodyFields
  <2> QED BY <2>1, <2>2, <2>3
<1>6. Manifests' = Manifests
  BY <1>4, <1>5 DEF Manifests
<1>7. /\ upd' \in UpdateState /\ upd'.pc \in {"send", "pin"} /\ upd'.ver = upd.ver
      /\ upd'.found = upd.found /\ upd'.primary = upd.primary /\ upd'.target = i
  BY <1>2, <1>3 DEF UpdateState, Phases
<1>8. ChannelTyped'
  BY <1>1, <1>4, <1>5, <1>7 DEF IInv, ChannelTyped
<1>9. AckedIsKept'
  <2>1. \A j \in Manifests : ch'[j].body = ch[j].body \/ ch'[j].body >= acked
    BY <1>2, <1>5 DEF Manifests, IInv, ChannelTyped
  <2> QED BY <1>1, <1>6, <2>1, StaysKept DEF IInv
<1>10. Numbered' /\ Remembered'
  BY <1>1, <1>2, <1>6, <1>7 DEF IInv, Numbered, Remembered
<1>11. Replaced'
  <2>1. upd'.pc = "pin" => ch'[i].body = upd.ver
    BY <1>2, <1>3, BodyFields DEF IInv, ChannelTyped, UpdateState, Phases
  <2> QED BY <1>2, <1>6, <1>7, <2>1 DEF Replaced
<1> QED BY <1>8, <1>9, <1>10, <1>11 DEF IInv

LEMMA StepSend == ASSUME IInv, Send PROVE IInv'
<1>1. upd.pc = "send" /\ UNCHANGED <<acked, started>>
  BY DEF Send, bounds
<1> DEFINE n == [manifest |-> TRUE, pinned |-> FALSE, body |-> upd.ver]
<1>2. n \in Message /\ n.manifest /\ n.body = upd.ver /\ upd \in UpdateState
      /\ upd.ver \in Nat /\ upd.ver > acked
  BY <1>1 DEF IInv, ChannelTyped, UpdateState, Message, Numbered
<1>3. CASE UNCHANGED <<ch, lastId>> /\ upd' = IdleUpdate
  BY <1>1, <1>3, BackToIdle
<1>4. CASE /\ ch' = [j \in Ids \cup {lastId + 1} |-> IF j \in Ids THEN ch[j] ELSE n]
           /\ lastId' = lastId + 1
           /\ \/ upd' = IdleUpdate
              \/ upd' = [upd EXCEPT !.pc = "pin", !.target = lastId + 1]
  <2> HIDE DEF n
  <2>1. /\ Ids' = Ids \cup {lastId + 1} /\ ch' = [j \in Ids' |-> ch'[j]]
        /\ Ids' \subseteq Nat \ {0} /\ \A j \in Ids' : j <= lastId' /\ ch'[j] \in Message
        /\ \A j \in Ids : ch'[j] = ch[j]
        /\ ch'[lastId + 1] = n /\ Manifests \subseteq Manifests'
    BY <1>2, <1>4, AddMessage DEF IInv
  <2>2. /\ upd' \in UpdateState /\ upd'.pc \in {"idle", "pin"}
        /\ upd'.ver = upd.ver \/ (upd'.ver = 0 /\ upd'.pc = "idle")
        /\ upd'.found \subseteq upd.found /\ upd'.primary \in {0, upd.primary}
        /\ upd'.pc = "pin" => upd'.target = lastId + 1 /\ upd'.ver = upd.ver
    <3>1. CASE upd' = IdleUpdate
      BY <3>1, IdleTyped DEF IInv, ChannelTyped, UpdateState
    <3>2. CASE upd' = [upd EXCEPT !.pc = "pin", !.target = lastId + 1]
      <4>1. lastId + 1 \in Nat
        BY DEF IInv, ChannelTyped
      <4>2. /\ upd'.pc = "pin" /\ upd'.ver = upd.ver /\ upd'.found = upd.found
            /\ upd'.primary = upd.primary /\ upd'.target = lastId + 1
        BY <1>2, <3>2 DEF UpdateState
      <4>3. upd' \in UpdateState
        BY <1>2, <3>2, <4>1 DEF UpdateState, Phases
      <4> QED BY <4>2, <4>3
    <3> QED BY <1>4, <3>1, <3>2
  <2>3. ChannelTyped'
    BY <1>1, <1>4, <2>1, <2>2 DEF IInv, ChannelTyped
  <2>4. AckedIsKept'
    BY <1>1, <2>1, StaysKept DEF IInv, Manifests
  <2>5. Numbered' /\ Remembered'
    BY <1>1, <1>2, <2>1, <2>2 DEF IInv, Numbered, Remembered, ChannelTyped
  <2>6. Replaced'
    BY <1>2, <2>1, <2>2 DEF Replaced, Manifests
  <2> QED BY <2>3, <2>4, <2>5, <2>6 DEF IInv
<1> QED
  <2>1. PICK o \in Outcomes("send") :
         /\ ch' = IF o # "failed" THEN [j \in Ids \cup {lastId + 1} |->
                                          IF j \in Ids THEN ch[j] ELSE n]
                  ELSE ch
         /\ lastId' = IF o # "failed" THEN lastId + 1 ELSE lastId
         /\ upd' = IF o = "ok"
                   THEN [upd EXCEPT !.pc = "pin", !.target = lastId + 1]
                   ELSE IdleUpdate
    BY DEF Send
  <2> QED BY <1>3, <1>4, <2>1

LEMMA StepPin == ASSUME IInv, Pin PROVE IInv'
<1>1. upd.pc = "pin" /\ UNCHANGED <<lastId, acked, started>>
  BY DEF Pin, bounds
<1>2. /\ ch' = [ch EXCEPT ![upd.target] = WithPin(@, TRUE)] \/ ch' = ch
      /\ upd' = [upd EXCEPT !.pc = "unpin", !.pinned = {}, !.todo = upd.pinned \ {upd.target}]
  BY DEF Pin
<1>3. /\ Ids' = Ids /\ Manifests' = Manifests
      /\ \A j \in Ids : ch'[j].body = ch[j].body /\ ch'[j] \in Message
      /\ ch' = [j \in Ids' |-> ch'[j]]
  BY <1>2, RepinSame DEF IInv, ChannelTyped, Manifests, Ids
<1>4. /\ upd' \in UpdateState /\ upd'.pc = "unpin" /\ upd'.ver = upd.ver
      /\ upd'.found = upd.found /\ upd'.primary = upd.primary /\ upd'.target = upd.target
  BY <1>2 DEF IInv, ChannelTyped, UpdateState, Phases
<1>5. ChannelTyped'
  BY <1>1, <1>3, <1>4 DEF IInv, ChannelTyped
<1>6. AckedIsKept'
  BY <1>1, <1>3, StaysKept DEF IInv, Manifests
<1>7. Numbered' /\ Remembered'
  BY <1>1, <1>3, <1>4 DEF IInv, Numbered, Remembered
<1>8. Replaced'
  BY <1>1, <1>3, <1>4 DEF IInv, Replaced, Manifests
<1> QED BY <1>5, <1>6, <1>7, <1>8 DEF IInv

LEMMA StepUnpin == ASSUME IInv, Unpin PROVE IInv'
<1>1. upd.pc = "unpin" /\ UNCHANGED <<lastId, acked, started>>
  BY DEF Unpin, bounds
<1>2. CASE /\ ch' = ch
           /\ upd' = [upd EXCEPT !.pc = "delete", !.found = {},
                                 !.todo = upd.found \ {upd.target}]
  <2>1. Ids' = Ids /\ Manifests' = Manifests
    BY <1>2 DEF Ids, Manifests
  <2>2. /\ upd' \in UpdateState /\ upd'.pc = "delete" /\ upd'.ver = upd.ver
        /\ upd'.found = {} /\ upd'.primary = upd.primary /\ upd'.target = upd.target
        /\ upd'.target \notin upd'.todo
    BY <1>2 DEF IInv, ChannelTyped, UpdateState, Phases
  <2>3. ChannelTyped' /\ AckedIsKept'
    BY <1>1, <1>2, <2>1, <2>2 DEF IInv, ChannelTyped, AckedIsKept
  <2>4. Numbered' /\ Remembered' /\ Replaced'
    BY <1>1, <1>2, <2>1, <2>2 DEF IInv, Numbered, Remembered, Replaced
  <2> QED BY <2>3, <2>4 DEF IInv
<1>3. CASE /\ ch' = [ch EXCEPT ![Min(upd.todo)] = WithPin(@, FALSE)] \/ ch' = ch
           /\ upd' = [upd EXCEPT !.todo = @ \ {Min(@)}]
  <2>1. /\ Ids' = Ids /\ Manifests' = Manifests
        /\ \A j \in Ids : ch'[j].body = ch[j].body /\ ch'[j] \in Message
        /\ ch' = [j \in Ids' |-> ch'[j]]
    BY <1>3, RepinSame DEF IInv, ChannelTyped, Manifests, Ids
  <2>2. /\ upd' \in UpdateState /\ upd'.pc = "unpin" /\ upd'.ver = upd.ver
        /\ upd'.found = upd.found /\ upd'.primary = upd.primary
        /\ upd'.target = upd.target
    BY <1>1, <1>3 DEF IInv, ChannelTyped, UpdateState
  <2>3. ChannelTyped'
    BY <1>1, <2>1, <2>2 DEF IInv, ChannelTyped
  <2>4. AckedIsKept'
    BY <1>1, <2>1, StaysKept DEF IInv, Manifests
  <2>5. Numbered' /\ Remembered'
    BY <1>1, <2>1, <2>2 DEF IInv, Numbered, Remembered
  <2>6. Replaced'
    BY <1>1, <2>1, <2>2 DEF IInv, Replaced, Manifests
  <2> QED BY <2>3, <2>4, <2>5, <2>6 DEF IInv
<1> QED BY <1>2, <1>3 DEF Unpin

\* Deleting a message other than the target.
LEMMA StepDelete ==
    ASSUME IInv, DeleteDuplicates
    PROVE  IInv' /\ (Manifests # {} => Manifests' # {})
<1>1. upd.pc = "delete" /\ UNCHANGED <<lastId, started>>
  BY DEF DeleteDuplicates, bounds
<1>2. /\ upd \in UpdateState /\ upd.target \in Manifests
      /\ ch[upd.target].body = upd.ver /\ upd.target \notin upd.todo
      /\ acked < upd.ver /\ upd.ver < 3 + started /\ upd.ver \in Nat
  BY <1>1 DEF IInv, Replaced, Numbered, ChannelTyped, UpdateState
<1>3. CASE acked' = upd.ver /\ upd' = IdleUpdate /\ ch' = ch
  <2>1. Ids' = Ids /\ Manifests' = Manifests
    BY <1>3 DEF Ids, Manifests
  <2>2. ChannelTyped'
    BY <1>1, <1>2, <1>3, <2>1, IdleTyped DEF IInv, ChannelTyped
  <2>3. Numbered' /\ AckedIsKept'
    BY <1>1, <1>2, <1>3, <2>1, IdleTyped DEF IInv, ChannelTyped, Numbered, AckedIsKept
  <2>4. Remembered' /\ Replaced'
    BY <1>3, IdleTyped DEF Remembered, Replaced
  <2> QED BY <2>1, <2>2, <2>3, <2>4 DEF IInv
<1>4. CASE /\ upd.todo # {} /\ acked' = acked
           /\ upd' = [upd EXCEPT !.todo = @ \ {Min(@)}]
           /\ ch' = [i \in Ids \ {Min(upd.todo)} |-> ch[i]] \/ ch' = ch
  <2>1. Min(upd.todo) # upd.target
    BY <1>2, <1>4, MinIsMember DEF UpdateState
  <2>2. /\ Ids' \subseteq Ids /\ upd.target \in Ids'
        /\ \A i \in Ids' : ch'[i] = ch[i]
        /\ ch' = [i \in Ids' |-> ch'[i]]
    BY <1>2, <1>4, <2>1 DEF IInv, ChannelTyped, Ids, Manifests
  <2>3. upd.target \in Manifests'
    BY <1>2, <2>2 DEF Manifests
  <2>4. /\ upd' \in UpdateState /\ upd'.pc = "delete" /\ upd'.ver = upd.ver
        /\ upd'.found = upd.found /\ upd'.primary = upd.primary
        /\ upd'.target = upd.target /\ upd'.todo \subseteq upd.todo
    BY <1>1, <1>2, <1>4 DEF UpdateState
  <2>5. ChannelTyped'
    BY <1>1, <1>4, <2>2, <2>4 DEF IInv, ChannelTyped
  <2>6. Numbered' /\ AckedIsKept'
    BY <1>1, <1>2, <1>4, <2>2, <2>3, <2>4 DEF IInv, ChannelTyped, Numbered, AckedIsKept
  <2>7. Remembered' /\ Replaced'
    BY <1>1, <1>2, <2>2, <2>3, <2>4 DEF IInv, Remembered, Replaced
  <2> QED BY <2>3, <2>5, <2>6, <2>7 DEF IInv
<1> QED BY <1>3, <1>4 DEF DeleteDuplicates

LEMMA StepWorld ==
    ASSUME IInv, \/ \E i \in Ids : UserPin(i)
                 \/ Post
                 \/ Crash
    PROVE  IInv'
<1>1. CASE \E i \in Ids : UserPin(i)
  <2>1. PICK i \in Ids : ch' = [ch EXCEPT ![i] = WithPin(@, TRUE)]
    BY <1>1 DEF UserPin
  <2>2. UNCHANGED <<lastId, upd, acked, started>>
    BY <1>1 DEF UserPin, bounds
  <2>3. /\ Ids' = Ids /\ Manifests' = Manifests
        /\ \A j \in Ids : ch'[j].body = ch[j].body /\ ch'[j] \in Message
        /\ ch' = [j \in Ids' |-> ch'[j]]
    BY <2>1, RepinSame DEF IInv
  <2>4. ChannelTyped'
    BY <2>2, <2>3 DEF IInv, ChannelTyped
  <2>5. AckedIsKept'
    BY <2>2, <2>3, StaysKept DEF IInv, Manifests
  <2>6. Numbered' /\ Remembered' /\ Replaced'
    BY <2>2, <2>3 DEF IInv, Numbered, Remembered, Replaced, Manifests
  <2> QED BY <2>4, <2>5, <2>6 DEF IInv
<1>2. CASE Post
  <2> DEFINE n == [manifest |-> FALSE, pinned |-> FALSE, body |-> 0]
  <2>1. /\ lastId' = lastId + 1 /\ n \in Message /\ UNCHANGED <<upd, acked, started>>
        /\ ch' = [j \in Ids \cup {lastId + 1} |-> IF j \in Ids THEN ch[j] ELSE n]
    BY <1>2 DEF Post, Message, bounds
  <2> HIDE DEF n
  <2>2. /\ Ids' = Ids \cup {lastId + 1} /\ ch' = [j \in Ids' |-> ch'[j]]
        /\ Ids' \subseteq Nat \ {0} /\ \A j \in Ids' : j <= lastId' /\ ch'[j] \in Message
        /\ \A j \in Ids : ch'[j] = ch[j]
        /\ Manifests \subseteq Manifests'
    BY <2>1, AddMessage DEF IInv
  <2>3. ChannelTyped'
    BY <2>1, <2>2 DEF IInv, ChannelTyped
  <2>4. AckedIsKept'
    BY <2>1, <2>2, StaysKept DEF IInv, Manifests
  <2>5. Numbered' /\ Remembered' /\ Replaced'
    BY <2>1, <2>2 DEF IInv, Numbered, Remembered, Replaced, Manifests
  <2> QED BY <2>3, <2>4, <2>5 DEF IInv
<1>3. CASE Crash
  BY <1>3, BackToIdle DEF Crash
<1> QED BY <1>1, <1>2, <1>3

LEMMA StepKept == ASSUME IInv, [Next]_vars PROVE IInv'
<1>1. CASE Start
  BY <1>1, StepStart
<1>2. CASE Upload
  BY <1>2, StepUpload
<1>3. CASE Fetch
  BY <1>3, StepFetch
<1>4. CASE Edit
  BY <1>4, StepEdit
<1>5. CASE Send
  BY <1>5, StepSend
<1>6. CASE Pin
  BY <1>6, StepPin
<1>7. CASE Unpin
  BY <1>7, StepUnpin
<1>8. CASE DeleteDuplicates
  BY <1>8, StepDelete
<1>9. CASE (\E i \in Ids : UserPin(i)) \/ Post \/ Crash
  BY <1>9, StepWorld
<1>10. CASE ReadStart \/ ReadFetch \/ ReadDownload \/ UNCHANGED vars
  <2>1. UNCHANGED <<ch, lastId, acked, upd, started>>
    BY <1>10 DEF ReadStart, ReadFetch, ReadDownload, vars, bounds
  <2> QED BY <2>1, QuietStep, SMTT(30)
<1> QED BY <1>1, <1>2, <1>3, <1>4, <1>5, <1>6, <1>7, <1>8, <1>9, <1>10 DEF Next

\* What the last acknowledged update wrote, or something later, is in a
\* manifest of the channel, whatever requests of later updates fail or are
\* never made (do_update_pinned_manifest).
THEOREM AckedManifestKept == Spec => []AckedIsKept
<1>1. Init => IInv
  BY InitKept
<1>2. IInv /\ [Next]_vars => IInv'
  BY StepKept
<1>3. IInv => AckedIsKept
  BY ZenonT(30) DEF IInv
<1> QED BY <1>1, <1>2, <1>3, PTL DEF Spec

\* Some manifest is left by every step.
LEMMA KeepsOne ==
    ASSUME IInv, [Next]_vars, Manifests # {}
    PROVE  Manifests' # {}
<1> SUFFICES ASSUME ch' # ch PROVE Manifests' # {}
  BY DEF Manifests, Ids
<1>1. CASE DeleteDuplicates
  BY <1>1, StepDelete
<1>2. CASE Pin \/ Unpin \/ \E i \in Ids : UserPin(i)
  <2>1. CASE Pin
    BY <2>1, RepinSame DEF Pin, IInv
  <2>2. CASE Unpin
    BY <2>2, RepinSame DEF Unpin, IInv
  <2>3. CASE \E i \in Ids : UserPin(i)
    BY <2>3, RepinSame DEF UserPin, IInv
  <2> QED BY <1>2, <2>1, <2>2, <2>3
<1>3. CASE Edit
  <2>1. /\ upd.target \in Manifests /\ upd.target \in Ids
        /\ ch[upd.target] \in Message /\ upd.ver \in Nat
    BY <1>3 DEF Edit, IInv, Remembered, Manifests, ChannelTyped, UpdateState
  <2>2. ch' = [ch EXCEPT ![upd.target] = WithBody(@, upd.ver)]
    BY <1>3 DEF Edit
  <2>3. upd.target \in Ids' /\ ch'[upd.target] = WithBody(ch[upd.target], upd.ver)
    BY <2>1, <2>2 DEF IInv, ChannelTyped, Ids
  <2> QED BY <2>1, <2>3, BodyFields DEF Manifests
<1>4. CASE Send \/ Post
  <2>1. \E n : ch' = [j \in Ids \cup {lastId + 1} |-> IF j \in Ids THEN ch[j] ELSE n]
    BY <1>4 DEF Send, Post
  <2>2. Ids \subseteq Ids' /\ \A j \in Ids : ch'[j] = ch[j]
    BY <2>1 DEF Ids
  <2> QED BY <2>2 DEF Manifests
<1> QED BY <1>1, <1>2, <1>3, <1>4 DEF Next, Start, Upload, Fetch, ReadStart,
          ReadFetch, ReadDownload, Crash, vars

\* No step of any update takes a channel its last manifest
\* (do_update_pinned_manifest, do_delete_message).
THEOREM ManifestNeverLost == Spec => ManifestSurvives
<1>1. Init => IInv
  BY InitKept
<1>2. IInv /\ [Next]_vars => IInv'
  BY StepKept
<1>3. IInv /\ [Next]_vars => [Manifests # {} => Manifests' # {}]_ch
  BY KeepsOne
<1> QED BY <1>1, <1>2, <1>3, PTL DEF Spec, ManifestSurvives

-----------------------------------------------------------------------------
(* Types and bounds                                                         *)

ReaderState == [pc: {"idle", "fetch", "download", "done"}, k: 1..7,
                seen: SUBSET [id: Nat, pinned: BOOLEAN, body: Nat], since: Nat, got: Nat,
                missed: BOOLEAN]

\* The message an update has chosen is one of the channel, so all ids it holds
\* are ids that were given out.
Sized ==
    /\ Ids \subseteq 1..lastId /\ lastId <= MaxId
    /\ upd.k \in 1..6
    /\ upd.found \cup upd.pinned \cup upd.todo \subseteq 1..MaxId
    /\ {upd.primary, upd.target} \subseteq 0..MaxId
    /\ rd \in ReaderState /\ (rd.pc = "fetch" => rd.k <= 6)
    /\ missed \in BOOLEAN /\ tidy \in BOOLEAN

\* The one a reader alone in the channel takes.
OnTop(i) ==
    /\ i \in Manifests
    /\ \A j \in Manifests : /\ ch[j].pinned => ch[i].pinned
                            /\ ch[j].pinned = ch[i].pinned => j <= i

LEMMA OnTopExists ==
    ASSUME ChannelTyped, Manifests # {}
    PROVE  \E i : OnTop(i)
<1> DEFINE P == {i \in Manifests : ch[i].pinned}
           S == IF P = {} THEN Manifests ELSE P
<1>1. /\ Manifests \subseteq Ids /\ Ids \subseteq Nat /\ lastId \in Nat
      /\ \A i \in Manifests : i <= lastId /\ ch[i] \in Message
  BY DEF ChannelTyped, Manifests
<1>2. S # {} /\ S \in SUBSET (0..lastId)
  <2>1. Manifests \subseteq 0..lastId
    BY <1>1
  <2> QED BY <2>1
<1>3. PICK i \in S : \A j \in S : j <= i
  BY <1>1, <1>2, GreatestMember
<1>4. OnTop(i)
  <2>1. CASE P = {}
    BY <1>1, <1>3, <2>1 DEF OnTop, Message
  <2>2. CASE P # {}
    BY <1>1, <1>3, <2>2 DEF OnTop, Message
  <2> QED BY <2>1, <2>2
<1> QED BY <1>4

LEMMA OnTopIsOne ==
    ASSUME ChannelTyped, NEW i, NEW j, OnTop(i), OnTop(j)
    PROVE  i = j
<1>1. /\ i \in Nat /\ j \in Nat /\ ch[i] \in Message /\ ch[j] \in Message
  BY DEF ChannelTyped, Manifests, OnTop
<1>2. ch[i].pinned = ch[j].pinned
  BY <1>1 DEF OnTop, Message
<1>3. i <= j /\ j <= i
  BY <1>2 DEF OnTop
<1> QED BY <1>1, <1>3

LEMMA PreferredIsOnTop ==
    ASSUME ChannelTyped, NEW h \in Manifests,
           [id |-> h, pinned |-> ch[h].pinned, body |-> ch[h].body]
             \in Preferred(AsSeen(Manifests))
    PROVE  OnTop(h)
<1>1. \A k \in Manifests : ch[k].pinned \in BOOLEAN
  BY DEF ChannelTyped, Manifests, Message
<1>2. ASSUME NEW k \in Manifests
      PROVE  /\ ch[k].pinned => ch[h].pinned
             /\ ch[k].pinned = ch[h].pinned => k <= h
  <2>1. [id |-> k, pinned |-> ch[k].pinned, body |-> ch[k].body] \in AsSeen(Manifests)
    BY DEF AsSeen
  <2> QED BY <1>1, <2>1 DEF Preferred
<1> QED BY <1>2 DEF OnTop

\* That is the content Current tells.
LEMMA CurrentIsOnTop ==
    ASSUME ChannelTyped, NEW i, OnTop(i)
    PROVE  Current = ch[i].body
<1> DEFINE r == [id |-> i, pinned |-> ch[i].pinned, body |-> ch[i].body]
           c == AsSeen(Manifests)
<1>1. r \in Preferred(c)
  BY DEF OnTop, AsSeen, Preferred
<1>2. \A m \in Preferred(c) : m = r
  <2> SUFFICES ASSUME NEW m \in Preferred(c) PROVE m = r
    OBVIOUS
  <2>1. PICK h \in Manifests : m = [id |-> h, pinned |-> ch[h].pinned, body |-> ch[h].body]
    BY DEF AsSeen, Preferred
  <2> QED BY <2>1, PreferredIsOnTop, OnTopIsOne
<1>3. Manifests # {} /\ r.body = ch[i].body
  BY DEF OnTop
<1>4. Current = (CHOOSE m \in Preferred(c) : TRUE).body
  BY <1>3 DEF Current
<1> HIDE DEF r, c
<1>5. (CHOOSE m \in Preferred(c) : TRUE) = r
  BY <1>1, <1>2
<1> QED BY <1>3, <1>4, <1>5

LEMMA CurrentIsNumber ==
    ASSUME ChannelTyped
    PROVE  Current \in Nat
<1>1. CASE Manifests = {}
  BY <1>1 DEF Current
<1>2. CASE Manifests # {}
  <2>1. PICK i : OnTop(i)
    BY <1>2, OnTopExists
  <2>2. ch[i] \in Message
    BY <2>1 DEF OnTop, Manifests, ChannelTyped
  <2> QED BY <2>1, <2>2, CurrentIsOnTop DEF Message
<1> QED BY <1>1, <1>2

-----------------------------------------------------------------------------
LEMMA IdleSized ==
    /\ rd' = IdleReader => rd' \in ReaderState /\ rd'.pc = "idle"
    /\ 1 \in 1..6 /\ 0 \in 0..MaxId
    /\ \A u : u = IdleUpdate => /\ u.k = 1 /\ u.primary = 0 /\ u.target = 0
                                /\ u.found = {} /\ u.pinned = {} /\ u.todo = {}
<1>1. IdleReader \in ReaderState /\ IdleReader.pc = "idle"
  BY DEF IdleReader, ReaderState
<1>2. /\ 1 \in 1..6 /\ 0 \in 0..MaxId
      /\ \A u : u = IdleUpdate => /\ u.k = 1 /\ u.primary = 0 /\ u.target = 0
                                  /\ u.found = {} /\ u.pinned = {} /\ u.todo = {}
  BY ChannelAssumption DEF IdleUpdate
<1> QED BY <1>1, <1>2

LEMMA InitSized == Init => Sized
<1> SUFFICES ASSUME Init PROVE Sized
  OBVIOUS
<1>1. /\ lastId \in 0..First /\ First \in 0..MaxId /\ MaxId \in Nat
      /\ upd = IdleUpdate /\ rd = IdleReader /\ missed = FALSE /\ tidy = FALSE
  BY ChannelAssumption DEF Init
<1>2. Ids \subseteq 1..lastId
  BY DEF Init, Ids
<1>3. rd \in ReaderState /\ (rd.pc = "fetch" => rd.k <= 6)
  BY <1>1 DEF IdleReader, ReaderState
<1>4. lastId <= MaxId
  BY <1>1
<1> QED BY <1>1, <1>2, <1>3, <1>4, IdleSized DEF Sized

\* A reader's step, and any that leaves the channel and the update alone.
LEMMA SizedQuiet ==
    ASSUME Sized, UNCHANGED <<ch, lastId, upd>>, rd' \in ReaderState,
           rd'.pc = "fetch" => rd'.k <= 6, missed' \in BOOLEAN, tidy' \in BOOLEAN
    PROVE  Sized'
BY DEF Sized, Ids

\* A step that passes something over leaves the reader where it is.
LEMMA NoteTyped ==
    ASSUME Sized, NEW b \in BOOLEAN, Note(b)
    PROVE  /\ missed' \in BOOLEAN /\ rd' \in ReaderState
           /\ rd'.pc = rd.pc /\ rd'.k = rd.k /\ rd'.since = rd.since /\ rd'.got = rd.got
           /\ rd'.missed \/ (rd' = rd /\ missed' = missed)
           /\ missed' = missed \/ missed' = TRUE
           /\ b => missed' = TRUE
BY DEF Sized, Note, ReaderState

LEMMA NoteSized ==
    ASSUME Sized,
           (\E b \in BOOLEAN : Note(b)) \/ UNCHANGED <<rd, missed>>
             \/ (rd' = rd /\ missed' = FALSE)
    PROVE  /\ missed' \in BOOLEAN /\ rd' \in ReaderState
           /\ rd'.pc = "fetch" => rd'.k <= 6
BY NoteTyped DEF Sized

LEMMA ReadSized ==
    ASSUME IInv, Sized, ReadStart \/ ReadFetch \/ ReadDownload
    PROVE  Sized'
<1>1. CASE ReadStart
  <2>1. Current \in Nat
    BY CurrentIsNumber DEF IInv
  <2>2. /\ rd' = [pc |-> "fetch", k |-> 1, seen |-> {}, since |-> Current, got |-> 0,
                  missed |-> missed /\ upd.pc # "idle"]
        /\ (missed /\ upd.pc # "idle") \in BOOLEAN
    BY <1>1 DEF ReadStart, IdleReader
  <2>3. rd' \in ReaderState /\ rd'.k = 1
    BY <2>1, <2>2 DEF ReaderState
  <2> QED BY <1>1, <2>3, SizedQuiet DEF ReadStart, Sized
<1>2. CASE ReadFetch
  <2>1. PICK o : rd' = [rd EXCEPT
                        !.seen = IF o = "ok"
                                 THEN @ \cup AsSeen(Answer(rd.k) \cap Manifests)
                                 ELSE @,
                        !.missed = @ \/ o # "ok" \/ LeavesOut(rd.k),
                        !.k = @ + 1,
                        !.pc = IF rd.k = 6 THEN "download" ELSE "fetch"]
    BY <1>2 DEF ReadFetch
  <2>2. rd.pc = "fetch" /\ UNCHANGED <<ch, lastId, upd, missed, tidy>>
    BY <1>2 DEF ReadFetch
  <2>3. AsSeen(Answer(rd.k) \cap Manifests) \subseteq [id: Nat, pinned: BOOLEAN, body: Nat]
    BY DEF AsSeen, IInv, ChannelTyped, Manifests, Message
  <2>4. rd' \in ReaderState /\ (rd'.pc = "fetch" => rd'.k <= 6)
    <3>1. rd \in ReaderState /\ rd.k \in 1..6 /\ rd.k + 1 \in 1..7
      BY <2>2 DEF Sized, ReaderState
    <3> DEFINE A == IF o = "ok" THEN rd.seen \cup AsSeen(Answer(rd.k) \cap Manifests)
                    ELSE rd.seen
    <3>2. A \subseteq [id: Nat, pinned: BOOLEAN, body: Nat]
      BY <2>3, <3>1 DEF ReaderState
    <3>3. rd' = [pc |-> IF rd.k = 6 THEN "download" ELSE "fetch", k |-> rd.k + 1,
                 seen |-> A, since |-> rd.since, got |-> rd.got,
                 missed |-> rd.missed \/ o # "ok" \/ LeavesOut(rd.k)]
      BY <2>1, <3>1 DEF ReaderState
    <3>4. /\ rd.since \in Nat /\ rd.got \in Nat
          /\ (rd.missed \/ o # "ok" \/ LeavesOut(rd.k)) \in BOOLEAN
      BY <3>1 DEF ReaderState
    <3> HIDE DEF A
    <3> QED BY <3>1, <3>2, <3>3, <3>4 DEF ReaderState
  <2> QED BY <2>2, <2>4, SizedQuiet DEF Sized
<1>3. CASE ReadDownload
  <2>1. UNCHANGED <<ch, lastId, upd, missed, tidy>> /\ rd \in ReaderState
    BY <1>3 DEF ReadDownload, Sized
  <2>2. CASE rd' = [rd EXCEPT !.pc = "done", !.got = 0]
    BY <2>1, <2>2, SizedQuiet DEF Sized, ReaderState
  <2>3. CASE \E m \in Preferred(rd.seen), o \in Outcomes("download") :
            rd' = IF o = "ok"
                  THEN [rd EXCEPT !.pc = "done", !.seen = {}, !.got = m.body]
                  ELSE [rd EXCEPT !.seen = @ \ {m}, !.missed = TRUE]
    <3>1. PICK m \in Preferred(rd.seen), o \in Outcomes("download") :
            rd' = IF o = "ok"
                  THEN [rd EXCEPT !.pc = "done", !.seen = {}, !.got = m.body]
                  ELSE [rd EXCEPT !.seen = @ \ {m}, !.missed = TRUE]
      BY <2>3
    <3>2. m \in [id: Nat, pinned: BOOLEAN, body: Nat] /\ m.body \in Nat
      BY <2>1 DEF Preferred, ReaderState
    <3>3. rd' \in ReaderState /\ rd'.pc # "fetch"
      BY <1>3, <2>1, <3>1, <3>2 DEF ReaderState, ReadDownload
    <3> QED BY <2>1, <3>3, SizedQuiet DEF Sized
  <2> QED BY <1>3, <2>2, <2>3, ZenonT(30) DEF ReadDownload
<1> QED BY <1>1, <1>2, <1>3

\* The ids an update holds are ids of the channel.
LEMMA UpdateSized ==
    ASSUME IInv, Sized,
           Start \/ Upload \/ Fetch \/ Edit \/ Send \/ Pin \/ Unpin \/ DeleteDuplicates
    PROVE  Sized'
<1>0. /\ Ids \subseteq 1..MaxId /\ Manifests \subseteq Ids /\ Pinned \subseteq Ids
      /\ lastId \in Nat /\ MaxId \in Nat /\ upd \in UpdateState /\ 0 \in 0..MaxId
  BY ChannelAssumption DEF Sized, IInv, ChannelTyped, Manifests, Pinned
<1>1. /\ rd' \in ReaderState /\ (rd'.pc = "fetch" => rd'.k <= 6)
      /\ tidy' \in BOOLEAN /\ missed' \in BOOLEAN
  <2>1. \/ \E b \in BOOLEAN : Note(b)
        \/ UNCHANGED <<rd, missed>>
        \/ rd' = rd /\ missed' = FALSE
    BY DEF Start, Upload, Fetch, Edit, Send, Pin, Unpin, DeleteDuplicates
  <2>2. tidy' = tidy \/ tidy' = TRUE
    BY DEF Start, Upload, Fetch, Edit, Send, Pin, Unpin, DeleteDuplicates
  <2> QED BY <2>1, <2>2, NoteSized DEF Sized
<1> DEFINE Held(u) == /\ u.k \in 1..6 /\ u.found \cup u.pinned \cup u.todo \subseteq 1..MaxId
                      /\ {u.primary, u.target} \subseteq 0..MaxId
<1>2. Held(upd) /\ Held(IdleUpdate)
  BY IdleSized DEF Sized
<1>3. ASSUME Ids' \subseteq 1..lastId', lastId' <= MaxId, Held(upd')
      PROVE  Sized'
  BY <1>1, <1>3 DEF Sized
<1>4. CASE Start \/ Upload
  <2>1. UNCHANGED <<ch, lastId>> /\ Ids' = Ids
    BY <1>4 DEF Start, Upload, Ids
  <2>2. /\ upd'.k \in {upd.k, 1} /\ upd'.found \subseteq upd.found
        /\ upd'.pinned \subseteq upd.pinned /\ upd'.todo \subseteq upd.todo
        /\ upd'.primary \in {0, upd.primary} /\ upd'.target \in {0, upd.target}
    <3>1. CASE upd' = IdleUpdate
      BY <3>1, IdleSized
    <3>2. CASE upd' = [upd EXCEPT !.pc = "fetch"]
      BY <1>0, <3>2 DEF UpdateState
    <3>3. CASE Start
      BY <3>3 DEF Start, IdleUpdate
    <3> QED BY <1>4, <3>1, <3>2, <3>3 DEF Upload
  <2>3. Held(upd')
    BY <1>0, <1>2, <2>2
  <2> QED BY <1>3, <2>1, <2>3 DEF Sized
<1>5. CASE Fetch
  <2>1. UNCHANGED <<ch, lastId>> /\ Ids' = Ids
    BY <1>5 DEF Fetch, Ids
  <2>2. PICK u : /\ u = upd \/ \E A : u \in Collect(upd, A)
               /\ upd' = IF u.k < 6 THEN [u EXCEPT !.k = @ + 1]
                   ELSE [u EXCEPT !.k = 1, !.primary = 0, !.target = Target(u),
                                  !.pc = IF Target(u) = 0 THEN "send" ELSE "edit"]
    BY <1>5 DEF Fetch
  <2>3. u \in UpdateState /\ Held(u) /\ u.found \subseteq Manifests
        /\ u.primary \in Manifests \cup {0}
    <3>1. CASE u = upd
      BY <1>0, <1>2, <3>1 DEF IInv, Remembered
    <3>2. CASE \E A : u \in Collect(upd, A)
      <4>1. PICK A : u \in Collect(upd, A)
        BY <3>2
      <4>2. /\ u \in UpdateState /\ u.k = upd.k /\ u.todo = upd.todo /\ u.target = upd.target
            /\ u.found \subseteq Manifests /\ u.primary \in Manifests \cup {0}
        BY <4>1, CollectRemembers DEF IInv
      <4>3. u.pinned = upd.pinned \cup (A \cap Pinned)
        BY <1>0, <4>1 DEF Collect, UpdateState
      <4>4. u.found \subseteq 1..MaxId /\ u.primary \in 0..MaxId
        <5>1. Manifests \subseteq 1..MaxId /\ \A i \in 1..MaxId : i \in 0..MaxId
          BY <1>0
        <5> QED BY <1>0, <4>2, <5>1
      <4>5. u.pinned \subseteq 1..MaxId
        <5>1. Pinned \subseteq 1..MaxId
          BY <1>0
        <5>2. upd.pinned \subseteq 1..MaxId
          BY <1>2
        <5> QED BY <4>3, <5>1, <5>2
      <4> QED BY <1>2, <4>2, <4>4, <4>5
    <3> QED BY <2>2, <3>1, <3>2
  <2>4. Target(u) \in 0..MaxId
    BY <1>0, <2>3, TargetIsManifest DEF IInv
  <2>5. Held(upd')
    <3>1. CASE u.k < 6
      BY <2>2, <2>3, <3>1 DEF UpdateState
    <3>2. CASE ~ (u.k < 6)
      BY <1>0, <2>2, <2>3, <2>4, <3>2 DEF UpdateState
    <3> QED BY <3>1, <3>2
  <2> QED BY <1>3, <2>1, <2>5 DEF Sized
<1>6. CASE Edit
  <2>1. lastId' = lastId /\ Ids' = Ids
    BY <1>6 DEF Edit, Ids
  <2>2. Held(upd')
    BY <1>0, <1>2, <1>6 DEF Edit, UpdateState
  <2> QED BY <1>3, <2>1, <2>2 DEF Sized
<1>7. CASE Send
  <2>1. PICK o : /\ ch' = IF o # "failed" THEN [i \in Ids \cup {lastId + 1} |->
                                  IF i \in Ids THEN ch[i]
                                  ELSE [manifest |-> TRUE, pinned |-> FALSE,
                                        body |-> upd.ver]]
                  ELSE ch
                 /\ lastId' = IF o # "failed" THEN lastId + 1 ELSE lastId
                 /\ upd' = IF o = "ok"
                           THEN [upd EXCEPT !.pc = "pin", !.target = lastId + 1]
                           ELSE IdleUpdate
    BY <1>7 DEF Send
  <2>2. lastId < MaxId /\ lastId + 1 \in 0..MaxId
    BY <1>0, <1>7 DEF Send
  <2>3. Ids' \subseteq 1..lastId' /\ lastId' <= MaxId
    BY <1>0, <2>1, <2>2 DEF Ids, Sized
  <2>4. Held(upd')
    BY <1>0, <1>2, <2>1, <2>2 DEF UpdateState
  <2> QED BY <1>3, <2>3, <2>4
<1>8. CASE Pin \/ Unpin \/ DeleteDuplicates
  <2>1. lastId' = lastId /\ Ids' \subseteq Ids
    BY <1>8 DEF Pin, Unpin, DeleteDuplicates, Ids
  <2>2. \/ upd' = [upd EXCEPT !.pc = "unpin", !.pinned = {}, !.todo = upd.pinned \ {upd.target}]
        \/ upd' = [upd EXCEPT !.pc = "delete", !.found = {}, !.todo = upd.found \ {upd.target}]
        \/ upd' = [upd EXCEPT !.todo = @ \ {Min(@)}]
        \/ upd' = IdleUpdate
    BY <1>8 DEF Pin, Unpin, DeleteDuplicates
  <2>3. \/ upd' = IdleUpdate
        \/ /\ upd'.k = upd.k /\ upd'.primary = upd.primary /\ upd'.target = upd.target
           /\ upd'.found \subseteq upd.found /\ upd'.pinned \subseteq upd.pinned
           /\ upd'.todo \subseteq upd.todo \cup upd.pinned \cup upd.found
    BY <1>0, <2>2 DEF UpdateState
  <2> HIDE DEF Held
  <2>4. Held(upd')
    BY <1>2, <2>3 DEF Held
  <2> QED BY <1>3, <2>1, <2>4 DEF Sized
<1> QED BY <1>4, <1>5, <1>6, <1>7, <1>8

LEMMA WorldSized ==
    ASSUME IInv, Sized, (\E i \in Ids : UserPin(i)) \/ Post \/ Crash \/ UNCHANGED vars
    PROVE  Sized'
<1>0. lastId \in Nat /\ MaxId \in Nat /\ Ids \subseteq 1..lastId
  BY ChannelAssumption DEF Sized, IInv, ChannelTyped
<1>1. CASE \E i \in Ids : UserPin(i)
  <2>1. UNCHANGED <<lastId, upd, rd, missed>> /\ Ids' = Ids /\ tidy' = FALSE
    BY <1>1 DEF UserPin, Ids
  <2> QED BY <2>1 DEF Sized
<1>2. CASE Post
  <2>1. UNCHANGED <<upd, rd, missed, tidy>> /\ lastId' = lastId + 1 /\ lastId < MaxId
        /\ Ids' = Ids \cup {lastId + 1}
    BY <1>2 DEF Post, Ids
  <2>2. Ids' \subseteq 1..lastId' /\ lastId' <= MaxId
    BY <1>0, <2>1
  <2> QED BY <2>1, <2>2 DEF Sized
<1>3. CASE Crash
  <2>1. UNCHANGED <<ch, lastId, missed, tidy>> /\ Ids' = Ids
        /\ upd' = IdleUpdate /\ rd' = IdleReader
    BY <1>3 DEF Crash, Ids
  <2> QED BY <2>1, IdleSized DEF Sized
<1>4. CASE UNCHANGED vars
  BY <1>4, SizedQuiet DEF Sized, vars
<1> QED BY <1>1, <1>2, <1>3, <1>4

LEMMA SizedAlways == Spec => []Sized
<1>1. IInv /\ Sized /\ [Next]_vars => Sized'
  BY ReadSized, UpdateSized, WorldSized DEF Next
<1>2. Spec => []IInv
  BY InitKept, StepKept, PTL DEF Spec
<1> QED BY <1>1, <1>2, InitSized, PTL DEF Spec

\* Among the rest: an update holds only ids that were given out, and a search
\* that answers with anything that is there leads to a message there is.
THEOREM ChannelTypes == Spec => []TypeOK
<1>1. IInv /\ Sized => TypeOK
  BY DEF IInv, ChannelTyped, Sized, TypeOK, ReaderState, UpdateState
<1>2. Spec => []IInv
  BY InitKept, StepKept, PTL DEF Spec
<1> QED BY <1>1, <1>2, SizedAlways, PTL

-----------------------------------------------------------------------------
(* What an update that passed nothing over knows of the channel.            *)

PinnedManifests == Pinned \cap Manifests

\* S has every pinned manifest and, unless a user pins, every pinned message.
Covers(S) == PinnedManifests \subseteq S /\ (tidy => Pinned \subseteq S)

\* The latest of the pinned manifests, once it is pinned.
LeadsPins(t) == t \in PinnedManifests \/ \A j \in PinnedManifests : j <= t

\* The six searches have found every manifest and everything that is pinned;
\* a pinned manifest, or any where none is pinned, is edited, or one is sent
\* that comes after all of them; what remains to be unpinned and deleted is
\* all but the target.
Complete ==
    /\ upd.pc = "upload" => upd.k = 1
    /\ upd.pc = "fetch" =>
         IF upd.k = 1 THEN upd.primary = 0
         ELSE /\ Covers(upd.pinned)
              /\ upd.primary \in PinnedManifests \cup {0}
              /\ upd.primary = 0 => PinnedManifests = {}
    /\ upd.pc = "fetch" /\ upd.k > 4 => Manifests \subseteq upd.found
    /\ upd.pc = "edit" =>
         /\ Covers(upd.pinned) /\ Manifests \subseteq upd.found
         /\ upd.target \in PinnedManifests \/ PinnedManifests = {}
    /\ upd.pc = "send" => Covers(upd.pinned) /\ Manifests \subseteq upd.found
    /\ upd.pc = "pin" =>
         /\ Covers(upd.pinned \cup {upd.target})
         /\ LeadsPins(upd.target)
         /\ Manifests \subseteq upd.found \cup {upd.target}
    /\ upd.pc = "unpin" =>
         /\ Covers(upd.todo \cup {upd.target}) /\ upd.target \in PinnedManifests
         /\ upd.target \notin upd.todo
         /\ Manifests \subseteq upd.found \cup {upd.target}
    /\ upd.pc = "delete" =>
         /\ Covers({upd.target}) /\ upd.target \in PinnedManifests
         /\ Manifests \subseteq upd.todo \cup {upd.target}

\* An update in progress writes what is newer than all that was there.
Newest ==
    /\ \A i \in Manifests : ch[i].body <= 2 + started
    /\ upd.pc # "idle" => upd.ver = 2 + started

CInv == Newest /\ (~ missed => Complete)

-----------------------------------------------------------------------------
\* What a step may do to the manifests: nothing is pinned or changed but with
\* the content of the update in progress, and what a reader gets stays or
\* becomes that content.
Renews ==
    \A i \in Manifests' :
        \/ /\ i \in Manifests /\ ch'[i].body = ch[i].body
           /\ ch'[i].pinned => ch[i].pinned
        \/ ch'[i].body = 2 + started

Writes ==
    /\ Renews
    /\ \/ Current' = Current
       \/ /\ Current' = upd.ver /\ upd.pc # "idle"
          /\ upd'.ver \in {upd.ver, 0} /\ acked' = acked /\ missed' = missed

\* What is on top, in the state before a step and in the one after it.
TopLaw ==
    ChannelTyped => /\ \A i : OnTop(i) => Current = ch[i].body
                    /\ Manifests # {} => \E i : OnTop(i)

LEMMA TopLawNow == TopLaw
BY CurrentIsOnTop, OnTopExists DEF TopLaw

LEMMA TopLawNext == TopLaw'
BY TopLawNow, PTL

LEMMA QuietWrites == ASSUME ch' = ch PROVE Writes
<1>1. Current' = Current /\ Manifests' = Manifests
  BY DEF Current, AsSeen, Manifests, Ids
<1> QED BY <1>1 DEF Writes, Renews

\* When a pin, a body or a message changes, the top is found again.
LEMMA TopStays ==
    ASSUME IInv, IInv', NEW i, OnTop(i), OnTop(i)', ch'[i].body = ch[i].body
    PROVE  Current' = Current
<1>1. Current = ch[i].body
  BY TopLawNow DEF TopLaw, IInv
<1>2. Current' = ch'[i].body
  BY TopLawNext DEF TopLaw, IInv
<1> QED BY <1>1, <1>2

LEMMA TopBecomes ==
    ASSUME IInv', NEW i, OnTop(i)'
    PROVE  Current' = ch'[i].body
BY TopLawNext DEF TopLaw, IInv

\* The requests that leave the channel alone.
LEMMA QuietNewest ==
    ASSUME IInv, CInv, UNCHANGED <<ch, tidy, started>>,
           upd'.pc # "idle" => upd.pc # "idle" /\ upd'.ver = upd.ver
    PROVE  Newest' /\ Writes /\ PinnedManifests' = PinnedManifests /\ Manifests' = Manifests
           /\ \A S : Covers(S)' = Covers(S)
<1>1. /\ PinnedManifests' = PinnedManifests /\ Manifests' = Manifests /\ Pinned' = Pinned
  BY DEF PinnedManifests, Manifests, Pinned, Ids
<1>2. \A S : Covers(S)' = Covers(S)
  BY <1>1 DEF Covers
<1>3. Newest'
  BY <1>1 DEF CInv, Newest
<1> QED BY <1>1, <1>2, <1>3, QuietWrites

LEMMA StartCompletes ==
    ASSUME IInv, CInv, Start
    PROVE  CInv' /\ Writes
<1>1. /\ started \in Nat /\ started' = started + 1 /\ ch' = ch
      /\ upd' = [IdleUpdate EXCEPT !.pc = "upload", !.ver = 3 + started]
  BY DEF Start, IInv, ChannelTyped
<1>2. upd'.pc = "upload" /\ upd'.ver = 3 + started /\ upd'.k = 1
  BY <1>1 DEF IdleUpdate
<1>3. Manifests' = Manifests
  BY <1>1 DEF Manifests, Ids
<1>4. \A i \in Manifests : ch[i].body \in Nat
  BY DEF IInv, ChannelTyped, Manifests, Message
<1>5. Newest'
  BY <1>1, <1>2, <1>3, <1>4 DEF CInv, Newest
<1>6. Complete'
  BY <1>2 DEF Complete
<1> QED BY <1>1, <1>5, <1>6, QuietWrites DEF CInv

LEMMA UploadCompletes ==
    ASSUME IInv, CInv, Upload
    PROVE  CInv' /\ Writes
<1>1. upd \in UpdateState /\ upd.pc = "upload" /\ UNCHANGED <<ch, tidy, started>>
  BY DEF Upload, bounds, IInv, ChannelTyped
<1>2. upd' = IdleUpdate \/ upd' = [upd EXCEPT !.pc = "fetch"]
  BY DEF Upload
<1>3. \/ upd'.pc = "idle"
      \/ /\ upd'.pc = "fetch" /\ upd'.ver = upd.ver /\ upd'.k = upd.k
         /\ upd'.primary = upd.primary
  BY <1>1, <1>2, IdleTyped DEF UpdateState
<1>4. Newest' /\ Writes
  BY <1>1, <1>3, QuietNewest
<1>5. ~ missed' => ~ missed
  BY DEF Upload
<1>6. ~ missed' => Complete'
  BY <1>1, <1>3, <1>5 DEF CInv, Complete, IInv, Remembered
<1> QED BY <1>4, <1>6 DEF CInv

LEMMA FetchCompletes ==
    ASSUME IInv, Sized, CInv, Fetch
    PROVE  CInv' /\ Writes
<1>1. upd \in UpdateState /\ upd.pc = "fetch" /\ UNCHANGED <<ch, tidy, started>>
      /\ upd.k \in 1..6
  BY DEF Fetch, bounds, IInv, ChannelTyped, Sized
<1>2. PICK o, u :
        /\ u \in IF o = "ok" THEN Collect(upd, Answer(upd.k)) ELSE {upd}
        /\ upd' = IF u.k < 6 THEN [u EXCEPT !.k = @ + 1]
                  ELSE [u EXCEPT !.k = 1, !.primary = 0, !.target = Target(u),
                                 !.pc = IF Target(u) = 0 THEN "send" ELSE "edit"]
        /\ Note(o # "ok" \/ LeavesOut(upd.k))
  BY DEF Fetch
<1>3. u \in UpdateState /\ u.pc = upd.pc /\ u.ver = upd.ver /\ u.k = upd.k
  BY <1>1, <1>2, CollectRemembers DEF IInv
<1>4. /\ upd'.ver = upd.ver /\ upd'.pc \in {"fetch", "send", "edit"}
      /\ upd'.found = u.found /\ upd'.pinned = u.pinned
      /\ upd'.pc = "fetch" => upd'.primary = u.primary /\ u.k < 6 /\ upd'.k = u.k + 1
      /\ upd'.pc # "fetch" => u.k = 6 /\ upd'.target = Target(u)
      /\ upd'.pc = "send" <=> u.k = 6 /\ Target(u) = 0
  BY <1>1, <1>2, <1>3 DEF UpdateState
<1>5. /\ Newest' /\ Writes /\ PinnedManifests' = PinnedManifests /\ Manifests' = Manifests
      /\ \A S : Covers(S)' = Covers(S)
  BY <1>1, <1>4, QuietNewest
<1>6. ASSUME ~ missed'
      PROVE  Complete'
  <2>1. ~ missed /\ o = "ok" /\ ~ LeavesOut(upd.k) /\ Complete
    BY <1>2, <1>6 DEF Note, CInv
  <2> DEFINE A == Answer(upd.k)
  <2>2. PICK q \in IF upd.primary # 0 \/ A \cap Manifests \cap Pinned = {}
                  THEN {upd.primary} ELSE A \cap Manifests \cap Pinned :
          u = [upd EXCEPT !.found = @ \cup (A \cap Manifests),
                          !.pinned = @ \cup (A \cap Pinned), !.primary = q]
    BY <1>2, <2>1 DEF Collect
  <2>3. /\ u.found = upd.found \cup (A \cap Manifests)
        /\ u.pinned = upd.pinned \cup (A \cap Pinned)
        /\ u.primary = q
    BY <1>1, <2>2 DEF UpdateState
  <2>4. upd.k = 1 => Pinned \subseteq A
    BY <2>1 DEF LeavesOut
  <2>5. upd.k = 4 => Manifests \subseteq A
    BY <2>1 DEF LeavesOut
  <2> HIDE DEF A
  <2>6. Covers(u.pinned)
    BY <1>1, <2>1, <2>3, <2>4 DEF Complete, Covers, PinnedManifests
  <2>7. 0 \notin Manifests
    BY DEF IInv, ChannelTyped, Manifests
  <2>8. /\ u.primary \in PinnedManifests \cup {0}
        /\ u.primary = 0 => PinnedManifests = {}
    <3>1. CASE upd.k = 1
      BY <1>1, <2>1, <2>2, <2>3, <2>4, <2>7, <3>1 DEF Complete, PinnedManifests
    <3>2. CASE upd.k # 1
      BY <1>1, <2>1, <2>2, <2>3, <2>7, <3>2 DEF Complete, PinnedManifests
    <3> QED BY <3>1, <3>2
  <2>9. upd.k >= 4 => Manifests \subseteq u.found
    BY <1>1, <2>1, <2>3, <2>5 DEF Complete
  <2>10. CASE upd'.pc = "fetch"
    BY <1>1, <1>3, <1>4, <1>5, <2>6, <2>8, <2>9, <2>10 DEF Complete
  <2>11. CASE upd'.pc = "edit"
    <3>1. u.primary # 0 => Target(u) = u.primary
      BY DEF Target
    <3> QED BY <1>1, <1>3, <1>4, <1>5, <2>6, <2>8, <2>9, <2>11, <3>1 DEF Complete
  <2>12. CASE upd'.pc = "send"
    <3>1. Target(u) = 0 /\ u.k = 6
      BY <1>4, <2>12
    <3>2. u.found \subseteq Manifests /\ u.found \in SUBSET Nat
      <4>1. Manifests \subseteq Nat
        BY DEF IInv, ChannelTyped, Manifests
      <4> QED BY <2>3, <4>1 DEF IInv, Remembered
    <3>3. u.found # {} => Target(u) # 0
      BY <2>7, <3>2, MinIsMember DEF Target
    <3>4. Manifests = {}
      BY <1>3, <2>9, <3>1, <3>3
    <3> QED BY <1>5, <1>4, <2>6, <2>12, <3>4 DEF Complete
  <2> QED BY <1>4, <2>10, <2>11, <2>12
<1> QED BY <1>5, <1>6 DEF CInv

LEMMA EditCompletes ==
    ASSUME IInv, IInv', Sized, CInv, Edit
    PROVE  Newest' /\ (~ missed' => Complete' /\ Writes)
<1> DEFINE i == upd.target
<1>1. upd.pc = "edit" /\ UNCHANGED <<tidy, started>>
  BY DEF Edit, bounds
<1>2. /\ i \in Manifests /\ i \in Ids /\ ch[i] \in Message
      /\ upd \in UpdateState /\ upd.ver = 2 + started /\ upd.ver \in Nat
  BY <1>1 DEF IInv, Remembered, Manifests, ChannelTyped, UpdateState, CInv, Newest
<1>3. PICK o : /\ ch' = IF o # "failed" THEN [ch EXCEPT ![i] = WithBody(@, upd.ver)] ELSE ch
               /\ upd' = [upd EXCEPT !.pc = IF o = "ok" THEN "pin" ELSE "send"]
               /\ missed' = missed
  BY <1>2 DEF Edit
<1>4. /\ upd'.pc = IF o = "ok" THEN "pin" ELSE "send"
      /\ upd'.ver = upd.ver /\ upd'.target = i /\ upd'.found = upd.found
      /\ upd'.pinned = upd.pinned
  BY <1>2, <1>3 DEF UpdateState
<1>5. /\ Ids' = Ids /\ \A j \in Ids : j # i => ch'[j] = ch[j]
      /\ ch'[i] = IF o # "failed" THEN WithBody(ch[i], upd.ver) ELSE ch[i]
  BY <1>2, <1>3 DEF IInv, ChannelTyped, Ids
<1>6. \A j \in Ids : ch'[j].manifest = ch[j].manifest /\ ch'[j].pinned = ch[j].pinned
  BY <1>2, <1>5, BodyFields DEF WithBody, Message
<1>7. /\ \A j \in Manifests : j # i => ch'[j].body = ch[j].body
      /\ ch'[i].body = IF o # "failed" THEN upd.ver ELSE ch[i].body
  BY <1>2, <1>5, BodyFields DEF Manifests
<1>8. Manifests' = Manifests /\ Pinned' = Pinned
  BY <1>5, <1>6 DEF Manifests, Pinned
<1>9. \A S : Covers(S)' = Covers(S)
  BY <1>1, <1>8 DEF Covers, PinnedManifests
<1>10. Newest'
  BY <1>1, <1>2, <1>4, <1>7, <1>8 DEF CInv, Newest, IInv, ChannelTyped
<1>11. ASSUME ~ missed'
       PROVE  Complete' /\ Writes
  <2>1. ~ missed /\ Complete /\ missed' = missed
    BY <1>3, <1>11 DEF CInv
  <2>2. Complete'
    <3>1. /\ Covers(upd.pinned) /\ Covers(upd.pinned \cup {i})
          /\ Manifests \subseteq upd.found /\ LeadsPins(i)
      BY <1>1, <2>1 DEF Complete, Covers, LeadsPins
    <3>2. \A j : LeadsPins(j)' = LeadsPins(j)
      BY <1>8 DEF LeadsPins, PinnedManifests
    <3> QED BY <1>4, <1>8, <1>9, <3>1, <3>2 DEF Complete
  <2>3. Renews
    BY <1>2, <1>6, <1>7, <1>8 DEF Renews, Manifests
  <2>4. PICK j : OnTop(j)
    BY <1>2, OnTopExists DEF IInv
  <2>5. OnTop(j)'
    <3>1. \A h \in Manifests : ch'[h].pinned = ch[h].pinned
      BY <1>6 DEF Manifests
    <3>2. \A h \in Manifests : ch[h].pinned \in BOOLEAN
      BY DEF IInv, ChannelTyped, Manifests, Message
    <3> QED BY <1>8, <2>4, <3>1, <3>2 DEF OnTop
  <2>6. Current' = Current \/ Current' = upd.ver
    <3>1. CASE j = i /\ o # "failed"
      BY <1>7, <2>5, <3>1, TopBecomes
    <3>2. CASE j # i \/ o = "failed"
      <4>1. ch'[j].body = ch[j].body
        BY <1>7, <2>4, <3>2 DEF OnTop
      <4> QED BY <2>4, <2>5, <4>1, TopStays
    <3> QED BY <3>1, <3>2
  <2>7. acked' = acked
    BY DEF Edit
  <2> QED BY <1>1, <1>4, <2>1, <2>2, <2>3, <2>6, <2>7 DEF Writes
<1> QED BY <1>10, <1>11

LEMMA SendCompletes ==
    ASSUME IInv, IInv', Sized, CInv, Send
    PROVE  Newest' /\ (~ missed' => Complete' /\ Writes)
<1>0. PICK i : i = lastId + 1
  OBVIOUS
<1> DEFINE n == [manifest |-> TRUE, pinned |-> FALSE, body |-> upd.ver]
<1>1. /\ upd.pc = "send" /\ UNCHANGED <<tidy, started, acked, missed>> /\ upd \in UpdateState
      /\ upd.ver = 2 + started /\ upd.ver \in Nat
  BY DEF Send, bounds, IInv, ChannelTyped, CInv, Newest, UpdateState
<1>2. PICK o :
         /\ ch' = IF o # "failed" THEN [j \in Ids \cup {lastId + 1} |->
                                          IF j \in Ids THEN ch[j] ELSE n]
                  ELSE ch
         /\ lastId' = IF o # "failed" THEN lastId + 1 ELSE lastId
         /\ upd' = IF o = "ok"
                   THEN [upd EXCEPT !.pc = "pin", !.target = lastId + 1]
                   ELSE IdleUpdate
  BY DEF Send
<1>3. n \in Message /\ n.manifest = TRUE /\ n.pinned = FALSE /\ n.body = upd.ver
  BY <1>1 DEF Message
<1> HIDE DEF n
<1>4. CASE o = "failed"
  <2>1. ch' = ch /\ upd' = IdleUpdate
    BY <1>2, <1>4
  <2>2. Newest' /\ Writes
    BY <1>1, <2>1, IdleTyped, QuietNewest
  <2>3. Complete'
    BY <2>1, IdleTyped DEF Complete
  <2> QED BY <2>2, <2>3
<1>5. CASE o # "failed"
  <2>1. /\ Ids' = Ids \cup {i} /\ i \notin Ids
        /\ \A j \in Ids : ch'[j] = ch[j]
        /\ ch'[i] = n
    BY <1>0, <1>2, <1>3, <1>5, AddMessage DEF IInv
  <2>2. /\ Manifests' = Manifests \cup {i} /\ Pinned' = Pinned
        /\ i \notin Manifests /\ i \notin Pinned
    BY <1>3, <2>1 DEF Manifests, Pinned
  <2>3. \/ upd'.pc = "idle" /\ upd'.ver = 0
        \/ /\ upd'.pc = "pin" /\ upd'.target = i /\ upd'.ver = upd.ver
           /\ upd'.pinned = upd.pinned /\ upd'.found = upd.found
    BY <1>0, <1>1, <1>2, IdleTyped DEF UpdateState
  <2>4. \A j \in Manifests' : ch'[j].body <= 2 + started
    <3>1. \A j \in Manifests : ch'[j] = ch[j] /\ ch[j].body <= 2 + started
      BY <2>1 DEF CInv, Newest, Manifests
    <3>2. ch'[i].body <= 2 + started
      BY <1>1, <1>3, <2>1
    <3> QED BY <2>2, <3>1, <3>2
  <2>5. Newest'
    BY <1>1, <2>3, <2>4 DEF Newest
  <2>6. ASSUME ~ missed'
        PROVE  Complete' /\ Writes
    <3>1. Covers(upd.pinned) /\ Manifests \subseteq upd.found
      BY <1>1, <2>6 DEF CInv, Complete
    <3>2. PinnedManifests' = PinnedManifests
      BY <2>2 DEF PinnedManifests
    <3>3. i \in Nat /\ \A j \in Manifests : j \in Nat /\ j < i
      BY <1>0 DEF IInv, ChannelTyped, Manifests
    <3>4. LeadsPins(i)'
      BY <3>2, <3>3 DEF LeadsPins, PinnedManifests
    <3>5. \A S : Covers(S) => Covers(S \cup {i})'
      BY <1>1, <2>2, <3>2 DEF Covers
    <3>6. Complete'
      BY <2>2, <2>3, <3>1, <3>4, <3>5 DEF Complete
    <3>7. Renews
      <4>1. \A j \in Manifests : j \in Manifests' /\ ch'[j] = ch[j]
        BY <2>1, <2>2 DEF Manifests
      <4>2. ch'[i].body = 2 + started
        BY <1>1, <1>3, <2>1
      <4> QED BY <2>2, <4>1, <4>2 DEF Renews
    <3>8. /\ ch'[i].pinned = FALSE /\ \A j \in Manifests : ch'[j] = ch[j]
          /\ \A j \in Manifests : /\ ch[j].pinned \in BOOLEAN
                                  /\ ch[j].pinned <=> j \in PinnedManifests
      BY <1>3, <2>1 DEF IInv, ChannelTyped, Manifests, Pinned, PinnedManifests, Message
    <3>9. CASE PinnedManifests = {}
      <4>1. \A j \in Manifests' : j <= i
        BY <2>2, <3>3
      <4>2. \A j \in Manifests' : ch'[j].pinned = FALSE
        BY <2>2, <3>8, <3>9
      <4>3. OnTop(i)'
        BY <2>2, <4>1, <4>2 DEF OnTop
      <4>4. Current' = upd.ver
        BY <1>3, <2>1, <4>3, TopBecomes
      <4> QED BY <1>1, <2>3, <3>6, <3>7, <4>4 DEF Writes
    <3>10. CASE PinnedManifests # {}
      <4>1. PICK j : OnTop(j)
        BY <3>10, OnTopExists DEF IInv, PinnedManifests
      <4>2. PICK h \in Manifests : ch[h].pinned = TRUE
        BY <3>8, <3>10 DEF PinnedManifests
      <4>3. j \in Manifests /\ ch[j].pinned = TRUE
        BY <3>8, <4>1, <4>2 DEF OnTop
      <4>4. ASSUME NEW k \in Manifests'
            PROVE  /\ ch'[k].pinned => ch'[j].pinned
                   /\ ch'[k].pinned = ch'[j].pinned => k <= j
        <5>1. CASE k = i
          BY <3>8, <4>3, <5>1
        <5>2. CASE k \in Manifests
          BY <3>8, <4>1, <4>3, <5>2 DEF OnTop
        <5> QED BY <2>2, <5>1, <5>2
      <4>5. OnTop(j)'
        BY <2>2, <4>3, <4>4 DEF OnTop
      <4>6. Current' = Current
        BY <3>8, <4>1, <4>3, <4>5, TopStays
      <4> QED BY <3>6, <3>7, <4>6 DEF Writes
    <3> QED BY <3>9, <3>10
  <2> QED BY <2>5, <2>6
<1> QED BY <1>4, <1>5

\* A pin or an unpin leaves ids, manifests and contents alone.
LEMMA RepinFields ==
    ASSUME IInv, NEW i, NEW b \in BOOLEAN, ch' = [ch EXCEPT ![i] = WithPin(@, b)]
    PROVE  /\ Ids' = Ids /\ Manifests' = Manifests
           /\ \A j \in Ids : ch'[j].body = ch[j].body
           /\ \A j \in Ids : ch'[j].pinned = IF j = i THEN b ELSE ch[j].pinned
           /\ Pinned' = IF i \in Ids THEN (IF b THEN Pinned \cup {i} ELSE Pinned \ {i})
                        ELSE Pinned
<1>1. /\ Ids' = Ids /\ Manifests' = Manifests
      /\ \A j \in Ids : ch'[j].body = ch[j].body
  BY RepinSame DEF IInv
<1>2. \A j \in Ids : ch'[j] = IF j = i THEN WithPin(ch[j], b) ELSE ch[j]
  BY DEF IInv, ChannelTyped, Ids
<1>3. \A j \in Ids : ch'[j].pinned = IF j = i THEN b ELSE ch[j].pinned
  BY <1>2 DEF IInv, ChannelTyped, WithPin, Message
<1> QED BY <1>1, <1>3 DEF Pinned

\* The latest of the pinned manifests is on top.
LEMMA LatestPinOnTop ==
    ASSUME NEW t \in Nat, t \in Manifests', ch'[t].pinned = TRUE,
           \A j \in Manifests' : ch'[j].pinned \in BOOLEAN,
           \A j \in Manifests' : ch'[j].pinned => j <= t
    PROVE  OnTop(t)'
BY DEF OnTop

\* The pin changes what a reader gets when the target is the latest pin.
LEMMA PinCompletes ==
    ASSUME IInv, IInv', Sized, CInv, Pin
    PROVE  Newest' /\ (~ missed' => Complete' /\ Writes)
<1>0. PICK t : t = upd.target
  OBVIOUS
<1>1. /\ upd.pc = "pin" /\ UNCHANGED <<tidy, started, acked>> /\ upd \in UpdateState
      /\ upd.ver = 2 + started /\ t \in Manifests /\ t \in Ids /\ ch[t].body = upd.ver
  BY <1>0 DEF Pin, bounds, IInv, ChannelTyped, CInv, Newest, Replaced, Manifests
<1>2. PICK o : /\ ch' = IF o # "failed" THEN [ch EXCEPT ![t] = WithPin(@, TRUE)] ELSE ch
               /\ upd' = [upd EXCEPT !.pc = "unpin", !.pinned = {},
                                     !.todo = upd.pinned \ {t}]
               /\ Note(o # "ok")
  BY <1>0 DEF Pin
<1>3. /\ upd'.pc = "unpin" /\ upd'.ver = upd.ver /\ upd'.target = t
      /\ upd'.todo = upd.pinned \ {t} /\ upd'.found = upd.found
  BY <1>0, <1>1, <1>2 DEF UpdateState
<1>4. CASE o = "failed"
  <2>1. ch' = ch /\ missed'
    BY <1>2, <1>4 DEF Note
  <2> QED BY <1>1, <1>3, <2>1, QuietNewest
<1>5. CASE o # "failed"
  <2>1. /\ Ids' = Ids /\ Manifests' = Manifests /\ Pinned' = Pinned \cup {t}
        /\ \A j \in Ids : ch'[j].body = ch[j].body
        /\ \A j \in Ids : ch'[j].pinned = IF j = t THEN TRUE ELSE ch[j].pinned
    BY <1>1, <1>2, <1>5, RepinFields
  <2>2. Newest'
    BY <1>1, <1>3, <2>1 DEF CInv, Newest, Manifests
  <2>3. ASSUME ~ missed'
        PROVE  Complete' /\ Writes
    <3>1. ~ missed /\ Complete /\ missed' = missed
      BY <1>2, <2>3 DEF Note, CInv, Sized
    <3>2. /\ Covers(upd.pinned \cup {t}) /\ Manifests \subseteq upd.found \cup {t}
          /\ LeadsPins(t)
      BY <1>0, <1>1, <3>1 DEF Complete
    <3>3. PinnedManifests' = PinnedManifests \cup {t}
      BY <1>1, <2>1 DEF PinnedManifests
    <3>4. Complete'
      BY <1>1, <1>3, <2>1, <3>2, <3>3 DEF Complete, Covers
    <3>5. Renews
      BY <1>1, <2>1 DEF Renews, Manifests
    <3>6. \A j \in Manifests : /\ ch[j].pinned \in BOOLEAN /\ j \in Ids
                               /\ ch[j].pinned <=> j \in PinnedManifests
      BY DEF IInv, ChannelTyped, Manifests, Pinned, PinnedManifests, Message
    <3>7. CASE t \in PinnedManifests
      <4>1. PICK j : OnTop(j)
        BY <1>1, OnTopExists DEF IInv
      <4>2. \A h \in Manifests : ch'[h].pinned = ch[h].pinned
        BY <2>1, <3>6, <3>7
      <4>3. OnTop(j)'
        BY <2>1, <3>6, <4>1, <4>2 DEF OnTop
      <4>4. ch'[j].body = ch[j].body
        BY <2>1, <4>1 DEF OnTop, Manifests
      <4>5. Current' = Current
        BY <4>1, <4>3, <4>4, TopStays
      <4> QED BY <3>4, <3>5, <4>5 DEF Writes
    <3>8. CASE \A j \in PinnedManifests : j <= t
      <4>1. t \in Nat
        BY <1>1 DEF IInv, ChannelTyped
      <4>2. /\ \A j \in Manifests : ch'[j].pinned \in BOOLEAN
            /\ \A j \in Manifests : ch'[j].pinned => j <= t
            /\ ch'[t].pinned = TRUE
        <5>1. ch'[t].pinned = TRUE
          BY <1>1, <2>1
        <5>2. ASSUME NEW j \in Manifests, j # t
              PROVE  ch'[j].pinned \in BOOLEAN /\ (ch'[j].pinned => j <= t)
          BY <2>1, <3>6, <3>8, <5>2
        <5>3. t <= t
          BY <4>1
        <5>4. ASSUME NEW j \in Manifests
              PROVE  ch'[j].pinned \in BOOLEAN /\ (ch'[j].pinned => j <= t)
          <6>1. CASE j = t
            BY <5>1, <5>3, <6>1, Zenon
          <6>2. CASE j # t
            BY <5>2, <6>2
          <6> QED BY <6>1, <6>2
        <5> QED BY <5>1, <5>4
      <4>3. OnTop(t)'
        BY <1>1, <2>1, <4>1, <4>2, LatestPinOnTop
      <4>4. Current' = upd.ver
        BY <1>1, <2>1, <4>3, TopBecomes
      <4> QED BY <1>1, <1>3, <3>1, <3>4, <3>5, <4>4 DEF Writes
    <3> QED BY <3>2, <3>7, <3>8 DEF LeadsPins
  <2> QED BY <2>2, <2>3
<1> QED BY <1>4, <1>5

\* The others are unpinned from the earliest on: the latest pinned manifest is
\* the last of them, and what is then on top is the target.
LEMMA UnpinCompletes ==
    ASSUME IInv, IInv', Sized, CInv, Unpin
    PROVE  Newest' /\ (~ missed' => Complete' /\ Writes)
<1>0. PICK t : t = upd.target
  OBVIOUS
<1>1. /\ upd.pc = "unpin" /\ UNCHANGED <<tidy, started, acked>> /\ upd \in UpdateState
      /\ upd.ver = 2 + started /\ t \in Manifests /\ t \in Ids /\ ch[t].body = upd.ver
  BY <1>0 DEF Unpin, bounds, IInv, ChannelTyped, CInv, Newest, Replaced, Manifests
<1>2. CASE upd.todo = {}
  <2>1. /\ UNCHANGED <<ch, missed>>
        /\ upd' = [upd EXCEPT !.pc = "delete", !.found = {}, !.todo = upd.found \ {t}]
    BY <1>0, <1>2 DEF Unpin
  <2>2. /\ upd'.pc = "delete" /\ upd'.ver = upd.ver /\ upd'.target = t
        /\ upd'.todo = upd.found \ {t}
    BY <1>0, <1>1, <2>1 DEF UpdateState
  <2>3. /\ Newest' /\ Writes /\ PinnedManifests' = PinnedManifests /\ Manifests' = Manifests
        /\ \A S : Covers(S)' = Covers(S)
    BY <1>1, <2>1, <2>2, QuietNewest
  <2>4. ASSUME ~ missed
        PROVE  Complete'
    <3>1. /\ Covers(upd.todo \cup {t}) /\ Manifests \subseteq upd.found \cup {t}
          /\ t \in PinnedManifests
      BY <1>0, <1>1, <2>4 DEF CInv, Complete
    <3>2. Covers({t})
      BY <1>2, <3>1 DEF Covers
    <3> QED BY <2>2, <2>3, <3>1, <3>2 DEF Complete
  <2> QED BY <2>1, <2>3, <2>4
<1>3. CASE upd.todo # {}
  <2>0. PICK m : m = Min(upd.todo)
    OBVIOUS
  <2>1. PICK o : /\ ch' = IF o # "failed" THEN [ch EXCEPT ![m] = WithPin(@, FALSE)] ELSE ch
                 /\ upd' = [upd EXCEPT !.todo = @ \ {m}]
                 /\ Note(o # "ok")
    BY <1>1, <1>3, <2>0 DEF Unpin, UpdateState
  <2>2. /\ upd'.pc = "unpin" /\ upd'.ver = upd.ver /\ upd'.target = t
        /\ upd'.todo = upd.todo \ {m} /\ upd'.found = upd.found
    BY <1>0, <1>1, <2>1 DEF UpdateState
  <2>3. CASE o = "failed"
    <3>1. ch' = ch /\ missed'
      BY <2>1, <2>3 DEF Note
    <3> QED BY <1>1, <2>2, <3>1, QuietNewest
  <2>4. CASE o # "failed"
    <3>1. /\ Ids' = Ids /\ Manifests' = Manifests
          /\ Pinned' = Pinned \ {m}
          /\ \A j \in Ids : ch'[j].body = ch[j].body
          /\ \A j \in Ids : ch'[j].pinned = IF j = m THEN FALSE ELSE ch[j].pinned
      <4>1. ch' = [ch EXCEPT ![m] = WithPin(@, FALSE)]
        BY <2>1, <2>4
      <4> QED BY <4>1, RepinFields DEF Pinned
    <3>2. Newest'
      BY <1>1, <2>2, <3>1 DEF CInv, Newest, Manifests
    <3>3. ASSUME ~ missed'
          PROVE  Complete' /\ Writes
      <4>1. ~ missed /\ Complete /\ missed' = missed
        BY <2>1, <3>3 DEF Note, CInv, Sized
      <4>2. /\ Covers(upd.todo \cup {t}) /\ Manifests \subseteq upd.found \cup {t}
            /\ t \in PinnedManifests /\ t \notin upd.todo
        BY <1>0, <1>1, <4>1 DEF Complete
      <4>3. m \in upd.todo /\ \A j \in upd.todo : m <= j
        BY <1>1, <1>3, <2>0, MinIsMember DEF UpdateState
      <4>4. t # m /\ PinnedManifests' = PinnedManifests \ {m}
        BY <3>1, <4>2, <4>3 DEF PinnedManifests
      <4>5. Complete'
        BY <1>1, <2>2, <3>1, <4>2, <4>4 DEF Complete, Covers
      <4>6. Renews
        BY <3>1 DEF Renews, Manifests
      <4>7. \A j \in Manifests : /\ ch[j].pinned \in BOOLEAN /\ j \in Ids /\ j \in Nat
                                 /\ ch[j].pinned <=> j \in PinnedManifests
        BY DEF IInv, ChannelTyped, Manifests, Pinned, PinnedManifests, Message
      <4>8. PICK j : OnTop(j)
        BY <1>1, OnTopExists DEF IInv
      <4>9. j \in PinnedManifests
        BY <1>1, <4>2, <4>7, <4>8 DEF OnTop
      <4>10. CASE j # m
        <5>1. ch'[j].pinned = TRUE /\ j \in Manifests'
          BY <3>1, <4>7, <4>8, <4>9, <4>10 DEF OnTop
        <5>2. \A h \in Manifests : ch'[h].pinned => ch[h].pinned = TRUE
          BY <3>1, <4>7
        <5>3. OnTop(j)'
          BY <3>1, <4>7, <4>8, <4>9, <5>1, <5>2 DEF OnTop
        <5>4. ch'[j].body = ch[j].body
          BY <3>1, <4>7, <4>8 DEF OnTop
        <5>5. Current' = Current
          BY <4>8, <5>3, <5>4, TopStays
        <5> QED BY <4>5, <4>6, <5>5 DEF Writes
      <4>11. CASE j = m
        <5>1. ASSUME NEW h \in Manifests, h # t
              PROVE  ch'[h].pinned = FALSE
          <6>1. CASE h \in PinnedManifests
            <7>0. ch[h].pinned = TRUE /\ ch[j].pinned = TRUE
              BY <4>7, <4>8, <4>9, <6>1 DEF OnTop
            <7>1. h \in upd.todo
              BY <4>2, <5>1, <6>1 DEF Covers
            <7>2. h <= j
              BY <4>8, <5>1, <7>0 DEF OnTop
            <7>3. h = m
              BY <4>3, <4>7, <4>8, <4>11, <5>1, <7>1, <7>2 DEF OnTop
            <7> QED BY <3>1, <4>7, <5>1, <7>3
          <6>2. CASE h \notin PinnedManifests
            BY <3>1, <4>7, <6>2
          <6> QED BY <6>1, <6>2
        <5>2. ch'[t].pinned = TRUE
          BY <1>1, <3>1, <4>2, <4>4, <4>7
        <5>3. OnTop(t)'
          <6>1. /\ \A h \in Manifests : ch'[h].pinned \in BOOLEAN
                /\ \A h \in Manifests : ch'[h].pinned => h <= t
            <7>1. t \in Nat /\ t <= t
              BY <1>1, <4>7
            <7> QED BY <5>1, <5>2, <7>1
          <6> QED BY <1>1, <3>1, <4>7, <5>2, <6>1, LatestPinOnTop
        <5>4. Current' = upd.ver
          BY <1>1, <3>1, <5>3, TopBecomes
        <5> QED BY <1>1, <2>2, <4>1, <4>5, <4>6, <5>4 DEF Writes
      <4> QED BY <4>10, <4>11
    <3> QED BY <3>2, <3>3
  <2> QED BY <2>3, <2>4
<1> QED BY <1>2, <1>3

\* Only the target is pinned by now; when nothing is left to be deleted it is
\* the only manifest.
LEMMA DeleteCompletes ==
    ASSUME IInv, IInv', Sized, CInv, DeleteDuplicates
    PROVE  /\ Newest' /\ (~ missed' => Complete' /\ Writes)
           /\ ~ missed' /\ upd.todo = {} =>
                /\ Current = upd.ver
                /\ Manifests' = {upd.target} /\ (tidy => Pinned' = {upd.target})
<1>0. PICK t : t = upd.target
  OBVIOUS
<1>1. /\ upd.pc = "delete" /\ UNCHANGED <<tidy, started>> /\ upd \in UpdateState
      /\ upd.ver = 2 + started /\ t \in Manifests /\ t \in Ids /\ ch[t].body = upd.ver
      /\ t \notin upd.todo
  BY <1>0 DEF DeleteDuplicates, bounds, IInv, ChannelTyped, CInv, Newest, Replaced, Manifests
<1>2. ASSUME ~ missed
      PROVE  /\ Covers({t}) /\ Manifests \subseteq upd.todo \cup {t}
             /\ t \in PinnedManifests /\ OnTop(t)
  <2>1. Covers({t}) /\ t \in PinnedManifests /\ Manifests \subseteq upd.todo \cup {t}
    BY <1>0, <1>1, <1>2 DEF CInv, Complete
  <2>2. \A j \in Manifests : /\ ch[j].pinned \in BOOLEAN /\ j \in Nat
                             /\ ch[j].pinned <=> j \in PinnedManifests
    BY DEF IInv, ChannelTyped, Manifests, Pinned, PinnedManifests, Message
  <2>3. \A j \in Manifests : ch[j].pinned = (j = t)
    BY <2>1, <2>2 DEF Covers
  <2>4. OnTop(t)
    BY <1>1, <2>2, <2>3 DEF OnTop
  <2> QED BY <2>1, <2>4
<1>3. CASE upd.todo = {}
  <2>1. UNCHANGED <<ch, missed>> /\ upd' = IdleUpdate
    BY <1>3 DEF DeleteDuplicates
  <2>2. /\ Newest' /\ Writes /\ PinnedManifests' = PinnedManifests /\ Manifests' = Manifests
    BY <1>1, <2>1, IdleTyped, QuietNewest
  <2>3. Complete'
    BY <2>1, IdleTyped DEF Complete
  <2>4. ASSUME ~ missed'
        PROVE  /\ Current = upd.ver
               /\ Manifests' = {upd.target} /\ (tidy => Pinned' = {upd.target})
    <3>1. Covers({t}) /\ Manifests \subseteq {t} /\ t \in PinnedManifests /\ OnTop(t)
      BY <1>2, <1>3, <2>1, <2>4
    <3>2. Pinned' = Pinned
      BY <2>1 DEF Pinned, Ids
    <3>3. Current = upd.ver
      BY <1>1, <3>1, TopLawNow DEF TopLaw, IInv
    <3> QED BY <1>0, <1>1, <2>2, <3>1, <3>2, <3>3 DEF Covers, PinnedManifests
  <2> QED BY <2>2, <2>3, <2>4
<1>4. CASE upd.todo # {}
  <2>0. PICK m : m = Min(upd.todo)
    OBVIOUS
  <2>1. PICK o : /\ ch' = IF o # "failed" THEN [i \in Ids \ {m} |-> ch[i]] ELSE ch
                 /\ upd' = [upd EXCEPT !.todo = @ \ {m}]
                 /\ Note(o # "ok")
    BY <1>1, <1>4, <2>0 DEF DeleteDuplicates, UpdateState
  <2>2. /\ upd'.pc = "delete" /\ upd'.ver = upd.ver /\ upd'.target = t
        /\ upd'.todo = upd.todo \ {m}
    BY <1>0, <1>1, <2>1 DEF UpdateState
  <2>3. CASE o = "failed"
    <3>1. ch' = ch /\ missed'
      BY <2>1, <2>3 DEF Note
    <3> QED BY <1>1, <1>4, <2>2, <3>1, QuietNewest
  <2>4. CASE o # "failed"
    <3>1. m \in upd.todo /\ m # t
      BY <1>1, <1>4, <2>0, MinIsMember DEF UpdateState
    <3>2. /\ Ids' = Ids \ {m} /\ \A j \in Ids' : ch'[j] = ch[j]
      BY <2>1, <2>4 DEF Ids
    <3>3. Manifests' = Manifests \ {m} /\ Pinned' = Pinned \ {m}
      BY <3>2 DEF Manifests, Pinned
    <3>4. Newest'
      BY <1>1, <2>2, <3>2, <3>3 DEF CInv, Newest, Manifests
    <3>5. ASSUME ~ missed'
          PROVE  Complete' /\ Writes
      <4>1. ~ missed
        BY <2>1, <3>5 DEF Note
      <4>2. /\ Covers({t}) /\ Manifests \subseteq upd.todo \cup {t}
            /\ t \in PinnedManifests /\ OnTop(t)
        BY <1>2, <4>1
      <4>3. t \in PinnedManifests' /\ PinnedManifests' \subseteq PinnedManifests
        BY <3>1, <3>3, <4>2 DEF PinnedManifests
      <4>4. Complete'
        BY <1>1, <2>2, <3>3, <4>2, <4>3 DEF Complete, Covers
      <4>5. Renews
        BY <3>2, <3>3 DEF Renews, Manifests
      <4>6. ch'[t] = ch[t] /\ \A j \in Manifests' : ch'[j] = ch[j]
        BY <1>1, <3>1, <3>2, <3>3 DEF Manifests
      <4>7. OnTop(t)'
        BY <1>1, <3>1, <3>3, <4>2, <4>6 DEF OnTop
      <4>8. Current' = Current
        BY <4>2, <4>6, <4>7, TopStays
      <4> QED BY <4>4, <4>5, <4>8 DEF Writes
    <3> QED BY <1>4, <3>4, <3>5
  <2> QED BY <2>3, <2>4
<1> QED BY <1>3, <1>4

\* What is no manifest does not matter to a reader.
LEMMA SameManifests ==
    ASSUME Manifests' = Manifests, \A j \in Manifests : ch'[j] = ch[j]
    PROVE  Current' = Current /\ Writes
<1>1. AsSeen(Manifests)' = AsSeen(Manifests)
  <2>1. AsSeen(Manifests)' = {[id |-> i, pinned |-> ch'[i].pinned, body |-> ch'[i].body] :
                              i \in Manifests'}
    BY DEF AsSeen
  <2> QED BY <2>1 DEF AsSeen
<1>2. Current' = Current
  BY <1>1 DEF Current, Preferred
<1> QED BY <1>2 DEF Writes, Renews

LEMMA WorldCompletes ==
    ASSUME IInv, Sized, CInv,
           (\E i \in Ids : UserPin(i)) \/ Post \/ Crash
             \/ ReadStart \/ ReadFetch \/ ReadDownload \/ UNCHANGED vars
    PROVE  CInv' /\ Writes /\ Current' = Current
<1>1. CASE \E i \in Ids : UserPin(i)
  <2>1. PICK i \in Ids : UserPin(i)
    BY <1>1
  <2>2. /\ Manifests' = Manifests /\ Pinned' = Pinned \cup {i} /\ i \notin Manifests
        /\ ch' = [ch EXCEPT ![i] = WithPin(@, TRUE)]
        /\ tidy' = FALSE /\ UNCHANGED <<upd, missed, started>>
    BY <2>1, RepinFields DEF UserPin, bounds
  <2>3. \A j \in Manifests : ch'[j] = ch[j]
    BY <2>2 DEF IInv, ChannelTyped, Manifests
  <2>4. PinnedManifests' = PinnedManifests
    BY <2>2 DEF PinnedManifests
  <2>5. \A S : Covers(S) => Covers(S)'
    BY <2>2, <2>4 DEF Covers
  <2>6. Newest'
    BY <2>2, <2>3 DEF CInv, Newest
  <2>7. Complete => Complete'
    BY <2>2, <2>4, <2>5 DEF Complete, LeadsPins
  <2> QED BY <2>2, <2>3, <2>6, <2>7, SameManifests DEF CInv
<1>2. CASE Post
  <2> DEFINE n == [manifest |-> FALSE, pinned |-> FALSE, body |-> 0]
  <2>1. /\ lastId' = lastId + 1 /\ n \in Message /\ UNCHANGED <<upd, tidy, missed, started>>
        /\ ch' = [j \in Ids \cup {lastId + 1} |-> IF j \in Ids THEN ch[j] ELSE n]
        /\ n.manifest = FALSE /\ n.pinned = FALSE
    BY <1>2 DEF Post, Message, bounds
  <2> HIDE DEF n
  <2>2. /\ Ids' = Ids \cup {lastId + 1} /\ \A j \in Ids : ch'[j] = ch[j]
        /\ ch'[lastId + 1] = n /\ lastId + 1 \notin Ids
    BY <2>1, AddMessage DEF IInv
  <2>3. Manifests' = Manifests /\ Pinned' = Pinned
    BY <2>1, <2>2 DEF Manifests, Pinned
  <2>4. \A j \in Manifests : ch'[j] = ch[j]
    BY <2>2 DEF Manifests
  <2>5. PinnedManifests' = PinnedManifests /\ \A S : Covers(S)' = Covers(S)
    BY <2>1, <2>3 DEF PinnedManifests, Covers
  <2>6. Newest'
    BY <2>1, <2>3, <2>4 DEF CInv, Newest
  <2>7. Complete => Complete'
    BY <2>1, <2>3, <2>5 DEF Complete, LeadsPins
  <2> QED BY <2>1, <2>3, <2>4, <2>6, <2>7, SameManifests DEF CInv
<1>3. CASE Crash
  <2>1. UNCHANGED <<ch, tidy, started, missed>> /\ upd' = IdleUpdate
    BY <1>3 DEF Crash
  <2>2. Newest' /\ Manifests' = Manifests
    BY <2>1, IdleTyped, QuietNewest
  <2>3. Complete'
    BY <2>1, IdleTyped DEF Complete
  <2>4. \A j \in Manifests : ch'[j] = ch[j]
    BY <2>1
  <2> QED BY <2>2, <2>3, <2>4, SameManifests DEF CInv
<1>4. CASE ReadStart \/ ReadFetch \/ ReadDownload \/ UNCHANGED vars
  <2>1. UNCHANGED <<ch, tidy, started, upd>>
    BY <1>4, ZenonT(30) DEF ReadStart, ReadFetch, ReadDownload, vars, bounds
  <2>2. ~ missed' => ~ missed
    BY <1>4 DEF ReadStart, ReadFetch, ReadDownload, vars
  <2>3. /\ Newest' /\ PinnedManifests' = PinnedManifests /\ Manifests' = Manifests
        /\ \A S : Covers(S)' = Covers(S)
    BY <2>1, QuietNewest
  <2>4. Complete => Complete'
    BY <2>1, <2>3 DEF Complete, LeadsPins
  <2>5. \A j \in Manifests : ch'[j] = ch[j]
    BY <2>1
  <2> QED BY <2>2, <2>3, <2>4, <2>5, SameManifests, SMTT(30) DEF CInv
<1> QED BY <1>1, <1>2, <1>3, <1>4

LEMMA InitCompletes == Init => CInv
<1> SUFFICES ASSUME Init PROVE CInv
  OBVIOUS
<1>1. upd.pc = "idle" /\ started = 0
  BY IdleTyped DEF Init
<1>2. PICK D \in SUBSET (1..lastId) : ch \in [D -> Found]
  BY DEF Init
<1>3. \A i \in Manifests : ch[i].body <= 2
  BY <1>2 DEF Manifests, Ids, Found
<1> QED BY <1>1, <1>3 DEF CInv, Newest, Complete

LEMMA StepCompletes ==
    ASSUME IInv, IInv', Sized, CInv, [Next]_vars
    PROVE  CInv' /\ (~ missed' \/ upd.pc = "idle" => Writes)
<1>1. CASE Start \/ Upload \/ Fetch
  BY <1>1, StartCompletes, UploadCompletes, FetchCompletes
<1>2. CASE Edit \/ Send \/ Pin \/ Unpin \/ DeleteDuplicates
  <2>1. upd.pc # "idle"
    BY <1>2 DEF Edit, Send, Pin, Unpin, DeleteDuplicates
  <2> QED BY <1>2, <2>1, EditCompletes, SendCompletes, PinCompletes, UnpinCompletes,
             DeleteCompletes DEF CInv
<1>3. CASE (\E i \in Ids : UserPin(i)) \/ Post \/ Crash
             \/ ReadStart \/ ReadFetch \/ ReadDownload \/ UNCHANGED vars
  BY <1>3, WorldCompletes
<1> QED BY <1>1, <1>2, <1>3 DEF Next

LEMMA AllAlways == Spec => [](IInv /\ Sized /\ CInv)
<1>1. IInv /\ IInv' /\ Sized /\ CInv /\ [Next]_vars => CInv'
  BY StepCompletes
<1>2. Spec => []IInv
  BY InitKept, StepKept, PTL DEF Spec
<1> QED BY <1>1, <1>2, SizedAlways, InitCompletes, PTL DEF Spec

-----------------------------------------------------------------------------
(* The end of an update                                                     *)

\* Between updates nothing is pending, and the last one has left one message.
Ended == /\ upd.pc = "idle" => upd.ver = 0
         /\ OnePinned

\* While an update is under way nothing is claimed.
LEMMA BusyEnded ==
    ASSUME upd'.pc # "idle"
    PROVE  Ended'
BY DEF Ended, OnePinned

\* Nor after one that has not returned Ok.
LEMMA AbortEnded ==
    ASSUME IInv, CInv, upd.pc # "idle", upd' = IdleUpdate, UNCHANGED <<acked, started>>
    PROVE  Ended'
<1>1. acked' # 2 + started'
  BY DEF IInv, CInv, Numbered, Newest, ChannelTyped
<1> QED BY <1>1, IdleTyped DEF Ended, OnePinned

LEMMA StepEnded ==
    ASSUME IInv, IInv', Sized, CInv, Ended, [Next]_vars
    PROVE  Ended'
<1>0. upd \in UpdateState
  BY DEF IInv, ChannelTyped
<1>1. CASE Start \/ Upload \/ Fetch \/ Edit \/ Send \/ Pin \/ Unpin
  <2>1. Start => upd'.pc = "upload"
    BY DEF Start, IdleUpdate
  <2>2. Upload => \/ upd'.pc = "fetch"
                  \/ upd.pc # "idle" /\ upd' = IdleUpdate /\ UNCHANGED <<acked, started>>
    BY <1>0 DEF Upload, UpdateState, bounds
  <2>3. Fetch => upd'.pc # "idle"
    <3> SUFFICES ASSUME Fetch PROVE upd'.pc # "idle"
      OBVIOUS
    <3>1. PICK u : /\ u = upd \/ \E A : u \in Collect(upd, A)
                   /\ upd' = IF u.k < 6 THEN [u EXCEPT !.k = @ + 1]
                             ELSE [u EXCEPT !.k = 1, !.primary = 0, !.target = Target(u),
                                  !.pc = IF Target(u) = 0 THEN "send" ELSE "edit"]
      BY DEF Fetch
    <3>2. u \in UpdateState /\ u.pc = "fetch"
      BY <1>0, <3>1, CollectRemembers DEF Fetch, IInv
    <3> QED BY <3>1, <3>2 DEF UpdateState
  <2>4. Edit \/ Pin \/ Unpin => upd'.pc # "idle"
    BY <1>0 DEF Edit, Pin, Unpin, UpdateState
  <2>5. Send => \/ upd'.pc = "pin"
                \/ upd.pc # "idle" /\ upd' = IdleUpdate /\ UNCHANGED <<acked, started>>
    BY <1>0 DEF Send, UpdateState, bounds
  <2>6. CASE upd'.pc # "idle"
    BY <2>6, BusyEnded
  <2>7. CASE upd.pc # "idle" /\ upd' = IdleUpdate /\ UNCHANGED <<acked, started>>
    BY <2>7, AbortEnded
  <2> QED BY <1>1, <2>1, <2>2, <2>3, <2>4, <2>5, <2>6, <2>7
<1>2. CASE DeleteDuplicates
  <2>1. upd.pc = "delete"
    BY <1>2 DEF DeleteDuplicates
  <2>2. CASE upd.todo # {}
    <3>1. upd'.pc = "delete"
      BY <1>0, <1>2, <2>1, <2>2 DEF DeleteDuplicates, UpdateState
    <3> QED BY <3>1, BusyEnded
  <2>3. CASE upd.todo = {}
    <3>1. upd' = IdleUpdate /\ tidy' = tidy
      BY <1>2, <2>3 DEF DeleteDuplicates
    <3>2. ASSUME ~ missed', tidy'
          PROVE  Cardinality(Pinned') = 1 /\ Pinned' = Manifests'
      <4>1. Pinned' = {upd.target} /\ Manifests' = {upd.target}
        BY <1>2, <2>3, <3>1, <3>2, DeleteCompletes
      <4> QED BY <4>1, FS_Singleton
    <3> QED BY <3>1, <3>2, IdleTyped DEF Ended, OnePinned
  <2> QED BY <2>2, <2>3
<1>3. CASE \E i \in Ids : UserPin(i)
  BY <1>3 DEF UserPin, Ended, OnePinned, bounds
<1>4. CASE Post
  <2> DEFINE n == [manifest |-> FALSE, pinned |-> FALSE, body |-> 0]
  <2>1. /\ lastId' = lastId + 1 /\ n \in Message /\ UNCHANGED <<upd, tidy, missed, acked, started>>
        /\ ch' = [j \in Ids \cup {lastId + 1} |-> IF j \in Ids THEN ch[j] ELSE n]
        /\ n.manifest = FALSE /\ n.pinned = FALSE
    BY <1>4 DEF Post, Message, bounds
  <2> HIDE DEF n
  <2>2. /\ Ids' = Ids \cup {lastId + 1} /\ \A j \in Ids : ch'[j] = ch[j]
        /\ ch'[lastId + 1] = n /\ lastId + 1 \notin Ids
    BY <2>1, AddMessage DEF IInv
  <2>3. Manifests' = Manifests /\ Pinned' = Pinned
    BY <2>1, <2>2 DEF Manifests, Pinned
  <2> QED BY <2>1, <2>3 DEF Ended, OnePinned
<1>5. CASE Crash
  <2>1. upd' = IdleUpdate /\ UNCHANGED <<ch, tidy, missed, acked, started>>
    BY <1>5 DEF Crash
  <2>2. CASE upd.pc # "idle"
    BY <2>1, <2>2, AbortEnded
  <2>3. CASE upd.pc = "idle"
    <3>1. Pinned' = Pinned /\ Manifests' = Manifests
      BY <2>1 DEF Pinned, Manifests, Ids
    <3> QED BY <2>1, <2>3, <3>1, IdleTyped DEF Ended, OnePinned
  <2> QED BY <2>2, <2>3
<1>6. CASE ReadStart \/ ReadFetch \/ ReadDownload \/ UNCHANGED vars
  <2>1. UNCHANGED <<ch, tidy, upd, acked, started>>
    BY <1>6, ZenonT(30) DEF ReadStart, ReadFetch, ReadDownload, vars, bounds
  <2>2. ~ missed' => ~ missed
    BY <1>6 DEF ReadStart, ReadFetch, ReadDownload, vars
  <2>3. Pinned' = Pinned /\ Manifests' = Manifests
    BY <2>1 DEF Pinned, Manifests, Ids
  <2> QED BY <2>1, <2>2, <2>3, SMTT(30) DEF Ended, OnePinned
<1> QED BY <1>1, <1>2, <1>3, <1>4, <1>5, <1>6 DEF Next

LEMMA EndedAlways == Spec => []Ended
<1>1. Init => Ended
  BY IdleTyped DEF Init, Ended, OnePinned
<1>2. IInv /\ IInv' /\ Sized /\ CInv /\ Ended /\ [Next]_vars => Ended'
  BY StepEnded
<1> QED BY <1>1, <1>2, AllAlways, PTL DEF Spec

\* After an update that returned Ok and passed nothing over, that is: no failed
\* search, pin, unpin or deletion, and no search that met its limit, its
\* manifest is the one message pinned in the channel, whatever was pinned
\* before and whichever updates failed or were cut short
\* (do_update_pinned_manifest: the searches, the unpinning and the deletion of
\* all but the target).
THEOREM OnePinnedMessage == Spec => []OnePinned
<1>1. Ended => OnePinned
  BY SMTT(30) DEF Ended
<1> QED BY <1>1, EndedAlways, PTL

-----------------------------------------------------------------------------
(* An update is one write                                                   *)

\* What a step that is not the start of an update, and passes nothing over,
\* leaves of the history.
LEMMA MissedStays ==
    ASSUME Sized, [Next]_vars, ~ missed', ~ Start
    PROVE  ~ missed /\ missed' = missed
BY DEF Next, Upload, Fetch, Edit, Send, Pin, Unpin, DeleteDuplicates, ReadStart,
       ReadFetch, ReadDownload, UserPin, Post, Crash, vars, Note, Sized

\* Only the requests of an update, and only one of them, change what a reader
\* gets; every other step is one of the register, or none.
LEMMA StepOfRegister ==
    ASSUME IInv, IInv', Sized, CInv, Ended, [Next]_vars
    PROVE  Register!Next \/ UNCHANGED Register!vars
<1>0. upd \in UpdateState /\ (~ missed' => Writes)
  BY StepCompletes DEF IInv, ChannelTyped
<1>1. CASE missed'
  BY <1>1 DEF Register!Next, Register!Missing
<1>2. CASE Start
  <2>1. /\ ch' = ch /\ acked' = acked /\ upd.pc = "idle" /\ missed' = FALSE
        /\ upd' = [IdleUpdate EXCEPT !.pc = "upload", !.ver = 3 + started]
    BY <1>2 DEF Start
  <2>2. upd.ver = 0 /\ upd'.ver = 3 + started /\ 3 + started \in Nat \ {0}
    BY <2>1 DEF Ended, IInv, ChannelTyped, IdleUpdate
  <2>3. Current' = Current
    BY <2>1 DEF Current, AsSeen, Manifests, Ids
  <2> QED BY <2>1, <2>2, <2>3 DEF Register!Next, Register!Begin
<1>3. ASSUME ~ missed', ~ Start
      PROVE  /\ missed' = missed /\ Writes
             /\ upd.pc # "idle" => upd.ver # 0
  BY <1>0, <1>3, MissedStays DEF IInv, Numbered, ChannelTyped, UpdateState
<1>4. ASSUME ~ missed', ~ Start, upd'.ver = upd.ver, acked' = acked
      PROVE  Register!Next \/ UNCHANGED Register!vars
  <2>1. CASE Current' = Current
    BY <1>3, <1>4, <2>1 DEF Register!vars
  <2>2. CASE Current' = upd.ver /\ upd.pc # "idle"
    BY <1>3, <1>4, <2>2 DEF Register!Next, Register!Write
  <2> QED BY <1>3, <1>4, <2>1, <2>2 DEF Writes
<1>5. ASSUME ~ missed', ~ Start, upd.pc # "idle", upd'.ver = 0, acked' = acked
      PROVE  Register!Next
  <2>1. Current' \in {Current, upd.ver}
    BY <1>3, <1>5 DEF Writes
  <2> QED BY <1>3, <1>5, <2>1 DEF Register!Next, Register!Abort
<1>6. CASE (Upload \/ Fetch \/ Edit \/ Send \/ Pin \/ Unpin) /\ ~ missed' /\ ~ Start
  <2>1. acked' = acked
    BY <1>6 DEF Upload, Fetch, Edit, Send, Pin, Unpin
  <2>2. Edit \/ Pin \/ Unpin => upd'.ver = upd.ver
    BY <1>0 DEF Edit, Pin, Unpin, UpdateState
  <2>3. Fetch => upd'.ver = upd.ver
    <3> SUFFICES ASSUME Fetch PROVE upd'.ver = upd.ver
      OBVIOUS
    <3>1. PICK u : /\ u = upd \/ \E A : u \in Collect(upd, A)
                   /\ upd' = IF u.k < 6 THEN [u EXCEPT !.k = @ + 1]
                             ELSE [u EXCEPT !.k = 1, !.primary = 0, !.target = Target(u),
                                  !.pc = IF Target(u) = 0 THEN "send" ELSE "edit"]
      BY DEF Fetch
    <3>2. u \in UpdateState /\ u.ver = upd.ver
      BY <3>1, CollectRemembers DEF IInv, ChannelTyped
    <3> QED BY <3>1, <3>2 DEF UpdateState
  <2>4. Upload \/ Send => upd'.ver = upd.ver \/ (upd.pc # "idle" /\ upd'.ver = 0)
    BY <1>0, IdleTyped DEF Upload, Send, UpdateState
  <2> QED BY <1>4, <1>5, <1>6, <2>1, <2>2, <2>3, <2>4
<1>7. CASE DeleteDuplicates /\ ~ missed' /\ ~ Start
  <2>1. CASE upd.todo = {}
    <3>1. acked' = upd.ver /\ upd' = IdleUpdate /\ ch' = ch /\ upd.pc = "delete"
      BY <1>7, <2>1 DEF DeleteDuplicates
    <3>2. Current' = Current
      BY <3>1 DEF Current, AsSeen, Manifests, Ids
    <3>3. Current = upd.ver
      BY <1>7, <2>1, DeleteCompletes
    <3> QED BY <1>3, <1>7, <3>1, <3>2, <3>3, IdleTyped DEF Register!Next, Register!Return
  <2>2. CASE upd.todo # {}
    <3>1. acked' = acked /\ upd'.ver = upd.ver
      BY <1>0, <1>7, <2>2 DEF DeleteDuplicates, UpdateState
    <3> QED BY <1>4, <1>7, <3>1
  <2> QED BY <2>1, <2>2
<1>8. CASE Crash /\ ~ missed' /\ ~ Start
  <2>1. upd'.ver = 0 /\ acked' = acked
    BY <1>8, IdleTyped DEF Crash
  <2>2. upd.pc = "idle" => upd.ver = 0
    BY DEF Ended
  <2> QED BY <1>4, <1>5, <1>8, <2>1, <2>2
<1>9. CASE ((\E i \in Ids : UserPin(i)) \/ Post \/ ReadStart \/ ReadFetch \/ ReadDownload
              \/ UNCHANGED vars) /\ ~ missed' /\ ~ Start
  <2>1. UNCHANGED <<upd, acked>>
    BY <1>9 DEF UserPin, Post, ReadStart, ReadFetch, ReadDownload, vars
  <2> QED BY <1>4, <1>9, <2>1
<1> QED BY <1>1, <1>2, <1>6, <1>7, <1>8, <1>9 DEF Next

\* An update of the channel that passes nothing over is one atomic write of a
\* register, and one that fails or is cut short has written or not, whatever
\* the reader and the users do beside it (do_update_pinned_manifest,
\* do_get_pinned_manifest).
THEOREM UpdateIsOneWrite == Spec => ActsAsRegister
<1>1. Init => Register!Init
  <2> SUFFICES ASSUME Init PROVE Register!Init
    OBVIOUS
  <2>1. Current \in Nat
    BY InitKept, CurrentIsNumber DEF IInv
  <2>2. upd.ver = 0 /\ acked = 0 /\ missed = FALSE
    BY IdleTyped DEF Init
  <2> QED BY <2>1, <2>2 DEF Register!Init
<1>2. IInv /\ IInv' /\ Sized /\ CInv /\ Ended /\ [Next]_vars
        => [Register!Next]_(Register!vars)
  BY StepOfRegister
<1>3. Spec => []Ended
  BY EndedAlways
<1> QED BY <1>1, <1>2, <1>3, AllAlways, PTL DEF Spec, ActsAsRegister, Register!Spec

-----------------------------------------------------------------------------
(* A reader beside an update                                                *)

\* A pinned manifest that was seen, or the latest of several none of which was
\* pinned: all that a reader may take instead of it is as new as what it
\* started from, in what it has seen and in the channel.
Ahead(i) ==
    /\ \E m \in rd.seen : m.pinned /\ m.id = i
    /\ \A m \in rd.seen : m.pinned /\ m.id >= i => m.body >= rd.since
    /\ \A j \in Manifests : ch[j].pinned /\ j >= i => ch[j].body >= rd.since

Latest(i) ==
    /\ \E m \in rd.seen : m.id = i
    /\ \A m \in rd.seen : m.pinned \/ m.id >= i => m.body >= rd.since
    /\ \A j \in Manifests : ch[j].pinned \/ j >= i => ch[j].body >= rd.since

\* Before the search for the tag neither may have been found; then there is
\* one to be found, and no old one gets in its way.
Unseen ==
    /\ rd.pc = "fetch" /\ rd.k <= 4
    /\ Manifests # {} /\ Current >= rd.since
    /\ \A m \in rd.seen : m.pinned => m.body >= rd.since
    /\ rd.k = 1 => rd.seen = {}
    /\ rd.k > 1 => \A j \in PinnedManifests : ch[j].body >= rd.since
    /\ PinnedManifests = {} =>
         \A m \in rd.seen : (\A j \in Manifests : j <= m.id) => m.body >= rd.since

Told ==
    /\ rd.since < 3 + started
    /\ rd.pc \in {"fetch", "download"} /\ ~ rd.missed /\ upd.pc # "idle" => ~ missed
    /\ ~ rd.missed =>
         /\ rd.pc = "done" => rd.got >= rd.since
         /\ rd.pc \in {"fetch", "download"} =>
              rd.since = 0 \/ Unseen \/ \E i : Ahead(i) \/ Latest(i)

\* What the steps of an update and of the world leave of a reader's history.
LEMMA OthersMiss ==
    ASSUME Sized,
           \/ Start \/ Upload \/ Fetch \/ Edit \/ Send \/ Pin \/ Unpin \/ DeleteDuplicates
           \/ (\E i \in Ids : UserPin(i)) \/ Post \/ UNCHANGED vars
    PROVE  /\ rd'.since = rd.since /\ rd'.pc = rd.pc
           /\ rd'.missed \/ (rd' = rd /\ (missed' = missed \/ ~ missed'))
           /\ upd.pc = "idle" /\ upd'.pc # "idle" => ~ missed'
<1>1. \/ \E b \in BOOLEAN : Note(b)
      \/ UNCHANGED <<rd, missed>>
      \/ rd' = rd /\ missed' = FALSE
  BY DEF Start, Upload, Fetch, Edit, Send, Pin, Unpin, DeleteDuplicates, UserPin, Post, vars
<1>2. upd.pc = "idle" /\ upd'.pc # "idle" => ~ missed'
  BY DEF Start, Upload, Fetch, Edit, Send, Pin, Unpin, DeleteDuplicates, UserPin, Post, vars
<1>3. CASE \E b \in BOOLEAN : Note(b)
  <2>1. PICK b \in BOOLEAN : Note(b)
    BY <1>3
  <2>2. rd'.missed \/ (rd' = rd /\ missed' = missed)
    BY <2>1, NoteTyped
  <2>3. rd'.since = rd.since /\ rd'.pc = rd.pc
    BY <2>1, NoteTyped
  <2> QED BY <1>2, <2>2, <2>3, Zenon
<1>4. CASE rd' = rd /\ (missed' = missed \/ missed' = FALSE)
  BY <1>2, <1>4
<1> QED BY <1>1, <1>3, <1>4

\* A pin is taken from a manifest, and a manifest deleted, only when another
\* one is pinned.
LEMMA PinsKept ==
    ASSUME IInv, IInv', Sized, CInv, [Next]_vars, ~ missed' \/ upd.pc = "idle",
           PinnedManifests' = {}
    PROVE  PinnedManifests = {} /\ Manifests \subseteq Manifests'
<1>1. /\ upd.pc # "idle" => Complete'
      /\ upd \in UpdateState
  BY StepCompletes DEF CInv, IInv, ChannelTyped
<1>2. CASE Unpin
  <2>1. upd.pc # "idle" /\ upd'.pc \in {"unpin", "delete"}
    BY <1>1, <1>2 DEF Unpin, UpdateState
  <2> QED BY <1>1, <2>1 DEF Complete
<1>3. CASE DeleteDuplicates
  <2>1. CASE upd.todo = {}
    <3>1. ch' = ch
      BY <1>3, <2>1 DEF DeleteDuplicates
    <3> QED BY <3>1 DEF PinnedManifests, Pinned, Manifests, Ids
  <2>2. CASE upd.todo # {}
    <3>1. upd.pc # "idle" /\ upd'.pc = "delete"
      BY <1>1, <1>3, <2>2 DEF DeleteDuplicates, UpdateState
    <3> QED BY <1>1, <3>1 DEF Complete
  <2> QED BY <2>1, <2>2
<1>4. CASE \/ Start \/ Upload \/ Fetch \/ ReadStart \/ ReadFetch \/ ReadDownload
           \/ Crash \/ UNCHANGED vars
  <2>1. ch' = ch
    BY <1>4 DEF Start, Upload, Fetch, ReadStart, ReadFetch, ReadDownload, Crash, vars
  <2> QED BY <2>1 DEF PinnedManifests, Pinned, Manifests, Ids
<1>5. CASE Pin \/ \E i \in Ids : UserPin(i)
  <2>1. \/ \E i \in Ids : ch' = [ch EXCEPT ![i] = WithPin(@, TRUE)]
        \/ ch' = ch
    <3>1. Pin => upd.target \in Ids
      BY DEF Pin, IInv, Replaced, Manifests
    <3> QED BY <1>5, <3>1 DEF Pin, UserPin
  <2>2. CASE ch' = ch
    BY <2>2 DEF PinnedManifests, Pinned, Manifests, Ids
  <2>3. CASE \E i \in Ids : ch' = [ch EXCEPT ![i] = WithPin(@, TRUE)]
    <3>1. PICK i \in Ids : ch' = [ch EXCEPT ![i] = WithPin(@, TRUE)]
      BY <2>3
    <3>2. Manifests' = Manifests /\ Pinned' = Pinned \cup {i}
      BY <3>1, RepinFields
    <3> QED BY <3>2 DEF PinnedManifests
  <2> QED BY <2>1, <2>2, <2>3
<1>6. CASE Edit
  <2> DEFINE t == upd.target
  <2>1. t \in Ids /\ ch[t] \in Message /\ upd.ver \in Nat
    BY <1>1, <1>6 DEF Edit, IInv, Remembered, ChannelTyped, Manifests, UpdateState
  <2>2. ch' = ch \/ ch' = [ch EXCEPT ![t] = WithBody(@, upd.ver)]
    BY <1>6 DEF Edit
  <2>3. Ids' = Ids /\ \A j \in Ids : ch'[j] = ch[j] \/ ch'[j] = WithBody(ch[j], upd.ver)
    BY <2>1, <2>2 DEF IInv, ChannelTyped, Ids
  <2>4. \A j \in Ids : /\ WithBody(ch[j], upd.ver).manifest = ch[j].manifest
                       /\ WithBody(ch[j], upd.ver).pinned = ch[j].pinned
    BY DEF IInv, ChannelTyped, WithBody, Message
  <2>5. \A j \in Ids : ch'[j].manifest = ch[j].manifest /\ ch'[j].pinned = ch[j].pinned
    BY <2>3, <2>4
  <2>6. Manifests' = Manifests /\ Pinned' = Pinned
    BY <2>3, <2>5 DEF Manifests, Pinned
  <2> QED BY <2>6 DEF PinnedManifests
<1>7. CASE Send \/ Post
  <2>1. \E n : ch' = [j \in Ids \cup {lastId + 1} |-> IF j \in Ids THEN ch[j] ELSE n]
               \/ ch' = ch
    BY <1>7, SMTT(30) DEF Send, Post
  <2>2. Ids \subseteq Ids' /\ \A j \in Ids : ch'[j] = ch[j]
    BY <2>1 DEF Ids
  <2>3. Manifests \subseteq Manifests' /\ Pinned \subseteq Pinned'
    BY <2>2 DEF Manifests, Pinned
  <2> QED BY <2>3 DEF PinnedManifests
<1> QED BY <1>2, <1>3, <1>4, <1>5, <1>6, <1>7 DEF Next

LEMMA CountsStarts ==
    ASSUME IInv, [Next]_vars
    PROVE  started \in Nat /\ started' \in Nat /\ started <= started'
<1>1. started \in Nat
  BY DEF IInv, ChannelTyped
<1>2. CASE Start
  BY <1>1, <1>2 DEF Start
<1>3. CASE started' = started
  BY <1>1, <1>3
<1> QED BY <1>2, <1>3 DEF Next, Upload, Fetch, Edit, Send, Pin, Unpin, DeleteDuplicates,
          ReadStart, ReadFetch, ReadDownload, UserPin, Post, Crash, vars, bounds

LEMMA BodyIsNumber ==
    ASSUME IInv, NEW j \in Manifests
    PROVE  j \in Nat /\ ch[j].body \in Nat /\ ch[j].pinned \in BOOLEAN
BY DEF IInv, ChannelTyped, Manifests, Message

LEMMA SeenIsTyped ==
    ASSUME Sized
    PROVE  /\ rd.since \in Nat
           /\ \A m \in rd.seen : m.id \in Nat /\ m.body \in Nat /\ m.pinned \in BOOLEAN
BY DEF Sized, ReaderState

\* Whatever the others do, what was true of a reader stays true.
LEMMA OthersTold ==
    ASSUME IInv, IInv', Sized, CInv, Told,
           \/ Start \/ Upload \/ Fetch \/ Edit \/ Send \/ Pin \/ Unpin \/ DeleteDuplicates
           \/ (\E i \in Ids : UserPin(i)) \/ Post \/ UNCHANGED vars
    PROVE  Told'
<1>0. /\ [Next]_vars
      /\ rd'.since = rd.since /\ rd'.pc = rd.pc
      /\ rd'.missed \/ (rd' = rd /\ (missed' = missed \/ ~ missed'))
      /\ upd.pc = "idle" /\ upd'.pc # "idle" => ~ missed'
  BY OthersMiss DEF Next
<1>1. rd'.since < 3 + started'
  BY <1>0, CountsStarts, SeenIsTyped DEF Told
<1>2. ASSUME ~ rd'.missed, rd.pc = "done"
      PROVE  rd'.got >= rd'.since
  BY <1>0, <1>2 DEF Told
<1>3. ASSUME ~ rd'.missed, rd.pc \in {"fetch", "download"}, rd.since # 0
      PROVE  Unseen' \/ \E i : Ahead(i)' \/ Latest(i)'
  <2>0. /\ rd' = rd /\ ~ rd.missed /\ Writes
        /\ ~ missed' \/ upd.pc = "idle"
    BY <1>0, <1>3, StepCompletes DEF Told
  <2>1. /\ rd.since \in Nat /\ rd.since <= 2 + started /\ started \in Nat
    BY <1>0, CountsStarts, SeenIsTyped DEF Told
  <2>2. ASSUME NEW j \in Manifests'
        PROVE  \/ /\ j \in Manifests /\ ch'[j].body = ch[j].body
                  /\ ch'[j].pinned => ch[j].pinned
               \/ ch'[j].body >= rd.since
    BY <2>0, <2>1, <2>2 DEF Writes, Renews
  <2>3. CASE \E i : Ahead(i)
    <3>1. PICK i : Ahead(i)
      BY <2>3
    <3>2. \A j \in Manifests' : ch'[j].pinned /\ j >= i => ch'[j].body >= rd.since
      BY <2>2, <3>1 DEF Ahead
    <3>3. Ahead(i)'
      BY <2>0, <3>1, <3>2 DEF Ahead
    <3> QED BY <3>3
  <2>4. CASE \E i : Latest(i)
    <3>1. PICK i : Latest(i)
      BY <2>4
    <3>2. \A j \in Manifests' : ch'[j].pinned \/ j >= i => ch'[j].body >= rd.since
      BY <2>2, <3>1 DEF Latest
    <3>3. Latest(i)'
      BY <2>0, <3>1, <3>2 DEF Latest
    <3> QED BY <3>3
  <2>5. CASE Unseen
    <3>1. Manifests' # {}
      BY <1>0, <2>5, KeepsOne DEF Unseen
    <3>2. Current' >= rd.since
      <4>1. Current' = Current \/ Current' = 2 + started
        BY <2>0 DEF Writes, CInv, Newest
      <4> QED BY <2>1, <2>5, <4>1 DEF Unseen
    <3>3. rd.k > 1 => \A j \in PinnedManifests' : ch'[j].body >= rd.since
      <4>1. ASSUME rd.k > 1, NEW j \in PinnedManifests'
            PROVE  ch'[j].body >= rd.since
        <5>1. j \in Manifests' /\ ch'[j].pinned
          BY <4>1 DEF PinnedManifests, Pinned
        <5>2. CASE j \in Manifests /\ ch'[j].body = ch[j].body /\ ch[j].pinned
          <6>1. j \in PinnedManifests
            BY <5>2 DEF PinnedManifests, Pinned, Manifests
          <6> QED BY <2>5, <4>1, <5>2, <6>1 DEF Unseen
        <5> QED BY <2>2, <5>1, <5>2
      <4> QED BY <4>1
    <3>4. ASSUME PinnedManifests' = {}, NEW m \in rd.seen, \A j \in Manifests' : j <= m.id
          PROVE  m.body >= rd.since
      <4>1. PinnedManifests = {} /\ Manifests \subseteq Manifests'
        BY <1>0, <2>0, <3>4, PinsKept
      <4> QED BY <2>5, <3>4, <4>1 DEF Unseen
    <3>5. Unseen'
      BY <2>0, <2>5, <3>1, <3>2, <3>3, <3>4 DEF Unseen
    <3> QED BY <3>5
  <2> QED BY <1>3, <2>0, <2>3, <2>4, <2>5 DEF Told
<1>4. rd'.pc \in {"fetch", "download"} /\ ~ rd'.missed /\ upd'.pc # "idle" => ~ missed'
  BY <1>0 DEF Told
<1> QED BY <1>0, <1>1, <1>2, <1>3, <1>4 DEF Told

LEMMA StartTold ==
    ASSUME IInv, Sized, CInv, ReadStart
    PROVE  Told'
<1>1. /\ rd'.pc = "fetch" /\ rd'.k = 1 /\ rd'.seen = {} /\ rd'.since = Current
      /\ rd'.missed = (missed /\ upd.pc # "idle")
      /\ UNCHANGED <<ch, upd, started, missed>>
  BY DEF ReadStart, IdleReader
<1>2. Manifests' = Manifests /\ PinnedManifests' = PinnedManifests /\ Current' = Current
  BY <1>1 DEF PinnedManifests, Pinned, Manifests, Ids, Current, AsSeen
<1>3. Current \in Nat /\ started \in Nat
  BY CurrentIsNumber DEF IInv, ChannelTyped
<1>4. Current <= 2 + started
  <2>1. CASE Manifests = {}
    BY <1>3, <2>1 DEF Current
  <2>2. CASE Manifests # {}
    <3>1. PICK i : OnTop(i)
      BY <2>2, OnTopExists DEF IInv
    <3> QED BY <3>1, CurrentIsOnTop DEF CInv, Newest, OnTop, IInv
  <2> QED BY <2>1, <2>2
<1>5. Current # 0 => Manifests # {}
  BY DEF Current
<1>6. Current # 0 => Unseen'
  BY <1>1, <1>2, <1>3, <1>5 DEF Unseen
<1>7. rd'.since < 3 + started'
  BY <1>1, <1>3, <1>4
<1>8. rd'.pc \in {"fetch", "download"} /\ ~ rd'.missed /\ upd'.pc # "idle" => ~ missed'
  BY <1>1
<1> QED BY <1>1, <1>6, <1>7, <1>8 DEF Told

\* The search for the tag finds what is on top.
LEMMA FetchTold ==
    ASSUME IInv, Sized, CInv, Told, ReadFetch
    PROVE  Told'
<1> DEFINE A == Answer(rd.k) \cap Manifests
<1>1. PICK o : rd' = [rd EXCEPT !.seen = IF o = "ok" THEN @ \cup AsSeen(A) ELSE @,
                                !.missed = @ \/ o # "ok" \/ LeavesOut(rd.k),
                                !.k = @ + 1,
                                !.pc = IF rd.k = 6 THEN "download" ELSE "fetch"]
  BY DEF ReadFetch
<1>2. /\ rd.pc = "fetch" /\ UNCHANGED <<ch, upd, missed, started>>
      /\ rd \in ReaderState /\ rd.k \in 1..6
  BY DEF ReadFetch, bounds, Sized, ReaderState
<1>3. /\ rd'.since = rd.since /\ rd'.k = rd.k + 1
      /\ rd'.pc = IF rd.k = 6 THEN "download" ELSE "fetch"
      /\ rd'.missed = (rd.missed \/ o # "ok" \/ LeavesOut(rd.k))
      /\ o = "ok" => rd'.seen = rd.seen \cup AsSeen(A)
  BY <1>1, <1>2 DEF ReaderState
<1>4. Manifests' = Manifests /\ PinnedManifests' = PinnedManifests /\ Current' = Current
  BY <1>2 DEF PinnedManifests, Pinned, Manifests, Ids, Current, AsSeen
<1>5. rd'.since < 3 + started'
  BY <1>2, <1>3 DEF Told
<1>6. ASSUME ~ rd'.missed, rd.since # 0
      PROVE  Unseen' \/ \E i : Ahead(i)' \/ Latest(i)'
  <2>0. /\ ~ rd.missed /\ o = "ok" /\ rd'.seen = rd.seen \cup AsSeen(A)
        /\ rd.k = 1 => Pinned \subseteq Answer(rd.k)
        /\ rd.k = 4 => Manifests \subseteq Answer(rd.k)
    BY <1>3, <1>6 DEF LeavesOut
  <2>1. \A m \in AsSeen(A) : /\ m.id \in A /\ m.pinned = ch[m.id].pinned
                             /\ m.body = ch[m.id].body
    BY DEF AsSeen
  <2>2. ASSUME NEW j \in A
        PROVE  \E m \in AsSeen(A) : m.id = j /\ m.pinned = ch[j].pinned
    <3> DEFINE r == [id |-> j, pinned |-> ch[j].pinned, body |-> ch[j].body]
    <3>1. r \in AsSeen(A) /\ r.id = j /\ r.pinned = ch[j].pinned
      BY DEF AsSeen
    <3> HIDE DEF r
    <3> QED BY <3>1
  <2>3. A \subseteq Manifests
    OBVIOUS
  <2>4. \A j \in Manifests : /\ j \in Nat /\ ch[j].body \in Nat /\ ch[j].pinned \in BOOLEAN
                             /\ ch[j].pinned <=> j \in PinnedManifests
    BY BodyIsNumber DEF Manifests, Pinned, PinnedManifests
  <2>5. /\ rd.since \in Nat
        /\ \A m \in rd.seen : m.id \in Nat /\ m.body \in Nat /\ m.pinned \in BOOLEAN
    BY SeenIsTyped
  <2> HIDE DEF A
  <2>6. CASE \E i : Ahead(i)
    <3>1. PICK i : Ahead(i)
      BY <2>6
    <3>2. \A m \in rd'.seen : m.pinned /\ m.id >= i => m.body >= rd.since
      BY <2>0, <2>1, <2>3, <3>1 DEF Ahead
    <3>3. Ahead(i)'
      BY <1>2, <1>3, <1>4, <2>0, <3>1, <3>2 DEF Ahead
    <3> QED BY <3>3
  <2>7. CASE \E i : Latest(i)
    <3>1. PICK i : Latest(i)
      BY <2>7
    <3>2. \A m \in rd'.seen : m.pinned \/ m.id >= i => m.body >= rd.since
      BY <2>0, <2>1, <2>3, <3>1 DEF Latest
    <3>3. Latest(i)'
      BY <1>2, <1>3, <1>4, <2>0, <3>1, <3>2 DEF Latest
    <3> QED BY <3>3
  <2>8. CASE Unseen
    <3>0. /\ rd.k <= 4 /\ Manifests # {} /\ Current >= rd.since
          /\ \A m \in rd.seen : m.pinned => m.body >= rd.since
      BY <2>8 DEF Unseen
    <3>1. PICK t : OnTop(t)
      BY <3>0, OnTopExists DEF IInv
    <3>2. /\ t \in Manifests /\ ch[t].body >= rd.since
          /\ \A j \in PinnedManifests : t \in PinnedManifests /\ j <= t
          /\ PinnedManifests = {} => \A j \in Manifests : j <= t
      <4>1. t \in Manifests
        BY <3>1 DEF OnTop
      <4>2. ch[t].body >= rd.since
        BY <3>0, <3>1, CurrentIsOnTop DEF IInv
      <4>3. ASSUME NEW j \in PinnedManifests
            PROVE  t \in PinnedManifests /\ j <= t
        <5>1. j \in Manifests /\ ch[j].pinned = TRUE
          BY <2>4, <4>3 DEF PinnedManifests
        <5>2. ch[t].pinned = TRUE
          BY <2>4, <3>1, <4>1, <5>1 DEF OnTop
        <5>3. j <= t
          BY <3>1, <5>1, <5>2 DEF OnTop
        <5> QED BY <2>4, <4>1, <5>2, <5>3
      <4>4. ASSUME PinnedManifests = {}, NEW j \in Manifests
            PROVE  j <= t
        <5>1. ch[j].pinned = FALSE /\ ch[t].pinned = FALSE
          BY <2>4, <4>1, <4>4
        <5> QED BY <3>1, <5>1 DEF OnTop
      <4> QED BY <4>1, <4>2, <4>3, <4>4
    <3>3. CASE PinnedManifests # {} /\ (rd.k = 1 \/ rd.k = 4)
      <4>1. t \in PinnedManifests
        BY <3>2, <3>3
      <4>2. t \in A
        BY <2>0, <3>2, <3>3, <4>1 DEF A, PinnedManifests
      <4>3. \A j \in Manifests : ch[j].pinned /\ j >= t => j = t
        BY <2>4, <3>2
      <4>4. \E m \in rd'.seen : m.pinned /\ m.id = t
        BY <2>0, <2>2, <2>4, <3>2, <4>1, <4>2
      <4>5. \A m \in rd'.seen : m.pinned /\ m.id >= t => m.body >= rd.since
        BY <2>0, <2>1, <2>3, <3>0, <3>2, <4>3
      <4>6. Ahead(t)'
        BY <1>2, <1>3, <1>4, <3>2, <4>3, <4>4, <4>5 DEF Ahead
      <4> QED BY <4>6
    <3>4. CASE PinnedManifests = {} /\ rd.k = 4
      <4>1. t \in A
        BY <2>0, <3>2, <3>4 DEF A
      <4>2. \A j \in Manifests : j >= t \/ ch[j].pinned => j = t
        BY <2>4, <3>2, <3>4
      <4>3. \E m \in rd'.seen : m.id = t
        BY <2>0, <2>2, <4>1
      <4>4. ASSUME NEW m \in rd.seen, m.id >= t
            PROVE  m.body >= rd.since
        <5>1. \A j \in Manifests : j <= m.id
          BY <2>4, <2>5, <3>2, <3>4, <4>4
        <5> QED BY <2>8, <3>4, <5>1 DEF Unseen
      <4>5. \A m \in rd'.seen : m.pinned \/ m.id >= t => m.body >= rd.since
        BY <2>0, <2>1, <2>3, <3>0, <3>2, <4>2, <4>4
      <4>6. Latest(t)'
        BY <1>2, <1>3, <1>4, <3>2, <4>2, <4>3, <4>5 DEF Latest
      <4> QED BY <4>6
    <3>5. CASE PinnedManifests = {} /\ rd.k = 1
      <4>1. A = {}
        BY <3>5 DEF A, Answer, LatestOf, PinnedManifests
      <4>2. rd'.seen = {}
        BY <2>0, <2>8, <3>5, <4>1 DEF Unseen, AsSeen
      <4>3. Unseen'
        BY <1>2, <1>3, <1>4, <3>0, <3>5, <4>2 DEF Unseen
      <4> QED BY <4>3
    <3>6. CASE rd.k \in {2, 3}
      <4>1. \A j \in PinnedManifests : ch[j].body >= rd.since
        BY <2>8, <3>6 DEF Unseen
      <4>2. \A m \in rd'.seen : m.pinned => m.body >= rd.since
        BY <2>0, <2>1, <2>3, <2>4, <3>0, <4>1
      <4>3. ASSUME PinnedManifests = {}, NEW m \in rd'.seen,
                   \A j \in Manifests : j <= m.id
            PROVE  m.body >= rd.since
        <5>1. CASE m \in rd.seen
          BY <2>8, <4>3, <5>1 DEF Unseen
        <5>2. CASE m \in AsSeen(A)
          <6>1. m.id = t
            BY <2>1, <2>3, <2>4, <3>2, <4>3, <5>2
          <6> QED BY <2>1, <3>2, <5>2, <6>1
        <5> QED BY <2>0, <5>1, <5>2
      <4>4. rd'.pc = "fetch" /\ rd'.k <= 4 /\ rd'.k > 1 /\ rd'.k # 1
        BY <1>2, <1>3, <3>6
      <4>5. Unseen'
        BY <1>2, <1>3, <1>4, <3>0, <4>1, <4>2, <4>3, <4>4 DEF Unseen
      <4> QED BY <4>5
    <3> QED BY <1>2, <3>0, <3>3, <3>4, <3>5, <3>6
  <2> QED BY <1>2, <1>6, <2>0, <2>6, <2>7, <2>8 DEF Told
<1>7. rd'.pc \in {"fetch", "download"} /\ ~ rd'.missed /\ upd'.pc # "idle" => ~ missed'
  BY <1>2, <1>3 DEF Told
<1> QED BY <1>2, <1>3, <1>5, <1>6, <1>7 DEF Told

LEMMA DownloadTold ==
    ASSUME IInv, Sized, CInv, Told, ReadDownload
    PROVE  Told'
<1>1. /\ rd.pc = "download" /\ UNCHANGED <<ch, upd, missed, started>> /\ rd \in ReaderState
      /\ rd.since \in Nat
      /\ \A m \in rd.seen : m.id \in Nat /\ m.body \in Nat /\ m.pinned \in BOOLEAN
  BY SeenIsTyped DEF ReadDownload, bounds, Sized
<1>2. CASE rd.seen = {} /\ rd' = [rd EXCEPT !.pc = "done", !.got = 0]
  <2>1. rd'.since = rd.since /\ rd'.pc = "done" /\ rd'.got = 0 /\ rd'.missed = rd.missed
    BY <1>1, <1>2 DEF ReaderState
  <2>2. ~ rd.missed => rd.since = 0
    BY <1>1, <1>2 DEF Told, Unseen, Ahead, Latest
  <2> QED BY <1>1, <1>2, <2>1, <2>2 DEF Told
<1>3. CASE \E m \in Preferred(rd.seen), o \in Outcomes("download") :
            rd' = IF o = "ok"
                  THEN [rd EXCEPT !.pc = "done", !.seen = {}, !.got = m.body]
                  ELSE [rd EXCEPT !.seen = @ \ {m}, !.missed = TRUE]
  <2>1. PICK m \in Preferred(rd.seen), o \in Outcomes("download") :
            rd' = IF o = "ok"
                  THEN [rd EXCEPT !.pc = "done", !.seen = {}, !.got = m.body]
                  ELSE [rd EXCEPT !.seen = @ \ {m}, !.missed = TRUE]
    BY <1>3
  <2>2. /\ m \in rd.seen
        /\ \A n \in rd.seen : /\ n.pinned => m.pinned
                              /\ n.pinned = m.pinned => n.id <= m.id
    BY DEF Preferred
  <2>3. rd'.since = rd.since
    BY <1>1, <2>1 DEF ReaderState
  <2>4. ASSUME ~ rd'.missed
        PROVE  rd'.pc = "done" /\ rd'.got >= rd'.since
    <3>1. ~ rd.missed /\ o = "ok"
      BY <1>1, <2>1, <2>4 DEF ReaderState
    <3>2. rd'.pc = "done" /\ rd'.got = m.body
      BY <1>1, <2>1, <3>1 DEF ReaderState
    <3>3. rd.since = 0 \/ \E i : Ahead(i) \/ Latest(i)
      BY <1>1, <3>1 DEF Told, Unseen
    <3>4. CASE rd.since = 0
      BY <1>1, <2>2, <2>3, <3>2, <3>4
    <3>5. CASE \E i : Ahead(i)
      <4>1. PICK i : Ahead(i)
        BY <3>5
      <4>2. PICK n \in rd.seen : n.pinned /\ n.id = i
        BY <4>1 DEF Ahead
      <4>3. n.pinned = TRUE /\ m.pinned = TRUE
        BY <1>1, <2>2, <4>2
      <4>4. m.id >= i
        BY <1>1, <2>2, <4>2, <4>3
      <4> QED BY <2>2, <2>3, <3>2, <4>1, <4>3, <4>4 DEF Ahead
    <3>6. CASE \E i : Latest(i)
      <4>1. PICK i : Latest(i)
        BY <3>6
      <4>2. PICK n \in rd.seen : n.id = i
        BY <4>1 DEF Latest
      <4>3. CASE m.pinned
        BY <2>2, <2>3, <3>2, <4>1, <4>3 DEF Latest
      <4>4. CASE ~ m.pinned
        <5>1. n.pinned = FALSE /\ m.pinned = FALSE
          BY <1>1, <2>2, <4>4
        <5>2. m.id >= i
          BY <1>1, <2>2, <4>2, <5>1
        <5> QED BY <2>2, <2>3, <3>2, <4>1, <5>2 DEF Latest
      <4> QED BY <4>3, <4>4
    <3> QED BY <3>2, <3>3, <3>4, <3>5, <3>6
  <2> QED BY <1>1, <2>3, <2>4 DEF Told
<1> QED BY <1>2, <1>3 DEF ReadDownload

LEMMA StepTold ==
    ASSUME IInv, IInv', Sized, CInv, Told, [Next]_vars
    PROVE  Told'
<1>1. CASE ReadStart
  BY <1>1, StartTold
<1>2. CASE ReadFetch
  BY <1>2, FetchTold
<1>3. CASE ReadDownload
  BY <1>3, DownloadTold
<1>4. CASE Crash
  <2>1. rd'.pc = "idle" /\ rd'.since = 0
    BY <1>4 DEF Crash, IdleReader
  <2>2. 0 < 3 + started'
    BY <1>4 DEF Crash, IInv, ChannelTyped
  <2> QED BY <2>1, <2>2 DEF Told
<1>5. CASE \/ Start \/ Upload \/ Fetch \/ Edit \/ Send \/ Pin \/ Unpin \/ DeleteDuplicates
           \/ (\E i \in Ids : UserPin(i)) \/ Post \/ UNCHANGED vars
  BY <1>5, OthersTold
<1> QED BY <1>1, <1>2, <1>3, <1>4, <1>5 DEF Next

\* A reader whose searches and downloads succeed, none of whose searches, nor
\* those of an update beside it, meets its limit, and beside which no update
\* passes over a failed search, pin, unpin or deletion, gets nothing older than
\* what was on top when it began, and no None when there was something
\* (fetch_candidate_messages and the sorting of the candidates in
\* do_get_pinned_manifest).  Failed uploads, edits and new messages, and
\* restarts, may come beside it.
THEOREM ReaderIsFresh == Spec => []ReadIsFresh
<1>1. Init => Told
  BY DEF Init, Told, IdleReader
<1>2. IInv /\ IInv' /\ Sized /\ CInv /\ Told /\ [Next]_vars => Told'
  BY StepTold
<1>3. Told => ReadIsFresh
  BY DEF Told, ReadIsFresh
<1> QED BY <1>1, <1>2, <1>3, AllAlways, PTL DEF Spec
=============================================================================
