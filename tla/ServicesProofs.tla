--------------------------- MODULE ServicesProofs ---------------------------
(***************************************************************************)
(* What holds of parts of the program that share no state with the tree:   *)
(* a paired folder, the WebDAV listener, the versions of a file, accounts  *)
(* and drives, proxies and logins, the tunnel to a proxy, the bytes of a   *)
(* file; and that every part keeps its types.                              *)
(***************************************************************************)
EXTENDS MCServices, NatFacts, FiniteSetTheorems, TLAPS

\* Each part moves as its own module says, or not at all.
LEMMA PartsMove ==
    [Next]_servicesVars =>
        /\ [F!FolderNext]_folderVars
        /\ [W!DavNext]_davVars
        /\ [V!VersionNext]_versionVars
        /\ [A!AccountNext]_accountVars
        /\ [P!ProxyNext]_proxyVars
        /\ [T!TunnelNext]_tunnelVars
        /\ [B!ContentNext]_contentVars
  BY DEF Next, servicesVars, accountVars, proxyVars, tunnelVars, versionVars, contentVars,
     folderVars, davVars

-----------------------------------------------------------------------------
(* The paired folder                                                        *)

OrNone(S) == S \cup {None}
TriggerRecords ==
    [at : {None, "next", "upload"}, seen : [Names -> F!Hashes],
     todo : SUBSET Names, file : OrNone(F!Files), steady : BOOLEAN, alone : BOOLEAN]

FolderTyped ==
    /\ disk \in [Names -> F!Hashes] /\ files \in SUBSET F!Nodes
    /\ trigger \in [Triggers -> TriggerRecords]

\* A trigger under way has taken from its list the file it uploads.
InOrder(r) ==
    /\ r.at = "upload" => r.file \in F!Files /\ r.file[1] \notin r.todo
    /\ r.at # "upload" => r.file = None

\* Undisturbed, it has settled every file it took, and what it remembers of
\* the others is still in the folder.
Steady(r) ==
    /\ \A n \in Names \ r.todo :
          disk[n] # None => disk[n] \in F!Under(n) \/ r.file = <<n, disk[n]>>
    /\ \A n \in r.todo : r.seen[n] # None => r.seen[n] \in F!Under(n)

\* Alone, it remembers a hash of every name that is in the folder with none
\* but hashes.
Alone(t) ==
    /\ F!Active \subseteq {t}
    /\ \A n \in trigger[t].todo :
          F!Under(n) = {} \/ trigger[t].seen[n] \in F!Under(n)
    /\ trigger[t].at = "upload" =>
          F!Under(trigger[t].file[1]) # {trigger[t].file[2]}

FolderKept ==
    /\ FolderTyped
    /\ \A t \in Triggers :
         /\ InOrder(trigger[t])
         /\ trigger[t].steady => Steady(trigger[t])
         /\ trigger[t].alone => Alone(t)

LEMMA FolderInitKept == F!FolderInit => FolderKept
  BY ServicesAssumption DEF F!FolderInit, F!Idle, FolderKept, FolderTyped, TriggerRecords, OrNone,
     InOrder, F!Nodes, F!Hashes

LEMMA FolderNextKept == FolderKept /\ [F!FolderNext]_folderVars => FolderKept'
  <1> SUFFICES ASSUME FolderKept, [F!FolderNext]_folderVars
               PROVE  FolderKept'
    OBVIOUS
  <1> USE DEF FolderKept, FolderTyped
  <1>0. \A t \in Triggers : trigger[t] \in TriggerRecords /\ InOrder(trigger[t])
    OBVIOUS
  <1>1. ASSUME NEW t \in Triggers, F!Begin(t)
        PROVE  FolderKept'
    <2>1. PICK f \in F!Seen :
             trigger' = [u \in Triggers |->
               IF u = t
               THEN [F!Idle EXCEPT !.at = "next", !.todo = F!Present, !.steady = TRUE,
                         !.seen = [n \in Names |-> IF n \in F!Present THEN f[n] ELSE None],
                         !.alone = F!Active = {}]
               ELSE [trigger[u] EXCEPT !.alone = FALSE]]
      BY <1>1 DEF F!Begin
    <2>2. UNCHANGED <<disk, files>> /\ \A n : F!Under(n)' = F!Under(n)
      BY <1>1 DEF F!Begin, F!Under
    <2>3. \A n \in Names : f[n] \in F!Hashes /\
             IF F!Under(n) = {} THEN f[n] = None ELSE f[n] \in F!Under(n)
      BY <2>1 DEF F!Seen
    <2> DEFINE now == trigger'[t]
    <2>4. /\ now.at = "next" /\ now.todo = F!Present /\ now.steady = TRUE /\ now.file = None
          /\ now.seen = [n \in Names |-> IF n \in F!Present THEN f[n] ELSE None]
          /\ now.alone <=> F!Active = {}
          /\ now = [at |-> "next", seen |-> now.seen, todo |-> F!Present, file |-> None,
                    steady |-> TRUE, alone |-> now.alone]
          /\ now.alone \in BOOLEAN
      BY <2>1 DEF F!Idle
    <2>5. ASSUME NEW u \in Triggers \ {t}
          PROVE  /\ trigger'[u] = [trigger[u] EXCEPT !.alone = FALSE]
                 /\ trigger'[u].alone = FALSE /\ trigger'[u].steady = trigger[u].steady
                 /\ trigger'[u].at = trigger[u].at /\ trigger'[u].file = trigger[u].file
                 /\ trigger'[u].seen = trigger[u].seen /\ trigger'[u].todo = trigger[u].todo
      BY <1>0, <2>1 DEF TriggerRecords
    <2>6. now \in TriggerRecords
      BY <2>3, <2>4 DEF TriggerRecords, OrNone, F!Present, F!Hashes
    <2>7. FolderTyped'
      BY <1>0, <2>1, <2>2, <2>5, <2>6, ZenonT(30) DEF TriggerRecords
    <2>8. ASSUME NEW u \in Triggers
          PROVE  /\ InOrder(trigger'[u])
                 /\ trigger'[u].steady => Steady(trigger[u])'
                 /\ trigger'[u].alone => Alone(u)'
      <3>1. CASE u # t
        BY <2>2, <2>5, <3>1, ZenonT(30) DEF InOrder, Steady
      <3>2. CASE u = t
        <4>1. InOrder(now)
          BY <2>4 DEF InOrder
        <4>2. Steady(trigger[t])'
          BY <2>2, <2>3, <2>4 DEF Steady, F!Present
        <4>3. now.alone => Alone(t)'
          <5>1. \A n \in now.todo : F!Under(n) = {} \/ now.seen[n] \in F!Under(n)
            BY <2>3, <2>4 DEF F!Present
          <5>2. F!Active = {} => F!Active' \subseteq {t}
            BY <2>5 DEF F!Active
          <5>3. QED
            BY <2>2, <2>4, <5>1, <5>2 DEF Alone
        <4>4. QED
          BY <3>2, <4>1, <4>2, <4>3
      <3>3. QED
        BY <3>1, <3>2
    <2>9. QED
      BY <2>7, <2>8, SMTT(30)
  <1>2. ASSUME NEW t \in Triggers, F!Take(t)
        PROVE  FolderKept'
    <2>1. PICK n \in trigger[t].todo :
             trigger' = [trigger EXCEPT
                 ![t].todo = @ \ {n}, ![t].seen[n] = None,
                 ![t].at = IF F!Skips(t, n) THEN "next" ELSE "upload",
                 ![t].file = IF F!Skips(t, n) THEN None ELSE <<n, disk[n]>>]
      BY <1>2 DEF F!Take
    <2>2. UNCHANGED <<disk, files>> /\ trigger[t].at = "next"
      BY <1>2 DEF F!Take
    <2> DEFINE old == trigger[t]
               now == [old EXCEPT !.todo = @ \ {n}, !.seen[n] = None,
                 !.at = IF F!Skips(t, n) THEN "next" ELSE "upload",
                 !.file = IF F!Skips(t, n) THEN None ELSE <<n, disk[n]>>]
    <2>3. trigger' = [trigger EXCEPT ![t] = now]
      BY <2>1
    <2>4. /\ n \in Names /\ old \in TriggerRecords /\ old.file = None
          /\ disk[n] # None => <<n, disk[n]>> \in F!Files
      BY <1>0, <2>2 DEF TriggerRecords, InOrder, F!Files, F!Hashes
    <2>5. F!Skips(t, n) <=> disk[n] = None \/ disk[n] = old.seen[n]
      BY DEF F!Skips
    <2>6. /\ now.todo = old.todo \ {n} /\ now.steady = old.steady /\ now.alone = old.alone
          /\ now.seen = [old.seen EXCEPT ![n] = None]
          /\ now.at = IF F!Skips(t, n) THEN "next" ELSE "upload"
          /\ now.file = IF F!Skips(t, n) THEN None ELSE <<n, disk[n]>>
          /\ now \in TriggerRecords
      BY <2>4, <2>5 DEF TriggerRecords, OrNone, F!Hashes
    <2> HIDE DEF now
    <2>7. FolderTyped' /\ trigger'[t] = now /\ \A u \in Triggers \ {t} : trigger'[u] = trigger[u]
      BY <2>2, <2>3, <2>6
    <2>8. F!Active' \subseteq F!Active
      BY <2>2, <2>7, ServicesAssumption DEF F!Active
    <2>9. InOrder(now)
      BY <2>4, <2>5, <2>6 DEF InOrder
    <2>10. now.steady => Steady(now)
      <3> SUFFICES ASSUME now.steady
                   PROVE  Steady(now)
        OBVIOUS
      <3>1. Steady(old)
        BY <2>6
      <3>2. \A m \in Names : disk[m] # None => old.file # <<m, disk[m]>>
        BY <2>4, ServicesAssumption DEF F!Hashes
      <3>3. \A m \in now.todo : now.seen[m] = old.seen[m] /\ m \in old.todo
        BY <2>4, <2>6 DEF TriggerRecords
      <3>4. ASSUME NEW m \in Names \ now.todo, disk[m] # None
            PROVE  disk[m] \in F!Under(m) \/ now.file = <<m, disk[m]>>
        <4>1. CASE m = n
          BY <2>5, <2>6, <3>1, <3>4, <4>1 DEF Steady
        <4>2. CASE m # n
          BY <2>6, <3>1, <3>2, <3>4, <4>2 DEF Steady
        <4>3. QED
          BY <4>1, <4>2
      <3>5. QED
        BY <3>1, <3>3, <3>4 DEF Steady
    <2>13. \A m : F!Under(m)' = F!Under(m)
      BY <2>2 DEF F!Under
    <2>11. now.alone => Alone(t)'
      <3> SUFFICES ASSUME now.alone
                   PROVE  Alone(t)'
        OBVIOUS
      <3>1. Alone(t)
        BY <2>6
      <3>2. \A m \in now.todo : now.seen[m] = old.seen[m] /\ m \in old.todo
        BY <2>4, <2>6 DEF TriggerRecords
      <3>3. ~ F!Skips(t, n) => F!Under(n) # {disk[n]}
        BY <2>5, <3>1 DEF Alone
      <3>4. now.at = "upload" => F!Under(now.file[1]) # {now.file[2]}
        BY <2>6, <3>3
      <3>5. QED
        <4>1. \A m \in now.todo : F!Under(m) = {} \/ now.seen[m] \in F!Under(m)
          BY <3>1, <3>2 DEF Alone
        <4>2. F!Active' \subseteq {t}
          BY <2>8, <3>1 DEF Alone
        <4>3. \A m \in now.todo : F!Under(m)' = {} \/ now.seen[m] \in F!Under(m)'
          BY <2>13, <4>1
        <4>4. PICK m, k : m = now.file[1] /\ k = now.file[2]
          OBVIOUS
        <4>5. now.at = "upload" => F!Under(m)' # {k}
          BY <2>13, <3>4, <4>4
        <4>6. trigger'[t] = now
          BY <2>7
        <4>7. trigger'[t].at = "upload" => (F!Under(trigger[t].file[1]) # {trigger[t].file[2]})'
          BY <4>4, <4>5, <4>6 DEF F!Under
        <4>8. QED
          BY <4>2, <4>3, <4>6, <4>7 DEF Alone
    <2>14. ASSUME NEW u \in Triggers
           PROVE  /\ InOrder(trigger'[u])
                  /\ trigger'[u].steady => Steady(trigger[u])'
                  /\ trigger'[u].alone => Alone(u)'
      <3>1. CASE u = t
        <4>1. now.steady => Steady(trigger[t])'
          BY <2>2, <2>7, <2>10, <2>13 DEF Steady
        <4>2. QED
          BY <2>7, <2>9, <2>11, <3>1, <4>1
      <3>2. CASE u # t
        <4>1. trigger'[u] = trigger[u]
          BY <2>7, <3>2
        <4>2. trigger[u].steady => Steady(trigger[u])'
          BY <2>2, <2>13, <4>1 DEF Steady
        <4>3. trigger[u].alone => Alone(u)'
          BY <2>8, <2>13, <4>1, SMTT(30) DEF Alone
        <4>4. QED
          BY <4>1, <4>2, <4>3
      <3>3. QED
        BY <3>1, <3>2
    <2>15. QED
      BY <2>7, <2>14
  <1>3. ASSUME NEW t \in Triggers, F!Upload(t)
        PROVE  FolderKept'
    <2> DEFINE old == trigger[t]
    <2>1. disk' = disk /\ old.at = "upload" /\ old.file \in F!Files /\ old.file[1] \notin old.todo
      BY <1>0, <1>3 DEF F!Upload, InOrder
    <2>2. PICK now : /\ trigger' = [trigger EXCEPT ![t] = now]
                     /\ \/ now = [old EXCEPT !.at = "next", !.file = None]
                           /\ files' = files \cup {<<old.file[1], old.file[2], FALSE>>}
                        \/ now = [old EXCEPT !.at = "next", !.file = None, !.steady = FALSE]
                           /\ files' = files
      BY <1>3 DEF F!Upload
    <2>11. now \in TriggerRecords
      BY <1>0, <2>2 DEF TriggerRecords, OrNone
    <2>12. old.file = <<old.file[1], old.file[2]>>
      BY <2>1 DEF F!Files
    <2>13. /\ now.at = "next" /\ now.file = None
           /\ now.todo = old.todo /\ now.seen = old.seen /\ now.alone = old.alone
           /\ now.steady => old.steady
      BY <1>0, <2>2 DEF TriggerRecords
    <2>14. now.steady => <<old.file[1], old.file[2], FALSE>> \in files'
      <3>1. [old EXCEPT !.at = "next", !.file = None, !.steady = FALSE].steady = FALSE
        BY <1>0 DEF TriggerRecords
      <3>2. QED
        BY <2>2, <3>1
    <2>3. /\ now \in TriggerRecords /\ now.at = "next" /\ now.file = None
          /\ now.todo = old.todo /\ now.seen = old.seen /\ now.alone = old.alone
      BY <2>11, <2>13
    <2>15. <<old.file[1], old.file[2], FALSE>> \in F!Nodes
      BY <2>1 DEF F!Files, F!Nodes, F!Hashes
    <2>4. /\ FolderTyped' /\ trigger'[t] = now
          /\ \A u \in Triggers \ {t} : trigger'[u] = trigger[u]
      BY <2>1, <2>2, <2>3, <2>15
    <2>5. /\ \A m, c, b : <<m, c, b>> \in files => <<m, c, b>> \in files'
          /\ \A m, c, b : m # old.file[1] =>
                (<<m, c, b>> \in files <=> <<m, c, b>> \in files')
      BY <2>2
    <2>16. \A m : F!Under(m) \subseteq F!Under(m)'
      BY <2>5 DEF F!Under
    <2>6. now.steady => Steady(trigger[t])'
      <3> SUFFICES ASSUME now.steady
                   PROVE  Steady(trigger[t])'
        OBVIOUS
      <3>1. Steady(old)
        BY <2>13
      <3>2. ASSUME NEW m \in Names \ old.todo, disk[m] # None
            PROVE  disk[m] \in F!Under(m)'
        <4>1. CASE disk[m] \in F!Under(m)
          BY <2>16, <4>1
        <4>2. CASE old.file = <<m, disk[m]>>
          <5>1. disk[m] \in F!Hashes /\ <<m, disk[m], FALSE>> \in files'
            BY <2>14, <3>2, <4>2
          <5>2. QED
            BY <5>1 DEF F!Under
        <4>3. QED
          BY <3>1, <3>2, <4>1, <4>2 DEF Steady
      <3>3. \A m \in old.todo : old.seen[m] # None => old.seen[m] \in F!Under(m)'
        BY <2>16, <3>1 DEF Steady
      <3>4. QED
        BY <2>1, <2>3, <2>4, <3>2, <3>3 DEF Steady
    <2>7. now.alone => Alone(t)'
      <3>1. F!Active' \subseteq F!Active
        BY <2>1, <2>4, ServicesAssumption DEF F!Active
      <3>2. now.alone => Alone(t)
        BY <2>3
      <3>3. \A m \in now.todo : F!Under(m)' = F!Under(m)
        BY <2>1, <2>3, <2>5 DEF F!Under
      <3>4. QED
        BY <2>3, <2>4, <3>1, <3>2, <3>3 DEF Alone
    <2>8. ASSUME NEW u \in Triggers \ {t}
          PROVE  /\ ~ trigger[u].alone
                 /\ trigger'[u].steady => Steady(trigger[u])'
      <3>1. t \in F!Active
        BY <2>1, ServicesAssumption DEF F!Active
      <3>2. ~ trigger[u].alone
        BY <3>1 DEF Alone
      <3>3. QED
        BY <2>1, <2>4, <2>16, <3>2 DEF Steady
    <2>9. InOrder(now)
      BY <2>3 DEF InOrder
    <2>10. QED
      BY <2>3, <2>4, <2>6, <2>7, <2>8, <2>9
  <1>4. ASSUME NEW t \in Triggers, F!Finish(t)
        PROVE  FolderKept'
    <2>1. UNCHANGED <<disk, files>> /\ trigger' = [trigger EXCEPT ![t] = F!Idle]
      BY <1>4 DEF F!Finish
    <2>2. /\ F!Idle \in TriggerRecords /\ F!Idle.steady = FALSE /\ F!Idle.alone = FALSE
          /\ InOrder(F!Idle) /\ F!Idle.at = None
      BY ServicesAssumption DEF F!Idle, TriggerRecords, OrNone, InOrder, F!Hashes
    <2>3. FolderTyped' /\ \A u \in Triggers :
              trigger'[u] = IF u = t THEN F!Idle ELSE trigger[u]
      BY <2>1, <2>2
    <2>4. F!Active' \subseteq F!Active
      BY <2>2, <2>3 DEF F!Active
    <2>5. ASSUME NEW u \in Triggers
          PROVE  /\ InOrder(trigger'[u])
                 /\ trigger'[u].steady => Steady(trigger[u])'
                 /\ trigger'[u].alone => Alone(u)'
      <3>1. CASE u = t
        BY <2>2, <2>3, <3>1
      <3>2. CASE u # t
        <4>1. \A n : F!Under(n)' = F!Under(n)
          BY <2>1 DEF F!Under
        <4>2. trigger'[u] = trigger[u]
          BY <2>3, <3>2
        <4>3. trigger[u].steady => Steady(trigger[u])'
          BY <2>1, <4>1, <4>2 DEF Steady
        <4>4. QED
          BY <2>4, <4>1, <4>2, <4>3, SMTT(30) DEF Alone
      <3>3. QED
        BY <3>1, <3>2
    <2>6. QED
      BY <2>3, <2>5
  <1>5. ASSUME NEW n \in Names, F!Edit(n)
        PROVE  FolderKept'
    <2>1. PICK c \in F!Hashes : disk' = [disk EXCEPT ![n] = c]
      BY <1>5 DEF F!Edit
    <2>2. files' = files /\ trigger' = [t \in Triggers |-> [trigger[t] EXCEPT !.steady = FALSE]]
      BY <1>5 DEF F!Edit
    <2>3. ASSUME NEW u \in Triggers
          PROVE  /\ trigger'[u] \in TriggerRecords
                 /\ trigger'[u].steady = FALSE /\ trigger'[u].alone = trigger[u].alone
                 /\ trigger'[u].at = trigger[u].at /\ trigger'[u].file = trigger[u].file
                 /\ trigger'[u].seen = trigger[u].seen /\ trigger'[u].todo = trigger[u].todo
      BY <1>0, <2>2 DEF TriggerRecords
    <2>4. FolderTyped' /\ F!Active' = F!Active
      BY <2>1, <2>2, <2>3 DEF F!Active
    <2>5. ASSUME NEW u \in Triggers
          PROVE  InOrder(trigger'[u])
      BY <1>0, <2>3 DEF InOrder
    <2>6. \A m : F!Under(m)' = F!Under(m)
      BY <2>2 DEF F!Under
    <2>7. ASSUME NEW u \in Triggers, trigger[u].alone
          PROVE  Alone(u)'
      <3>1. Alone(u)
        BY <2>7
      <3>2. \A m \in trigger[u].todo : F!Under(m)' = F!Under(m)
        BY <2>6
      <3>3. PICK m, k : m = trigger[u].file[1] /\ k = trigger[u].file[2]
        OBVIOUS
      <3>4. trigger'[u].at = "upload" => F!Under(m)' # {k}
        BY <2>3, <2>6, <3>1, <3>3 DEF Alone
      <3>5. m = trigger'[u].file[1] /\ k = trigger'[u].file[2]
        BY <2>3, <3>3
      <3>6. trigger'[u].at = "upload" => (F!Under(trigger[u].file[1]) # {trigger[u].file[2]})'
        BY <3>4, <3>5 DEF F!Under
      <3>7. F!Active' \subseteq {u}
        BY <2>4, <3>1 DEF Alone
      <3>8. \A l \in trigger'[u].todo :
               F!Under(l)' = {} \/ trigger'[u].seen[l] \in F!Under(l)'
        <4> SUFFICES ASSUME NEW l \in trigger[u].todo
                     PROVE  F!Under(l)' = {} \/ trigger[u].seen[l] \in F!Under(l)'
          BY <2>3
        <4>1. F!Under(l)' = F!Under(l)
          BY <3>2
        <4>2. QED
          BY <3>1, <4>1 DEF Alone
      <3>9. QED
        BY <3>6, <3>7, <3>8 DEF Alone
    <2>8. QED
      BY <2>3, <2>4, <2>5, <2>7
  <1>6. ASSUME NEW n \in Names, NEW h \in F!Hashes, F!Rearrange(n, h)
        PROVE  FolderKept'
    <2>3. <<n, h, FALSE>> \in F!Nodes /\ <<n, h, TRUE>> \in F!Nodes
      BY DEF F!Nodes
    <2>1. /\ disk' = disk /\ files' \in SUBSET F!Nodes
          /\ trigger' = [t \in Triggers |->
                            [trigger[t] EXCEPT !.steady = FALSE, !.alone = FALSE]]
      BY <1>6, <2>3 DEF F!Rearrange
    <2>2. ASSUME NEW u \in Triggers
          PROVE  /\ trigger'[u] \in TriggerRecords
                 /\ trigger'[u].steady = FALSE /\ trigger'[u].alone = FALSE
                 /\ InOrder(trigger'[u])
      BY <1>0, <2>1 DEF TriggerRecords, InOrder
    <2>4. QED
      BY <2>1, <2>2
  <1>7. CASE F!Restart
    <2>1. UNCHANGED <<disk, files>> /\ trigger' = [t \in Triggers |-> F!Idle]
      BY <1>7 DEF F!Restart
    <2>2. /\ F!Idle \in TriggerRecords /\ F!Idle.steady = FALSE /\ F!Idle.alone = FALSE
          /\ InOrder(F!Idle)
      BY ServicesAssumption DEF F!Idle, TriggerRecords, OrNone, InOrder, F!Hashes
    <2>3. QED
      BY <2>1, <2>2
  <1>8. CASE UNCHANGED folderVars
    <2>1. UNCHANGED <<disk, files, trigger>>
      BY <1>8 DEF folderVars
    <2>2. (\A n : F!Under(n)' = F!Under(n)) /\ F!Active' = F!Active
      BY <2>1 DEF F!Under, F!Active
    <2>3. ASSUME NEW u \in Triggers
          PROVE  /\ InOrder(trigger'[u])
                 /\ trigger'[u].steady => Steady(trigger[u])'
                 /\ trigger'[u].alone => Alone(u)'
      BY <2>1, <2>2, SMTT(30) DEF Steady, Alone
    <2>4. QED
      BY <2>1, <2>3
  <1>9. QED
    BY <1>1, <1>2, <1>3, <1>4, <1>5, <1>6, <1>7, <1>8 DEF F!FolderNext

LEMMA FolderAlwaysKept == Spec => []FolderKept
  <1>1. Init => FolderKept
    BY FolderInitKept DEF Init
  <1>2. QED
    BY <1>1, FolderNextKept, PartsMove, PTL DEF Spec

\* A trigger nobody disturbs leaves no local file that no child of the folder,
\* trashed or not, has the name and hash of; and one that runs alone uploads none
\* of a name whose children have all its hash (trigger_sync_command).
THEOREM SyncStaysExact == Spec => []SyncIsExact
  <1>1. FolderKept => SyncIsExact
    <2> SUFFICES ASSUME FolderKept, NEW t \in Triggers
                 PROVE  /\ trigger[t].at = "next" /\ trigger[t].todo = {} /\ trigger[t].steady
                              => \A n \in Names : disk[n] # None => disk[n] \in F!Under(n)
                        /\ trigger[t].at = "upload" /\ trigger[t].alone
                              => F!Under(trigger[t].file[1]) # {trigger[t].file[2]}
      BY DEF SyncIsExact, F!SyncIsExact
    <2>1. ASSUME NEW n \in Names, disk[n] # None
          PROVE  <<n, disk[n]>> # None
      <3>1. <<n, disk[n]>> \in Names \X Contents
        BY <2>1 DEF FolderKept, FolderTyped, F!Hashes
      <3>2. QED
        BY <3>1, ServicesAssumption
    <2>2. QED
      BY <2>1 DEF FolderKept, InOrder, Steady, Alone
  <1>2. QED
    BY <1>1, FolderAlwaysKept, PTL

-----------------------------------------------------------------------------
(* The WebDAV listener                                                      *)

Working == {"decide", "clear", "start", "announce"}
CallerRecords ==
    [at : {None, "startup", "configure"} \cup Working, on : BOOLEAN,
     port : OrNone(Ports), was : BOOLEAN]
ListenerRecords ==
    [at : {"absent", "listening", "ending", "ended"}, port : OrNone(Ports)]

DavTyped ==
    /\ crossed \in BOOLEAN
    /\ bound \in OrNone(Ports) /\ sender \in OrNone(Listeners)
    /\ listener \in [Listeners -> ListenerRecords]
    /\ lock \in OrNone(Openers) /\ caller \in [Openers -> CallerRecords]

\* The lock is held by the command that looked, until it leaves.
Held == \A c \in Openers : caller[c].at \in Working <=> lock = c

\* What the next stop ends listens, and no two listeners have one port.
SenderListens ==
    /\ sender # None => listener[sender].at = "listening"
    /\ \A c \in Openers : caller[c].at = "announce" => sender # None
PortsApart ==
    \A l \in Listeners : listener[l].at # "absent" =>
        /\ listener[l].port \in Ports
        /\ \A k \in Listeners \ {l} : listener[k].at # "absent" =>
               listener[k].port # listener[l].port

\* The address is that of the one who listens, or a command under way is
\* about to make it so.
Settled ==
    IF bound = None THEN W!Listening = {}
    ELSE W!Listening = {sender} /\ listener[sender].port = bound
Stage(c) ==
    \/ caller[c].at = "decide" /\ Settled /\ (caller[c].was \/ bound = None)
    \/ caller[c].at = "clear" /\ W!Listening = {}
    \/ caller[c].at = "start" /\ W!Listening = {} /\ bound = None
    \/ caller[c].at = "announce" /\ W!Listening = {sender} /\ bound = None
Staged ==
    IF lock = None THEN Settled ELSE Stage(lock)

DavKept ==
    /\ DavTyped /\ Held /\ SenderListens /\ PortsApart
    /\ crossed \/ Staged

LEMMA DavInitKept == W!DavInit => DavKept
  <1> SUFFICES ASSUME W!DavInit
               PROVE  DavKept
    OBVIOUS
  <1>1. \A c \in Openers : /\ caller[c] \in CallerRecords
                           /\ caller[c].at \in {"startup", None}
    <2>1. PICK e \in {"startup", None} :
             caller = [c \in Openers |->
                 IF c = CHOOSE d \in Openers : TRUE THEN [W!Idle EXCEPT !.at = e] ELSE W!Idle]
      BY DEF W!DavInit
    <2>2. /\ W!Idle \in CallerRecords /\ [W!Idle EXCEPT !.at = e] \in CallerRecords
          /\ W!Idle.at = None /\ [W!Idle EXCEPT !.at = e].at = e
      BY DEF W!Idle, CallerRecords, OrNone
    <2>3. QED
      BY <2>1, <2>2
  <1>2. DavTyped
    <2>1. caller \in [Openers -> CallerRecords]
      BY <1>1 DEF W!DavInit
    <2>2. QED
      BY <2>1 DEF W!DavInit, W!Absent, DavTyped, ListenerRecords, OrNone
  <1>3. Held /\ SenderListens /\ PortsApart /\ Staged
    BY <1>1, ServicesAssumption DEF W!DavInit, W!Absent, Held, Working, SenderListens, PortsApart,
       Staged, Settled, W!Listening
  <1>4. QED
    BY <1>2, <1>3 DEF DavKept

\* A command that holds the lock is the only one that works.
LEMMA OneWorks ==
    ASSUME DavKept, NEW c \in Openers, caller[c].at \in Working
    PROVE  /\ lock = c /\ \A d \in Openers \ {c} : caller[d].at \notin Working
           /\ crossed \/ Stage(c)
  <1>1. lock = c /\ c # None /\ \A d \in Openers \ {c} : caller[d].at \notin Working
    BY ServicesAssumption DEF DavKept, Held
  <1>2. QED
    BY <1>1 DEF DavKept, DavTyped, Staged

\* It goes on to its next step, or leaves and gives the lock back.
LEMMA Becomes ==
    ASSUME DavKept, NEW c \in Openers, NEW l \in Working, W!Become(c, l)
    PROVE  /\ caller' \in [Openers -> CallerRecords] /\ caller'[c].at = l
           /\ caller'[c].was = caller[c].was
           /\ \A d \in Openers \ {c} : caller'[d] = caller[d]
  BY DEF W!Become, DavKept, DavTyped, CallerRecords

LEMMA Leaves ==
    ASSUME DavKept, NEW c \in Openers, caller[c].at \in Working, W!Leave(c)
    PROVE  /\ caller' \in [Openers -> CallerRecords] /\ caller'[c].at = None
           /\ \A d \in Openers \ {c} : caller'[d] = caller[d]
           /\ lock' = None /\ Held'
  <1>1. /\ caller' = [caller EXCEPT ![c] = W!Idle] /\ lock' = None
        /\ W!Idle \in CallerRecords /\ W!Idle.at = None
    BY DEF W!Leave, W!Idle, CallerRecords, OrNone
  <1>2. None \notin Working \cup Openers /\ lock = c
    BY ServicesAssumption, OneWorks DEF Working
  <1>3. /\ caller' \in [Openers -> CallerRecords] /\ caller'[c].at = None
        /\ \A d \in Openers \ {c} : caller'[d] = caller[d]
    BY <1>1 DEF DavKept, DavTyped
  <1>4. QED
    BY <1>1, <1>2, <1>3, OneWorks DEF Held

LEMMA DavNextKept == DavKept /\ [W!DavNext]_davVars => DavKept'
  <1> SUFFICES ASSUME DavKept, [W!DavNext]_davVars
               PROVE  DavKept'
    OBVIOUS
  <1>0. /\ DavTyped /\ Held /\ SenderListens /\ PortsApart /\ (crossed \/ Staged)
        /\ None \notin Working \cup {"startup", "configure"} \cup Openers
        /\ None \notin Listeners \cup Ports
    BY ServicesAssumption DEF DavKept, Working
  <1>1. ASSUME NEW c \in Openers, W!Configure(c)
        PROVE  DavKept'
    <2>1. /\ UNCHANGED <<port, bound, sender, listener, foreign, lock, crossed>>
          /\ caller[c].at = None
          /\ \E r \in CallerRecords :
               r.at = "configure" /\ caller' = [caller EXCEPT ![c] = r]
      BY <1>1 DEF W!Configure, CallerRecords, OrNone
    <2>2. PICK r \in CallerRecords :
             r.at = "configure" /\ caller' = [caller EXCEPT ![c] = r]
      BY <2>1
    <2>3. DavTyped'
      BY <1>0, <2>1, <2>2 DEF DavTyped
    <2>4. \A d \in Openers :
             caller'[d] = IF d = c THEN r ELSE caller[d]
      BY <1>0, <2>2 DEF DavTyped
    <2>5. Held' /\ SenderListens' /\ PortsApart'
      BY <1>0, <2>1, <2>2, <2>4 DEF Held, Working, SenderListens, PortsApart
    <2>6. crossed' \/ Staged'
      BY <1>0, <2>1, <2>2, <2>4 DEF Held, Working, Staged, Stage, Settled, W!Listening, DavTyped, OrNone
    <2>7. QED
      BY <2>3, <2>5, <2>6 DEF DavKept
  <1>2. ASSUME NEW c \in Openers, W!Look(c)
        PROVE  DavKept'
    <2> DEFINE r == [caller[c] EXCEPT !.at = "decide", !.was = bound # None]
    <2>1. /\ UNCHANGED <<port, bound, sender, listener, foreign, crossed>>
          /\ caller[c].at = "configure" /\ lock = None /\ lock' = c
          /\ caller' = [caller EXCEPT ![c] = r]
      BY <1>2 DEF W!Look
    <2>2. r \in CallerRecords /\ r.at = "decide" /\ (r.was <=> bound # None)
      BY <1>0 DEF DavTyped, CallerRecords, Working
    <2> HIDE DEF r
    <2>3. DavTyped'
      BY <1>0, <2>1, <2>2 DEF DavTyped, OrNone
    <2>4. \A d \in Openers :
             caller'[d] = IF d = c THEN r ELSE caller[d]
      BY <1>0, <2>1 DEF DavTyped
    <2>5. Held' /\ SenderListens' /\ PortsApart'
      BY <1>0, <2>1, <2>2, <2>4 DEF Held, Working, SenderListens, PortsApart
    <2>6. crossed' \/ Staged'
      BY <1>0, <2>1, <2>2, <2>4 DEF Staged, Stage, Settled, W!Listening
    <2>7. QED
      BY <2>3, <2>5, <2>6 DEF DavKept
  <1>3. ASSUME NEW c \in Openers, W!Decide(c)
        PROVE  DavKept'
    <2>1. UNCHANGED <<bound, foreign, crossed>> /\ caller[c].at = "decide"
      BY <1>3 DEF W!Decide
    <2>2. lock = c /\ (crossed \/ (Settled /\ (caller[c].was \/ bound = None)))
      <3>1. lock = c /\ (crossed \/ Stage(c))
        BY <2>1, OneWorks DEF Working
      <3>2. caller[c].at # "clear" /\ caller[c].at # "start" /\ caller[c].at # "announce"
        BY <2>1
      <3>3. Stage(c) => Settled /\ (caller[c].was \/ bound = None)
        BY <3>2, Zenon DEF Stage
      <3>4. QED
        BY <3>1, <3>3
    <2>3. CASE /\ caller[c].was /\ W!Signal
               /\ W!Become(c, "clear") /\ UNCHANGED lock
      <3>1. /\ sender' = None
            /\ listener' = IF sender = None THEN listener
                           ELSE [listener EXCEPT ![sender].at = "ending"]
        BY <2>3 DEF W!Signal
      <3>2. /\ listener' \in [Listeners -> ListenerRecords]
            /\ \A l \in Listeners : /\ listener'[l].port = listener[l].port
                                    /\ listener'[l].at = IF l = sender THEN "ending"
                                                         ELSE listener[l].at
        BY <1>0, <3>1 DEF DavTyped, ListenerRecords, OrNone
      <3>3. /\ caller' \in [Openers -> CallerRecords] /\ caller'[c].at = "clear"
            /\ \A d \in Openers \ {c} : caller'[d] = caller[d]
        BY <2>3, Becomes DEF Working
      <3>4. DavTyped'
        BY <1>0, <2>1, <2>3, <3>1, <3>2, <3>3 DEF DavTyped, OrNone
      <3>5. Held'
        BY <1>0, <2>1, <2>2, <2>3, <3>3 DEF Held, Working
      <3>6. SenderListens'
        BY <1>0, <2>1, <3>1, <3>3, OneWorks DEF SenderListens, Working
      <3>7. PortsApart'
        BY <1>0, <3>2 DEF PortsApart, SenderListens
      <3>8. crossed' \/ Staged'
        <4>1. crossed \/ W!Listening \subseteq {sender}
          BY <2>2 DEF Settled
        <4>2. W!Listening' = W!Listening \ {sender}
          BY <3>2 DEF W!Listening
        <4>3. QED
          BY <1>0, <2>1, <2>2, <2>3, <3>3, <4>1, <4>2 DEF Staged, Stage
      <3>9. QED
        BY <3>4, <3>5, <3>6, <3>7, <3>8 DEF DavKept
    <2>4. CASE /\ ~ caller[c].was /\ W!Become(c, "start")
               /\ UNCHANGED <<sender, listener, lock>>
      <3>1. /\ caller' \in [Openers -> CallerRecords] /\ caller'[c].at = "start"
            /\ \A d \in Openers \ {c} : caller'[d] = caller[d]
        BY <2>4, Becomes DEF Working
      <3>2. DavTyped'
        BY <1>0, <2>1, <2>4, <3>1 DEF DavTyped
      <3>3. Held' /\ SenderListens' /\ PortsApart'
        BY <1>0, <2>1, <2>2, <2>4, <3>1 DEF Held, Working, SenderListens, PortsApart
      <3>4. crossed' \/ Staged'
        BY <1>0, <2>1, <2>2, <2>4, <3>1 DEF Staged, Stage, Settled, W!Listening
      <3>5. QED
        BY <3>2, <3>3, <3>4 DEF DavKept
    <2>5. CASE W!Leave(c) /\ UNCHANGED <<sender, listener>>
      <3>1. /\ caller' \in [Openers -> CallerRecords] /\ caller'[c].at = None
            /\ \A d \in Openers \ {c} : caller'[d] = caller[d]
            /\ lock' = None /\ Held'
        BY <2>1, <2>5, Leaves DEF Working
      <3>2. DavTyped'
        BY <1>0, <2>1, <2>5, <3>1 DEF DavTyped, OrNone
      <3>3. SenderListens' /\ PortsApart'
        BY <1>0, <2>1, <2>5, <3>1 DEF SenderListens, PortsApart, Working
      <3>4. crossed' \/ Staged'
        BY <2>1, <2>2, <2>5, <3>1 DEF Staged, Settled, W!Listening
      <3>5. QED
        BY <3>1, <3>2, <3>3, <3>4 DEF DavKept
    <2>6. QED
      BY <1>3, <2>3, <2>4, <2>5 DEF W!Decide
  <1>4. ASSUME NEW c \in Openers, W!Clear(c)
        PROVE  DavKept'
    <2>1. /\ UNCHANGED <<port, sender, listener, foreign, crossed>>
          /\ caller[c].at = "clear" /\ bound' = None
      BY <1>4 DEF W!Clear
    <2>2. lock = c /\ (crossed \/ W!Listening = {})
      BY <2>1, OneWorks DEF Working, Stage
    <2>3. CASE W!Become(c, "start") /\ UNCHANGED lock
      <3>1. /\ caller' \in [Openers -> CallerRecords] /\ caller'[c].at = "start"
            /\ \A d \in Openers \ {c} : caller'[d] = caller[d]
        BY <2>3, Becomes DEF Working
      <3>2. DavTyped'
        BY <1>0, <2>1, <2>3, <3>1 DEF DavTyped, OrNone
      <3>3. Held' /\ SenderListens' /\ PortsApart'
        BY <1>0, <2>1, <2>2, <2>3, <3>1 DEF Held, Working, SenderListens, PortsApart
      <3>4. crossed' \/ Staged'
        BY <1>0, <2>1, <2>2, <2>3, <3>1 DEF Staged, Stage, W!Listening
      <3>5. QED
        BY <3>2, <3>3, <3>4 DEF DavKept
    <2>4. CASE W!Leave(c)
      <3>1. /\ caller' \in [Openers -> CallerRecords] /\ caller'[c].at = None
            /\ \A d \in Openers \ {c} : caller'[d] = caller[d]
            /\ lock' = None /\ Held'
        BY <2>1, <2>4, Leaves DEF Working
      <3>2. DavTyped'
        BY <1>0, <2>1, <3>1 DEF DavTyped, OrNone
      <3>3. SenderListens' /\ PortsApart'
        BY <1>0, <2>1, <3>1 DEF SenderListens, PortsApart, Working
      <3>4. crossed' \/ Staged'
        BY <2>1, <2>2, <3>1 DEF Staged, Settled, W!Listening
      <3>5. QED
        BY <3>1, <3>2, <3>3, <3>4 DEF DavKept
    <2>5. QED
      BY <1>4, <2>3, <2>4 DEF W!Clear
  <1>5. ASSUME NEW c \in Openers, W!Mount(c)
        PROVE  DavKept'
    <2>1. /\ UNCHANGED <<port, bound, sender, listener, foreign, crossed>>
          /\ lock = None /\ bound = None /\ lock' = c /\ W!Become(c, "start")
      BY <1>5 DEF W!Mount
    <2>2. /\ caller' \in [Openers -> CallerRecords] /\ caller'[c].at = "start"
          /\ \A d \in Openers \ {c} : caller'[d] = caller[d]
      BY <2>1, Becomes DEF Working
    <2>3. DavTyped'
      BY <1>0, <2>1, <2>2 DEF DavTyped, OrNone
    <2>4. Held' /\ SenderListens' /\ PortsApart'
      BY <1>0, <2>1, <2>2 DEF Held, Working, SenderListens, PortsApart
    <2>5. crossed' \/ Staged'
      BY <1>0, <2>1, <2>2 DEF Staged, Stage, Settled, W!Listening
    <2>6. QED
      BY <2>3, <2>4, <2>5 DEF DavKept
  <1>6. ASSUME NEW c \in Openers, W!StartUp(c)
        PROVE  DavKept'
    <2>1. /\ UNCHANGED <<port, bound, sender, listener, foreign>>
          /\ lock = None /\ lock' = c /\ W!Become(c, "start")
          /\ crossed' = (crossed \/ W!Listening # {})
      BY <1>6 DEF W!StartUp
    <2>2. /\ caller' \in [Openers -> CallerRecords] /\ caller'[c].at = "start"
          /\ \A d \in Openers \ {c} : caller'[d] = caller[d]
      BY <2>1, Becomes DEF Working
    <2>3. DavTyped'
      BY <1>0, <2>1, <2>2 DEF DavTyped, OrNone
    <2>4. Held' /\ SenderListens' /\ PortsApart'
      BY <1>0, <2>1, <2>2 DEF Held, Working, SenderListens, PortsApart
    <2>5. crossed' \/ Staged'
      <3>1. ~ crossed' => ~ crossed /\ W!Listening = {} /\ Settled
        BY <1>0, <2>1 DEF Staged
      <3>2. ~ crossed' => bound = None
        BY <3>1 DEF Settled
      <3>3. W!Listening' = W!Listening
        BY <2>1 DEF W!Listening
      <3>4. QED
        BY <1>0, <2>1, <2>2, <3>1, <3>2, <3>3 DEF Staged, Stage
    <2>6. QED
      BY <2>3, <2>4, <2>5 DEF DavKept
  <1>7. ASSUME NEW c \in Openers, W!Bind(c)
        PROVE  DavKept'
    <2>1. /\ UNCHANGED <<port, bound, foreign, crossed>>
          /\ caller[c].at = "start" /\ W!Alive # Listeners
      BY <1>7 DEF W!Bind
    <2>2. lock = c /\ (crossed \/ (W!Listening = {} /\ bound = None))
      <3>1. lock = c /\ (crossed \/ Stage(c))
        BY <2>1, OneWorks DEF Working
      <3>2. caller[c].at # "clear" /\ caller[c].at # "decide" /\ caller[c].at # "announce"
        BY <2>1
      <3>3. Stage(c) => W!Listening = {} /\ bound = None
        BY <3>2, Zenon DEF Stage
      <3>4. QED
        BY <3>1, <3>3
    <2>3. CASE W!Free(port) # {}
      <3>1. PICK n \in Listeners, p \in Ports :
              /\ listener[n].at = "absent"
              /\ \A l \in W!Alive : listener[l].port # p
              /\ sender' = n
              /\ listener' = [listener EXCEPT ![n] = [at |-> "listening", port |-> p]]
        <4>1. W!New \in Listeners \ W!Alive
          <5>1. Listeners \ W!Alive \in SUBSET Nat /\ Listeners \ W!Alive # {}
            BY <2>1, ServicesAssumption DEF W!Alive
          <5>2. QED
            BY <5>1, LeastMember DEF W!New
        <4>2. PICK p \in W!Free(port) : p = CHOOSE q \in W!Free(port) :
                                               \A r \in W!Free(port) : q <= r
          <5>1. W!Free(port) \in SUBSET Nat
            BY ServicesAssumption DEF W!Free, W!Tried
          <5>2. QED
            BY <2>3, <5>1, LeastMember
        <4>3. /\ sender' = W!New
              /\ listener' = [listener EXCEPT ![W!New] = [at |-> "listening", port |-> p]]
          BY <1>7, <2>3, <4>2 DEF W!Bind
        <4>4. p \in Ports /\ \A l \in W!Alive : listener[l].port # p
          BY <4>2 DEF W!Free, W!Tried
        <4>5. listener[W!New].at = "absent"
          BY <4>1 DEF W!Alive
        <4>6. QED
          BY <4>1, <4>3, <4>4, <4>5
      <3>2. W!Become(c, "announce") /\ UNCHANGED lock
        BY <1>7, <2>3 DEF W!Bind
      <3>3. /\ caller' \in [Openers -> CallerRecords] /\ caller'[c].at = "announce"
            /\ \A d \in Openers \ {c} : caller'[d] = caller[d]
        BY <3>2, Becomes DEF Working
      <3>4. /\ listener' \in [Listeners -> ListenerRecords]
            /\ listener'[n].at = "listening" /\ listener'[n].port = p
            /\ \A l \in Listeners \ {n} : listener'[l] = listener[l]
        BY <1>0, <3>1 DEF DavTyped, ListenerRecords, OrNone
      <3>5. DavTyped'
        BY <1>0, <2>1, <3>1, <3>2, <3>3, <3>4 DEF DavTyped, OrNone
      <3>6. Held'
        BY <1>0, <2>1, <2>2, <3>2, <3>3 DEF Held, Working
      <3>7. SenderListens'
        BY <1>0, <3>1, <3>4 DEF SenderListens
      <3>8. PortsApart'
        BY <1>0, <3>1, <3>4 DEF PortsApart, W!Alive
      <3>9. crossed' \/ Staged'
        <4>1. W!Listening' = W!Listening \cup {n}
          BY <3>1, <3>4 DEF W!Listening
        <4>2. QED
          BY <1>0, <2>1, <2>2, <3>1, <3>2, <3>3, <4>1 DEF Staged, Stage
      <3>10. QED
        BY <3>5, <3>6, <3>7, <3>8, <3>9 DEF DavKept
    <2>4. CASE W!Free(port) = {}
      <3>1. sender' = None /\ listener' = listener /\ W!Leave(c)
        BY <1>7, <2>4 DEF W!Bind
      <3>2. /\ caller' \in [Openers -> CallerRecords] /\ caller'[c].at = None
            /\ \A d \in Openers \ {c} : caller'[d] = caller[d]
            /\ lock' = None /\ Held'
        BY <2>1, <3>1, Leaves DEF Working
      <3>3. DavTyped'
        BY <1>0, <2>1, <3>1, <3>2 DEF DavTyped, OrNone
      <3>4. SenderListens' /\ PortsApart'
        BY <1>0, <2>1, <3>1, <3>2, OneWorks DEF SenderListens, PortsApart, Working
      <3>5. crossed' \/ Staged'
        BY <2>1, <2>2, <3>1, <3>2 DEF Staged, Settled, W!Listening
      <3>6. QED
        BY <3>2, <3>3, <3>4, <3>5 DEF DavKept
    <2>5. QED
      BY <2>3, <2>4
  <1>8. ASSUME NEW c \in Openers, W!Announce(c)
        PROVE  DavKept'
    <2>1. /\ UNCHANGED <<port, sender, listener, foreign, crossed>>
          /\ caller[c].at = "announce" /\ bound' = listener[sender].port /\ W!Leave(c)
      BY <1>8 DEF W!Announce
    <2>2. /\ caller' \in [Openers -> CallerRecords] /\ caller'[c].at = None
          /\ \A d \in Openers \ {c} : caller'[d] = caller[d]
          /\ lock' = None /\ Held'
      BY <2>1, Leaves DEF Working
    <2>3. sender \in Listeners /\ listener[sender].port \in Ports
      BY <1>0, <2>1 DEF SenderListens, DavTyped, OrNone, PortsApart
    <2>4. crossed \/ W!Listening = {sender}
      <3>1. crossed \/ Stage(c)
        BY <2>1, OneWorks DEF Working
      <3>2. caller[c].at # "clear" /\ caller[c].at # "decide" /\ caller[c].at # "start"
        BY <2>1
      <3>3. Stage(c) => W!Listening = {sender}
        BY <3>2, Zenon DEF Stage
      <3>4. QED
        BY <3>1, <3>3
    <2>5. DavTyped'
      BY <1>0, <2>1, <2>2, <2>3 DEF DavTyped, OrNone
    <2>6. SenderListens' /\ PortsApart'
      BY <1>0, <2>1, <2>2 DEF SenderListens, PortsApart, Working
    <2>7. crossed' \/ Staged'
      BY <1>0, <2>1, <2>2, <2>3, <2>4 DEF Staged, Settled, W!Listening
    <2>8. QED
      BY <2>2, <2>5, <2>6, <2>7 DEF DavKept
  <1>9. ASSUME NEW l \in Listeners, W!EndTask(l)
        PROVE  DavKept'
    <2>1. /\ UNCHANGED <<port, sender, foreign, lock, caller>> /\ bound' = None
          /\ listener[l].at = "ending" /\ listener' = [listener EXCEPT ![l].at = "ended"]
          /\ crossed' = (crossed \/ bound \notin {None, listener[l].port})
      BY <1>9 DEF W!EndTask
    <2>2. /\ listener' \in [Listeners -> ListenerRecords]
          /\ \A k \in Listeners : /\ listener'[k].port = listener[k].port
                                  /\ listener'[k].at = IF k = l THEN "ended"
                                                       ELSE listener[k].at
      BY <1>0, <2>1 DEF DavTyped, ListenerRecords
    <2>3. DavTyped' /\ Held'
      BY <1>0, <2>1, <2>2 DEF DavTyped, OrNone, Held
    <2>4. SenderListens' /\ PortsApart'
      BY <1>0, <2>1, <2>2 DEF SenderListens, PortsApart, DavTyped, OrNone
    <2>5. W!Listening' = W!Listening
      BY <2>1, <2>2 DEF W!Listening
    <2>6. ~ crossed' => Staged /\ ~ crossed /\ bound \in {None, listener[l].port}
      BY <1>0, <2>1
    <2>7. ~ crossed' /\ Settled => bound = None
      <3> SUFFICES ASSUME bound = listener[l].port, Settled, bound # None
                   PROVE  FALSE
        BY <2>6
      <3>1. sender \in W!Listening /\ listener[sender].port = bound
        BY DEF Settled
      <3>2. sender \in Listeners \ {l} /\ listener[sender].at # "absent"
        BY <2>1, <3>1 DEF W!Listening
      <3>3. QED
        BY <1>0, <2>1, <3>1, <3>2 DEF PortsApart
    <2>8. Settled /\ bound = None => Settled'
      BY <2>1, <2>5 DEF Settled
    <2>9. \A c \in Openers : ~ crossed' /\ Stage(c) => Stage(c)'
      <3> SUFFICES ASSUME NEW c \in Openers, ~ crossed', Stage(c)
                   PROVE  Stage(c)'
        OBVIOUS
      <3>1. CASE caller[c].at = "decide" /\ Settled
        BY <2>1, <2>7, <2>8, <3>1 DEF Stage
      <3>2. CASE caller[c].at # "decide"
        BY <2>1, <2>5, <3>2 DEF Stage
      <3>3. QED
        BY <3>1, <3>2 DEF Stage
    <2>10. crossed' \/ Staged'
      BY <1>0, <2>1, <2>6, <2>7, <2>8, <2>9 DEF Staged, DavTyped, OrNone
    <2>11. QED
      BY <2>3, <2>4, <2>10 DEF DavKept
  <1>10. ASSUME NEW l \in Listeners, W!DropSocket(l)
         PROVE  DavKept'
    <2>1. /\ UNCHANGED <<port, bound, sender, foreign, lock, caller, crossed>>
          /\ listener[l].at = "ended" /\ listener' = [listener EXCEPT ![l] = W!Absent]
      BY <1>10 DEF W!DropSocket
    <2>2. /\ listener' \in [Listeners -> ListenerRecords] /\ listener'[l].at = "absent"
          /\ \A k \in Listeners \ {l} : listener'[k] = listener[k]
      BY <1>0, <2>1 DEF DavTyped, ListenerRecords, W!Absent, OrNone
    <2>3. DavTyped' /\ Held'
      BY <1>0, <2>1, <2>2 DEF DavTyped, Held
    <2>4. SenderListens' /\ PortsApart'
      BY <1>0, <2>1, <2>2 DEF SenderListens, PortsApart, DavTyped, OrNone
    <2>5. W!Listening' = W!Listening
      BY <2>1, <2>2 DEF W!Listening
    <2>6. Settled => Settled'
      <3>1. \A k \in W!Listening : listener'[k].port = listener[k].port
        BY <2>1, <2>2 DEF W!Listening
      <3>2. QED
        BY <2>1, <2>5, <3>1 DEF Settled
    <2>7. \A c \in Openers : Stage(c) => Stage(c)'
      BY <2>1, <2>5, <2>6 DEF Stage
    <2>8. crossed' \/ Staged'
      BY <1>0, <2>1, <2>6, <2>7 DEF Staged, DavTyped, OrNone
    <2>9. QED
      BY <2>3, <2>4, <2>8 DEF DavKept
  <1>11. CASE UNCHANGED davVars
    BY <1>11 DEF davVars, DavKept, DavTyped, Held, SenderListens, PortsApart, Staged, Settled,
       Stage, W!Listening
  <1>12. QED
    BY <1>1, <1>2, <1>3, <1>4, <1>5, <1>6, <1>7, <1>8, <1>9, <1>10, <1>11 DEF W!DavNext

LEMMA DavAlwaysKept == Spec => []DavKept
  <1>1. Init => DavKept
    BY DavInitKept DEF Init
  <1>2. QED
    BY <1>1, DavNextKept, PartsMove, PTL DEF Spec

\* The server is shown on the port where its one listener listens, whatever
\* configure, mount and start-up did before and however listeners ended
\* (WebDavServer::start and stop under the lock of the commands).
THEOREM ShownWhereItListens == Spec => []ListenerIsShown
  <1>1. DavKept => ListenerIsShown
    BY ServicesAssumption DEF DavKept, DavTyped, OrNone, Held, Working, Staged, Settled, ListenerIsShown,
       W!ListenerIsShown
  <1>2. QED
    BY <1>1, DavAlwaysKept, PTL

-----------------------------------------------------------------------------
(* The versions of a file                                                   *)

\* What the operations on a history do to it, place by place.
LEMMA Added ==
    ASSUME NEW S, NEW x \in S, NEW s \in Seq(S)
    PROVE  /\ <<x>> \o s \in Seq(S) /\ Len(<<x>> \o s) = Len(s) + 1
           /\ (<<x>> \o s)[1] = x
           /\ \A i \in 1 .. Len(s) : (<<x>> \o s)[i + 1] = s[i]
  OBVIOUS

LEMMA WithoutOne ==
    ASSUME NEW S, NEW s \in Seq(S), NEW i \in 1 .. Len(s)
    PROVE  /\ V!Without(s, i) \in Seq(S) /\ Len(V!Without(s, i)) = Len(s) - 1
           /\ \A k \in 1 .. Len(s) - 1 :
                V!Without(s, i)[k] = IF k < i THEN s[k] ELSE s[k + 1]
  <1>1. /\ SubSeq(s, 1, i - 1) \in Seq(S) /\ Len(SubSeq(s, 1, i - 1)) = i - 1
        /\ \A k \in 1 .. i - 1 : SubSeq(s, 1, i - 1)[k] = s[k]
    OBVIOUS
  <1>2. /\ SubSeq(s, i + 1, Len(s)) \in Seq(S) /\ Len(SubSeq(s, i + 1, Len(s))) = Len(s) - i
        /\ \A k \in 1 .. Len(s) - i : SubSeq(s, i + 1, Len(s))[k] = s[i + k]
    OBVIOUS
  <1> DEFINE a == SubSeq(s, 1, i - 1)
             b == SubSeq(s, i + 1, Len(s))
  <1>3. V!Without(s, i) = a \o b
    BY DEF V!Without
  <1> HIDE DEF a, b
  <1>4. /\ a \o b \in Seq(S) /\ Len(a \o b) = Len(s) - 1
        /\ \A k \in 1 .. Len(s) - 1 :
             (a \o b)[k] = IF k < i THEN a[k] ELSE b[k - (i - 1)]
    <2>1. /\ a \in Seq(S) /\ b \in Seq(S) /\ Len(a) = i - 1 /\ Len(b) = Len(s) - i
          /\ Len(s) \in Nat /\ i \in Nat
      BY <1>1, <1>2 DEF a, b
    <2>2. a \o b \in Seq(S) /\ Len(a \o b) = Len(a) + Len(b)
      BY <2>1
    <2>3. ASSUME NEW k \in 1 .. Len(s) - 1
          PROVE  (a \o b)[k] = IF k < i THEN a[k] ELSE b[k - (i - 1)]
      <3>1. CASE k < i
        BY <2>1, <3>1
      <3>2. CASE ~ (k < i)
        BY <2>1, <3>2
      <3>3. QED
        BY <3>1, <3>2
    <2>4. QED
      BY <2>1, <2>2, <2>3
  <1>5. ASSUME NEW k \in 1 .. Len(s) - 1
        PROVE  (a \o b)[k] = IF k < i THEN s[k] ELSE s[k + 1]
    <2>1. CASE k < i
      BY <1>1, <1>4, <2>1 DEF a
    <2>2. CASE ~ (k < i)
      <3>1. k - (i - 1) \in 1 .. Len(s) - i /\ i + (k - (i - 1)) = k + 1
        BY <2>2
      <3>2. QED
        BY <1>2, <1>4, <2>2, <3>1 DEF b
    <2>3. QED
      BY <2>1, <2>2
  <1>6. QED
    BY <1>3, <1>4, <1>5

LEMMA TruncatedKeeps ==
    ASSUME NEW S, NEW s \in Seq(S)
    PROVE  /\ V!Truncated(s) \in Seq(S)
           /\ Len(V!Truncated(s)) = IF Len(s) > MaxHistory THEN MaxHistory ELSE Len(s)
           /\ \A i \in 1 .. Len(V!Truncated(s)) : V!Truncated(s)[i] = s[i]
  BY ServicesAssumption DEF V!Truncated

PastRecords == [version : Nat \ {0}, doc : Documents]

\* The file has its types, no document is named twice, and the history
\* names, in order, the documents that were current before this one.
VersionsKept ==
    /\ file \in [doc : Documents, version : Nat \ {0}, history : Seq(PastRecords)]
    /\ latest \in Seq(Documents) /\ Len(latest) >= 1
    /\ \A i, j \in 1 .. Len(latest) : latest[i] = latest[j] => i = j
    /\ latest[1] = file.doc
    /\ Len(file.history) + 1 = IF Len(latest) > MaxHistory + 1 THEN MaxHistory + 1
                               ELSE Len(latest)
    /\ \A i \in 1 .. Len(file.history) : file.history[i].doc = latest[i + 1]

LEMMA VersionNextKept == VersionsKept /\ [V!VersionNext]_versionVars => VersionsKept'
  <1> SUFFICES ASSUME VersionsKept, [V!VersionNext]_versionVars
               PROVE  VersionsKept'
    OBVIOUS
  <1> DEFINE h == file.history
  <1>0. /\ h \in Seq(PastRecords) /\ Len(h) \in Nat /\ Len(latest) \in Nat
        /\ MaxHistory \in Nat /\ latest \in Seq(Documents) /\ file.doc \in Documents
        /\ V!Past(file) \in PastRecords /\ V!Past(file).doc = file.doc
        /\ file.version \in Nat \ {0} /\ Len(latest) >= 1 /\ latest[1] = file.doc
        /\ Len(h) + 1 = IF Len(latest) > MaxHistory + 1 THEN MaxHistory + 1 ELSE Len(latest)
    BY ServicesAssumption DEF VersionsKept, PastRecords, V!Past
  <1>00. \A i, j \in 1 .. Len(latest) : latest[i] = latest[j] => i = j
    BY DEF VersionsKept
  <1>01. \A i \in 1 .. Len(h) : h[i].doc = latest[i + 1]
    BY DEF VersionsKept
  <1>1. ASSUME NEW d \in Documents, V!Record(d)
        PROVE  VersionsKept'
    <2> DEFINE all == <<V!Past(file)>> \o h
               kept == V!Truncated(all)
               seen == <<d>> \o latest
    <2>1. /\ latest' = seen /\ \A i \in 1 .. Len(latest) : latest[i] # d
          /\ file' = [doc |-> d, version |-> file.version + 1, history |-> kept]
      BY <1>0, <1>1 DEF V!Record, V!Recorded
    <2>2. /\ all \in Seq(PastRecords) /\ Len(all) = Len(h) + 1 /\ all[1] = V!Past(file)
          /\ \A i \in 1 .. Len(h) : all[i + 1] = h[i]
      BY <1>0, Added
    <2>3. /\ seen \in Seq(Documents) /\ Len(seen) = Len(latest) + 1 /\ seen[1] = d
          /\ \A i \in 1 .. Len(latest) : seen[i + 1] = latest[i]
      BY <1>0, Added
    <2> HIDE DEF all, seen
    <2>4. /\ kept \in Seq(PastRecords)
          /\ Len(kept) = IF Len(h) + 1 > MaxHistory THEN MaxHistory ELSE Len(h) + 1
          /\ \A i \in 1 .. Len(kept) : kept[i] = all[i]
      BY <2>2, TruncatedKeeps
    <2> HIDE DEF kept
    <2>5. /\ file' \in [doc : Documents, version : Nat \ {0}, history : Seq(PastRecords)]
          /\ file'.doc = d /\ file'.history = kept
      BY <1>0, <2>1, <2>4
    <2>6. \A i, j \in 1 .. Len(seen) : seen[i] = seen[j] => i = j
      <3> SUFFICES ASSUME NEW i \in 1 .. Len(seen), NEW j \in 1 .. Len(seen), seen[i] = seen[j]
                   PROVE  i = j
        OBVIOUS
      <3>1. \A k \in 1 .. Len(seen) : k = 1 \/ (k - 1 \in 1 .. Len(latest) /\ seen[k] = latest[k - 1])
        <4> SUFFICES ASSUME NEW k \in 2 .. Len(latest) + 1
                     PROVE  k - 1 \in 1 .. Len(latest) /\ seen[k] = latest[k - 1]
          BY <1>0, <2>3
        <4>1. k - 1 \in 1 .. Len(latest) /\ (k - 1) + 1 = k
          BY <1>0
        <4>2. QED
          BY <2>3, <4>1
      <3>2. CASE i = 1 \/ j = 1
        BY <2>1, <2>3, <3>1, <3>2
      <3>3. CASE i # 1 /\ j # 1
        <4>1. /\ i - 1 \in 1 .. Len(latest) /\ j - 1 \in 1 .. Len(latest)
              /\ latest[i - 1] = latest[j - 1]
          BY <3>1, <3>3
        <4>2. i - 1 = j - 1
          BY <1>00, <4>1
        <4>3. QED
          BY <4>2, <2>3
      <3>4. QED
        BY <3>2, <3>3
    <2>7. \A i \in 1 .. Len(kept) : kept[i].doc = seen[i + 1]
      <3> SUFFICES ASSUME NEW i \in 1 .. Len(kept)
                   PROVE  all[i].doc = seen[i + 1]
        BY <2>4
      <3>1. i \in 1 .. Len(h) + 1 /\ i \in 1 .. Len(latest)
        BY <1>0, <2>4
      <3>2. CASE i = 1
        BY <1>0, <2>2, <2>3, <3>1, <3>2
      <3>3. CASE i # 1
        <4>1. i - 1 \in 1 .. Len(h) /\ (i - 1) + 1 = i
          BY <1>0, <3>1, <3>3
        <4>2. all[i] = h[i - 1] /\ h[i - 1].doc = latest[i]
          BY <1>01, <2>2, <4>1
        <4>3. QED
          BY <2>3, <3>1, <4>2
      <3>4. QED
        BY <3>2, <3>3
    <2>8. /\ Len(seen) >= 1
          /\ Len(kept) + 1 = IF Len(seen) > MaxHistory + 1 THEN MaxHistory + 1 ELSE Len(seen)
      BY <1>0, <2>3, <2>4
    <2>9. QED
      BY <2>1, <2>3, <2>5, <2>6, <2>7, <2>8 DEF VersionsKept
  <1>2. ASSUME NEW n \in V!Numbers(file), V!Restore(n)
        PROVE  VersionsKept'
    <2>1. PICK i \in 1 .. Len(h) : i = V!Place(file, n)
      <3>1. DOMAIN h = 1 .. Len(h) /\ V!Places(file, n) \in SUBSET Nat /\ V!Places(file, n) # {}
        BY <1>0 DEF V!Places, V!Numbers
      <3>2. V!Place(file, n) \in V!Places(file, n)
        BY <3>1, LeastMember DEF V!Place
      <3>3. QED
        BY <3>1, <3>2 DEF V!Places
    <2> DEFINE d == h[i].doc
               rest == V!Without(h, i)
               past == <<V!Past(file)>> \o rest
               others == V!Without(latest, i + 1)
               seen == <<d>> \o others
    <2>2. /\ i + 1 \in 1 .. Len(latest) /\ d = latest[i + 1] /\ d \in Documents /\ n \in Nat \ {0}
          /\ Len(h) <= MaxHistory
      <3>1. h[i] \in PastRecords /\ \A k \in DOMAIN h : h[k] \in PastRecords
        BY <1>0
      <3>2. d \in Documents /\ n \in Nat \ {0}
        BY <3>1 DEF PastRecords, V!Numbers
      <3>3. QED
        BY <1>0, <1>01, <3>2
    <2>3. file' = [doc |-> d, version |-> n, history |-> past]
      BY <1>2, <2>1 DEF V!Restore, V!Restored
    <2>4. latest' = seen
      <3>1. file'.doc = d
        BY <2>3
      <3>2. \A j \in DOMAIN latest : latest[j] = d <=> j = i + 1
        BY <1>0, <1>00, <2>2
      <3>3. (CHOOSE j \in DOMAIN latest : latest[j] = d) = i + 1
        BY <1>0, <2>2, <3>2
      <3>4. QED
        BY <1>2, <3>1, <3>3 DEF V!Restore
    <2>5. /\ rest \in Seq(PastRecords) /\ Len(rest) = Len(h) - 1
          /\ \A k \in 1 .. Len(h) - 1 : rest[k] = IF k < i THEN h[k] ELSE h[k + 1]
      BY <1>0, WithoutOne
    <2>6. /\ others \in Seq(Documents) /\ Len(others) = Len(latest) - 1
          /\ \A k \in 1 .. Len(latest) - 1 :
               others[k] = IF k < i + 1 THEN latest[k] ELSE latest[k + 1]
      BY <1>0, <2>2, WithoutOne
    <2> HIDE DEF rest, others
    <2>7. /\ past \in Seq(PastRecords) /\ Len(past) = Len(h) /\ past[1] = V!Past(file)
          /\ \A k \in 1 .. Len(h) - 1 : past[k + 1] = rest[k]
      BY <1>0, <2>5, Added
    <2>8. /\ seen \in Seq(Documents) /\ Len(seen) = Len(latest) /\ seen[1] = d
          /\ \A k \in 1 .. Len(latest) - 1 : seen[k + 1] = others[k]
      BY <1>0, <2>2, <2>6, Added
    <2> HIDE DEF past, seen, d
    <2>9. file' \in [doc : Documents, version : Nat \ {0}, history : Seq(PastRecords)]
          /\ file'.doc = d /\ file'.history = past
      BY <2>2, <2>3, <2>7
    <2>10. ASSUME NEW j \in 1 .. Len(seen), NEW k \in 1 .. Len(seen), seen[j] = seen[k]
           PROVE  j = k
      <3> DEFINE from(m) == IF m = 1 THEN i + 1 ELSE IF m <= i + 1 THEN m - 1 ELSE m
      <3>1. \A m \in 1 .. Len(seen) :
               from(m) \in 1 .. Len(latest) /\ seen[m] = latest[from(m)]
        <4> SUFFICES ASSUME NEW m \in 2 .. Len(latest)
                     PROVE  from(m) \in 1 .. Len(latest) /\ seen[m] = latest[from(m)]
          BY <1>0, <2>2, <2>8
        <4>1. m - 1 \in 1 .. Len(latest) - 1 /\ (m - 1) + 1 = m /\ i \in Nat /\ m \in Nat
          BY <1>0
        <4>2. seen[m] = IF m - 1 < i + 1 THEN latest[m - 1] ELSE latest[m]
          BY <2>6, <2>8, <4>1
        <4>3. m - 1 < i + 1 <=> m <= i + 1
          BY <4>1
        <4>4. CASE m <= i + 1
          BY <4>1, <4>2, <4>3, <4>4
        <4>5. CASE ~ (m <= i + 1)
          BY <1>0, <4>1, <4>2, <4>3, <4>5
        <4>6. QED
          BY <4>4, <4>5
      <3>2. from(j) = from(k)
        BY <1>00, <2>10, <3>1
      <3>3. QED
        BY <3>2
    <2>11. ASSUME NEW k \in 1 .. Len(past)
           PROVE  past[k].doc = seen[k + 1]
      <3>1. k \in 1 .. Len(h) /\ k \in 1 .. Len(latest) - 1 /\ i \in 1 .. Len(h)
        BY <1>0, <2>7
      <3>2. seen[k + 1] = IF k < i + 1 THEN latest[k] ELSE latest[k + 1]
        BY <2>6, <2>8, <3>1
      <3>3. CASE k = 1
        BY <1>0, <2>7, <3>1, <3>2, <3>3
      <3>4. CASE k # 1
        <4>1. k - 1 \in 1 .. Len(h) - 1 /\ (k - 1) + 1 = k
          BY <3>1, <3>4
        <4>2. past[k] = IF k - 1 < i THEN h[k - 1] ELSE h[k]
          BY <2>5, <2>7, <4>1
        <4>3. h[k - 1].doc = latest[k] /\ h[k].doc = latest[k + 1]
          <5>1. k - 1 \in 1 .. Len(h)
            BY <1>0, <4>1
          <5>2. h[k - 1].doc = latest[(k - 1) + 1] /\ h[k].doc = latest[k + 1]
            BY <1>01, <3>1, <5>1, Zenon
          <5>3. QED
            BY <4>1, <5>2
        <4>4. k - 1 < i <=> k < i + 1
          BY <3>1
        <4>5. QED
          BY <3>2, <4>2, <4>3, <4>4
      <3>5. QED
        BY <3>3, <3>4
    <2>12. \A j, k \in 1 .. Len(seen) : seen[j] = seen[k] => j = k
      BY <2>10
    <2>13. \A k \in 1 .. Len(past) : past[k].doc = seen[k + 1]
      BY <2>11
    <2>14. /\ Len(seen) >= 1
           /\ Len(past) + 1 = IF Len(seen) > MaxHistory + 1 THEN MaxHistory + 1 ELSE Len(seen)
      BY <1>0, <2>7, <2>8
    <2> HIDE DEF h
    <2>15. QED
      BY <2>4, <2>8, <2>9, <2>12, <2>13, <2>14 DEF VersionsKept
  <1>3. CASE UNCHANGED <<file, latest>>
    BY <1>3 DEF VersionsKept
  <1>4. QED
    BY <1>1, <1>2, <1>3 DEF V!VersionNext, V!RestoreCommand, V!ListVersions, V!Restore, versionVars

LEMMA VersionAlwaysKept == Spec => []VersionsKept
  <1>1. V!VersionInit => VersionsKept
    <2> SUFFICES ASSUME NEW d \in Documents, latest = <<d>>,
                        file = [doc |-> d, version |-> 1, history |-> <<>>]
                 PROVE  VersionsKept
      BY DEF V!VersionInit
    <2>1. /\ <<>> \in Seq(PastRecords) /\ Len(<<>>) = 0 /\ <<d>> \in Seq(Documents)
          /\ Len(<<d>>) = 1 /\ <<d>>[1] = d
      OBVIOUS
    <2>2. QED
      BY <2>1, ServicesAssumption DEF VersionsKept
  <1>2. Init => VersionsKept
    BY <1>1 DEF Init
  <1>3. QED
    BY <1>2, VersionNextKept, PartsMove, PTL DEF Spec

\* The history of a file is made of the documents that were current last, in
\* that order, whatever versions were recorded and restored before
\* (record_file_version and restore_file_version).
THEOREM HistoryIsLatest == Spec => []HistoryKeepsTen
  <1>1. VersionsKept => HistoryKeepsTen
    <2> SUFFICES ASSUME VersionsKept
                 PROVE  HistoryKeepsTen
      OBVIOUS
    <2> DEFINE m == IF Len(latest) > MaxHistory + 1 THEN MaxHistory + 1 ELSE Len(latest)
    <2>1. /\ MaxHistory \in Nat /\ latest \in Seq(Documents) /\ Len(latest) \in Nat
          /\ m \in Nat /\ m <= Len(latest) /\ m = Len(file.history) + 1
          /\ Len(file.history) \in Nat
      BY ServicesAssumption DEF VersionsKept
    <2>2. SubSeq(latest, 1, m) = [i \in 1 .. m |-> latest[i]]
      BY <2>1
    <2>3. ASSUME NEW i \in 1 .. m
          PROVE  (IF i = 1 THEN file.doc ELSE file.history[i - 1].doc) = latest[i]
      <3>1. CASE i = 1
        BY <3>1 DEF VersionsKept
      <3>2. CASE i # 1
        <4>1. i - 1 \in 1 .. Len(file.history) /\ (i - 1) + 1 = i
          BY <2>1, <3>2
        <4>2. QED
          BY <3>2, <4>1 DEF VersionsKept
      <3>3. QED
        BY <3>1, <3>2
    <2>4. V!Kept = [i \in 1 .. m |-> latest[i]]
      BY <2>1, <2>3 DEF V!Kept
    <2>5. QED
      BY <2>2, <2>4 DEF HistoryKeepsTen, V!HistoryKeepsTen
  <1>2. QED
    BY <1>1, VersionAlwaysKept, PTL
-----------------------------------------------------------------------------
(* Accounts and drives                                                      *)

Registries == [accounts : Seq(Users), active : OrNone(Users)]
TaskRecords ==
    [op : OrNone(Commands), at : OrNone(A!Where), user : OrNone(Users),
     list : SUBSET Channels, reg : OrNone(Registries)]

AccountTyped ==
    /\ registry \in OrNone(Registries) /\ creds \in [Users -> OrNone(Users)]
    /\ legacy \in OrNone(Users) /\ auth \in OrNone(Users)
    /\ session \in OrNone(Users) /\ transport \in OrNone(Users)
    /\ saved \in [Users -> SUBSET Channels] /\ drives \in SUBSET Channels
    /\ owner \in [Channels -> OrNone(Users)] /\ stale \in BOOLEAN

\* The connection file of a user holds the session of that user; the files of
\* an old version are of one account.
OwnFiles ==
    /\ \A u \in Users : creds[u] \in {u, None}
    /\ registry = None /\ auth # None => legacy = auth

\* u is the account chosen, and Telegram is spoken to as u or not at all,
\* but for the two exceptions of SessionIsConsistent.
Spoken(u) == transport = u \/ stale \/ creds[u] = None
Chosen(u) == registry # None /\ registry.active = u
Entered(u) == Chosen(u) /\ (transport = None \/ Spoken(u))
Consistent == session # None => Entered(session) /\ drives = saved[session]

\* What a command with record r has made true so far.
Begins == {"signed", "look", "ping", "drop", "refresh", "guard"}
Within == {"choose", "forget", "whoami", "make", "hold", "push", "unlink", "owned", "retain"}
Reading == {"read", "rewrite", "list"}
Chooses == {"signed", "register", "connect", "choose", "swap", "forget", "purge", "unlist"}

Doing(r) ==
    /\ r.at \in Begins => Consistent
    /\ r.at \in Within => session # None /\ Consistent
    /\ r.at = "signed" => ~ A!Migrates
    /\ r.at \in Chooses \cup {"look", "whoami"} => r.op # "drives"
    /\ r.at \in {"look", "choose", "forget", "purge", "unlist", "whoami"} =>
          r.op \notin {"check", "reconnect"}
    /\ r.at \in {"ping", "drop", "refresh"} => r.op \in {"check", "reconnect"}
    /\ r.at \in Chooses \cup Reading \cup {"enter"} => r.user \in Users
    /\ r.at = "register" => transport = r.user
    /\ r.at \in Reading \cup {"enter", "swap"} => Entered(r.user)
    /\ r.at \in Reading /\ r.op = "drives" => session = r.user
    /\ r.at \in {"rewrite", "list"} => r.list = saved[r.user]
    /\ r.at = "enter" => drives = saved[r.user]
    /\ r.at = "connect" => Chosen(r.user)
    /\ r.at = "connect" /\ r.op \in {"check", "reconnect"} => Consistent
    /\ r.at \in {"purge", "unlist"} =>
          /\ session # None /\ Entered(session)
          /\ r.reg # None /\ r.reg.active = session
          /\ r.user # session => drives = saved[session]
    /\ r.at = "clearing" => session = None
    /\ r.at \in {"make", "hold", "push"} => r.op # "prune"
    /\ r.at = "unlink" => r.op = "delete"
    /\ r.at = "owned" => r.op = "prune"
    /\ r.at = "retain" => r.op \in {"delete", "prune"}
    /\ r.at \in {"retain", "store"} /\ r.op = "prune" => Spoken(session)
    /\ r.at = "store" =>
          /\ session # None /\ Entered(session)
          /\ \A c \in saved[session] \ drives : r.op \in {"delete", "prune"} /\ c \notin r.list

\* One command at a time: at most one task is busy, and what it has done so
\* far is known; when none is, all is consistent.
AccountKept ==
    alone =>
      /\ AccountTyped /\ OwnFiles /\ task \in [Tasks -> TaskRecords]
      /\ \A s, t \in Tasks : task[s].at # None /\ task[t].at # None => s = t
      /\ (\A t \in Tasks : task[t].at = None) => Consistent
      /\ \A t \in Tasks : task[t].at # None => Doing(task[t])

\* Task t takes a step: its record is then r.
Turns(t, r, op, l, u, S, g) ==
    /\ task' = [task EXCEPT ![t] = r]
    /\ r.op = op /\ r.at = l /\ r.user = u /\ r.list = S /\ r.reg = g

\* A registry lists users.
LEMMA Listed ==
    ASSUME NEW reg \in Registries
    PROVE  /\ A!Members(reg.accounts) \subseteq Users
           /\ reg.accounts # <<>> => Head(reg.accounts) \in Users
  BY DEF A!Members, Registries

LEMMA NotNone ==
    /\ None \notin Users /\ None \notin Registries /\ None \notin A!Where
  BY AccountAssumption DEF A!Where, Registries, OrNone

\* What a command finds in the registry.
LEMMA Loads ==
    ASSUME AccountTyped, OwnFiles
    PROVE  /\ A!LoadedRegistry \in Registries
           /\ A!MigratedCreds \in [Users -> OrNone(Users)]
           /\ \A u \in Users : A!MigratedCreds[u] \in {u, None}
           /\ \A u \in Users : creds[u] # None => A!MigratedCreds[u] = creds[u]
           /\ ~ A!Migrates => A!MigratedCreds = creds
           /\ registry # None => A!LoadedRegistry = registry /\ ~ A!Migrates
           /\ A!Members(A!LoadedRegistry.accounts) # {} => registry # None \/ A!Migrates
  <1>1. CASE registry # None
    BY <1>1 DEF A!LoadedRegistry, A!MigratedCreds, A!Migrates, AccountTyped, OrNone, OwnFiles
  <1>2. CASE registry = None /\ auth # None
    <2>1. auth \in Users /\ legacy = auth /\ A!Migrates
      BY <1>2 DEF AccountTyped, OrNone, OwnFiles, A!Migrates
    <2>2. <<auth>> \in Seq(Users)
      BY <2>1
    <2>3. A!LoadedRegistry \in Registries
      BY <1>2, <2>1, <2>2 DEF A!LoadedRegistry, Registries, OrNone
    <2>4. A!MigratedCreds = IF creds[auth] = None THEN [creds EXCEPT ![auth] = auth] ELSE creds
      BY <2>1 DEF A!MigratedCreds
    <2>5. QED
      BY <1>2, <2>1, <2>3, <2>4 DEF AccountTyped, OwnFiles, OrNone
  <1>3. CASE registry = None /\ auth = None
    BY <1>3
       DEF A!LoadedRegistry, A!MigratedCreds, A!Migrates, AccountTyped, OrNone, Registries,
       OwnFiles, A!Members
  <1>4. QED
    BY <1>1, <1>2, <1>3

\* An account is taken off a list of accounts, or put on it.
LEMMA Relisted ==
    ASSUME NEW reg \in Registries, NEW u \in Users
    PROVE  A!Registered(reg, u) \in Seq(Users) /\ A!Unregistered(reg, u) \in Seq(Users)
  <1>1. A!Registered(reg, u) \in Seq(Users)
    BY DEF A!Registered, Registries
  <1>2. CASE u \in A!Members(reg.accounts)
    <2> DEFINE all == reg.accounts
               i == CHOOSE i \in DOMAIN all : all[i] = u
    <2>1. all \in Seq(Users) /\ i \in 1 .. Len(all) /\ Len(all) \in Nat
      BY <1>2 DEF A!Members, Registries
    <2>2. A!Unregistered(reg, u) = SubSeq(all, 1, i - 1) \o SubSeq(all, i + 1, Len(all))
      BY <1>2 DEF A!Unregistered
    <2> HIDE DEF i, all
    <2>3. SubSeq(all, 1, i - 1) \in Seq(Users) /\ SubSeq(all, i + 1, Len(all)) \in Seq(Users)
      BY <2>1
    <2>4. QED
      BY <1>1, <2>2, <2>3
  <1>3. CASE u \notin A!Members(reg.accounts)
    BY <1>1, <1>3 DEF A!Unregistered, Registries
  <1>4. QED
    BY <1>2, <1>3

\* The busy task is alone, and knows what it has done.
LEMMA Busy ==
    ASSUME AccountKept, alone, NEW t \in Tasks, task[t].at \in A!Where
    PROVE  /\ AccountTyped /\ OwnFiles /\ task \in [Tasks -> TaskRecords]
           /\ task[t] \in TaskRecords
           /\ \A s \in Tasks \ {t} : task[s].at = None
           /\ Doing(task[t])
  BY NotNone DEF AccountKept

\* The invariant after a step of a task.
LEMMA TurnKept ==
    ASSUME NEW t \in Tasks, NEW r \in TaskRecords,
           task \in [Tasks -> TaskRecords], task' = [task EXCEPT ![t] = r],
           \A s \in Tasks \ {t} : task[s].at = None,
           AccountTyped', OwnFiles',
           r.at = None => Consistent',
           r.at # None => Doing(r)'
    PROVE  AccountKept'
  <1>1. task'[t] = r /\ \A s \in Tasks \ {t} : task'[s] = task[s]
    OBVIOUS
  <1>2. task' \in [Tasks -> TaskRecords]
    OBVIOUS
  <1>3. \A s \in Tasks : task'[s].at # None => s = t
    BY <1>1
  <1>4. \A s \in Tasks : task'[s].at # None => Doing(task[s])'
    BY <1>1, <1>3
  <1>5. (\A s \in Tasks : task'[s].at = None) => Consistent'
    BY <1>1
  <1>6. QED
    BY <1>2, <1>3, <1>4, <1>5 DEF AccountKept

\* How the record of a task changes when it goes on to l, or ends.
LEMMA GoesTo ==
    ASSUME NEW t \in Tasks, task \in [Tasks -> TaskRecords], NEW l \in A!Where,
           A!Goto(t, l)
    PROVE  \E r \in TaskRecords : Turns(t, r, task[t].op, l, task[t].user, task[t].list, task[t].reg)
  <1> DEFINE r == [task[t] EXCEPT !.at = l]
  <1>1. task[t] \in TaskRecords /\ l \in OrNone(A!Where)
    BY DEF OrNone
  <1>2. task' = [task EXCEPT ![t] = r]
    BY DEF A!Goto, A!GotoWith, A!Keep
  <1>3. r \in TaskRecords /\ Turns(t, r, task[t].op, l, task[t].user, task[t].list, task[t].reg)
    BY <1>1, <1>2 DEF Turns, TaskRecords
  <1>4. QED
    BY <1>3

LEMMA GoesAs ==
    ASSUME NEW t \in Tasks, task \in [Tasks -> TaskRecords], NEW l \in A!Where,
           NEW u \in OrNone(Users),
           A!GotoWith(t, l, u)
    PROVE  \E r \in TaskRecords : Turns(t, r, task[t].op, l, u, task[t].list, task[t].reg)
  <1> DEFINE r == [task[t] EXCEPT !.at = l, !.user = u]
  <1>1. task[t] \in TaskRecords /\ l \in OrNone(A!Where)
    BY DEF OrNone
  <1>2. task' = [task EXCEPT ![t] = r]
    BY DEF A!Goto, A!GotoWith, A!Keep
  <1>3. r \in TaskRecords /\ Turns(t, r, task[t].op, l, u, task[t].list, task[t].reg)
    BY <1>1, <1>2 DEF Turns, TaskRecords
  <1>4. QED
    BY <1>3

LEMMA Keeps ==
    ASSUME NEW t \in Tasks, task \in [Tasks -> TaskRecords], NEW l \in A!Where,
           NEW S \in SUBSET Channels,
           A!Keep(t, l, S)
    PROVE  \E r \in TaskRecords : Turns(t, r, task[t].op, l, task[t].user, S, task[t].reg)
  <1> DEFINE r == [task[t] EXCEPT !.at = l, !.list = S]
  <1>1. task[t] \in TaskRecords /\ l \in OrNone(A!Where)
    BY DEF OrNone
  <1>2. task' = [task EXCEPT ![t] = r]
    BY DEF A!Goto, A!GotoWith, A!Keep
  <1>3. r \in TaskRecords /\ Turns(t, r, task[t].op, l, task[t].user, S, task[t].reg)
    BY <1>1, <1>2 DEF Turns, TaskRecords
  <1>4. QED
    BY <1>3

LEMMA TurnsTo ==
    ASSUME NEW t \in Tasks, task \in [Tasks -> TaskRecords], NEW l \in A!Where,
           NEW g \in OrNone(Registries),
           task' = [task EXCEPT ![t].at = l, ![t].reg = g]
    PROVE  \E r \in TaskRecords : Turns(t, r, task[t].op, l, task[t].user, task[t].list, g)
  <1> DEFINE r == [task[t] EXCEPT !.at = l, !.reg = g]
  <1>1. task[t] \in TaskRecords /\ l \in OrNone(A!Where)
    BY DEF OrNone
  <1>2. task' = [task EXCEPT ![t] = r]
    BY DEF A!Goto, A!GotoWith, A!Keep
  <1>3. r \in TaskRecords /\ Turns(t, r, task[t].op, l, task[t].user, task[t].list, g)
    BY <1>1, <1>2 DEF Turns, TaskRecords
  <1>4. QED
    BY <1>3

LEMMA TurnsAs ==
    ASSUME NEW t \in Tasks, task \in [Tasks -> TaskRecords], NEW l \in A!Where,
           NEW u \in Users, NEW g \in OrNone(Registries),
           task' = [task EXCEPT ![t].at = l, ![t].user = u, ![t].reg = g]
    PROVE  \E r \in TaskRecords : Turns(t, r, task[t].op, l, u, task[t].list, g)
  <1> DEFINE r == [task[t] EXCEPT !.at = l, !.user = u, !.reg = g]
  <1>1. task[t] \in TaskRecords /\ l \in OrNone(A!Where) /\ u \in OrNone(Users)
    BY DEF OrNone
  <1>2. task' = [task EXCEPT ![t] = r]
    BY DEF A!Goto, A!GotoWith, A!Keep
  <1>3. r \in TaskRecords /\ Turns(t, r, task[t].op, l, u, task[t].list, g)
    BY <1>1, <1>2 DEF Turns, TaskRecords
  <1>4. QED
    BY <1>3

LEMMA EndKept ==
    ASSUME NEW t \in Tasks, task \in [Tasks -> TaskRecords], A!Finish(t),
           \A s \in Tasks \ {t} : task[s].at = None,
           AccountTyped', OwnFiles', Consistent'
    PROVE  AccountKept'
  <1>1. A!NoTask \in TaskRecords /\ A!NoTask.at = None
    BY DEF A!NoTask, TaskRecords, OrNone
  <1>2. PICK r \in TaskRecords : r.at = None /\ task' = [task EXCEPT ![t] = r]
    BY <1>1 DEF A!Finish
  <1>3. QED
    BY <1>2, TurnKept

\* A login, and the account of a session set.
LEMMA LoginKept ==
    ASSUME AccountKept, alone, NEW t \in Tasks,
           A!Signed(t) \/ A!Register(t) \/ A!ReadDrives(t) \/ A!RewriteDrives(t)
             \/ A!ListDrives(t) \/ A!EnterSession(t)
    PROVE  AccountKept'
  <1> DEFINE o == task[t]
  <1> USE DEF A!At, A!User, A!Op, A!List, A!files, A!memory, A!mode
  <1>0. ASSUME o.at \in A!Where
        PROVE  /\ AccountTyped /\ OwnFiles /\ task \in [Tasks -> TaskRecords]
               /\ o \in TaskRecords /\ Doing(o)
               /\ \A s \in Tasks \ {t} : task[s].at = None
    BY <1>0, Busy
  <1>1. ASSUME A!Signed(t)
        PROVE  AccountKept'
    <2>1. o.at = "signed" /\ {"signed", "register"} \subseteq A!Where /\ A!Goto(t, "register")
      BY <1>1 DEF A!Signed, A!Where
    <2>2. PICK r \in TaskRecords : Turns(t, r, o.op, "register", o.user, o.list, o.reg)
      BY <1>0, <2>1, GoesTo
    <2>3. AccountTyped /\ OwnFiles /\ Doing(o) /\ o \in TaskRecords
      BY <1>0, <2>1
    <2>4. o.user \in Users /\ o.op # "drives" /\ ~ A!Migrates
      BY <2>1, <2>3 DEF Doing, Begins, Within, Chooses, Reading, A!Migrates
    <2>5. AccountTyped' /\ OwnFiles'
      BY <2>3, <1>1, <2>1, <2>4 DEF A!Signed, AccountTyped, OwnFiles, OrNone, A!Migrates
    <2>6. Doing(r)'
      BY <2>3, <1>1, <2>1, <2>2, <2>4, NotNone
         DEF A!Signed, Turns, Doing, Begins, Within, Chooses, Reading, Entered, Chosen, Spoken
    <2>7. QED
      BY <1>0, <2>1, <2>2, <2>5, <2>6, NotNone, TurnKept DEF Turns
  <1>2. ASSUME A!Register(t)
        PROVE  AccountKept'
    <2>1. o.at = "register" /\ {"register", "read"} \subseteq A!Where /\ A!Goto(t, "read")
      BY <1>2 DEF A!Register, A!Where
    <2>2. PICK r \in TaskRecords : Turns(t, r, o.op, "read", o.user, o.list, o.reg)
      BY <1>0, <2>1, GoesTo
    <2>3. AccountTyped /\ OwnFiles /\ Doing(o) /\ o \in TaskRecords
      BY <1>0, <2>1
    <2>4. o.user \in Users /\ o.op # "drives" /\ transport = o.user
      BY <2>1, <2>3 DEF Doing, Begins, Within, Chooses, Reading
    <2>5. /\ A!LoadedRegistry \in Registries /\ creds' \in [Users -> OrNone(Users)]
          /\ \A u \in Users : creds'[u] \in {u, None}
      BY <2>3, <1>2, Loads DEF A!Register
    <2>6. registry' \in Registries /\ registry'.active = o.user /\ registry' # None
      BY <2>4, <2>5, <1>2, Relisted, NotNone DEF A!Register, Registries, OrNone
    <2>7. AccountTyped' /\ OwnFiles'
      BY <2>3, <1>2, <2>1, <2>5, <2>6 DEF A!Register, AccountTyped, OwnFiles, OrNone
    <2>8. Doing(r)'
      BY <2>3, <1>2, <2>1, <2>2, <2>4, <2>6, NotNone
         DEF A!Register, Turns, Doing, Begins, Within, Chooses, Reading, Entered, Chosen,
             Spoken
    <2>9. QED
      BY <1>0, <2>1, <2>2, <2>7, <2>8, NotNone, TurnKept DEF Turns
  <1>3. ASSUME A!ReadDrives(t)
        PROVE  AccountKept'
    <2>1. o.at = "read" /\ {"read", "list", "rewrite"} \subseteq A!Where
      BY <1>3 DEF A!ReadDrives, A!Where
    <2>2. AccountTyped /\ OwnFiles /\ Doing(o) /\ o \in TaskRecords
      BY <1>0, <2>1
    <2>3. o.user \in Users /\ Entered(o.user) /\ (o.op = "drives" => session = o.user)
      BY <2>1, <2>2 DEF Doing, Begins, Within, Chooses, Reading
    <2>4. PICK l \in {"list", "rewrite"}, r \in TaskRecords :
               Turns(t, r, o.op, l, o.user, saved[o.user], o.reg)
      <3>1. PICK l \in {"list", "rewrite"} : A!Keep(t, l, saved[o.user])
        BY <1>3 DEF A!ReadDrives
      <3>2. saved[o.user] \in SUBSET Channels
        BY <2>2, <2>3 DEF AccountTyped
      <3>3. QED
        BY <1>0, <2>1, <3>1, <3>2, Keeps
    <2>5. AccountTyped' /\ OwnFiles'
      BY <2>2, <1>3, <2>1 DEF A!ReadDrives, AccountTyped, OwnFiles, OrNone
    <2>6. Doing(r)'
      BY <2>2, <1>3, <2>1, <2>4, <2>3, NotNone
         DEF A!ReadDrives, Turns, Doing, Begins, Within, Chooses, Reading, Entered, Chosen,
             Spoken
    <2>7. QED
      BY <1>0, <2>1, <2>4, <2>5, <2>6, NotNone, TurnKept DEF Turns
  <1>4. ASSUME A!RewriteDrives(t)
        PROVE  AccountKept'
    <2>1. o.at = "rewrite" /\ {"rewrite", "list"} \subseteq A!Where /\ A!Goto(t, "list")
      BY <1>4 DEF A!RewriteDrives, A!Where
    <2>2. PICK r \in TaskRecords : Turns(t, r, o.op, "list", o.user, o.list, o.reg)
      BY <1>0, <2>1, GoesTo
    <2>3. AccountTyped /\ OwnFiles /\ Doing(o) /\ o \in TaskRecords
      BY <1>0, <2>1
    <2>4. /\ o.user \in Users /\ Entered(o.user)
          /\ o.list = saved[o.user] /\ (o.op = "drives" => session = o.user)
      BY <2>1, <2>3 DEF Doing, Begins, Within, Chooses, Reading
    <2>5. saved' = saved
      BY <2>3, <2>4, <1>4 DEF A!RewriteDrives, AccountTyped
    <2>6. AccountTyped' /\ OwnFiles'
      BY <2>3, <1>4, <2>1, <2>5 DEF A!RewriteDrives, AccountTyped, OwnFiles, OrNone
    <2>7. Doing(r)'
      BY <2>3, <1>4, <2>1, <2>2, <2>4, <2>5, NotNone
         DEF A!RewriteDrives, Turns, Doing, Begins, Within, Chooses, Reading, Entered,
             Chosen, Spoken
    <2>8. QED
      BY <1>0, <2>1, <2>2, <2>6, <2>7, NotNone, TurnKept DEF Turns
  <1>5. ASSUME A!ListDrives(t)
        PROVE  AccountKept'
    <2>1. o.at = "list" /\ {"list", "enter"} \subseteq A!Where
      BY <1>5 DEF A!ListDrives, A!Where
    <2>2. AccountTyped /\ OwnFiles /\ Doing(o) /\ o \in TaskRecords
      BY <1>0, <2>1
    <2>3. /\ o.user \in Users /\ Entered(o.user)
          /\ o.list = saved[o.user] /\ (o.op = "drives" => session = o.user)
      BY <2>1, <2>2 DEF Doing, Begins, Within, Chooses, Reading
    <2>4. AccountTyped' /\ OwnFiles'
      BY <2>2, <1>5, <2>1, <2>3 DEF A!ListDrives, AccountTyped, OwnFiles, OrNone
    <2>5. ASSUME A!Finish(t), o.op = "drives"
          PROVE  AccountKept'
      <3>1. Consistent'
        BY <2>2, <1>5, <2>1, <2>5, <2>3, NotNone
           DEF A!ListDrives, Consistent, Entered, Chosen, Spoken
      <3>2. QED
        BY <1>0, <2>1, <2>5, <2>4, <3>1, EndKept
    <2>6. ASSUME A!Goto(t, "enter")
          PROVE  AccountKept'
      <3>1. PICK r \in TaskRecords : Turns(t, r, o.op, "enter", o.user, o.list, o.reg)
        BY <1>0, <2>1, <2>6, GoesTo
      <3>2. Doing(r)'
        BY <2>2, <1>5, <2>1, <3>1, <2>3, NotNone
           DEF A!ListDrives, Turns, Doing, Begins, Within, Chooses, Reading, Entered, Chosen,
               Spoken
      <3>3. QED
        BY <1>0, <2>1, <3>1, <2>4, <3>2, NotNone, TurnKept DEF Turns
    <2>7. QED
      BY <2>5, <2>6, <1>5 DEF A!ListDrives
  <1>6. ASSUME A!EnterSession(t)
        PROVE  AccountKept'
    <2>1. o.at = "enter" /\ {"enter"} \subseteq A!Where
      BY <1>6 DEF A!EnterSession, A!Where
    <2>2. AccountTyped /\ OwnFiles /\ Doing(o) /\ o \in TaskRecords
      BY <1>0, <2>1
    <2>3. o.user \in Users /\ Entered(o.user) /\ drives = saved[o.user]
      BY <2>1, <2>2 DEF Doing, Begins, Within, Chooses, Reading
    <2>4. AccountTyped' /\ OwnFiles'
      BY <2>2, <1>6, <2>1, <2>3
         DEF A!EnterSession, AccountTyped, OwnFiles, OrNone, Entered, Chosen
    <2>5. ASSUME A!Finish(t)
          PROVE  AccountKept'
      <3>1. Consistent'
        BY <2>2, <1>6, <2>1, <2>5, <2>3, NotNone
           DEF A!EnterSession, Consistent, Entered, Chosen, Spoken
      <3>2. QED
        BY <1>0, <2>1, <2>5, <2>4, <3>1, EndKept
    <2>6. QED
      BY <2>5, <1>6 DEF A!EnterSession
  <1>7. QED
    BY <1>1, <1>2, <1>3, <1>4, <1>5, <1>6

\* The account shown is looked for, chosen and connected.
LEMMA ConnectKept ==
    ASSUME AccountKept, alone, NEW t \in Tasks,
           A!LookForSession(t) \/ A!Connect(t) \/ A!ChooseAccount(t)
             \/ A!SwapDrives(t)
    PROVE  AccountKept'
  <1> DEFINE o == task[t]
  <1> USE DEF A!At, A!User, A!Op, A!List, A!files, A!memory, A!mode
  <1>0. ASSUME o.at \in A!Where
        PROVE  /\ AccountTyped /\ OwnFiles /\ task \in [Tasks -> TaskRecords]
               /\ o \in TaskRecords /\ Doing(o)
               /\ \A s \in Tasks \ {t} : task[s].at = None
    BY <1>0, Busy
  <1>1. ASSUME A!LookForSession(t)
        PROVE  AccountKept'
    <2>1. o.at = "look" /\ {"look", "connect"} \subseteq A!Where
      BY <1>1 DEF A!LookForSession, A!Where
    <2>2. AccountTyped /\ OwnFiles /\ Doing(o) /\ o \in TaskRecords
      BY <1>0, <2>1
    <2>3. Consistent /\ o.op \notin {"drives", "check", "reconnect"}
      BY <2>1, <2>2 DEF Doing, Begins, Within, Chooses, Reading
    <2>4. /\ A!LoadedRegistry \in Registries /\ A!MigratedCreds \in [Users -> OrNone(Users)]
          /\ \A u \in Users : A!MigratedCreds[u] \in {u, None}
          /\ ~ A!Migrates => A!MigratedCreds = creds
          /\ registry # None => A!LoadedRegistry = registry /\ ~ A!Migrates
          /\ A!Members(A!LoadedRegistry.accounts) # {} => registry # None \/ A!Migrates
      BY <2>2, Loads
    <2>5. /\ registry' = IF session = None /\ A!Migrates THEN A!LoadedRegistry ELSE registry
          /\ creds' = IF session = None THEN A!MigratedCreds ELSE creds
      BY <1>1 DEF A!LookForSession, A!LoadRegistry
    <2>6. AccountTyped' /\ OwnFiles'
      BY <2>2, <1>1, <2>1, <2>4, <2>5, NotNone
         DEF A!LookForSession, AccountTyped, OwnFiles, OrNone
    <2>7. ASSUME A!Finish(t)
          PROVE  AccountKept'
      <3>1. Consistent'
        BY <2>2, <1>1, <2>1, <2>7, <2>3, <2>4, <2>5, NotNone
           DEF A!LookForSession, Consistent, Entered, Chosen, Spoken
      <3>2. QED
        BY <1>0, <2>1, <2>7, <2>6, <3>1, EndKept
    <2>8. ASSUME NEW u \in A!Members(A!LoadedRegistry.accounts), u = A!LoadedRegistry.active,
                 session = None, A!GotoWith(t, "connect", u)
          PROVE  AccountKept'
      <3>1. u \in Users /\ u \in OrNone(Users)
        BY <2>4, Listed DEF OrNone
      <3>2. PICK r \in TaskRecords : Turns(t, r, o.op, "connect", u, o.list, o.reg)
        BY <1>0, <2>1, <2>8, <3>1, GoesAs
      <3>3. Chosen(u)'
        BY <2>8, <2>4, <2>5, NotNone DEF Chosen
      <3>4. Doing(r)'
        BY <2>3, <2>4, <2>5, <1>1, <3>1, <3>2, <3>3, NotNone
           DEF A!LookForSession, Turns, Doing, Begins, Within, Chooses, Reading, Chosen
      <3>5. QED
        BY <1>0, <2>1, <3>2, <2>6, <3>4, NotNone, TurnKept DEF Turns
    <2>9. QED
      BY <2>7, <2>8, <1>1 DEF A!LookForSession
  <1>2. ASSUME A!Connect(t)
        PROVE  AccountKept'
    <2>1. o.at = "connect" /\ {"connect", "read", "swap"} \subseteq A!Where
      BY <1>2 DEF A!Connect, A!Where
    <2>2. AccountTyped /\ OwnFiles /\ Doing(o) /\ o \in TaskRecords
      BY <1>0, <2>1
    <2>3. /\ o.user \in Users /\ Chosen(o.user) /\ o.op # "drives"
          /\ o.op \in {"check", "reconnect"} => Consistent
      BY <2>1, <2>2 DEF Doing, Begins, Within, Chooses, Reading
    <2>4. \/ /\ transport' \in Users /\ stale' = FALSE
             /\ transport' = o.user \/ creds[o.user] = None
          \/ transport' = transport /\ stale' = (stale \/ o.op \notin {"check", "reconnect"})
      BY <2>2, <2>3, <1>2
         DEF A!Connect, A!Credentials, A!Refreshes, AccountTyped, OwnFiles, OrNone
    <2>5. AccountTyped' /\ OwnFiles'
      BY <2>2, <1>2, <2>1, <2>4, <2>3
         DEF A!Connect, AccountTyped, OwnFiles, OrNone, A!Refreshes
    <2>6. ASSUME A!Finish(t), o.op \in {"check", "reconnect"}
          PROVE  AccountKept'
      <3>1. Consistent'
        BY <2>2, <1>2, <2>1, <2>6, <2>3, <2>4, NotNone
           DEF A!Connect, Consistent, Entered, Chosen, Spoken, A!Refreshes
      <3>2. QED
        BY <1>0, <2>1, <2>6, <2>5, <3>1, EndKept
    <2>7. ASSUME NEW l \in {"read", "swap"}, A!Goto(t, l), o.op \notin {"check", "reconnect"}
          PROVE  AccountKept'
      <3>1. PICK r \in TaskRecords : Turns(t, r, o.op, l, o.user, o.list, o.reg)
        BY <1>0, <2>1, <2>7, GoesTo
      <3>2. stale' \in BOOLEAN /\ (stale' = TRUE \/ (transport' = o.user \/ creds[o.user] = None))
        BY <2>2, <2>4, <2>7 DEF AccountTyped
      <3>3. Entered(r.user)'
        BY <2>3, <3>1, <3>2, <1>2 DEF A!Connect, Turns, Entered, Chosen, Spoken
      <3>4. Doing(r)'
        BY <2>3, <2>7, <3>1, <3>3, NotNone DEF Turns, Doing, Begins, Within, Chooses, Reading
      <3>5. QED
        BY <1>0, <2>1, <3>1, <2>5, <3>4, NotNone, TurnKept DEF Turns
    <2>8. QED
      BY <2>6, <2>7, <1>2 DEF A!Connect, A!Refreshes
  <1>3. ASSUME A!ChooseAccount(t)
        PROVE  AccountKept'
    <2>1. o.at = "choose" /\ {"choose", "connect"} \subseteq A!Where
      BY <1>3 DEF A!ChooseAccount, A!Where
    <2>2. AccountTyped /\ OwnFiles /\ Doing(o) /\ o \in TaskRecords
      BY <1>0, <2>1
    <2>3. /\ session # None /\ Consistent /\ o.user \in Users /\ o.op # "drives"
          /\ o.op \notin {"check", "reconnect"}
      BY <2>1, <2>2 DEF Doing, Begins, Within, Chooses, Reading
    <2>4. /\ A!LoadedRegistry \in Registries /\ A!MigratedCreds \in [Users -> OrNone(Users)]
          /\ \A u \in Users : A!MigratedCreds[u] \in {u, None}
          /\ ~ A!Migrates => A!MigratedCreds = creds
          /\ registry # None => A!LoadedRegistry = registry /\ ~ A!Migrates
          /\ A!Members(A!LoadedRegistry.accounts) # {} => registry # None \/ A!Migrates
      BY <2>2, Loads
    <2>5. /\ registry \in Registries /\ creds' = creds
          /\ \/ registry' = registry /\ A!Finish(t)
             \/ registry' = [registry EXCEPT !.active = o.user] /\ A!Goto(t, "connect")
      BY <2>2, <2>4, <2>3, <1>3
         DEF A!ChooseAccount, Consistent, Entered, Chosen, Spoken, AccountTyped, OrNone
    <2>6. registry' \in Registries
      BY <2>5, <2>3 DEF Registries, OrNone
    <2>7. AccountTyped' /\ OwnFiles'
      BY <2>2, <1>3, <2>1, <2>4, <2>5, <2>6, NotNone
         DEF A!ChooseAccount, AccountTyped, OwnFiles, OrNone
    <2>8. ASSUME A!Finish(t), registry' = registry
          PROVE  AccountKept'
      <3>1. Consistent'
        BY <2>2, <1>3, <2>1, <2>8, <2>3, <2>5, NotNone
           DEF A!ChooseAccount, Consistent, Entered, Chosen, Spoken
      <3>2. QED
        BY <1>0, <2>1, <2>8, <2>7, <3>1, EndKept
    <2>9. ASSUME A!Goto(t, "connect"), registry' = [registry EXCEPT !.active = o.user]
          PROVE  AccountKept'
      <3>1. PICK r \in TaskRecords : Turns(t, r, o.op, "connect", o.user, o.list, o.reg)
        BY <1>0, <2>1, <2>9, GoesTo
      <3>2. Chosen(r.user)'
        BY <3>1, <2>5, <2>6, <2>9, <1>3, NotNone DEF A!ChooseAccount, Turns, Chosen, Registries
      <3>3. Doing(r)'
        BY <2>3, <2>6, <3>1, <3>2, NotNone
           DEF Turns, Doing, Begins, Within, Chooses, Reading, Chosen
      <3>4. QED
        BY <1>0, <2>1, <3>1, <2>7, <3>3, NotNone, TurnKept DEF Turns
    <2>10. QED
      BY <2>8, <2>9, <2>5
  <1>4. ASSUME A!SwapDrives(t)
        PROVE  AccountKept'
    <2>1. o.at = "swap" /\ {"swap", "enter"} \subseteq A!Where /\ A!Goto(t, "enter")
      BY <1>4 DEF A!SwapDrives, A!Where
    <2>2. PICK r \in TaskRecords : Turns(t, r, o.op, "enter", o.user, o.list, o.reg)
      BY <1>0, <2>1, GoesTo
    <2>3. AccountTyped /\ OwnFiles /\ Doing(o) /\ o \in TaskRecords
      BY <1>0, <2>1
    <2>4. /\ o.user \in Users /\ Entered(o.user)
      BY <2>1, <2>3 DEF Doing, Begins, Within, Chooses, Reading
    <2>5. AccountTyped' /\ OwnFiles'
      BY <2>3, <1>4, <2>1, <2>4 DEF A!SwapDrives, AccountTyped, OwnFiles, OrNone
    <2>6. Doing(r)'
      BY <2>3, <1>4, <2>1, <2>2, <2>4, NotNone
         DEF A!SwapDrives, Turns, Doing, Begins, Within, Chooses, Reading, Entered, Chosen,
             Spoken
    <2>7. QED
      BY <1>0, <2>1, <2>2, <2>5, <2>6, NotNone, TurnKept DEF Turns
  <1>5. QED
    BY <1>1, <1>2, <1>3, <1>4

\* An account is removed, and the last one logs out.
LEMMA RemovalKept ==
    ASSUME AccountKept, alone, NEW t \in Tasks,
           A!ForgetUser(t) \/ A!PurgeDrives(t) \/ A!UnlistUser(t)
             \/ A!CloseSession(t) \/ A!ClearDrives(t) \/ A!WhoAmI(t)
    PROVE  AccountKept'
  <1> DEFINE o == task[t]
  <1> USE DEF A!At, A!User, A!Op, A!List, A!files, A!memory, A!mode
  <1>0. ASSUME o.at \in A!Where
        PROVE  /\ AccountTyped /\ OwnFiles /\ task \in [Tasks -> TaskRecords]
               /\ o \in TaskRecords /\ Doing(o)
               /\ \A s \in Tasks \ {t} : task[s].at = None
    BY <1>0, Busy
  <1>1. ASSUME A!ForgetUser(t)
        PROVE  AccountKept'
    <2>1. o.at = "forget" /\ {"forget", "purge"} \subseteq A!Where
      BY <1>1 DEF A!ForgetUser, A!Where
    <2>2. AccountTyped /\ OwnFiles /\ Doing(o) /\ o \in TaskRecords
      BY <1>0, <2>1
    <2>3. /\ session # None /\ Consistent /\ o.user \in Users
          /\ o.op \notin {"drives", "check", "reconnect"}
      BY <2>1, <2>2 DEF Doing, Begins, Within, Chooses, Reading
    <2>4. /\ A!LoadedRegistry \in Registries /\ A!MigratedCreds \in [Users -> OrNone(Users)]
          /\ \A u \in Users : A!MigratedCreds[u] \in {u, None}
          /\ ~ A!Migrates => A!MigratedCreds = creds
          /\ registry # None => A!LoadedRegistry = registry /\ ~ A!Migrates
          /\ A!Members(A!LoadedRegistry.accounts) # {} => registry # None \/ A!Migrates
      BY <2>2, Loads
    <2>5. /\ registry # None /\ registry \in Registries /\ registry.active = session
          /\ registry' = registry /\ creds' = [creds EXCEPT ![o.user] = None]
      BY <2>2, <2>3, <2>4, <1>1
         DEF A!ForgetUser, Consistent, Entered, Chosen, Spoken, AccountTyped, OrNone
    <2>6. PICK g \in Registries :
            /\ g.active = session
            /\ task' = [task EXCEPT ![t].at = "purge", ![t].reg = g]
      <3>1. A!Unregistered(registry, o.user) \in Seq(Users)
        BY <2>5, <2>3, Relisted
      <3>2. /\ [registry EXCEPT !.accounts = A!Unregistered(registry, o.user)] \in Registries
            /\ [registry EXCEPT !.accounts = A!Unregistered(registry, o.user)].active = session
        BY <2>5, <3>1 DEF Registries
      <3>3. QED
        BY <2>5, <2>4, <3>2, <1>1 DEF A!ForgetUser
    <2>7. PICK r \in TaskRecords : Turns(t, r, o.op, "purge", o.user, o.list, g)
      BY <1>0, <2>1, <2>6, TurnsTo DEF OrNone
    <2>8. AccountTyped' /\ OwnFiles'
      BY <2>2, <1>1, <2>1, <2>5, <2>3 DEF A!ForgetUser, AccountTyped, OwnFiles, OrNone
    <2>9. /\ session' = session /\ session # None /\ Entered(session)'
          /\ o.user # session => drives' = saved'[session]
      BY <2>2, <2>3, <2>5, <1>1, NotNone
         DEF A!ForgetUser, AccountTyped, OrNone, Consistent, Entered, Chosen, Spoken
    <2>10. Doing(r)'
      BY <2>3, <2>6, <2>7, <2>9, NotNone DEF Turns, Doing, Begins, Within, Chooses, Reading
    <2>11. QED
      BY <1>0, <2>1, <2>7, <2>8, <2>10, NotNone, TurnKept DEF Turns
  <1>2. ASSUME A!PurgeDrives(t)
        PROVE  AccountKept'
    <2>1. o.at = "purge" /\ {"purge", "unlist"} \subseteq A!Where /\ A!Goto(t, "unlist")
      BY <1>2 DEF A!PurgeDrives, A!Where
    <2>2. PICK r \in TaskRecords : Turns(t, r, o.op, "unlist", o.user, o.list, o.reg)
      BY <1>0, <2>1, GoesTo
    <2>3. AccountTyped /\ OwnFiles /\ Doing(o) /\ o \in TaskRecords
      BY <1>0, <2>1
    <2>4. /\ session # None /\ Entered(session) /\ o.user \in Users
          /\ o.reg # None /\ o.reg.active = session
          /\ o.user # session => drives = saved[session]
          /\ o.op \notin {"drives", "check", "reconnect"}
      BY <2>1, <2>3 DEF Doing, Begins, Within, Chooses, Reading
    <2>5. o.user # session => saved'[session] = saved[session]
      BY <2>3, <2>4, <1>2 DEF A!PurgeDrives, AccountTyped, OrNone
    <2>6. AccountTyped' /\ OwnFiles'
      BY <2>3, <1>2, <2>1, <2>4 DEF A!PurgeDrives, AccountTyped, OwnFiles, OrNone
    <2>7. Doing(r)'
      BY <2>3, <1>2, <2>1, <2>2, <2>4, <2>5, NotNone
         DEF A!PurgeDrives, Turns, Doing, Begins, Within, Chooses, Reading, Entered, Chosen,
             Spoken
    <2>8. QED
      BY <1>0, <2>1, <2>2, <2>6, <2>7, NotNone, TurnKept DEF Turns
  <1>3. ASSUME A!UnlistUser(t)
        PROVE  AccountKept'
    <2>1. o.at = "unlist" /\ {"unlist", "connect", "closing"} \subseteq A!Where
      BY <1>3 DEF A!UnlistUser, A!Where
    <2>2. AccountTyped /\ OwnFiles /\ Doing(o) /\ o \in TaskRecords
      BY <1>0, <2>1
    <2>3. /\ session # None /\ Entered(session) /\ o.user \in Users
          /\ o.reg # None /\ o.reg.active = session
          /\ o.user # session => drives = saved[session]
          /\ o.op \notin {"drives", "check", "reconnect"}
      BY <2>1, <2>2 DEF Doing, Begins, Within, Chooses, Reading
    <2>4. o.reg \in Registries /\ session \in Users
      BY <2>2, <2>3 DEF TaskRecords, AccountTyped, OrNone
    <2>5. registry' \in Registries => AccountTyped' /\ OwnFiles'
      BY <2>2, <1>3, NotNone DEF A!UnlistUser, AccountTyped, OwnFiles, OrNone
    <2>6. ASSUME o.reg.accounts # <<>>, registry' = [o.reg EXCEPT !.active = Head(o.reg.accounts)],
                 task' = [task EXCEPT ![t].at = "connect", ![t].user = Head(o.reg.accounts),
                                      ![t].reg = None]
          PROVE  AccountKept'
      <3>1. PICK u \in Users : u = Head(o.reg.accounts)
        BY <2>6, <2>4, Listed
      <3>2. PICK r \in TaskRecords : Turns(t, r, o.op, "connect", u, o.list, None)
        BY <1>0, <2>1, <2>6, <3>1, TurnsAs DEF OrNone
      <3>3. registry' \in Registries /\ registry'.active = u
        BY <2>4, <2>6, <3>1 DEF Registries, OrNone
      <3>4. Doing(r)'
        BY <2>3, <3>2, <3>3, NotNone DEF Turns, Doing, Begins, Within, Chooses, Reading, Chosen
      <3>5. QED
        BY <1>0, <2>1, <3>2, <3>3, <3>4, <2>5, NotNone, TurnKept DEF Turns
    <2>7. ASSUME registry' = [o.reg EXCEPT !.active = None],
                 task' = [task EXCEPT ![t].at = "closing", ![t].reg = None]
          PROVE  AccountKept'
      <3>1. PICK r \in TaskRecords : Turns(t, r, o.op, "closing", o.user, o.list, None)
        BY <1>0, <2>1, <2>7, TurnsTo DEF OrNone
      <3>2. registry' \in Registries
        BY <2>4, <2>7 DEF Registries, OrNone
      <3>3. Doing(r)'
        BY <3>1, NotNone DEF Turns, Doing, Begins, Within, Chooses, Reading
      <3>4. QED
        BY <1>0, <2>1, <3>1, <3>2, <3>3, <2>5, NotNone, TurnKept DEF Turns
    <2>8. ASSUME o.reg.active # o.user, registry' = o.reg, A!Finish(t)
          PROVE  AccountKept'
      <3>1. Consistent'
        BY <2>3, <2>8, <1>3, NotNone DEF A!UnlistUser, Consistent, Entered, Chosen, Spoken
      <3>2. QED
        BY <1>0, <2>1, <2>8, <2>4, <2>5, <3>1, EndKept
    <2>9. QED
      BY <2>6, <2>7, <2>8, <1>3 DEF A!UnlistUser
  <1>4. ASSUME A!CloseSession(t)
        PROVE  AccountKept'
    <2>1. o.at = "closing" /\ {"closing", "clearing"} \subseteq A!Where /\ A!Goto(t, "clearing")
      BY <1>4 DEF A!CloseSession, A!Where
    <2>2. PICK r \in TaskRecords : Turns(t, r, o.op, "clearing", o.user, o.list, o.reg)
      BY <1>0, <2>1, GoesTo
    <2>3. AccountTyped /\ OwnFiles /\ Doing(o) /\ o \in TaskRecords
      BY <1>0, <2>1
    <2>4. AccountTyped' /\ OwnFiles'
      BY <2>3, <1>4, <2>1 DEF A!CloseSession, AccountTyped, OwnFiles, OrNone
    <2>5. Doing(r)'
      BY <2>3, <1>4, <2>1, <2>2, NotNone
         DEF A!CloseSession, Turns, Doing, Begins, Within, Chooses, Reading, Entered, Chosen,
             Spoken
    <2>6. QED
      BY <1>0, <2>1, <2>2, <2>4, <2>5, NotNone, TurnKept DEF Turns
  <1>5. ASSUME A!ClearDrives(t)
        PROVE  AccountKept'
    <2>1. o.at = "clearing" /\ {"clearing"} \subseteq A!Where
      BY <1>5 DEF A!ClearDrives, A!Where
    <2>2. AccountTyped /\ OwnFiles /\ Doing(o) /\ o \in TaskRecords
      BY <1>0, <2>1
    <2>3. session = None
      BY <2>1, <2>2 DEF Doing, Begins, Within, Chooses, Reading
    <2>4. AccountTyped' /\ OwnFiles'
      BY <2>2, <1>5, <2>1, <2>3 DEF A!ClearDrives, AccountTyped, OwnFiles, OrNone
    <2>5. ASSUME A!Finish(t)
          PROVE  AccountKept'
      <3>1. Consistent'
        BY <2>2, <1>5, <2>1, <2>5, <2>3, NotNone
           DEF A!ClearDrives, Consistent, Entered, Chosen, Spoken
      <3>2. QED
        BY <1>0, <2>1, <2>5, <2>4, <3>1, EndKept
    <2>6. QED
      BY <2>5, <1>5 DEF A!ClearDrives
  <1>6. ASSUME A!WhoAmI(t)
        PROVE  AccountKept'
    <2>1. o.at = "whoami" /\ {"whoami", "closing", "forget"} \subseteq A!Where
      BY <1>6 DEF A!WhoAmI, A!Where
    <2>2. AccountTyped /\ OwnFiles /\ Doing(o) /\ o \in TaskRecords
      BY <1>0, <2>1
    <2>3. /\ session # None /\ Consistent
          /\ o.op \notin {"drives", "check", "reconnect"}
      BY <2>1, <2>2 DEF Doing, Begins, Within, Chooses, Reading
    <2>4. AccountTyped' /\ OwnFiles'
      BY <2>2, <1>6, <2>1 DEF A!WhoAmI, AccountTyped, OwnFiles, OrNone
    <2>5. session \in Users /\ session \in OrNone(Users)
      BY <2>2, <2>3 DEF AccountTyped, OrNone
    <2>6. ASSUME A!GotoWith(t, "forget", session)
          PROVE  AccountKept'
      <3>1. PICK r \in TaskRecords : Turns(t, r, o.op, "forget", session, o.list, o.reg)
        BY <1>0, <2>1, <2>6, <2>5, GoesAs
      <3>2. Doing(r)'
        BY <2>2, <1>6, <2>1, <3>1, <2>3, <2>5, NotNone
           DEF A!WhoAmI, Turns, Doing, Begins, Within, Chooses, Reading, Consistent, Entered,
               Chosen, Spoken
      <3>3. QED
        BY <1>0, <2>1, <3>1, <2>4, <3>2, NotNone, TurnKept DEF Turns
    <2>7. QED
      BY <2>6, <2>3, <1>6 DEF A!WhoAmI
  <1>7. QED
    BY <1>1, <1>2, <1>3, <1>4, <1>5, <1>6

\* The connection is looked at, dropped and restored.
LEMMA RefreshKept ==
    ASSUME AccountKept, alone, NEW t \in Tasks,
           A!Ping(t) \/ A!Disconnect(t) \/ A!Refresh(t)
    PROVE  AccountKept'
  <1> DEFINE o == task[t]
  <1> USE DEF A!At, A!User, A!Op, A!List, A!files, A!memory, A!mode
  <1>0. ASSUME o.at \in A!Where
        PROVE  /\ AccountTyped /\ OwnFiles /\ task \in [Tasks -> TaskRecords]
               /\ o \in TaskRecords /\ Doing(o)
               /\ \A s \in Tasks \ {t} : task[s].at = None
    BY <1>0, Busy
  <1>1. ASSUME A!Ping(t)
        PROVE  AccountKept'
    <2>1. o.at = "ping" /\ {"ping", "refresh", "drop"} \subseteq A!Where
      BY <1>1 DEF A!Ping, A!Where
    <2>2. AccountTyped /\ OwnFiles /\ Doing(o) /\ o \in TaskRecords
      BY <1>0, <2>1
    <2>3. Consistent /\ o.op \in {"check", "reconnect"}
      BY <2>1, <2>2 DEF Doing, Begins, Within, Chooses, Reading
    <2>4. AccountTyped' /\ OwnFiles'
      BY <2>2, <1>1, <2>1 DEF A!Ping, AccountTyped, OwnFiles, OrNone
    <2>5. ASSUME A!Finish(t)
          PROVE  AccountKept'
      <3>1. Consistent'
        BY <2>2, <1>1, <2>1, <2>5, <2>3, NotNone
           DEF A!Ping, Consistent, Entered, Chosen, Spoken
      <3>2. QED
        BY <1>0, <2>1, <2>5, <2>4, <3>1, EndKept
    <2>6. ASSUME A!Goto(t, "refresh")
         PROVE  AccountKept'
      <3>1. PICK r \in TaskRecords : Turns(t, r, o.op, "refresh", o.user, o.list, o.reg)
        BY <1>0, <2>1, <2>6, GoesTo
      <3>2. Doing(r)'
        BY <2>2, <1>1, <2>1, <3>1, <2>3, NotNone
           DEF A!Ping, Turns, Doing, Begins, Within, Chooses, Reading, Consistent, Entered,
               Chosen, Spoken
      <3>3. QED
        BY <1>0, <2>1, <3>1, <2>4, <3>2, NotNone, TurnKept DEF Turns
    <2>7. ASSUME A!Goto(t, "drop")
         PROVE  AccountKept'
      <3>1. PICK r \in TaskRecords : Turns(t, r, o.op, "drop", o.user, o.list, o.reg)
        BY <1>0, <2>1, <2>7, GoesTo
      <3>2. Doing(r)'
        BY <2>2, <1>1, <2>1, <3>1, <2>3, NotNone
           DEF A!Ping, Turns, Doing, Begins, Within, Chooses, Reading, Consistent, Entered,
               Chosen, Spoken
      <3>3. QED
        BY <1>0, <2>1, <3>1, <2>4, <3>2, NotNone, TurnKept DEF Turns
    <2>8. QED
      BY <2>5, <2>6, <2>7, <1>1 DEF A!Ping
  <1>2. ASSUME A!Disconnect(t)
        PROVE  AccountKept'
    <2>1. o.at = "drop" /\ {"drop", "refresh"} \subseteq A!Where /\ A!Goto(t, "refresh")
      BY <1>2 DEF A!Disconnect, A!Where
    <2>2. PICK r \in TaskRecords : Turns(t, r, o.op, "refresh", o.user, o.list, o.reg)
      BY <1>0, <2>1, GoesTo
    <2>3. AccountTyped /\ OwnFiles /\ Doing(o) /\ o \in TaskRecords
      BY <1>0, <2>1
    <2>4. Consistent /\ o.op \in {"check", "reconnect"}
      BY <2>1, <2>3 DEF Doing, Begins, Within, Chooses, Reading
    <2>5. AccountTyped' /\ OwnFiles'
      BY <2>3, <1>2, <2>1 DEF A!Disconnect, AccountTyped, OwnFiles, OrNone
    <2>6. Doing(r)'
      BY <2>3, <1>2, <2>1, <2>2, <2>4, NotNone
         DEF A!Disconnect, Turns, Doing, Begins, Within, Chooses, Reading, Consistent,
             Entered, Chosen, Spoken
    <2>7. QED
      BY <1>0, <2>1, <2>2, <2>5, <2>6, NotNone, TurnKept DEF Turns
  <1>3. ASSUME A!Refresh(t)
        PROVE  AccountKept'
    <2>1. o.at = "refresh" /\ {"refresh", "connect"} \subseteq A!Where
      BY <1>3 DEF A!Refresh, A!Where
    <2>2. AccountTyped /\ OwnFiles /\ Doing(o) /\ o \in TaskRecords
      BY <1>0, <2>1
    <2>3. Consistent /\ o.op \in {"check", "reconnect"}
      BY <2>1, <2>2 DEF Doing, Begins, Within, Chooses, Reading
    <2>4. /\ A!LoadedRegistry \in Registries /\ A!MigratedCreds \in [Users -> OrNone(Users)]
          /\ \A u \in Users : A!MigratedCreds[u] \in {u, None}
          /\ ~ A!Migrates => A!MigratedCreds = creds
          /\ registry # None => A!LoadedRegistry = registry /\ ~ A!Migrates
          /\ A!Members(A!LoadedRegistry.accounts) # {} => registry # None \/ A!Migrates
      BY <2>2, Loads
    <2>5. /\ registry' = IF A!Migrates THEN A!LoadedRegistry ELSE registry
          /\ creds' = A!MigratedCreds
      BY <1>3 DEF A!Refresh, A!LoadRegistry
    <2>6. Consistent'
      BY <2>3, <2>4, <2>5, <1>3 DEF A!Refresh, Consistent, Entered, Chosen, Spoken
    <2>7. AccountTyped' /\ OwnFiles'
      BY <2>2, <1>3, <2>1, <2>4, <2>5, NotNone DEF A!Refresh, AccountTyped, OwnFiles, OrNone
    <2>8. ASSUME A!Finish(t)
          PROVE  AccountKept'
      BY <1>0, <2>1, <2>8, <2>7, <2>6, EndKept
    <2>9. ASSUME NEW u \in A!Members(A!LoadedRegistry.accounts), u = A!LoadedRegistry.active,
                 A!GotoWith(t, "connect", u)
          PROVE  AccountKept'
      <3>1. u \in Users /\ u \in OrNone(Users)
        BY <2>4, Listed DEF OrNone
      <3>2. PICK r \in TaskRecords : Turns(t, r, o.op, "connect", u, o.list, o.reg)
        BY <1>0, <2>1, <2>9, <3>1, GoesAs
      <3>3. Chosen(u)'
        BY <2>9, <2>4, <2>5, NotNone DEF Chosen
      <3>4. Doing(r)'
        BY <2>3, <2>6, <3>1, <3>2, <3>3, NotNone
           DEF Turns, Doing, Begins, Within, Chooses, Reading, Chosen
      <3>5. QED
        BY <1>0, <2>1, <3>2, <2>7, <3>4, NotNone, TurnKept DEF Turns
    <2>10. QED
      BY <2>8, <2>9, <1>3 DEF A!Refresh
  <1>4. QED
    BY <1>1, <1>2, <1>3

\* Drives are read again, created, adopted, deleted and pruned.
LEMMA DrivesKept ==
    ASSUME AccountKept, alone, NEW t \in Tasks,
           A!GuardSession(t) \/ A!MakeChannel(t) \/ A!HoldDrives(t)
             \/ A!PushDrive(t) \/ A!StoreDrives(t) \/ A!UnlinkChannel(t)
             \/ A!ListOwned(t) \/ A!RetainDrives(t)
    PROVE  AccountKept'
  <1> DEFINE o == task[t]
  <1> USE DEF A!At, A!User, A!Op, A!List, A!files, A!memory, A!mode
  <1>0. ASSUME o.at \in A!Where
        PROVE  /\ AccountTyped /\ OwnFiles /\ task \in [Tasks -> TaskRecords]
               /\ o \in TaskRecords /\ Doing(o)
               /\ \A s \in Tasks \ {t} : task[s].at = None
    BY <1>0, Busy
  <1>1. ASSUME A!GuardSession(t)
        PROVE  AccountKept'
    <2>1. o.at = "guard" /\ {"guard", "read"} \subseteq A!Where
      BY <1>1 DEF A!GuardSession, A!Where
    <2>2. AccountTyped /\ OwnFiles /\ Doing(o) /\ o \in TaskRecords
      BY <1>0, <2>1
    <2>3. Consistent
      BY <2>1, <2>2 DEF Doing, Begins, Within, Chooses, Reading
    <2>4. AccountTyped' /\ OwnFiles'
      BY <2>2, <1>1, <2>1 DEF A!GuardSession, AccountTyped, OwnFiles, OrNone
    <2>5. ASSUME A!Finish(t)
          PROVE  AccountKept'
      <3>1. Consistent'
        BY <2>2, <1>1, <2>1, <2>5, <2>3, NotNone
           DEF A!GuardSession, Consistent, Entered, Chosen, Spoken
      <3>2. QED
        BY <1>0, <2>1, <2>5, <2>4, <3>1, EndKept
    <2>6. ASSUME session # None, A!GotoWith(t, "read", session)
          PROVE  AccountKept'
      <3>1. PICK u \in Users : u = session
        BY <2>2, <2>6 DEF AccountTyped, OrNone
      <3>2. PICK r \in TaskRecords : Turns(t, r, o.op, "read", u, o.list, o.reg)
        BY <1>0, <2>1, <2>6, <3>1, GoesAs DEF OrNone
      <3>3. Entered(u)' /\ session' = u
        BY <2>3, <2>6, <3>1, <1>1 DEF A!GuardSession, Consistent, Entered, Chosen, Spoken
      <3>4. Doing(r)'
        BY <3>2, <3>3, NotNone
           DEF Turns, Doing, Begins, Within, Chooses, Reading, Entered, Chosen, Spoken
      <3>5. QED
        BY <1>0, <2>1, <3>2, <2>4, <3>4, NotNone, TurnKept DEF Turns
    <2>7. QED
      BY <2>5, <2>6, <1>1 DEF A!GuardSession
  <1>2. ASSUME A!MakeChannel(t)
        PROVE  AccountKept'
    <2>1. o.at = "make" /\ {"make", "push"} \subseteq A!Where
      BY <1>2 DEF A!MakeChannel, A!Where
    <2>2. AccountTyped /\ OwnFiles /\ Doing(o) /\ o \in TaskRecords
      BY <1>0, <2>1
    <2>3. session # None /\ Consistent /\ o.op # "prune"
      BY <2>1, <2>2 DEF Doing, Begins, Within, Chooses, Reading
    <2>4. owner' \in [Channels -> OrNone(Users)]
      BY <2>2, <1>2 DEF A!MakeChannel, AccountTyped
    <2>5. AccountTyped' /\ OwnFiles'
      BY <2>2, <1>2, <2>1, <2>4 DEF A!MakeChannel, AccountTyped, OwnFiles, OrNone
    <2>6. ASSUME A!Finish(t)
          PROVE  AccountKept'
      <3>1. Consistent'
        BY <2>2, <1>2, <2>1, <2>6, <2>3, NotNone
           DEF A!MakeChannel, Consistent, Entered, Chosen, Spoken
      <3>2. QED
        BY <1>0, <2>1, <2>6, <2>5, <3>1, EndKept
    <2>7. ASSUME A!Goto(t, "push")
          PROVE  AccountKept'
      <3>1. PICK r \in TaskRecords : Turns(t, r, o.op, "push", o.user, o.list, o.reg)
        BY <1>0, <2>1, <2>7, GoesTo
      <3>2. Doing(r)'
        BY <2>2, <1>2, <2>1, <3>1, <2>3, NotNone
           DEF A!MakeChannel, Turns, Doing, Begins, Within, Chooses, Reading, Consistent,
               Entered, Chosen, Spoken
      <3>3. QED
        BY <1>0, <2>1, <3>1, <2>5, <3>2, NotNone, TurnKept DEF Turns
    <2>8. QED
      BY <2>6, <2>7, <1>2 DEF A!MakeChannel
  <1>3. ASSUME A!HoldDrives(t)
        PROVE  AccountKept'
    <2>1. o.at = "hold" /\ {"hold", "push"} \subseteq A!Where
      BY <1>3 DEF A!HoldDrives, A!Where
    <2>2. AccountTyped /\ OwnFiles /\ Doing(o) /\ o \in TaskRecords
      BY <1>0, <2>1
    <2>3. session # None /\ Consistent /\ o.op # "prune"
      BY <2>1, <2>2 DEF Doing, Begins, Within, Chooses, Reading
    <2>4. AccountTyped' /\ OwnFiles'
      BY <2>2, <1>3, <2>1 DEF A!HoldDrives, AccountTyped, OwnFiles, OrNone
    <2>5. ASSUME A!Finish(t)
          PROVE  AccountKept'
      <3>1. Consistent'
        BY <2>2, <1>3, <2>1, <2>5, <2>3, NotNone
           DEF A!HoldDrives, Consistent, Entered, Chosen, Spoken
      <3>2. QED
        BY <1>0, <2>1, <2>5, <2>4, <3>1, EndKept
    <2>6. ASSUME A!Goto(t, "push")
          PROVE  AccountKept'
      <3>1. PICK r \in TaskRecords : Turns(t, r, o.op, "push", o.user, o.list, o.reg)
        BY <1>0, <2>1, <2>6, GoesTo
      <3>2. Doing(r)'
        BY <2>2, <1>3, <2>1, <3>1, <2>3, NotNone
           DEF A!HoldDrives, Turns, Doing, Begins, Within, Chooses, Reading, Consistent,
               Entered, Chosen, Spoken
      <3>3. QED
        BY <1>0, <2>1, <3>1, <2>4, <3>2, NotNone, TurnKept DEF Turns
    <2>7. QED
      BY <2>5, <2>6, <1>3 DEF A!HoldDrives
  <1>4. ASSUME A!PushDrive(t)
        PROVE  AccountKept'
    <2>1. o.at = "push" /\ {"push", "store"} \subseteq A!Where /\ A!Goto(t, "store")
      BY <1>4 DEF A!PushDrive, A!Where
    <2>2. PICK r \in TaskRecords : Turns(t, r, o.op, "store", o.user, o.list, o.reg)
      BY <1>0, <2>1, GoesTo
    <2>3. AccountTyped /\ OwnFiles /\ Doing(o) /\ o \in TaskRecords
      BY <1>0, <2>1
    <2>4. session # None /\ Consistent /\ o.op # "prune"
      BY <2>1, <2>3 DEF Doing, Begins, Within, Chooses, Reading
    <2>5. o.list \in SUBSET Channels
      BY <2>3 DEF TaskRecords
    <2>6. AccountTyped' /\ OwnFiles'
      BY <2>3, <1>4, <2>1, <2>5 DEF A!PushDrive, AccountTyped, OwnFiles, OrNone
    <2>7. Doing(r)'
      BY <2>3, <1>4, <2>1, <2>2, <2>4, NotNone
         DEF A!PushDrive, Turns, Doing, Begins, Within, Chooses, Reading, Consistent,
             Entered, Chosen, Spoken
    <2>8. QED
      BY <1>0, <2>1, <2>2, <2>6, <2>7, NotNone, TurnKept DEF Turns
  <1>5. ASSUME A!StoreDrives(t)
        PROVE  AccountKept'
    <2>1. o.at = "store" /\ {"store"} \subseteq A!Where
      BY <1>5 DEF A!StoreDrives, A!Where
    <2>2. AccountTyped /\ OwnFiles /\ Doing(o) /\ o \in TaskRecords
      BY <1>0, <2>1
    <2>3. session # None /\ Entered(session)
      BY <2>1, <2>2 DEF Doing, Begins, Within, Chooses, Reading
    <2>4. saved' \in [Users -> SUBSET Channels] /\ saved'[session] = drives
      BY <2>2, <2>3, <1>5 DEF A!StoreDrives, AccountTyped, OrNone
    <2>5. AccountTyped' /\ OwnFiles'
      BY <2>2, <1>5, <2>1, <2>4 DEF A!StoreDrives, AccountTyped, OwnFiles, OrNone
    <2>6. ASSUME A!Finish(t)
          PROVE  AccountKept'
      <3>1. Consistent'
        BY <2>2, <1>5, <2>1, <2>6, <2>3, <2>4, NotNone
           DEF A!StoreDrives, Consistent, Entered, Chosen, Spoken
      <3>2. QED
        BY <1>0, <2>1, <2>6, <2>5, <3>1, EndKept
    <2>7. QED
      BY <2>6, <1>5 DEF A!StoreDrives
  <1>6. ASSUME A!UnlinkChannel(t)
        PROVE  AccountKept'
    <2>1. o.at = "unlink" /\ {"unlink", "retain"} \subseteq A!Where
      BY <1>6 DEF A!UnlinkChannel, A!Where
    <2>2. AccountTyped /\ OwnFiles /\ Doing(o) /\ o \in TaskRecords
      BY <1>0, <2>1
    <2>3. session # None /\ Consistent /\ o.op = "delete"
      BY <2>1, <2>2 DEF Doing, Begins, Within, Chooses, Reading
    <2>4. owner' \in [Channels -> OrNone(Users)]
      BY <2>2, <1>6 DEF A!UnlinkChannel, AccountTyped, OrNone
    <2>5. PICK r \in TaskRecords : Turns(t, r, o.op, "retain", o.user, Channels \ o.list, o.reg)
      <3>1. A!Keep(t, "retain", Channels \ o.list)
        BY <1>6 DEF A!UnlinkChannel
      <3>2. QED
        BY <1>0, <2>1, <3>1, Keeps
    <2>6. AccountTyped' /\ OwnFiles'
      BY <2>2, <1>6, <2>1, <2>4 DEF A!UnlinkChannel, AccountTyped, OwnFiles, OrNone
    <2>7. Doing(r)'
      BY <2>2, <1>6, <2>1, <2>5, <2>3, NotNone
         DEF A!UnlinkChannel, Turns, Doing, Begins, Within, Chooses, Reading, Consistent,
             Entered, Chosen, Spoken
    <2>8. QED
      BY <1>0, <2>1, <2>5, <2>6, <2>7, NotNone, TurnKept DEF Turns
  <1>7. ASSUME A!ListOwned(t)
        PROVE  AccountKept'
    <2>1. o.at = "owned" /\ {"owned", "retain"} \subseteq A!Where
      BY <1>7 DEF A!ListOwned, A!Where
    <2>2. AccountTyped /\ OwnFiles /\ Doing(o) /\ o \in TaskRecords
      BY <1>0, <2>1
    <2>3. session # None /\ Consistent /\ o.op = "prune"
      BY <2>1, <2>2 DEF Doing, Begins, Within, Chooses, Reading
    <2>4. AccountTyped' /\ OwnFiles'
      BY <2>2, <1>7, <2>1 DEF A!ListOwned, AccountTyped, OwnFiles, OrNone
    <2>5. ASSUME A!Finish(t)
          PROVE  AccountKept'
      <3>1. Consistent'
        BY <2>2, <1>7, <2>1, <2>5, <2>3, NotNone
           DEF A!ListOwned, Consistent, Entered, Chosen, Spoken
      <3>2. QED
        BY <1>0, <2>1, <2>5, <2>4, <3>1, EndKept
    <2>6. ASSUME NEW S \in SUBSET A!Owned(transport), transport # None, A!Keep(t, "retain", S)
          PROVE  AccountKept'
      <3>1. S \in SUBSET Channels
        BY DEF A!Owned
      <3>2. PICK r \in TaskRecords : Turns(t, r, o.op, "retain", o.user, S, o.reg)
        BY <1>0, <2>1, <2>6, <3>1, Keeps
      <3>3. Doing(r)'
        BY <2>3, <2>6, <1>7, <3>2, NotNone
           DEF A!ListOwned, Turns, Doing, Begins, Within, Chooses, Reading, Consistent,
               Entered, Chosen, Spoken
      <3>4. QED
        BY <1>0, <2>1, <3>2, <2>4, <3>3, NotNone, TurnKept DEF Turns
    <2>7. QED
      BY <2>5, <2>6, <1>7 DEF A!ListOwned
  <1>8. ASSUME A!RetainDrives(t)
        PROVE  AccountKept'
    <2>1. o.at = "retain" /\ {"retain", "store"} \subseteq A!Where /\ A!Goto(t, "store")
      BY <1>8 DEF A!RetainDrives, A!Where
    <2>2. PICK r \in TaskRecords : Turns(t, r, o.op, "store", o.user, o.list, o.reg)
      BY <1>0, <2>1, GoesTo
    <2>3. AccountTyped /\ OwnFiles /\ Doing(o) /\ o \in TaskRecords
      BY <1>0, <2>1
    <2>4. /\ session # None /\ Consistent /\ o.op \in {"delete", "prune"}
          /\ (o.op = "prune" => Spoken(session))
      BY <2>1, <2>3 DEF Doing, Begins, Within, Chooses, Reading
    <2>5. AccountTyped' /\ OwnFiles'
      BY <2>3, <1>8, <2>1 DEF A!RetainDrives, AccountTyped, OwnFiles, OrNone
    <2>6. Doing(r)'
      BY <2>3, <1>8, <2>1, <2>2, <2>4, NotNone
         DEF A!RetainDrives, Turns, Doing, Begins, Within, Chooses, Reading, Consistent,
             Entered, Chosen, Spoken
    <2>7. QED
      BY <1>0, <2>1, <2>2, <2>5, <2>6, NotNone, TurnKept DEF Turns
  <1>9. QED
    BY <1>1, <1>2, <1>3, <1>4, <1>5, <1>6, <1>7, <1>8

\* A command begins when no other is under way.
LEMMA BeginKept ==
    ASSUME AccountKept, alone, NEW t \in Tasks, A!BeginCommand(t)
    PROVE  AccountKept'
  <1>1. /\ AccountTyped /\ OwnFiles /\ task \in [Tasks -> TaskRecords] /\ Consistent
        /\ \A s \in Tasks : task[s].at = None
    BY DEF AccountKept, A!BeginCommand, A!At
  <1>2. PICK op \in Commands : A!Offered(op) /\ \E s \in A!Start(op) :
          task' = [task EXCEPT ![t] =
                     [A!NoTask EXCEPT !.op = op, !.at = s[1], !.user = s[2], !.list = s[3]]]
    BY DEF A!BeginCommand
  <1>3. PICK s \in A!Start(op) :
          task' = [task EXCEPT ![t] =
                     [A!NoTask EXCEPT !.op = op, !.at = s[1], !.user = s[2], !.list = s[3]]]
    BY <1>2
  <1>4. /\ AccountTyped' /\ OwnFiles' /\ Consistent' /\ session' = session
        /\ UNCHANGED <<registry, auth>>
    BY <1>1 DEF A!BeginCommand, A!files, A!memory, AccountTyped, OwnFiles, Consistent, Entered,
       Chosen, Spoken
  <1>5. op \in {"login", "status", "switch", "remove", "logout", "check", "reconnect", "drives",
                "create", "link", "adopt", "delete", "prune"}
    BY AccountAssumption
  <1>6. ASSUME NEW l \in A!Where,
           NEW u \in OrNone(Users), NEW S \in SUBSET Channels,
               s = <<l, u, S>>,
               \A r \in TaskRecords : r.op = op /\ r.at = l /\ r.user = u => Doing(r)'
        PROVE  AccountKept'
    <2> DEFINE now == [A!NoTask EXCEPT !.op = op, !.at = l, !.user = u, !.list = S]
    <2>1. /\ now \in TaskRecords /\ task' = [task EXCEPT ![t] = now]
          /\ now.op = op /\ now.at = l /\ now.user = u
      BY <1>3, <1>6 DEF A!NoTask, TaskRecords, OrNone
    <2>2. PICK r \in TaskRecords : /\ task' = [task EXCEPT ![t] = r]
                                   /\ r.op = op /\ r.at = l /\ r.user = u
      BY <2>1
    <2>3. QED
      BY <1>1, <1>4, <1>6, <2>2, NotNone, TurnKept
  <1>7. op \notin {"login", "status", "check", "reconnect", "drives"} => session # None
    BY <1>2 DEF A!Offered
  <1>8. A!Members(A!LoadedRegistry.accounts) \subseteq Users
    BY <1>1, Loads, Listed
  <1>9. ASSUME NEW l \in Begins \cup Within, NEW u \in OrNone(Users),
               l = "signed" => u \in Users /\ ~ A!Migrates,
               l \in {"choose", "forget"} => u \in Users,
               l \in Within => op \notin {"login", "status", "check", "reconnect", "drives"},
               l \in {"ping", "drop", "refresh"} <=> op \in {"check", "reconnect"},
               l = "guard" <=> op = "drives",
               l = "owned" <=> op = "prune",
               l = "unlink" => op = "delete",
               l # "retain",
               NEW r \in TaskRecords, r.op = op, r.at = l, r.user = u
        PROVE  Doing(r)'
    BY <1>4, <1>7, <1>9 DEF Doing, Begins, Within, Chooses, Reading, A!Migrates
  <1>10. CASE op = "login"
    <2>1. PICK u \in Users : s = <<"signed", u, {}>>
      BY <1>8, <1>10 DEF A!Start
    <2>2. u \in OrNone(Users) /\ ~ A!Migrates
      BY <1>2, <1>10 DEF OrNone, A!Offered, A!Migrates
    <2>3. QED
      BY <1>6, <1>9, <1>10, <2>1, <2>2 DEF Begins, Within, A!Where
  <1>11. CASE op = "status"
    <2>1. s = <<"look", None, {}>> /\ None \in OrNone(Users)
      BY <1>11 DEF A!Start, OrNone
    <2>2. QED
      BY <1>6, <1>9, <1>11, <2>1 DEF Begins, Within, A!Where
  <1>12. CASE op = "switch"
    <2>1. PICK u \in Users : s = <<"choose", u, {}>>
      BY <1>8, <1>12 DEF A!Start
    <2>2. u \in OrNone(Users)
      BY <1>2, <1>12 DEF OrNone, A!Offered, A!Migrates
    <2>3. QED
      BY <1>6, <1>9, <1>12, <2>1, <2>2 DEF Begins, Within, A!Where
  <1>13. CASE op = "remove"
    <2>1. PICK u \in Users : s = <<"forget", u, {}>>
      BY <1>8, <1>13 DEF A!Start
    <2>2. u \in OrNone(Users)
      BY <1>2, <1>13 DEF OrNone, A!Offered, A!Migrates
    <2>3. QED
      BY <1>6, <1>9, <1>13, <2>1, <2>2 DEF Begins, Within, A!Where
  <1>14. CASE op = "logout"
    <2>1. s = <<"whoami", None, {}>> /\ None \in OrNone(Users)
      BY <1>14 DEF A!Start, OrNone
    <2>2. QED
      BY <1>6, <1>9, <1>14, <2>1 DEF Begins, Within, A!Where
  <1>15. CASE op = "check"
    <2>1. s = <<"ping", None, {}>> /\ None \in OrNone(Users)
      BY <1>15 DEF A!Start, OrNone
    <2>2. QED
      BY <1>6, <1>9, <1>15, <2>1 DEF Begins, Within, A!Where
  <1>16. CASE op = "reconnect"
    <2>1. s = <<"refresh", None, {}>> /\ None \in OrNone(Users)
      BY <1>16 DEF A!Start, OrNone
    <2>2. QED
      BY <1>6, <1>9, <1>16, <2>1 DEF Begins, Within, A!Where
  <1>17. CASE op = "drives"
    <2>1. s = <<"guard", None, {}>> /\ None \in OrNone(Users)
      BY <1>17 DEF A!Start, OrNone
    <2>2. QED
      BY <1>6, <1>9, <1>17, <2>1 DEF Begins, Within, A!Where
  <1>18. CASE op = "create"
    <2>1. PICK c \in Channels : s = <<"make", None, {c}>>
      BY <1>1, <1>18 DEF A!Start, AccountTyped
    <2>2. None \in OrNone(Users) /\ {c} \in SUBSET Channels
      BY DEF OrNone
    <2>3. QED
      BY <1>6, <1>9, <1>18, <2>1, <2>2 DEF Begins, Within, A!Where
  <1>19. CASE op = "link"
    <2>1. PICK c \in Channels : s = <<"push", None, {c}>>
      BY <1>1, <1>19 DEF A!Start, AccountTyped
    <2>2. None \in OrNone(Users) /\ {c} \in SUBSET Channels
      BY DEF OrNone
    <2>3. QED
      BY <1>6, <1>9, <1>19, <2>1, <2>2 DEF Begins, Within, A!Where
  <1>20. CASE op = "adopt"
    <2>1. PICK c \in Channels : s = <<"hold", None, {c}>>
      BY <1>1, <1>20 DEF A!Start, AccountTyped
    <2>2. None \in OrNone(Users) /\ {c} \in SUBSET Channels
      BY DEF OrNone
    <2>3. QED
      BY <1>6, <1>9, <1>20, <2>1, <2>2 DEF Begins, Within, A!Where
  <1>21. CASE op = "delete"
    <2>1. PICK c \in Channels : s = <<"unlink", None, {c}>>
      BY <1>1, <1>21 DEF A!Start, AccountTyped
    <2>2. None \in OrNone(Users) /\ {c} \in SUBSET Channels
      BY DEF OrNone
    <2>3. QED
      BY <1>6, <1>9, <1>21, <2>1, <2>2 DEF Begins, Within, A!Where
  <1>22. CASE op = "prune"
    <2>1. s = <<"owned", None, {}>> /\ None \in OrNone(Users)
      BY <1>22 DEF A!Start, OrNone
    <2>2. QED
      BY <1>6, <1>9, <1>22, <2>1 DEF Begins, Within, A!Where
  <1>23. QED
    BY <1>5, <1>10, <1>11, <1>12, <1>13, <1>14, <1>15, <1>16, <1>17, <1>18, <1>19, <1>20,
       <1>21, <1>22

LEMMA AccountNextKept == AccountKept /\ [A!AccountNext]_accountVars => AccountKept'
  <1> SUFFICES ASSUME AccountKept, [A!AccountNext]_accountVars
               PROVE  AccountKept'
    OBVIOUS
  <1>1. CASE ~ alone
    <2>1. alone' = alone
      <3>1. CASE A!Restart
        BY <3>1 DEF A!Restart, A!mode
      <3>2. ASSUME NEW t \in Tasks, A!BeginCommand(t)
            PROVE  alone' = alone
        BY <3>2 DEF A!BeginCommand
      <3>3. ASSUME NEW t \in Tasks, A!Step(t)
            PROVE  alone' = alone
        <4>1. CASE \/ A!Signed(t) \/ A!Register(t) \/ A!ReadDrives(t) \/ A!RewriteDrives(t)
                   \/ A!ListDrives(t) \/ A!EnterSession(t) \/ A!LookForSession(t)
                   \/ A!Connect(t) \/ A!ChooseAccount(t) \/ A!SwapDrives(t)
          BY <4>1 DEF A!Signed, A!Register, A!ReadDrives, A!RewriteDrives, A!ListDrives,
             A!EnterSession, A!LookForSession, A!Connect, A!ChooseAccount, A!SwapDrives, A!mode
        <4>2. CASE \/ A!ForgetUser(t) \/ A!PurgeDrives(t) \/ A!UnlistUser(t)
                   \/ A!CloseSession(t) \/ A!ClearDrives(t) \/ A!WhoAmI(t) \/ A!Ping(t)
                   \/ A!Disconnect(t) \/ A!Refresh(t)
          BY <4>2 DEF A!ForgetUser, A!PurgeDrives, A!UnlistUser, A!CloseSession,
             A!ClearDrives, A!WhoAmI, A!Ping, A!Disconnect, A!Refresh, A!mode
        <4>3. CASE \/ A!GuardSession(t) \/ A!MakeChannel(t) \/ A!HoldDrives(t)
                   \/ A!PushDrive(t) \/ A!StoreDrives(t) \/ A!UnlinkChannel(t)
                   \/ A!ListOwned(t) \/ A!RetainDrives(t)
          BY <4>3 DEF A!GuardSession, A!MakeChannel, A!HoldDrives, A!PushDrive, A!StoreDrives,
             A!UnlinkChannel, A!ListOwned, A!RetainDrives, A!mode
        <4>4. QED
          BY <3>3, <4>1, <4>2, <4>3, Zenon DEF A!Step
      <3>4. CASE UNCHANGED accountVars
        BY <3>4 DEF accountVars
      <3>5. QED
        BY <3>1, <3>2, <3>3, <3>4, Zenon DEF A!AccountNext
    <2>2. QED
      BY <1>1, <2>1 DEF AccountKept
  <1>2. CASE alone /\ A!Restart
    <2>1. session' = None /\ Consistent'
      BY <1>2 DEF A!Restart, Consistent
    <2>2. AccountTyped' /\ OwnFiles'
      BY <1>2 DEF A!Restart, A!files, AccountKept, AccountTyped, OwnFiles, OrNone
    <2>3. A!NoTask \in TaskRecords /\ A!NoTask.at = None
      BY DEF A!NoTask, TaskRecords, OrNone
    <2>4. task' \in [Tasks -> TaskRecords] /\ \A t \in Tasks : task'[t].at = None
      BY <1>2, <2>3 DEF A!Restart
    <2>5. QED
      BY <2>1, <2>2, <2>4 DEF AccountKept
  <1>3. CASE alone /\ \E t \in Tasks : A!BeginCommand(t) \/ A!Step(t)
    BY <1>3, BeginKept, LoginKept, ConnectKept, RemovalKept, RefreshKept, DrivesKept DEF A!Step
  <1>4. CASE UNCHANGED accountVars
    BY <1>4 DEF accountVars, AccountKept, AccountTyped, OwnFiles, Consistent, Entered, Chosen,
       Spoken, Doing, A!Migrates
  <1>5. QED
    BY <1>1, <1>2, <1>3, <1>4 DEF A!AccountNext

LEMMA AccountInitKept == A!AccountInit => AccountKept
  <1> SUFFICES ASSUME A!AccountInit, alone
               PROVE  AccountKept
    BY DEF AccountKept
  <1>1. session = None /\ AccountTyped /\ OwnFiles
    <2>1. CASE A!NewInstallation
      BY <2>1 DEF A!AccountInit, A!NewInstallation, AccountTyped, OwnFiles, OrNone
    <2>2. CASE A!OldInstallation
      <3>1. PICK u \in Users, c \in Channels :
              /\ registry = None /\ legacy = u /\ auth = u
              /\ creds = [v \in Users |-> None]
              /\ saved = [v \in Users |-> IF v = u THEN {c} ELSE {}]
              /\ owner = [d \in Channels |-> IF d = c THEN u ELSE None]
              /\ session = None /\ drives = {} /\ transport = None
        BY <2>2 DEF A!OldInstallation
      <3>2. saved \in [Users -> SUBSET Channels] /\ owner \in [Channels -> OrNone(Users)]
        BY <3>1 DEF OrNone
      <3>3. stale \in BOOLEAN
        BY DEF A!AccountInit
      <3>4. QED
        BY <3>1, <3>2, <3>3 DEF AccountTyped, OwnFiles, OrNone
    <2>3. QED
      BY <2>1, <2>2 DEF A!AccountInit
  <1>2. A!NoTask \in TaskRecords /\ A!NoTask.at = None
    BY DEF A!NoTask, TaskRecords, OrNone
  <1>3. task \in [Tasks -> TaskRecords] /\ \A t \in Tasks : task[t].at = None
    BY <1>2 DEF A!AccountInit
  <1>4. QED
    BY <1>1, <1>3 DEF AccountKept, Consistent

LEMMA AccountAlwaysKept == Spec => []AccountKept
  <1>1. Init => AccountKept
    BY AccountInitKept DEF Init
  <1>2. QED
    BY <1>1, AccountNextKept, PartsMove, PTL DEF Spec

\* Commands on accounts and drives come one at a time, and the program may end
\* after any step of one (finalize_login, switch_account, remove_account,
\* logout, get_session_status, check_telegram_connection, get_drives and what
\* they call): between commands the account shown is the active one, with its
\* own drives and, but for two exceptions, its own connection.
THEOREM AccountShownIsActive == Spec => []SessionIsConsistent
  <1>1. AccountKept => SessionIsConsistent
    BY DEF AccountKept, Consistent, Entered, Chosen, Spoken, SessionIsConsistent,
       A!SessionIsConsistent, A!AllIdle, A!At
  <1>2. QED
    BY <1>1, AccountAlwaysKept, PTL

\* What a step may take out of the file of a user.
LEMMA DriveStaysSaved ==
    ASSUME AccountKept, [A!AccountNext]_accountVars, alone,
           NEW u \in Users, NEW c \in saved[u] \ saved'[u]
    PROVE  A!Removing(u) \/ A!Deleting(c) \/ A!Pruned(c)
  <1>1. PICK t \in Tasks : A!RewriteDrives(t) \/ A!PurgeDrives(t) \/ A!StoreDrives(t)
    <2>1. saved' # saved
      OBVIOUS
    <2>2. ~ UNCHANGED accountVars /\ ~ A!Restart /\ \A t \in Tasks : ~ A!BeginCommand(t)
      BY <2>1 DEF accountVars, A!Restart, A!BeginCommand, A!files
    <2>3. PICK t \in Tasks : A!Step(t)
      BY <2>2 DEF A!AccountNext
    <2>4. QED
      BY <2>1, <2>3 DEF A!Step, A!Signed, A!Register, A!ReadDrives, A!ListDrives,
         A!EnterSession, A!LookForSession, A!Connect, A!ChooseAccount, A!SwapDrives,
         A!ForgetUser, A!UnlistUser, A!CloseSession, A!ClearDrives, A!WhoAmI, A!Ping,
         A!Disconnect, A!Refresh, A!GuardSession, A!MakeChannel, A!HoldDrives,
         A!PushDrive, A!UnlinkChannel, A!ListOwned, A!RetainDrives, A!files
  <1> DEFINE o == task[t]
  <1>2. o.at \in {"rewrite", "purge", "store"} /\ o.at \in A!Where
    BY <1>1 DEF A!RewriteDrives, A!PurgeDrives, A!StoreDrives, A!At, A!Where
  <1>3. AccountTyped /\ Doing(o)
    BY <1>2, Busy
  <1>4. CASE A!RewriteDrives(t)
    <2>1. o.at = "rewrite" /\ saved' = [saved EXCEPT ![o.user] = o.list]
      BY <1>4 DEF A!RewriteDrives, A!At, A!User, A!List
    <2>2. o.list = saved[o.user]
      BY <1>3, <2>1 DEF Doing
    <2>3. QED
      BY <1>3, <2>1, <2>2 DEF AccountTyped
  <1>5. CASE A!PurgeDrives(t)
    <2>1. o.at = "purge" /\ saved' = [saved EXCEPT ![o.user] = {}]
      BY <1>5 DEF A!PurgeDrives, A!At, A!User
    <2>2. o.user = u
      BY <1>3, <2>1 DEF AccountTyped
    <2>3. QED
      BY <2>1, <2>2 DEF A!Removing, A!At, A!User
  <1>6. CASE A!StoreDrives(t)
    <2>1. /\ o.at = "store"
          /\ saved' = IF session = None THEN saved ELSE [saved EXCEPT ![session] = drives]
      BY <1>6 DEF A!StoreDrives, A!At
    <2>2. u = session /\ c \in saved[session] \ drives
      BY <1>3, <2>1 DEF AccountTyped
    <2>3. o.op \in {"delete", "prune"} /\ c \notin o.list
      BY <1>3, <2>1, <2>2 DEF Doing
    <2>4. QED
      BY <2>3 DEF A!Deleting, A!Pruned, A!Op, A!List
  <1>7. QED
    BY <1>1, <1>4, <1>5, <1>6

\* As long as commands come one at a time, and after whatever step the program
\* ends, a step takes a drive out of the file of a user only when the user
\* deletes the drive or the account, or when Telegram's answer to a prune was
\* without its channel, which it may be for a live one too (save_user_drives
\* and who calls it, remove_account).
THEOREM DrivesAreKept == Spec => DriveKept
  <1>1. AccountKept /\ [A!AccountNext]_accountVars =>
          [alone =>
             \A u \in Users : \A c \in saved[u] \ saved'[u] :
               A!Removing(u) \/ A!Deleting(c) \/ A!Pruned(c)]_(A!accountVars)
    BY DriveStaysSaved
  <1>2. QED
    BY <1>1, AccountAlwaysKept, PartsMove, PTL DEF Spec, DriveKept, A!DriveKept

-----------------------------------------------------------------------------
(* Proxies and logins                                                       *)

Logins == [kind : {"phone", "qr"}, via : P!Routes, password : BOOLEAN]
LoginRecords ==
    [at : OrNone({"request", "phone", "qr", "2fa", "signed", "register"}),
     kind : OrNone({"phone", "qr"}), via : P!Routes]
CommandRecords ==
    [at : OrNone({"store", "secret", "setting", "sync", "apply", "account", "reconnect"}),
     op : OrNone({"save", "delete", "activate", "toggle"}), id : OrNone(Profiles),
     ver : Versions \cup {0}, flag : BOOLEAN, cfg : P!Routes]

ProxyTyped ==
    /\ rows \in [Profiles -> Versions \cup {0}]
    /\ proxySecrets \in [Profiles -> Versions \cup {0}]
    /\ flagged \in SUBSET P!Saved /\ chosen \in OrNone(Profiles)
    /\ enabled \in BOOLEAN /\ overlap \in BOOLEAN /\ torn \in BOOLEAN /\ account \in BOOLEAN
    /\ authProxy \in P!Routes /\ connection \in P!Routes \cup {P!NoConnection}
    /\ startup \in OrNone(P!Routes) /\ behind \in SUBSET {"login", "connection"}
    /\ pending \in OrNone(Logins) /\ holder \in OrNone(Callers)
    /\ login \in [Callers -> LoginRecords] /\ command \in [Settlers -> CommandRecords]

\* Who waits for the answer of a login holds it.
LoginHeld ==
    /\ holder # None => pending # None
    /\ \A c \in Callers : login[c].at = "request" => login[c].kind # None
    /\ \A c \in Callers : login[c].at \in {"phone", "qr", "2fa"} <=> holder = c

\* A connection is of an account, or of one that is about to be registered.
ConnectionOwned ==
    /\ account \/ connection = P!NoConnection \/ \E c \in Callers : login[c].at = "register"
    /\ \A s \in Settlers : command[s].at = "reconnect" => account

\* The flags and the choice: between its two statements a command is alone.
Choosing(s) == command[s].at = "setting" /\ command[s].op = "activate"
FlagsAgree ==
    /\ \A s \in Settlers : command[s].at = "store" =>
          /\ command[s].op \in {"save", "delete"} => command[s].id \in Profiles
          /\ command[s].op = "save" => command[s].ver # 0
    /\ \A s, r \in Settlers : command[s].at = "setting" /\ command[r].at = "setting" => s = r
    /\ \A s \in Settlers : command[s].at = "setting" =>
          IF command[s].op = "activate" THEN flagged = {command[s].id} \cap P!Saved
          ELSE command[s].id \in Profiles \ P!Saved
    /\ ~ torn /\ (\A s \in Settlers : ~ Choosing(s)) => flagged = {chosen} \cap P!Saved

\* While commands come one after the other: where the route that the settings
\* say is followed.
RouteFollowed ==
    /\ \A s, r \in Settlers : command[s].at # None /\ command[r].at # None => s = r
    /\ \A s \in Settlers : command[s].at = "apply" => command[s].cfg = P!Route
    /\ "login" \notin behind =>
         /\ (\A s \in Settlers : command[s].at \in {None, "store", "account", "reconnect"}) =>
               authProxy = P!Route
         /\ \A s \in Settlers : command[s].at = "reconnect" => command[s].cfg = P!Route
    /\ /\ "connection" \notin behind
       /\ \A s \in Settlers : command[s].at \in {None, "store"}
       /\ \A c \in Callers : login[c].at # "register"
       => connection \in {P!Route, P!NoConnection}

ProxyKept ==
    /\ overlap => \E s, r \in Settlers : s # r
    /\ ProxyTyped /\ LoginHeld /\ ConnectionOwned /\ FlagsAgree
    /\ ~ overlap => RouteFollowed

\* What the settings say is a route, the same while they are.
LEMMA RouteTyped ==
    ASSUME ProxyTyped
    PROVE  P!Route \in P!Routes /\ P!Direct \in P!Routes
  <1>1. P!Direct \in P!Routes
    BY DEF P!Routes, P!Direct
  <1>2. P!ActiveProxy \subseteq P!Saved
    BY DEF P!ActiveProxy, ProxyTyped
  <1>3. ASSUME NEW p \in P!Saved
        PROVE  P!Config(p) \in P!Routes
    <2>1. p \in Profiles /\ rows[p] \in Versions /\ proxySecrets[p] \in Versions \cup {0}
      BY DEF P!Saved, ProxyTyped
    <2>2. QED
      BY <1>1, <2>1 DEF P!Config, P!Routes
  <1>4. P!ActiveProxy # {} => (CHOOSE p \in P!ActiveProxy : TRUE) \in P!Saved
    BY <1>2
  <1>5. QED
    BY <1>1, <1>3, <1>4 DEF P!Route

LEMMA SameRoute ==
    ASSUME UNCHANGED <<rows, proxySecrets, flagged, chosen, enabled>>
    PROVE  P!Route' = P!Route /\ P!Saved' = P!Saved
  BY DEF P!Route, P!Saved, P!ActiveProxy, P!Config

\* How the record of a command changes.
LEMMA CommandGoes ==
    ASSUME ProxyTyped, NEW s \in Settlers,
           NEW l \in {"store", "secret", "setting", "sync", "apply", "account", "reconnect"},
           P!Then(s, l)
    PROVE  \E r \in CommandRecords :
             /\ command' = [command EXCEPT ![s] = r]
             /\ r.at = l /\ r.op = command[s].op /\ r.id = command[s].id
             /\ r.ver = command[s].ver /\ r.flag = command[s].flag /\ r.cfg = command[s].cfg
  <1> DEFINE r == [command[s] EXCEPT !.at = l]
  <1>1. command[s] \in CommandRecords /\ l \in OrNone({l})
    BY DEF ProxyTyped, OrNone
  <1>2. command' = [command EXCEPT ![s] = r]
    BY DEF P!Then
  <1>3. /\ r \in CommandRecords
        /\ r.at = l /\ r.op = command[s].op /\ r.id = command[s].id
        /\ r.ver = command[s].ver /\ r.flag = command[s].flag /\ r.cfg = command[s].cfg
    BY <1>1 DEF CommandRecords, OrNone
  <1>4. QED
    BY <1>2, <1>3

LEMMA CommandGoesWith ==
    ASSUME ProxyTyped, NEW s \in Settlers,
           NEW l \in {"store", "secret", "setting", "sync", "apply", "account", "reconnect"},
           NEW c \in P!Routes, P!ThenWith(s, l, c)
    PROVE  \E r \in CommandRecords :
             command' = [command EXCEPT ![s] = r] /\ r.at = l /\ r.op = None /\ r.cfg = c
  <1> DEFINE r == [P!Free EXCEPT !.at = l, !.cfg = c]
  <1>1. command' = [command EXCEPT ![s] = r]
    BY DEF P!ThenWith
  <1>2. r \in CommandRecords /\ r.at = l /\ r.op = None /\ r.cfg = c
    BY DEF CommandRecords, OrNone, P!Free
  <1>3. QED
    BY <1>1, <1>2

LEMMA CommandDone ==
    ASSUME ProxyTyped, NEW s \in Settlers, P!Done(s)
    PROVE  \E r \in CommandRecords :
             command' = [command EXCEPT ![s] = r] /\ r.at = None /\ r.op = None
  <1>1. P!Free \in CommandRecords /\ P!Free.at = None /\ P!Free.op = None
    BY RouteTyped DEF CommandRecords, OrNone, P!Free
  <1>2. QED
    BY <1>1 DEF P!Done

\* The settings are written.
LEMMA SettingKept ==
    ASSUME ProxyKept, NEW s \in Settlers,
           P!SaveRow(s) \/ P!SaveSecret(s) \/ P!FlagActive(s) \/ P!DeleteRow(s)
             \/ P!WriteSetting(s) \/ P!SetEnabled(s)
    PROVE  ProxyKept'
  <1> USE DEF P!CommandAt, P!Is, P!Id, P!Unlocked, P!loginVars, P!settings, P!history,
              P!LoginAt
  <1>0. /\ ProxyTyped /\ LoginHeld /\ ConnectionOwned /\ FlagsAgree
        /\ (~ overlap => RouteFollowed)
        /\ command[s] \in CommandRecords /\ command[s].flag \in BOOLEAN
        /\ command[s].ver \in Versions \cup {0}
    BY DEF ProxyKept, ProxyTyped, CommandRecords
  <1>1. ASSUME P!SaveRow(s)
        PROVE  ProxyKept'
    <2>1. PICK r \in CommandRecords :
             /\ command' = [command EXCEPT ![s] = r]
             /\ r.at = "secret" /\ r.op = command[s].op /\ r.id = command[s].id
      BY <1>0, <1>1, CommandGoes DEF P!SaveRow
    <2>2. command'[s] = r /\ \A q \in Settlers : q # s => command'[q] = command[q]
      BY <1>0, <2>1 DEF ProxyTyped
    <2>3. /\ command[s].id \in Profiles /\ command[s].ver \in Versions
          /\ command[s].flag \in BOOLEAN
      BY <1>0, <1>1 DEF P!SaveRow, FlagsAgree, CommandRecords
    <2>4. P!Saved' = P!Saved \cup {command[s].id}
      BY <1>0, <2>3, <1>1, ProxyAssumption DEF P!SaveRow, P!Saved, ProxyTyped
    <2>5. /\ flagged' \in SUBSET P!Saved' /\ chosen' \in OrNone(Profiles)
         /\ rows' \in [Profiles -> Versions \cup {0}]
      BY <1>0, <2>3, <2>4, <1>1 DEF P!SaveRow, ProxyTyped, OrNone
    <2>6. torn' \in BOOLEAN
      BY <1>0, <2>3, <1>1 DEF P!SaveRow, ProxyTyped
    <2>7. UNCHANGED <<P!loginVars, proxySecrets, enabled, startup, overlap, behind>>
      BY <1>1 DEF P!SaveRow
    <2>8. ProxyTyped'
      BY <1>0, <2>1, <2>5, <2>6, <2>7 DEF ProxyTyped
    <2>9. LoginHeld' /\ ConnectionOwned'
      BY <1>0, <1>1, <2>2, <2>1, ProxyAssumption DEF P!SaveRow, LoginHeld, ConnectionOwned
    <2>10. ~ torn' => flagged' = {chosen'} \cap P!Saved'
      <3>1. \A q \in Settlers : ~ Choosing(q)
        BY <1>1 DEF P!SaveRow, Choosing
      <3>2. CASE command[s].flag
        BY <3>2, <2>3, <2>4, <1>1 DEF P!SaveRow
      <3>3. CASE ~ command[s].flag
        <4>1. flagged' = flagged \ {command[s].id} /\ chosen' = chosen
          BY <3>3, <1>1 DEF P!SaveRow
        <4>2. ~ torn' => ~ torn /\ chosen # command[s].id
          BY <1>0, <3>3, <1>1 DEF P!SaveRow, ProxyTyped
        <4>3. ~ torn => flagged = {chosen} \cap P!Saved
          BY <1>0, <3>1 DEF FlagsAgree
        <4>4. QED
          BY <4>1, <4>2, <4>3, <2>4
      <3>4. QED
        BY <3>2, <3>3
    <2>11. FlagsAgree'
      BY <1>0, <1>1, <2>2, <2>1, <2>10 DEF P!SaveRow, FlagsAgree
    <2>12. ~ overlap' => RouteFollowed'
      BY <1>0, <1>1, <2>2, <2>1, ProxyAssumption DEF P!SaveRow, RouteFollowed
    <2>13. QED
      BY <2>8, <2>9, <2>11, <2>12, <1>1 DEF P!SaveRow, ProxyKept
  <1>2. ASSUME P!SaveSecret(s)
        PROVE  ProxyKept'
    <2>1. PICK r \in CommandRecords :
             /\ command' = [command EXCEPT ![s] = r]
             /\ r.at = "sync" /\ r.op = None /\ r.cfg = P!Direct
      BY <1>0, <1>2, RouteTyped, CommandGoesWith DEF P!SaveSecret
    <2>2. command'[s] = r /\ \A q \in Settlers : q # s => command'[q] = command[q]
      BY <1>0, <2>1 DEF ProxyTyped
    <2>3. P!Saved' = P!Saved
      BY <1>2 DEF P!SaveSecret, P!Saved
    <2>4. ProxyTyped'
      BY <1>0, <1>2, <2>1, <2>3 DEF P!SaveSecret, ProxyTyped, OrNone
    <2>5. LoginHeld' /\ ConnectionOwned'
      BY <1>0, <1>2, <2>2, <2>1 DEF P!SaveSecret, LoginHeld, ConnectionOwned
    <2>6. FlagsAgree'
      BY <1>0, <1>2, <2>2, <2>1, <2>3, ProxyAssumption
         DEF P!SaveSecret, FlagsAgree, Choosing, ProxyTyped, OrNone
    <2>7. ~ overlap' => RouteFollowed'
      BY <1>0, <1>2, <2>2, <2>1, ProxyAssumption DEF P!SaveSecret, RouteFollowed
    <2>8. QED
      BY <2>4, <2>5, <2>6, <2>7, <1>2 DEF P!SaveSecret, ProxyKept
  <1>3. ASSUME P!FlagActive(s)
        PROVE  ProxyKept'
    <2>1. PICK r \in CommandRecords :
             /\ command' = [command EXCEPT ![s] = r]
             /\ r.at = "setting" /\ r.op = command[s].op /\ r.id = command[s].id
      BY <1>0, <1>3, CommandGoes DEF P!FlagActive
    <2>2. command'[s] = r /\ \A q \in Settlers : q # s => command'[q] = command[q]
      BY <1>0, <2>1 DEF ProxyTyped
    <2>3. P!Saved' = P!Saved
      BY <1>3 DEF P!FlagActive, P!Saved
    <2>4. ProxyTyped'
      BY <1>0, <1>3, <2>1, <2>3 DEF P!FlagActive, ProxyTyped, OrNone
    <2>5. LoginHeld' /\ ConnectionOwned'
      BY <1>0, <1>3, <2>2, <2>1 DEF P!FlagActive, LoginHeld, ConnectionOwned
    <2>6. FlagsAgree'
      BY <1>0, <1>3, <2>2, <2>1, <2>3, ProxyAssumption
         DEF P!FlagActive, FlagsAgree, Choosing, ProxyTyped, OrNone
    <2>7. ~ overlap' => RouteFollowed'
      BY <1>0, <1>3, <2>2, <2>1, ProxyAssumption DEF P!FlagActive, RouteFollowed
    <2>8. QED
      BY <2>4, <2>5, <2>6, <2>7, <1>3 DEF P!FlagActive, ProxyKept
  <1>4. ASSUME P!DeleteRow(s)
        PROVE  ProxyKept'
    <2>1. PICK r \in CommandRecords :
             /\ command' = [command EXCEPT ![s] = r]
             /\ r.at = "setting" /\ r.op = command[s].op /\ r.id = command[s].id
      BY <1>0, <1>4, CommandGoes DEF P!DeleteRow
    <2>2. command'[s] = r /\ \A q \in Settlers : q # s => command'[q] = command[q]
      BY <1>0, <2>1 DEF ProxyTyped
    <2>3. P!Saved' = P!Saved \ {command[s].id}
      BY <1>0, <1>4 DEF P!DeleteRow, P!Saved, ProxyTyped
    <2>4. ProxyTyped'
      BY <1>0, <1>4, <2>1, <2>3 DEF P!DeleteRow, ProxyTyped, OrNone
    <2>5. LoginHeld' /\ ConnectionOwned'
      BY <1>0, <1>4, <2>2, <2>1 DEF P!DeleteRow, LoginHeld, ConnectionOwned
    <2>6. FlagsAgree'
      BY <1>0, <1>4, <2>2, <2>1, <2>3, ProxyAssumption
         DEF P!DeleteRow, FlagsAgree, Choosing, ProxyTyped, OrNone
    <2>7. ~ overlap' => RouteFollowed'
      BY <1>0, <1>4, <2>2, <2>1, ProxyAssumption DEF P!DeleteRow, RouteFollowed
    <2>8. QED
      BY <2>4, <2>5, <2>6, <2>7, <1>4 DEF P!DeleteRow, ProxyKept
  <1>5. ASSUME P!WriteSetting(s)
        PROVE  ProxyKept'
    <2>1. command[s].id \in OrNone(Profiles)
      BY <1>0, <1>5 DEF P!WriteSetting, FlagsAgree, CommandRecords
    <2>2. P!Saved' = P!Saved /\ P!Saved \subseteq Profiles
      BY <1>5 DEF P!WriteSetting, P!Saved
    <2>3. ASSUME command[s].op = "activate"
          PROVE  ProxyKept'
      <3>1. PICK r \in CommandRecords :
             /\ command' = [command EXCEPT ![s] = r]
             /\ r.at = "sync" /\ r.op = None /\ r.cfg = P!Direct
        BY <1>0, <1>5, <2>3, RouteTyped, CommandGoesWith DEF P!WriteSetting
      <3>2. command'[s] = r /\ \A q \in Settlers : q # s => command'[q] = command[q]
        BY <1>0, <3>1 DEF ProxyTyped
      <3>3. ProxyTyped'
        BY <1>0, <1>5, <3>1, <2>1, <2>3, <2>2 DEF P!WriteSetting, ProxyTyped, OrNone
      <3>4. LoginHeld' /\ ConnectionOwned'
        BY <1>0, <1>5, <3>2, <3>1 DEF P!WriteSetting, LoginHeld, ConnectionOwned
      <3>5. FlagsAgree'
        BY <1>0, <1>5, <3>2, <3>1, <2>3, <2>2, ProxyAssumption
           DEF P!WriteSetting, FlagsAgree, Choosing, ProxyTyped, OrNone
      <3>6. ~ overlap' => RouteFollowed'
        BY <1>0, <1>5, <3>2, <3>1, <2>3, ProxyAssumption DEF P!WriteSetting, RouteFollowed
      <3>7. QED
        BY <3>3, <3>4, <3>5, <3>6, <1>5 DEF P!WriteSetting, ProxyKept
    <2>4. ASSUME command[s].op # "activate"
          PROVE  ProxyKept'
      <3>1. PICK r \in CommandRecords :
             /\ command' = [command EXCEPT ![s] = r]
             /\ r.at = "secret" /\ r.op = command[s].op /\ r.id = command[s].id
        BY <1>0, <1>5, <2>4, CommandGoes DEF P!WriteSetting
      <3>2. command'[s] = r /\ \A q \in Settlers : q # s => command'[q] = command[q]
        BY <1>0, <3>1 DEF ProxyTyped
      <3>3. ProxyTyped'
        BY <1>0, <1>5, <3>1, <2>1, <2>4, <2>2 DEF P!WriteSetting, ProxyTyped, OrNone
      <3>4. LoginHeld' /\ ConnectionOwned'
        BY <1>0, <1>5, <3>2, <3>1 DEF P!WriteSetting, LoginHeld, ConnectionOwned
      <3>5. FlagsAgree'
        BY <1>0, <1>5, <3>2, <3>1, <2>4, <2>2, ProxyAssumption
           DEF P!WriteSetting, FlagsAgree, Choosing, ProxyTyped, OrNone
      <3>6. ~ overlap' => RouteFollowed'
        BY <1>0, <1>5, <3>2, <3>1, <2>4, ProxyAssumption DEF P!WriteSetting, RouteFollowed
      <3>7. QED
        BY <3>3, <3>4, <3>5, <3>6, <1>5 DEF P!WriteSetting, ProxyKept
    <2>5. QED
      BY <2>3, <2>4
  <1>6. ASSUME P!SetEnabled(s)
        PROVE  ProxyKept'
    <2>1. PICK r \in CommandRecords :
             /\ command' = [command EXCEPT ![s] = r]
             /\ r.at = "sync" /\ r.op = None /\ r.cfg = P!Direct
      BY <1>0, <1>6, RouteTyped, CommandGoesWith DEF P!SetEnabled
    <2>2. command'[s] = r /\ \A q \in Settlers : q # s => command'[q] = command[q]
      BY <1>0, <2>1 DEF ProxyTyped
    <2>3. P!Saved' = P!Saved
      BY <1>6 DEF P!SetEnabled, P!Saved
    <2>4. ProxyTyped'
      BY <1>0, <1>6, <2>1, <2>3 DEF P!SetEnabled, ProxyTyped, OrNone
    <2>5. LoginHeld' /\ ConnectionOwned'
      BY <1>0, <1>6, <2>2, <2>1 DEF P!SetEnabled, LoginHeld, ConnectionOwned
    <2>6. FlagsAgree'
      BY <1>0, <1>6, <2>2, <2>1, <2>3, ProxyAssumption
         DEF P!SetEnabled, FlagsAgree, Choosing, ProxyTyped, OrNone
    <2>7. ~ overlap' => RouteFollowed'
      BY <1>0, <1>6, <2>2, <2>1, ProxyAssumption DEF P!SetEnabled, RouteFollowed
    <2>8. QED
      BY <2>4, <2>5, <2>6, <2>7, <1>6 DEF P!SetEnabled, ProxyKept
  <1>7. QED
    BY <1>1, <1>2, <1>3, <1>4, <1>5, <1>6

\* The login and the connection follow the settings.
LEMMA FollowingKept ==
    ASSUME ProxyKept, NEW s \in Settlers,
           P!ReadSettings(s) \/ P!ApplyProxy(s) \/ P!FindAccount(s)
             \/ P!Reconnect(s)
    PROVE  ProxyKept'
  <1> USE DEF P!CommandAt, P!Is, P!Id, P!Unlocked, P!loginVars, P!settings, P!history,
              P!LoginAt
  <1>0. /\ ProxyTyped /\ LoginHeld /\ ConnectionOwned /\ FlagsAgree
        /\ (~ overlap => RouteFollowed)
        /\ command[s] \in CommandRecords /\ command[s].cfg \in P!Routes
        /\ authProxy \in P!Routes /\ P!Route \in P!Routes /\ P!Direct \in P!Routes
    BY RouteTyped DEF ProxyKept, ProxyTyped, CommandRecords
  <1>1. ASSUME P!ReadSettings(s)
        PROVE  ProxyKept'
    <2>1. PICK r \in CommandRecords :
             /\ command' = [command EXCEPT ![s] = r]
             /\ r.at = "apply" /\ r.op = None /\ r.cfg = P!Route
      BY <1>0, <1>1, RouteTyped, CommandGoesWith DEF P!ReadSettings
    <2>2. command'[s] = r /\ \A q \in Settlers : q # s => command'[q] = command[q]
      BY <1>0, <2>1 DEF ProxyTyped
    <2>3. P!Route' = P!Route /\ P!Saved' = P!Saved
      BY <1>1, SameRoute DEF P!ReadSettings
    <2>4. ProxyTyped'
      BY <1>0, <1>1, <2>1, <2>3 DEF P!ReadSettings, ProxyTyped, OrNone
    <2>5. LoginHeld' /\ ConnectionOwned'
      BY <1>0, <1>1, <2>2, <2>1 DEF P!ReadSettings, LoginHeld, ConnectionOwned
    <2>6. FlagsAgree'
      BY <1>0, <1>1, <2>2, <2>1, <2>3, ProxyAssumption
         DEF P!ReadSettings, FlagsAgree, Choosing, ProxyTyped, OrNone
    <2>7. ~ overlap' => RouteFollowed'
      BY <1>0, <1>1, <2>2, <2>1, <2>3, ProxyAssumption DEF P!ReadSettings, RouteFollowed
    <2>8. QED
      BY <2>4, <2>5, <2>6, <2>7, <1>1 DEF P!ReadSettings, ProxyKept
  <1>2. ASSUME P!ApplyProxy(s)
        PROVE  ProxyKept'
    <2>1. PICK r \in CommandRecords :
             /\ command' = [command EXCEPT ![s] = r]
             /\ r.at = "account" /\ r.op = None /\ r.cfg = P!Direct
      BY <1>0, <1>2, RouteTyped, CommandGoesWith DEF P!ApplyProxy
    <2>2. command'[s] = r /\ \A q \in Settlers : q # s => command'[q] = command[q]
      BY <1>0, <2>1 DEF ProxyTyped
    <2>3. P!Route' = P!Route /\ P!Saved' = P!Saved
      BY <1>2, SameRoute DEF P!ApplyProxy
    <2>4. ProxyTyped'
      BY <1>0, <1>2, <2>1, <2>3 DEF P!ApplyProxy, ProxyTyped, OrNone
    <2>5. LoginHeld' /\ ConnectionOwned'
      BY <1>0, <1>2, <2>2, <2>1 DEF P!ApplyProxy, LoginHeld, ConnectionOwned
    <2>6. FlagsAgree'
      BY <1>0, <1>2, <2>2, <2>1, <2>3, ProxyAssumption
         DEF P!ApplyProxy, FlagsAgree, Choosing, ProxyTyped, OrNone
    <2>7. ~ overlap' => RouteFollowed'
      BY <1>0, <1>2, <2>2, <2>1, <2>3, ProxyAssumption DEF P!ApplyProxy, RouteFollowed
    <2>8. QED
      BY <2>4, <2>5, <2>6, <2>7, <1>2 DEF P!ApplyProxy, ProxyKept
  <1>3. ASSUME P!FindAccount(s)
        PROVE  ProxyKept'
    <2>1. P!Route' = P!Route /\ P!Saved' = P!Saved
      BY <1>3, SameRoute DEF P!FindAccount
    <2>2. ASSUME account, P!ThenWith(s, "reconnect", authProxy)
         PROVE  ProxyKept'
      <3>1. PICK r \in CommandRecords :
             /\ command' = [command EXCEPT ![s] = r]
             /\ r.at = "reconnect" /\ r.op = None /\ r.cfg = authProxy
        BY <1>0, <2>2, CommandGoesWith
      <3>2. command'[s] = r /\ \A q \in Settlers : q # s => command'[q] = command[q]
        BY <1>0, <3>1 DEF ProxyTyped
      <3>3. ProxyTyped'
        BY <1>0, <1>3, <3>1, <2>1, <2>2 DEF P!FindAccount, ProxyTyped, OrNone
      <3>4. LoginHeld' /\ ConnectionOwned'
        BY <1>0, <1>3, <3>2, <3>1, <2>2 DEF P!FindAccount, LoginHeld, ConnectionOwned
      <3>5. FlagsAgree'
        BY <1>0, <1>3, <3>2, <3>1, <2>1, <2>2, ProxyAssumption
           DEF P!FindAccount, FlagsAgree, Choosing, ProxyTyped, OrNone
      <3>6. ~ overlap' => RouteFollowed'
        BY <1>0, <1>3, <3>2, <3>1, <2>1, <2>2, ProxyAssumption DEF P!FindAccount, RouteFollowed
      <3>7. QED
        BY <3>3, <3>4, <3>5, <3>6, <1>3 DEF P!FindAccount, ProxyKept
    <2>3. ASSUME ~ account, P!Done(s)
         PROVE  ProxyKept'
      <3>1. PICK r \in CommandRecords :
             /\ command' = [command EXCEPT ![s] = r]
             /\ r.at = None /\ r.op = None
        BY <1>0, <2>3, CommandDone
      <3>2. command'[s] = r /\ \A q \in Settlers : q # s => command'[q] = command[q]
        BY <1>0, <3>1 DEF ProxyTyped
      <3>3. ProxyTyped'
        BY <1>0, <1>3, <3>1, <2>1, <2>3 DEF P!FindAccount, ProxyTyped, OrNone
      <3>4. LoginHeld' /\ ConnectionOwned'
        BY <1>0, <1>3, <3>2, <3>1, <2>3, ProxyAssumption
           DEF P!FindAccount, LoginHeld, ConnectionOwned
      <3>5. FlagsAgree'
        BY <1>0, <1>3, <3>2, <3>1, <2>1, <2>3, ProxyAssumption
           DEF P!FindAccount, FlagsAgree, Choosing, ProxyTyped, OrNone
      <3>6. ~ overlap' => RouteFollowed'
        BY <1>0, <1>3, <3>2, <3>1, <2>1, <2>3, ProxyAssumption
           DEF P!FindAccount, RouteFollowed, ConnectionOwned
      <3>7. QED
        BY <3>3, <3>4, <3>5, <3>6, <1>3 DEF P!FindAccount, ProxyKept
    <2>4. QED
      BY <2>2, <2>3, <1>3 DEF P!FindAccount
  <1>4. ASSUME P!Reconnect(s)
        PROVE  ProxyKept'
    <2>1. PICK r \in CommandRecords :
             /\ command' = [command EXCEPT ![s] = r]
             /\ r.at = None /\ r.op = None
      BY <1>0, <1>4, CommandDone DEF P!Reconnect
    <2>2. command'[s] = r /\ \A q \in Settlers : q # s => command'[q] = command[q]
      BY <1>0, <2>1 DEF ProxyTyped
    <2>3. P!Route' = P!Route /\ P!Saved' = P!Saved
      BY <1>4, SameRoute DEF P!Reconnect
    <2>4. ProxyTyped'
      BY <1>0, <1>4, <2>1, <2>3 DEF P!Reconnect, ProxyTyped, OrNone
    <2>5. LoginHeld' /\ ConnectionOwned'
      BY <1>0, <1>4, <2>2, <2>1 DEF P!Reconnect, LoginHeld, ConnectionOwned
    <2>6. FlagsAgree'
      BY <1>0, <1>4, <2>2, <2>1, <2>3, ProxyAssumption
         DEF P!Reconnect, FlagsAgree, Choosing, ProxyTyped, OrNone
    <2>7. ~ overlap' => RouteFollowed'
      BY <1>0, <1>4, <2>2, <2>1, <2>3, ProxyAssumption DEF P!Reconnect, RouteFollowed
    <2>8. QED
      BY <2>4, <2>5, <2>6, <2>7, <1>4 DEF P!Reconnect, ProxyKept
  <1>5. QED
    BY <1>1, <1>2, <1>3, <1>4

\* What the steps of a login do to who waits and to the connection.
LoginFlow ==
    /\ login' \in [Callers -> LoginRecords] /\ pending' \in OrNone(Logins)
    /\ holder' \in OrNone(Callers) /\ connection' \in P!Routes \cup {P!NoConnection}
    /\ LoginHeld' /\ UNCHANGED <<authProxy, account>>
    /\ \A q \in Callers : login[q].at = "register" => login'[q].at = "register"
    /\ connection' = connection \/ \E q \in Callers : login'[q].at = "register"

\* One caller's record changes, and with it who waits.
LEMMA Flows ==
    ASSUME ProxyTyped, NEW c \in Callers, NEW r \in LoginRecords,
           login' = [login EXCEPT ![c] = r],
           pending' \in OrNone(Logins), holder' \in OrNone(Callers),
           connection' \in P!Routes \cup {P!NoConnection}, UNCHANGED <<authProxy, account>>,
           holder' # None => pending' # None,
           r.at \in {"phone", "qr", "2fa"} <=> holder' = c,
           \A q \in Callers : q # c =>
               (login[q].at \in {"phone", "qr", "2fa"} <=> holder' = q),
           \A q \in Callers : login[q].at = "request" => login[q].kind # None,
           r.at = "request" => r.kind # None,
           login[c].at = "register" => r.at = "register",
           connection' = connection \/ r.at = "register"
    PROVE  LoginFlow
  <1>1. login'[c] = r /\ \A q \in Callers : q # c => login'[q] = login[q]
    BY DEF ProxyTyped
  <1>2. login' \in [Callers -> LoginRecords]
    BY DEF ProxyTyped
  <1>3. LoginHeld'
    BY <1>1 DEF LoginHeld
  <1>4. QED
    BY <1>1, <1>2, <1>3 DEF LoginFlow

LEMMA LoginStepFlows ==
    ASSUME ProxyTyped, LoginHeld, NEW c \in Callers, P!LoginStep(c)
    PROVE  LoginFlow
  <1> DEFINE o == login[c]
  <1> USE DEF P!LoginAt
  <1>0. /\ o \in LoginRecords /\ o.via \in P!Routes /\ login \in [Callers -> LoginRecords]
        /\ authProxy \in P!Routes /\ P!Direct \in P!Routes /\ P!Direct # None
        /\ pending \in OrNone(Logins) /\ holder \in OrNone(Callers)
        /\ connection \in P!Routes \cup {P!NoConnection}
        /\ \A l \in {"request", "phone", "qr", "2fa", "signed", "register"} : l # None
    BY RouteTyped, ProxyAssumption DEF ProxyTyped, LoginRecords
  <1>1. ASSUME P!BeginLogin(c)
        PROVE  LoginFlow
    <2>1. PICK kind \in {"phone", "qr"}, via \in P!Routes :
            login' = [login EXCEPT ![c] = [at |-> "request", kind |-> kind, via |-> via]]
      BY <1>0, <1>1 DEF P!BeginLogin, P!Connected
    <2> DEFINE r == [at |-> "request", kind |-> kind, via |-> via]
    <2>2. r \in LoginRecords /\ r.at = "request" /\ r.kind # None
      BY ProxyAssumption DEF LoginRecords, OrNone
    <2> HIDE DEF r
    <2>3. QED
      BY <1>0, <1>1, <2>1, <2>2, Flows DEF P!BeginLogin, LoginHeld, r
  <1>2. P!Idle \in LoginRecords /\ P!Idle.at = None
    BY <1>0 DEF P!Idle, LoginRecords, OrNone
  <1>3. ASSUME P!Requested(c)
        PROVE  LoginFlow
    <2>1. PICK r \in LoginRecords : login' = [login EXCEPT ![c] = r] /\ r.at = None
      BY <1>2, <1>3 DEF P!Requested, P!Ends
    <2>2. pending' \in OrNone(Logins) /\ (holder # None => pending' = pending)
      <3>1. CASE pending' = pending
        BY <1>0, <3>1
      <3>2. CASE /\ holder = None
                 /\ pending' = [kind |-> o.kind, via |-> o.via, password |-> FALSE]
        <4>1. o.kind \in {"phone", "qr"}
          BY <1>0, <1>3 DEF P!Requested, LoginHeld, LoginRecords, OrNone
        <4>2. QED
          BY <1>0, <3>2, <4>1 DEF Logins, OrNone
      <3>3. QED
        BY <1>3, <3>1, <3>2 DEF P!Requested
    <2>3. QED
      BY <1>0, <1>3, <2>1, <2>2, Flows DEF P!Requested, LoginHeld
  <1>4. ASSUME P!Submit(c)
        PROVE  LoginFlow
    <2>1. pending \in Logins /\ pending.kind \in {"phone", "qr"} /\ pending # None
      BY <1>0, <1>4 DEF P!Submit, OrNone, Logins
    <2>2. [pending EXCEPT !.password = FALSE] \in Logins
      BY <2>1 DEF Logins
    <2>3. pending' \in Logins /\ pending' # None
      BY <1>4, <2>1, <2>2, ProxyAssumption DEF P!Submit, Logins
    <2>4. PICK l \in {"phone", "qr", "2fa"} : P!Moves(c, l)
      BY <1>4, <2>1 DEF P!Submit
    <2> DEFINE r == [o EXCEPT !.at = l]
    <2>5. login' = [login EXCEPT ![c] = r]
      BY <2>4 DEF P!Moves
    <2>6. r \in LoginRecords /\ r.at = l
      BY <1>0 DEF LoginRecords, OrNone
    <2> HIDE DEF r
    <2>7. /\ connection' = connection /\ UNCHANGED <<authProxy, account>> /\ holder' = c
          /\ o.at = None /\ holder = None
      BY <1>4 DEF P!Submit
    <2>8. /\ \A q \in Callers : q # c =>
                (login[q].at \in {"phone", "qr", "2fa"} <=> holder' = q)
          /\ \A q \in Callers : login[q].at = "request" => login[q].kind # None
      BY <2>7, ProxyAssumption DEF LoginHeld
    <2>9. /\ holder' \in OrNone(Callers) /\ pending' \in OrNone(Logins)
          /\ o.at # "register" /\ r.at # "request"
          /\ r.at \in {"phone", "qr", "2fa"} <=> holder' = c
      BY <1>0, <2>3, <2>4, <2>6, <2>7 DEF OrNone
    <2>10. QED
      BY <1>0, <2>3, <2>5, <2>6, <2>7, <2>8, <2>9, Flows
  <1>5. ASSUME P!VerifyCode(c) \/ P!CheckQrCode(c) \/ P!Verify2fa(c)
        PROVE  LoginFlow
    <2>1. holder = c /\ pending \in Logins /\ pending.via \in P!Routes
      BY <1>0, <1>5, ProxyAssumption
         DEF P!VerifyCode, P!CheckQrCode, P!Verify2fa, LoginHeld, OrNone, Logins
    <2>2. /\ o.at \in {"phone", "qr", "2fa"} /\ holder' = None
          /\ UNCHANGED <<authProxy, connection, account>>
      BY <1>5 DEF P!VerifyCode, P!CheckQrCode, P!Verify2fa, P!Answered
    <2>3. P!SignedIn(c) \/ \E b \in BOOLEAN : P!Refused(c, b)
      BY <1>5, <2>1 DEF P!VerifyCode, P!CheckQrCode, P!Verify2fa, Logins
    <2>4. PICK r \in LoginRecords : /\ login' = [login EXCEPT ![c] = r]
                                     /\ r.at \in {None, "signed"}
      <3>1. [P!Idle EXCEPT !.at = "signed", !.via = pending.via] \in LoginRecords
        BY <2>1 DEF P!Idle, LoginRecords, OrNone
      <3>2. [P!Idle EXCEPT !.at = "signed", !.via = pending.via].at = "signed"
        BY DEF P!Idle
      <3>3. QED
        BY <1>2, <2>3, <3>1, <3>2 DEF P!SignedIn, P!Refused, P!Ends
    <2>5. pending' \in OrNone(Logins)
      BY <2>1, <2>3 DEF P!SignedIn, P!Refused, Logins, OrNone
    <2>6. QED
      BY <1>0, <2>1, <2>2, <2>4, <2>5, Flows, ProxyAssumption, ZenonT(30) DEF LoginHeld, OrNone
  <1>6. ASSUME P!SwitchToReal(c)
        PROVE  LoginFlow
    <2> DEFINE r == [o EXCEPT !.at = "register"]
    <2>1. login' = [login EXCEPT ![c] = r]
      BY <1>6 DEF P!SwitchToReal, P!Moves
    <2>2. r \in LoginRecords /\ r.at = "register"
      BY <1>0 DEF LoginRecords, OrNone
    <2> HIDE DEF r
    <2>3. QED
      BY <1>0, <1>6, <2>1, <2>2, Flows DEF P!SwitchToReal, LoginHeld, r
  <1>7. QED
    BY <1>1, <1>3, <1>4, <1>5, <1>6 DEF P!LoginStep

LEMMA LoginStepKept ==
    ASSUME ProxyKept, NEW c \in Callers, P!LoginStep(c),
           UNCHANGED <<P!settings, command, startup, P!history>>
    PROVE  ProxyKept'
  <1> USE DEF P!settings, P!history
  <1>1. LoginFlow
    BY LoginStepFlows DEF ProxyKept
  <1>2. P!Route' = P!Route /\ P!Saved' = P!Saved
    BY SameRoute
  <1>3. ProxyTyped'
    BY <1>1, <1>2 DEF LoginFlow, ProxyKept, ProxyTyped
  <1>4. ConnectionOwned'
    BY <1>1 DEF LoginFlow, ProxyKept, ConnectionOwned
  <1>5. FlagsAgree'
    BY <1>2 DEF ProxyKept, FlagsAgree, Choosing
  <1>6. ~ overlap' => RouteFollowed'
    BY <1>1, <1>2 DEF LoginFlow, ProxyKept, RouteFollowed
  <1>7. QED
    BY <1>1, <1>3, <1>4, <1>5, <1>6 DEF LoginFlow, ProxyKept

LEMMA EndLoginKept ==
    ASSUME ProxyKept, NEW c \in Callers, P!EndLogin(c)
    PROVE  ProxyKept'
  <1> USE DEF P!settings, P!EndLogin, P!RegisterAccount, P!LoginAt, P!Lags
  <1>0. /\ ProxyTyped /\ LoginHeld /\ ConnectionOwned /\ FlagsAgree
        /\ (~ overlap => RouteFollowed)
    BY DEF ProxyKept
  <1>1. P!Route' = P!Route /\ P!Saved' = P!Saved
    BY SameRoute
  <1>2. PICK r \in LoginRecords : login' = [login EXCEPT ![c] = r] /\ r.at = None
    <2>1. P!Idle \in LoginRecords /\ P!Idle.at = None
      BY <1>0, RouteTyped DEF P!Idle, LoginRecords, OrNone
    <2>2. QED
      BY <2>1 DEF P!Ends
  <1>3. login'[c] = r /\ \A q \in Callers : q # c => login'[q] = login[q]
    BY <1>0, <1>2 DEF ProxyTyped
  <1>4. ProxyTyped'
    BY <1>0, <1>1, <1>2 DEF ProxyTyped
  <1>5. LoginHeld'
    <2>1. UNCHANGED <<holder, pending>> /\ login[c].at = "register" /\ holder # c
      BY <1>0, <1>3 DEF LoginHeld
    <2>2. r.at # "request" /\ r.at \notin {"phone", "qr", "2fa"}
      BY <1>2, ProxyAssumption
    <2>3. QED
      BY <1>0, <1>3, <2>1, <2>2 DEF LoginHeld
  <1>9. ConnectionOwned'
    BY <1>0 DEF ConnectionOwned
  <1>6. FlagsAgree'
    BY <1>0, <1>1 DEF FlagsAgree, Choosing
  <1>7. ~ overlap' => RouteFollowed'
    BY <1>0, <1>1, <1>3 DEF RouteFollowed
  <1>8. QED
    BY <1>4, <1>5, <1>6, <1>7, <1>9 DEF ProxyKept

\* The task of the start, the session restored, and a restart.
LEMMA StartKept ==
    ASSUME ProxyKept, P!StartupTask \/ P!RestoreSession \/ P!Restart
    PROVE  ProxyKept'
  <1> USE DEF P!settings, P!CommandAt, P!Is
  <1>0. /\ ProxyTyped /\ LoginHeld /\ ConnectionOwned /\ FlagsAgree
        /\ (~ overlap => RouteFollowed)
        /\ P!Route' = P!Route /\ P!Saved' = P!Saved
        /\ P!Route \in P!Routes /\ P!Direct \in P!Routes
    BY SameRoute, RouteTyped DEF ProxyKept, P!StartupTask, P!RestoreSession, P!Restart
  <1>1. ASSUME P!StartupTask
        PROVE  ProxyKept'
    <2>1. ProxyTyped'
      BY <1>0, <1>1 DEF P!StartupTask, ProxyTyped, OrNone
    <2>2. LoginHeld' /\ ConnectionOwned'
      BY <1>0, <1>1 DEF P!StartupTask, LoginHeld, ConnectionOwned
    <2>3. FlagsAgree'
      BY <1>0, <1>1 DEF P!StartupTask, FlagsAgree, Choosing
    <2>4. ~ overlap' => RouteFollowed'
      BY <1>0, <1>1 DEF P!StartupTask, RouteFollowed
    <2>5. QED
      BY <1>1, <2>1, <2>2, <2>3, <2>4 DEF P!StartupTask, ProxyKept
  <1>2. ASSUME P!RestoreSession
        PROVE  ProxyKept'
    <2>1. ProxyTyped'
      BY <1>0, <1>2 DEF P!RestoreSession, P!Connected, P!Lags, ProxyTyped
    <2>2. LoginHeld' /\ ConnectionOwned'
      BY <1>0, <1>2 DEF P!RestoreSession, LoginHeld, ConnectionOwned
    <2>3. FlagsAgree'
      BY <1>0, <1>2 DEF P!RestoreSession, FlagsAgree, Choosing
    <2>4. ~ overlap' => RouteFollowed'
      BY <1>0, <1>2 DEF P!RestoreSession, P!Lags, RouteFollowed
    <2>5. QED
      BY <1>2, <2>1, <2>2, <2>3, <2>4 DEF P!RestoreSession, ProxyKept
  <1>3. ASSUME P!Restart
        PROVE  ProxyKept'
    <2>1. /\ P!Idle \in LoginRecords /\ P!Idle.at = None
          /\ P!Free \in CommandRecords /\ P!Free.at = None
      BY <1>0 DEF P!Idle, LoginRecords, P!Free, CommandRecords, OrNone
    <2>2. /\ login' \in [Callers -> LoginRecords] /\ \A c \in Callers : login'[c].at = None
          /\ command' \in [Settlers -> CommandRecords]
          /\ \A s \in Settlers : command'[s].at = None
      BY <1>3, <2>1 DEF P!Restart
    <2>3. torn' \in BOOLEAN
      BY <1>0, <1>3 DEF P!Restart, ProxyTyped
    <2>4. startup' \in OrNone(P!Routes) /\ authProxy' = P!Route
      BY <1>0, <1>3 DEF P!Restart, OrNone
    <2>5. ProxyTyped'
      BY <1>0, <1>3, <2>2, <2>3, <2>4 DEF P!Restart, ProxyTyped, OrNone
    <2>6. LoginHeld' /\ ConnectionOwned'
      BY <1>3, <2>2, ProxyAssumption DEF P!Restart, LoginHeld, ConnectionOwned
    <2>7. FlagsAgree'
      <3>1. ~ torn' => flagged = {chosen} \cap P!Saved
        BY <1>0, <1>3 DEF P!Restart, FlagsAgree, Choosing, ProxyTyped
      <3>2. UNCHANGED <<flagged, chosen>>
        BY <1>3 DEF P!Restart
      <3>3. QED
        BY <1>0, <2>2, <3>1, <3>2, ProxyAssumption DEF FlagsAgree
    <2>8. RouteFollowed'
      BY <1>0, <1>3, <2>2, <2>4, ProxyAssumption DEF P!Restart, RouteFollowed
    <2>9. QED
      BY <1>3, <2>5, <2>6, <2>7, <2>8 DEF P!Restart, ProxyKept
  <1>4. QED
    BY <1>1, <1>2, <1>3

LEMMA BeginCommandKept ==
    ASSUME ProxyKept, NEW s \in Settlers, P!BeginCommand(s)
    PROVE  ProxyKept'
  <1> USE DEF P!settings, P!CommandAt
  <1>0. /\ ProxyTyped /\ LoginHeld /\ ConnectionOwned /\ FlagsAgree
        /\ (~ overlap => RouteFollowed)
        /\ P!Route' = P!Route /\ P!Saved' = P!Saved /\ P!Direct \in P!Routes
    BY SameRoute, RouteTyped DEF ProxyKept, P!BeginCommand
  <1>1. PICK r \in CommandRecords :
          /\ command' = [command EXCEPT ![s] = r]
          /\ r.at = "store"
          /\ r.op \in {"save", "delete"} => r.id \in Profiles
          /\ r.op = "save" => r.ver # 0
    <2> DEFINE Saves(p, v, b) == [P!Free EXCEPT !.at = "store", !.op = "save", !.id = p,
                                               !.ver = v, !.flag = b]
               Deletes(p) == [P!Free EXCEPT !.at = "store", !.op = "delete", !.id = p]
               Activates(p) == [P!Free EXCEPT !.at = "store", !.op = "activate", !.id = p]
               Toggles(b) == [P!Free EXCEPT !.at = "store", !.op = "toggle", !.flag = b]
               Begun(q) == /\ q \in CommandRecords /\ q.at = "store"
                           /\ q.op \in {"save", "delete"} => q.id \in Profiles
                           /\ q.op = "save" => q.ver # 0
               Puts(q) == command' = [command EXCEPT ![s] = q]
    <2>0. P!Free \in CommandRecords
      BY <1>0 DEF P!Free, CommandRecords, OrNone
    <2>1. ASSUME NEW p \in Profiles, NEW v \in Versions, NEW b \in BOOLEAN
          PROVE  Begun(Saves(p, v, b))
      BY <2>0, ProxyAssumption DEF CommandRecords, OrNone
    <2>2. ASSUME NEW p \in Profiles
          PROVE  Begun(Deletes(p))
      BY <2>0 DEF CommandRecords, OrNone
    <2>3. ASSUME NEW p \in OrNone(Profiles)
          PROVE  Begun(Activates(p))
      BY <2>0 DEF CommandRecords, OrNone
    <2>4. ASSUME NEW b \in BOOLEAN
          PROVE  Begun(Toggles(b))
      BY <2>0 DEF CommandRecords, OrNone
    <2>5. \/ \E p \in Profiles, v \in Versions, b \in BOOLEAN : Puts(Saves(p, v, b))
          \/ \E p \in Profiles : Puts(Deletes(p))
          \/ \E p \in OrNone(Profiles) : Puts(Activates(p))
          \/ \E b \in BOOLEAN : Puts(Toggles(b))
      <3>1. \/ \E p \in P!Saved \cup {q \in Profiles \ {chosen} : proxySecrets[q] = 0},
                v \in Versions : Puts(Saves(p, v, p \in flagged \/ P!Saved = {}))
            \/ \E p \in P!Saved : Puts(Deletes(p))
            \/ \E p \in P!Saved \cup {None} : Puts(Activates(p))
            \/ \E b \in BOOLEAN : Puts(Toggles(b))
        BY Zenon DEF P!BeginCommand
      <3>2. P!Saved \subseteq Profiles
        BY DEF P!Saved
      <3>3. \A p : (p \in flagged \/ P!Saved = {}) \in BOOLEAN
        OBVIOUS
      <3> HIDE DEF Saves, Deletes, Activates, Toggles, Puts
      <3>4. QED
        BY <3>1, <3>2, <3>3, Zenon DEF OrNone
    <2> HIDE DEF Saves, Deletes, Activates, Toggles, Begun
    <2>6. \E q : Begun(q) /\ command' = [command EXCEPT ![s] = q]
      BY <2>1, <2>2, <2>3, <2>4, <2>5
    <2>7. QED
      BY <2>6 DEF Begun
  <1>2. command'[s] = r /\ \A q \in Settlers : q # s => command'[q] = command[q]
    BY <1>0, <1>1, SMTT(30) DEF ProxyTyped
  <1>a. /\ command[s].at = None
        /\ UNCHANGED <<authProxy, pending, holder, login, connection, account, rows,
                      proxySecrets,
                      flagged, chosen, enabled, startup, torn, behind>>
    BY ZenonT(30) DEF P!BeginCommand
  <1>b. overlap' = \E q \in Settlers \ {s} : overlap \/ command[q].at # None
    BY DEF P!BeginCommand
  <1>c. overlap => \E q \in Settlers \ {s} : overlap
    <2>1. overlap => \E p, q \in Settlers : p # q
      BY DEF ProxyKept
    <2>2. QED
      BY <2>1
  <1>3. ~ overlap' => ~ overlap /\ \A q \in Settlers : command[q].at = None
    BY <1>a, <1>b, <1>c
  <1>4. overlap' \in BOOLEAN /\ (overlap' => \E p, q \in Settlers : p # q)
    BY <1>b
  <1>5. ProxyTyped'
    BY <1>0, <1>1, <1>4, <1>a DEF ProxyTyped
  <1>6. LoginHeld' /\ ConnectionOwned'
    BY <1>0, <1>1, <1>2, <1>a DEF LoginHeld, ConnectionOwned
  <1>7. FlagsAgree'
    <2>1. \A q \in Settlers : command'[q].at = "setting" => q # s /\ command'[q] = command[q]
      BY <1>1, <1>2
    <2>2. ~ Choosing(s) /\ \A q \in Settlers : Choosing(q)' <=> Choosing(q)
      BY <1>1, <1>2, <1>a, ProxyAssumption DEF Choosing
    <2>3. \A q \in Settlers : command'[q].at = "store" =>
            /\ command'[q].op \in {"save", "delete"} => command'[q].id \in Profiles
            /\ command'[q].op = "save" => command'[q].ver # 0
      BY <1>0, <1>1, <1>2 DEF FlagsAgree
    <2>4. \A q \in Settlers : command'[q].at = "setting" =>
            IF command'[q].op = "activate" THEN flagged' = {command'[q].id} \cap P!Saved'
            ELSE command'[q].id \in Profiles \ P!Saved'
      BY <1>0, <1>a, <2>1 DEF FlagsAgree
    <2>5. \A p, q \in Settlers :
            command'[p].at = "setting" /\ command'[q].at = "setting" => p = q
      BY <1>0, <2>1 DEF FlagsAgree
    <2>6. ~ torn' /\ (\A q \in Settlers : ~ Choosing(q)') => flagged' = {chosen'} \cap P!Saved'
      BY <1>0, <1>a, <2>2 DEF FlagsAgree
    <2>7. QED
      BY <2>2, <2>3, <2>4, <2>5, <2>6 DEF FlagsAgree
  <1>8. ~ overlap' => RouteFollowed'
    <2> SUFFICES ASSUME ~ overlap'
                 PROVE  RouteFollowed'
      OBVIOUS
    <2>1. \A q \in Settlers :
            command'[q].at \in {None, "store"} /\ (q # s => command'[q].at = None)
      BY <1>1, <1>2, <1>3
    <2>2. \A q \in Settlers : command[q].at = None
      BY <1>3
    <2>3. \A q \in Settlers : command'[q].at \notin {"apply", "reconnect"}
      BY <2>1, ProxyAssumption
    <2>4. RouteFollowed
      BY <1>0, <1>3
    <2>5. "login" \notin behind => authProxy = P!Route
      BY <2>2, <2>4 DEF RouteFollowed
    <2>6. /\ "connection" \notin behind
          /\ \A c \in Callers : login[c].at # "register"
          => connection \in {P!Route, P!NoConnection}
      BY <2>2, <2>4 DEF RouteFollowed
    <2>7. QED
      BY <1>0, <1>a, <2>1, <2>3, <2>5, <2>6 DEF RouteFollowed
  <1>9. QED
    BY <1>4, <1>5, <1>6, <1>7, <1>8, SMTT(30) DEF ProxyKept

LEMMA ProxyNextKept == ProxyKept /\ [P!ProxyNext]_proxyVars => ProxyKept'
  <1>1. CASE UNCHANGED proxyVars
    <2>1. P!Route' = P!Route /\ P!Saved' = P!Saved
      BY <1>1, SameRoute DEF proxyVars
    <2>2. QED
      BY <1>1, <2>1
         DEF proxyVars, ProxyKept, ProxyTyped, LoginHeld, ConnectionOwned, FlagsAgree,
         Choosing, RouteFollowed
  <1>2. QED
    BY <1>1, SettingKept, FollowingKept, LoginStepKept, EndLoginKept, StartKept,
       BeginCommandKept
       DEF P!ProxyNext, P!SettlerStep

LEMMA ProxyInitKept == P!ProxyInit => ProxyKept
  <1> SUFFICES ASSUME P!ProxyInit
               PROVE  ProxyKept
    OBVIOUS
  <1>1. /\ rows \in [Profiles -> Versions \cup {0}]
        /\ proxySecrets \in [Profiles -> Versions \cup {0}]
        /\ P!Saved \subseteq Profiles /\ flagged \in SUBSET P!Saved
        /\ chosen \in OrNone(Profiles)
    BY ProxyAssumption DEF P!ProxyInit, P!Saved, OrNone
  <1>2. P!Direct \in P!Routes
    BY DEF P!Direct, P!Routes
  <1>3. /\ P!Idle \in LoginRecords /\ P!Idle.at = None
        /\ P!Free \in CommandRecords /\ P!Free.at = None
    BY <1>2 DEF P!Idle, LoginRecords, P!Free, CommandRecords, OrNone
  <1>4. /\ login \in [Callers -> LoginRecords] /\ \A c \in Callers : login[c].at = None
        /\ command \in [Settlers -> CommandRecords] /\ \A s \in Settlers : command[s].at = None
    BY <1>3 DEF P!ProxyInit
  <1>5. P!Route \in P!Routes
    <2>1. P!ActiveProxy \subseteq P!Saved
      BY <1>1 DEF P!ActiveProxy
    <2>2. \A p \in P!Saved : P!Config(p) \in P!Routes
      BY <1>1, <1>2 DEF P!Config, P!Routes, P!Saved
    <2>3. QED
      BY <1>2, <2>1, <2>2 DEF P!Route
  <1>6. ProxyTyped
    BY <1>1, <1>4, <1>5 DEF P!ProxyInit, ProxyTyped, OrNone
  <1>7. LoginHeld /\ ConnectionOwned /\ FlagsAgree /\ RouteFollowed
    BY <1>4, ProxyAssumption
       DEF P!ProxyInit, LoginHeld, ConnectionOwned, FlagsAgree, RouteFollowed
  <1>8. QED
    BY <1>6, <1>7 DEF P!ProxyInit, ProxyKept

LEMMA ProxyAlwaysKept == Spec => []ProxyKept
  <1>1. Init => ProxyKept
    BY ProxyInitKept DEF Init
  <1>2. QED
    BY <1>1, ProxyNextKept, PartsMove, PTL DEF Spec

\* Whatever commands on proxies, logins and restarts come in whatever order
\* (set_active_proxy, save_proxy, delete_proxy, toggle_proxy, finalize_login,
\* the task of setup): once all is quiet, the proxy shown is the one chosen,
\* and the next login and the connection go through it, with the exceptions
\* that the property names.
THEOREM ProxyIsFollowed == Spec => []ProxyFollowsSettings
  <1>1. ProxyKept => ProxyFollowsSettings
    <2> SUFFICES ASSUME ProxyKept, P!Settled, ~ torn
                 PROVE  /\ flagged = {chosen} \cap P!Saved
                        /\ overlap \/ "login" \in behind \/ authProxy = P!Shown
                        /\ \/ overlap \/ "connection" \in behind
                           \/ connection \in {P!Shown, P!NoConnection}
      BY DEF ProxyFollowsSettings, P!ProxyFollowsSettings
    <2>1. /\ \A s \in Settlers : command[s].at = None
          /\ \A c \in Callers : login[c].at # "register"
      BY DEF P!Settled, P!CommandAt, P!LoginAt
    <2>2. flagged = {chosen} \cap P!Saved /\ P!Saved \subseteq Profiles
      BY <2>1, ProxyAssumption DEF ProxyKept, FlagsAgree, Choosing, P!Saved
    <2>3. P!ActiveProxy = flagged
      BY <2>2, ProxyAssumption DEF P!ActiveProxy
    <2>4. P!Shown = P!Route
      BY <2>3 DEF P!Shown, P!Route
    <2>5. QED
      BY <2>1, <2>2, <2>4, ProxyAssumption DEF ProxyKept, RouteFollowed
  <1>2. QED
    BY <1>1, ProxyAlwaysKept, PTL

-----------------------------------------------------------------------------
(* The tunnel                                                               *)

\* The words of a frame, and those of the frames one end has sent: U, in which
\* frame i begins at at[i].
Letters == Nat \X Nat
Size(s) == 1 + s.len + s.pad
WellShaped(S) ==
    \A s \in S : s \in [kind : {"encrypted", "plain", "short"}, len : Nat, pad : Nat]
Spells(U, at, frames) ==
    /\ U \in Seq(Letters) /\ at \in [1 .. Len(frames) + 1 -> Nat \ {0}]
    /\ at[1] = 1 /\ at[Len(frames) + 1] = Len(U) + 1
    /\ \A i \in 1 .. Len(frames) :
         /\ at[i + 1] = at[i] + Size(frames[i]) /\ at[i + 1] <= Len(U) + 1
         /\ \A j \in 0 .. frames[i].len + frames[i].pad : U[at[i] + j] = <<i, j>>

\* The words are those of U from the place a.
Cut(U, a, words) ==
    /\ words \in Seq(Letters) /\ a + Len(words) <= Len(U) + 1
    /\ \A i \in 1 .. Len(words) : words[i] = U[a + i - 1]

\* The records on a wire follow each other in the keystream, record k from
\* p[k]; the first h words of the keystream are a header, alone in its record.
Records == [type : {"data", "skip"}, pos : Nat, words : Seq(Letters)]
Carries(wire, p, U, h) ==
    /\ wire \in Seq(Records) /\ p \in [1 .. Len(wire) + 1 -> Nat]
    /\ \A k, l \in 1 .. Len(wire) + 1 : k <= l => p[k] <= p[l]
    /\ \A k \in 1 .. Len(wire) :
         /\ p[k + 1] = p[k] + Len(wire[k].words)
         /\ wire[k].type = "skip" => wire[k].words = <<>> /\ h = 0
         /\ wire[k].type = "data" =>
              /\ wire[k].pos = p[k]
              /\ IF p[k] < h THEN Len(wire[k].words) = 1
                 ELSE Cut(U, p[k] + 1 - h, wire[k].words)

Shaped(frames, shapes) == frames \in Seq(shapes) /\ Len(frames) <= FramesEach

\* What either end has sent and the other has yet to get is on the way, at
\* its place in the keystream.
UpFlow(U, at, p) ==
    /\ Spells(U, at, asked) /\ Carries(upWire, p, U, 1)
    /\ p[1] = proxy.pos /\ p[Len(upWire) + 1] = txPos
    /\ Len(proxy.got) <= Len(asked)
    /\ Cut(U, at[Len(proxy.got) + 1], proxy.buf)
    /\ at[Len(proxy.got) + 1] + Len(proxy.buf) = IF proxy.pos = 0 THEN 1 ELSE proxy.pos
    /\ txPos # 0 => Cut(U, txPos, upBuf) /\ txPos + Len(upBuf) = Len(U) + 1
UpFlows == \E U, at, p : UpFlow(U, at, p)

DownFlow(U, at, p) ==
    /\ Spells(U, at, told) /\ Carries(downWire, p, U, 0)
    /\ p[1] = rxPos /\ p[Len(downWire) + 1] = proxy.sent
    /\ Len(got) <= Len(told)
    /\ Cut(U, at[Len(got) + 1], rxBuf) /\ at[Len(got) + 1] + Len(rxBuf) = rxPos + 1
    /\ Cut(U, proxy.sent + 1, unsent) /\ proxy.sent + Len(unsent) = Len(U)
DownFlows == \E U, at, p : DownFlow(U, at, p)

Ends == [greeted : {"no", "plain", "data"}, pos : Nat, buf : Seq(Letters), sent : Nat,
         got : Seq(Letters)]

TunnelTyped ==
    /\ phase \in {"connect", "hello", "init", "tunnel", "closed"} /\ tls \in BOOLEAN
    /\ txPos \in Nat /\ rxPos \in Nat /\ seqNo \in Nat
    /\ Shaped(asked, ClientShapes) /\ Shaped(told, ServerShapes)
    /\ proxy \in Ends /\ upBuf \in Seq(Letters)

\* Nothing goes through before the header.
Early == {"connect", "hello", "init"}
Opened ==
    /\ phase \in Early => txPos = 0
    /\ phase = "tunnel" => txPos # 0
    /\ txPos = 0 => asked = <<>> /\ told = <<>> /\ upBuf = <<>> /\ upWire = <<>> /\ proxy.pos = 0

\* Downwards too, unless the greeting brought noise into the keystream.
DownTyped == downWire \in Seq(Records) /\ unsent \in Seq(Letters)
DownKept == got \in Seq(Letters) /\ seqNo = Len(got) /\ DownFlows
DownPart == DownTyped /\ (T!Misgreeted \/ DownKept)

TunnelKept == TunnelTyped /\ Opened /\ UpFlows /\ DownPart

\* Each word of a frame that ends before the end lies within.
LEMMA Inside ==
    ASSUME NEW a \in Nat \ {0}, NEW b, NEW l \in Nat, NEW m \in Nat, NEW u \in Nat,
           b = a + (1 + l + m), b <= u + 1
    PROVE  \A j \in 0 .. l + m : a + j \in 1 .. u
  OBVIOUS

\* The words of a frame.
LEMMA WordsOf ==
    ASSUME NEW f \in Nat,
           NEW s \in [kind : {"encrypted", "plain", "short"}, len : Nat, pad : Nat]
    PROVE  /\ T!Words(f, s) \in Seq(Letters) /\ Len(T!Words(f, s)) = Size(s)
           /\ \A j \in 0 .. s.len + s.pad : T!Words(f, s)[1 + j] = <<f, j>>
  <1>1. s.len \in Nat /\ s.pad \in Nat /\ 1 + s.len + s.pad \in Nat
    OBVIOUS
  <1>2. \A i \in 1 .. 1 + s.len + s.pad : <<f, i - 1>> \in Letters
    BY <1>1 DEF Letters
  <1> DEFINE n == 1 + s.len + s.pad
             Word == [i \in 1 .. n |-> <<f, i - 1>>]
  <1>3. Word \in [1 .. n -> Letters]
    BY <1>2
  <1>4. Word \in Seq(Letters) /\ Len(Word) = n
    <2>1. n \in Nat
      BY <1>1
    <2> HIDE DEF n, Word
    <2>2. QED
      BY <1>3, <2>1
  <1>5. \A j \in 0 .. s.len + s.pad : Word[1 + j] = <<f, j>>
    <2> SUFFICES ASSUME NEW j \in 0 .. s.len + s.pad
                 PROVE  Word[1 + j] = <<f, j>>
      OBVIOUS
    <2>1. 1 + j \in 1 .. n /\ (1 + j) - 1 = j
      BY <1>1
    <2>2. QED
      BY <2>1
  <1>6. QED
    BY <1>4, <1>5 DEF T!Words, Size

\* Words that follow each other, the first of them and those after, more of U.
LEMMA CutJoins ==
    ASSUME NEW U \in Seq(Letters), NEW a \in Nat \ {0}, NEW v, NEW w,
           Cut(U, a, v), Cut(U, a + Len(v), w)
    PROVE  Cut(U, a, v \o w)
  <1>1. v \o w \in Seq(Letters) /\ Len(v \o w) = Len(v) + Len(w)
    BY DEF Cut
  <1>2. ASSUME NEW i \in 1 .. Len(v \o w)
        PROVE  (v \o w)[i] = U[a + i - 1]
    <2>1. CASE i <= Len(v)
      BY <1>1, <2>1 DEF Cut
    <2>2. CASE i > Len(v)
      <3>1. i - Len(v) \in 1 .. Len(w) /\ (v \o w)[i] = w[i - Len(v)]
        BY <1>1, <2>2 DEF Cut
      <3>2. w[i - Len(v)] = U[a + Len(v) + (i - Len(v)) - 1]
        BY <3>1 DEF Cut
      <3>3. a + Len(v) + (i - Len(v)) - 1 = a + i - 1
        BY DEF Cut
      <3>4. QED
        BY <3>1, <3>2, <3>3
    <2>3. QED
      BY <1>1, <2>1, <2>2 DEF Cut
  <1>3. QED
    BY <1>1, <1>2 DEF Cut

LEMMA CutSplits ==
    ASSUME NEW U \in Seq(Letters), NEW a \in Nat \ {0}, NEW w, Cut(U, a, w),
           NEW n \in 0 .. Len(w)
    PROVE  /\ Cut(U, a, SubSeq(w, 1, n)) /\ Len(SubSeq(w, 1, n)) = n
           /\ Cut(U, a + n, T!Rest(w, n)) /\ Len(T!Rest(w, n)) = Len(w) - n
  <1>1. /\ SubSeq(w, 1, n) \in Seq(Letters) /\ Len(SubSeq(w, 1, n)) = n
        /\ \A i \in 1 .. n : SubSeq(w, 1, n)[i] = w[i]
    BY DEF Cut
  <1>2. /\ T!Rest(w, n) \in Seq(Letters) /\ Len(T!Rest(w, n)) = Len(w) - n
        /\ \A i \in 1 .. Len(w) - n : T!Rest(w, n)[i] = w[n + i]
    BY DEF Cut, T!Rest
  <1>3. Cut(U, a, SubSeq(w, 1, n))
    BY <1>1 DEF Cut
  <1>4. Cut(U, a + n, T!Rest(w, n))
    <2>1. ASSUME NEW i \in 1 .. Len(w) - n
          PROVE  T!Rest(w, n)[i] = U[a + n + i - 1]
      <3>1. n + i \in 1 .. Len(w)
        BY DEF Cut
      <3>2. w[n + i] = U[a + (n + i) - 1]
        BY <3>1 DEF Cut
      <3>3. a + (n + i) - 1 = a + n + i - 1
        BY DEF Cut
      <3>4. QED
        BY <1>2, <3>2, <3>3
    <2>2. a + n + (Len(w) - n) <= Len(U) + 1
      BY DEF Cut
    <2>3. QED
      BY <1>2, <2>1, <2>2 DEF Cut
  <1>5. QED
    BY <1>1, <1>2, <1>3, <1>4

LEMMA CutGrows ==
    ASSUME NEW U \in Seq(Letters), NEW More \in Seq(Letters), NEW a \in Nat \ {0},
           NEW w, Cut(U, a, w)
    PROVE  Cut(U \o More, a, w)
  <1>1. /\ U \o More \in Seq(Letters) /\ Len(U \o More) = Len(U) + Len(More)
        /\ \A i \in 1 .. Len(U) : (U \o More)[i] = U[i]
    OBVIOUS
  <1>2. \A i \in 1 .. Len(w) : a + i - 1 \in 1 .. Len(U)
    BY DEF Cut
  <1>3. QED
    BY <1>1, <1>2 DEF Cut

\* One frame more.
LEMMA SpellsMore ==
    ASSUME NEW S, WellShaped(S),
           NEW s \in S, NEW frames \in Seq(S), NEW U, NEW at, Spells(U, at, frames),
           NEW More, More = T!Words(Len(frames) + 1, s)
    PROVE  /\ Cut(U \o More, Len(U) + 1, More) /\ Len(U \o More) = Len(U) + Len(More)
           /\ \E b : /\ Spells(U \o More, b, Append(frames, s))
                     /\ \A i \in 1 .. Len(frames) + 1 : b[i] = at[i]
  <1> DEFINE n == Len(frames)
             b == [i \in 1 .. n + 2 |-> IF i <= n + 1 THEN at[i] ELSE at[n + 1] + Size(s)]
             more == Append(frames, s)
  <1>1. /\ s.len \in Nat /\ s.pad \in Nat /\ Size(s) \in Nat /\ n \in Nat
        /\ \A i \in 1 .. n : frames[i].len \in Nat /\ frames[i].pad \in Nat
    BY DEF Size, WellShaped
  <1>2. /\ More \in Seq(Letters) /\ Len(More) = Size(s) /\ U \in Seq(Letters)
        /\ \A j \in 0 .. s.len + s.pad : More[1 + j] = <<n + 1, j>>
    BY <1>1, WordsOf DEF Spells, WellShaped
  <1>3. /\ U \o More \in Seq(Letters) /\ Len(U \o More) = Len(U) + Len(More)
        /\ \A i \in 1 .. Len(U) : (U \o More)[i] = U[i]
        /\ \A i \in 1 .. Len(More) : (U \o More)[Len(U) + i] = More[i]
    BY <1>2
  <1>4. more \in Seq(S) /\ Len(more) = n + 1 /\ more[n + 1] = s /\ \A i \in 1 .. n : more[i] = frames[i]
    OBVIOUS
  <1> HIDE DEF more
  <1>5. Cut(U \o More, Len(U) + 1, More)
    BY <1>2, <1>3 DEF Cut
  <1>6. /\ at \in [1 .. n + 1 -> Nat \ {0}] /\ at[1] = 1 /\ at[n + 1] = Len(U) + 1
        /\ \A i \in 1 .. n : /\ at[i + 1] = at[i] + Size(frames[i]) /\ at[i + 1] <= Len(U) + 1
                             /\ \A j \in 0 .. frames[i].len + frames[i].pad : U[at[i] + j] = <<i, j>>
    BY DEF Spells
  <1>7. b \in [1 .. n + 2 -> Nat \ {0}] /\ b[1] = 1 /\ b[n + 2] = Len(U) + 1 + Size(s)
    BY <1>1, <1>6
  <1>8. \A i \in 1 .. n + 1 : b[i] = at[i]
    BY <1>1
  <1> HIDE DEF b
  <1>9. ASSUME NEW i \in 1 .. n
        PROVE  /\ b[i + 1] = b[i] + Size(more[i]) /\ b[i + 1] <= Len(U \o More) + 1
               /\ \A j \in 0 .. more[i].len + more[i].pad : (U \o More)[b[i] + j] = <<i, j>>
    <2>0. i \in 1 .. n + 1 /\ i + 1 \in 1 .. n + 1
      BY <1>1
    <2>1. b[i] = at[i] /\ b[i + 1] = at[i + 1] /\ more[i] = frames[i]
      BY <1>4, <1>8, <2>0
    <2>2. at[i] \in Nat \ {0} /\ at[i + 1] \in Nat /\ Len(U) \in Nat /\ Len(More) \in Nat
      <3>1. Len(U) \in Nat /\ Len(More) \in Nat
        BY <1>2
      <3>2. QED
        BY <1>6, <2>0, <3>1
    <2>3. \A j \in 0 .. frames[i].len + frames[i].pad : at[i] + j \in 1 .. Len(U)
      <3>1. at[i + 1] = at[i] + (1 + frames[i].len + frames[i].pad) /\ at[i + 1] <= Len(U) + 1
        BY <1>6 DEF Size
      <3>2. frames[i].len \in Nat /\ frames[i].pad \in Nat
        BY <1>1
      <3>3. QED
        BY <2>2, <3>1, <3>2, Inside
    <2>4. b[i + 1] = b[i] + Size(more[i]) /\ b[i + 1] <= Len(U \o More) + 1
      BY <1>3, <1>6, <2>1, <2>2
    <2>5. \A j \in 0 .. more[i].len + more[i].pad : (U \o More)[b[i] + j] = <<i, j>>
      BY <1>3, <1>6, <2>1, <2>3
    <2>6. QED
      BY <2>4, <2>5
  <1>10. /\ b[n + 2] = b[n + 1] + Size(more[n + 1]) /\ b[n + 2] <= Len(U \o More) + 1
         /\ \A j \in 0 .. more[n + 1].len + more[n + 1].pad : (U \o More)[b[n + 1] + j] = <<n + 1, j>>
    <2>1. b[n + 1] = Len(U) + 1 /\ more[n + 1] = s
      BY <1>1, <1>4, <1>6, <1>8
    <2>2. \A j \in 0 .. s.len + s.pad : 1 + j \in 1 .. Len(More) /\ (U \o More)[Len(U) + (1 + j)] = More[1 + j]
      <3> SUFFICES ASSUME NEW j \in 0 .. s.len + s.pad
                   PROVE  /\ 1 + j \in 1 .. Len(More)
                          /\ (U \o More)[Len(U) + (1 + j)] = More[1 + j]
        OBVIOUS
      <3>1. 1 + j \in 1 .. Len(More)
        BY <1>1, <1>2, SMTT(30) DEF Size
      <3>2. QED
        BY <1>2, <1>3, <3>1
    <2>3. \A j \in 0 .. s.len + s.pad : Len(U) + (1 + j) = b[n + 1] + j
      BY <1>1, <1>2, <2>1
    <2>4. \A j \in 0 .. s.len + s.pad : (U \o More)[b[n + 1] + j] = <<n + 1, j>>
      BY <1>2, <2>2, <2>3
    <2>5. b[n + 2] = b[n + 1] + Size(more[n + 1]) /\ b[n + 2] <= Len(U \o More) + 1
      BY <1>1, <1>2, <1>3, <1>7, <2>1
    <2>6. QED
      BY <2>1, <2>4, <2>5
  <1>11. \A i \in 1 .. n + 1 : i \in 1 .. n \/ i = n + 1
    BY <1>1
  <1>12. Spells(U \o More, b, more)
    <2>1. Len(more) + 1 = n + 2 /\ (n + 1) + 1 = n + 2
      BY <1>1, <1>4
    <2>2. b[Len(more) + 1] = Len(U \o More) + 1
      <3>1. Len(U) \in Nat /\ Len(More) = Size(s) /\ Len(U \o More) = Len(U) + Len(More)
        BY <1>2, <1>3
      <3>2. b[Len(more) + 1] = Len(U) + 1 + Size(s) /\ Size(s) \in Nat
        BY <1>1, <1>7, <2>1
      <3>3. Len(U \o More) + 1 = Len(U) + 1 + Size(s)
        BY <3>1, <3>2
      <3>4. QED
        BY <3>2, <3>3
    <2>3. \A i \in 1 .. Len(more) :
            /\ b[i + 1] = b[i] + Size(more[i]) /\ b[i + 1] <= Len(U \o More) + 1
            /\ \A j \in 0 .. more[i].len + more[i].pad : (U \o More)[b[i] + j] = <<i, j>>
      BY <1>4, <1>9, <1>10, <1>11, <2>1
    <2>4. QED
      BY <1>3, <1>7, <2>1, <2>2, <2>3 DEF Spells
  <1>13. QED
    BY <1>3, <1>5, <1>8, <1>12 DEF more

\* A reader that has got g frames and holds the words from there on: what it
\* holds begins with the next frame.
LEMMA NextFrame ==
    ASSUME NEW S, WellShaped(S),
           NEW frames \in Seq(S), NEW U, NEW at, Spells(U, at, frames),
           NEW g \in 0 .. Len(frames), NEW buf, Cut(U, at[g + 1], buf), buf # <<>>
    PROVE  /\ g + 1 \in 1 .. Len(frames) /\ Head(buf) = <<g + 1, 0>>
           /\ T!Ready(buf, frames) <=> Len(buf) >= Size(frames[g + 1])
           /\ Len(buf) >= Size(frames[g + 1]) =>
                /\ Cut(U, at[g + 2], T!Rest(buf, Size(frames[g + 1])))
                /\ at[g + 2] + Len(T!Rest(buf, Size(frames[g + 1]))) = at[g + 1] + Len(buf)
  <1>1. /\ U \in Seq(Letters) /\ buf \in Seq(Letters) /\ Len(buf) \in Nat \ {0}
        /\ Len(U) \in Nat
        /\ at[g + 1] \in Nat \ {0} /\ at[g + 1] + Len(buf) <= Len(U) + 1
        /\ Head(buf) = buf[1] /\ buf[1] = U[at[g + 1] + 1 - 1] /\ Len(frames) \in Nat
    <2>1. U \in Seq(Letters) /\ buf \in Seq(Letters) /\ Len(frames) \in Nat /\ Len(U) \in Nat
      BY DEF Cut, Spells
    <2>2. Len(buf) \in Nat \ {0} /\ Head(buf) = buf[1] /\ 1 \in 1 .. Len(buf)
      BY <2>1
    <2>3. g + 1 \in 1 .. Len(frames) + 1
      BY <2>1
    <2>4. at[g + 1] \in Nat \ {0}
      BY <2>3 DEF Spells
    <2>5. QED
      BY <2>1, <2>2, <2>4 DEF Cut
  <1>2. g + 1 \in 1 .. Len(frames)
    BY <1>1 DEF Spells
  <1> DEFINE s == frames[g + 1]
  <1>3. s.len \in Nat /\ s.pad \in Nat /\ Size(s) \in Nat
    BY <1>2 DEF Size, WellShaped
  <1>4. 0 \in 0 .. s.len + s.pad /\ at[g + 1] + 1 - 1 = at[g + 1] + 0
    <2>1. PICK a \in Nat : a = at[g + 1]
      BY <1>1
    <2>2. QED
      BY <1>3, <2>1
  <1>5. Head(buf) = <<g + 1, 0>> /\ at[(g + 1) + 1] = at[g + 1] + Size(s)
    BY <1>1, <1>2, <1>4 DEF Spells
  <1>6. Head(buf)[1] = g + 1 /\ Head(buf)[2] = 0 /\ Head(buf) # T!Noise /\ (g + 1) + 1 = g + 2
    <2>1. g + 1 # 0 /\ (g + 1) + 1 = g + 2
      BY <1>2
    <2>2. <<g + 1, 0>> # <<0, 0>>
      BY <2>1
    <2>3. QED
      BY <1>5, <2>1, <2>2 DEF T!Noise
  <1>7. T!Ready(buf, frames) <=> Len(buf) >= Size(s)
    <2>1. T!Ready(buf, frames) <=> Len(buf) > s.len + s.pad
      <3> DEFINE hd == Head(buf)
                 fr == frames[hd[1]]
      <3>1. fr = s /\ hd # T!Noise /\ hd[2] = 0 /\ buf # <<>>
        BY <1>6
      <3>2. T!Ready(buf, frames) <=>
              buf # <<>> /\ (hd # T!Noise /\ hd[2] = 0 => Len(buf) > fr.len + fr.pad)
        BY DEF T!Ready
      <3> HIDE DEF hd, fr
      <3>3. QED
        BY <3>1, <3>2
    <2>2. Len(buf) > s.len + s.pad <=> Len(buf) >= Size(s)
      <3>1. Len(buf) \in Nat /\ s.len \in Nat /\ s.pad \in Nat /\ Size(s) = 1 + s.len + s.pad
        BY <1>1, <1>3 DEF Size
      <3> HIDE DEF s
      <3>2. QED
        BY <3>1
    <2>3. QED
      BY <2>1, <2>2, Zenon
  <1>8. Len(buf) >= Size(s) =>
          /\ Cut(U, at[g + 2], T!Rest(buf, Size(s)))
          /\ at[g + 2] + Len(T!Rest(buf, Size(s))) = at[g + 1] + Len(buf)
    <2> SUFFICES ASSUME Len(buf) >= Size(s)
                 PROVE  /\ Cut(U, at[g + 2], T!Rest(buf, Size(s)))
                        /\ at[g + 2] + Len(T!Rest(buf, Size(s))) = at[g + 1] + Len(buf)
      OBVIOUS
    <2>1. Size(s) \in 0 .. Len(buf)
      BY <1>1, <1>3
    <2>2. /\ Cut(U, at[g + 1] + Size(s), T!Rest(buf, Size(s)))
          /\ Len(T!Rest(buf, Size(s))) = Len(buf) - Size(s)
      <3> DEFINE a == at[g + 1]
                 z == Size(s)
      <3>1. a \in Nat \ {0} /\ z \in 0 .. Len(buf) /\ Cut(U, a, buf) /\ U \in Seq(Letters)
        BY <1>1, <2>1
      <3> HIDE DEF a, z
      <3>2. Cut(U, a + z, T!Rest(buf, z)) /\ Len(T!Rest(buf, z)) = Len(buf) - z
        BY <3>1, CutSplits
      <3>3. QED
        BY <3>2 DEF a, z
    <2>3. at[g + 2] = at[g + 1] + Size(s)
      BY <1>5, <1>6
    <2>4. Len(T!Rest(buf, Size(s))) = Len(buf) - Size(s) /\ Len(buf) \in Nat
      BY <1>1, <2>2
    <2>5. at[g + 2] + Len(T!Rest(buf, Size(s))) = at[g + 1] + Len(buf)
      BY <1>1, <1>3, <2>3, <2>4
    <2>6. QED
      BY <2>2, <2>3, <2>5
  <1>9. QED
    BY <1>2, <1>5, <1>7, <1>8

\* A record more, a record less, more to be carried.
LEMMA CarriesMore ==
    ASSUME NEW wire, NEW p, NEW U, NEW h \in {0, 1}, Carries(wire, p, U, h),
           NEW r \in Records, r.type = "data", r.pos = p[Len(wire) + 1],
           IF r.pos < h THEN Len(r.words) = 1 ELSE Cut(U, r.pos + 1 - h, r.words)
    PROVE  \E q : /\ Carries(Append(wire, r), q, U, h) /\ q[1] = p[1]
                  /\ q[Len(Append(wire, r)) + 1] = p[Len(wire) + 1] + Len(r.words)
  <1> DEFINE n == Len(wire)
             more == Append(wire, r)
             q == [k \in 1 .. n + 2 |-> IF k <= n + 1 THEN p[k] ELSE p[n + 1] + Len(r.words)]
  <1>1. /\ wire \in Seq(Records) /\ n \in Nat /\ p \in [1 .. n + 1 -> Nat]
        /\ Len(r.words) \in Nat
        /\ \A k, l \in 1 .. n + 1 : k <= l => p[k] <= p[l]
    BY DEF Carries, Records
  <1>2. /\ more \in Seq(Records) /\ Len(more) = n + 1 /\ more[n + 1] = r
        /\ \A k \in 1 .. n : more[k] = wire[k]
    BY <1>1
  <1>3. /\ q \in [1 .. n + 2 -> Nat] /\ \A k \in 1 .. n + 1 : q[k] = p[k]
        /\ q[n + 2] = p[n + 1] + Len(r.words)
    BY <1>1, SMTT(30)
  <1> HIDE DEF q, more
  <1>4. \A k, l \in 1 .. n + 2 : k <= l => q[k] <= q[l]
    <2> SUFFICES ASSUME NEW k \in 1 .. n + 2, NEW l \in 1 .. n + 2, k <= l
                 PROVE  q[k] <= q[l]
      OBVIOUS
    <2>1. CASE l <= n + 1
      BY <1>1, <1>3, <2>1
    <2>2. CASE l = n + 2 /\ k = n + 2
      BY <1>1, <1>3, <2>2
    <2>3. CASE l = n + 2 /\ k <= n + 1
      <3>1. p[k] <= p[n + 1] /\ p[k] \in Nat /\ p[n + 1] \in Nat
        BY <1>1, <2>3
      <3>2. QED
        BY <1>1, <1>3, <2>3, <3>1
    <2>4. QED
      BY <1>1, <2>1, <2>2, <2>3
  <1>5. \A k \in 1 .. n + 1 :
          /\ q[k + 1] = q[k] + Len(more[k].words)
          /\ more[k].type = "skip" => more[k].words = <<>> /\ h = 0
          /\ more[k].type = "data" =>
               /\ more[k].pos = q[k]
               /\ IF q[k] < h THEN Len(more[k].words) = 1
                  ELSE Cut(U, q[k] + 1 - h, more[k].words)
    <2> SUFFICES ASSUME NEW k \in 1 .. n + 1
                 PROVE  /\ q[k + 1] = q[k] + Len(more[k].words)
                        /\ more[k].type = "skip" => more[k].words = <<>> /\ h = 0
                        /\ more[k].type = "data" =>
                             /\ more[k].pos = q[k]
                             /\ IF q[k] < h THEN Len(more[k].words) = 1
                                ELSE Cut(U, q[k] + 1 - h, more[k].words)
      OBVIOUS
    <2>1. CASE k \in 1 .. n
      <3>1. q[k] = p[k] /\ q[k + 1] = p[k + 1] /\ more[k] = wire[k]
        BY <1>1, <1>2, <1>3, <2>1
      <3>2. QED
        BY <2>1, <3>1 DEF Carries
    <2>2. CASE k = n + 1
      <3>1. q[k] = p[n + 1] /\ q[k + 1] = p[n + 1] + Len(r.words) /\ more[k] = r
        BY <1>1, <1>2, <1>3, <2>2
      <3>2. QED
        BY <3>1
    <2>3. QED
      BY <1>1, <2>1, <2>2
  <1>6. Len(more) + 1 = n + 2
    BY <1>1, <1>2
  <1>7. Carries(more, q, U, h)
    BY <1>2, <1>3, <1>4, <1>5, <1>6 DEF Carries
  <1>8. q[1] = p[1] /\ q[Len(more) + 1] = p[n + 1] + Len(r.words)
    BY <1>1, <1>3, <1>6
  <1>9. QED
    BY <1>7, <1>8 DEF more

LEMMA CarriesLess ==
    ASSUME NEW wire, NEW p, NEW U, NEW h \in {0, 1}, Carries(wire, p, U, h), wire # <<>>
    PROVE  \E q : /\ Carries(Tail(wire), q, U, h) /\ q[1] = p[1] + Len(Head(wire).words)
                  /\ q[Len(Tail(wire)) + 1] = p[Len(wire) + 1]
  <1> DEFINE n == Len(wire)
             less == Tail(wire)
             q == [k \in 1 .. n |-> p[k + 1]]
  <1>1. /\ wire \in Seq(Records) /\ n \in Nat \ {0} /\ p \in [1 .. n + 1 -> Nat]
        /\ \A k, l \in 1 .. n + 1 : k <= l => p[k] <= p[l]
        /\ Head(wire) = wire[1] /\ 1 \in 1 .. n
    BY DEF Carries
  <1>2. less \in Seq(Records) /\ Len(less) = n - 1 /\ \A k \in 1 .. n - 1 : less[k] = wire[k + 1]
    BY <1>1
  <1>3. q \in [1 .. n -> Nat] /\ \A k \in 1 .. n : q[k] = p[k + 1]
    BY <1>1
  <1> HIDE DEF q, less
  <1>4. \A k, l \in 1 .. n : k <= l => q[k] <= q[l]
    <2> SUFFICES ASSUME NEW k \in 1 .. n, NEW l \in 1 .. n, k <= l
                 PROVE  q[k] <= q[l]
      OBVIOUS
    <2>1. k + 1 \in 1 .. n + 1 /\ l + 1 \in 1 .. n + 1 /\ k + 1 <= l + 1
      BY <1>1
    <2>2. QED
      BY <1>1, <1>3, <2>1
  <1>5. \A k \in 1 .. n - 1 :
          /\ q[k + 1] = q[k] + Len(less[k].words)
          /\ less[k].type = "skip" => less[k].words = <<>> /\ h = 0
          /\ less[k].type = "data" =>
               /\ less[k].pos = q[k]
               /\ IF q[k] < h THEN Len(less[k].words) = 1
                  ELSE Cut(U, q[k] + 1 - h, less[k].words)
    <2> SUFFICES ASSUME NEW k \in 1 .. n - 1
                 PROVE  /\ q[k + 1] = q[k] + Len(less[k].words)
                        /\ less[k].type = "skip" => less[k].words = <<>> /\ h = 0
                        /\ less[k].type = "data" =>
                             /\ less[k].pos = q[k]
                             /\ IF q[k] < h THEN Len(less[k].words) = 1
                                ELSE Cut(U, q[k] + 1 - h, less[k].words)
      OBVIOUS
    <2>1. k + 1 \in 1 .. n /\ k \in 1 .. n
      BY <1>1
    <2>2. q[k] = p[k + 1] /\ q[k + 1] = p[(k + 1) + 1] /\ less[k] = wire[k + 1]
      BY <1>2, <1>3, <2>1
    <2>3. QED
      BY <2>1, <2>2 DEF Carries
  <1>6. Len(less) + 1 = n
    BY <1>1, <1>2
  <1>7. Carries(less, q, U, h)
    BY <1>2, <1>3, <1>4, <1>5, <1>6 DEF Carries
  <1>8. q[1] = p[1] + Len(Head(wire).words) /\ q[Len(less) + 1] = p[n + 1]
    <2>1. p[1 + 1] = p[1] + Len(wire[1].words)
      BY <1>1 DEF Carries
    <2>2. q[1] = p[1 + 1] /\ q[n] = p[n + 1]
      BY <1>1, <1>3
    <2>3. QED
      BY <1>1, <1>6, <2>1, <2>2
  <1>9. QED
    BY <1>7, <1>8 DEF less

LEMMA CarriesOn ==
    ASSUME NEW U \in Seq(Letters), NEW More \in Seq(Letters), NEW wire, NEW p, NEW h \in {0, 1},
           Carries(wire, p, U, h)
    PROVE  Carries(wire, p, U \o More, h)
  <1>1. ASSUME NEW k \in 1 .. Len(wire), wire[k].type = "data"
        PROVE  IF p[k] < h THEN Len(wire[k].words) = 1
               ELSE Cut(U \o More, p[k] + 1 - h, wire[k].words)
    <2>1. p[k] \in Nat
      <3>1. Len(wire) \in Nat /\ p \in [1 .. Len(wire) + 1 -> Nat]
        BY DEF Carries
      <3>2. k \in 1 .. Len(wire) + 1
        BY <3>1
      <3>3. QED
        BY <3>1, <3>2
    <2>2. CASE p[k] < h
      BY <1>1, <2>2 DEF Carries
    <2>3. CASE ~ (p[k] < h)
      <3>1. p[k] + 1 - h \in Nat \ {0} /\ Cut(U, p[k] + 1 - h, wire[k].words)
        BY <1>1, <2>1, <2>3 DEF Carries
      <3>2. QED
        BY <2>3, <3>1, CutGrows
    <2>4. QED
      BY <2>2, <2>3
  <1>2. QED
    BY <1>1 DEF Carries

\* strip_mtproto_padding finds the length the frame had before it was padded,
\* of all but a short one.
LEMMA StripsPadding ==
    ASSUME NEW s \in ServerShapes
    PROVE  T!StripMtprotoPadding(s) = T!Kept(s) /\ T!Kept(s) \in Nat
  <1>1. /\ s.kind \in {"encrypted", "plain", "short"} /\ s.len \in Nat /\ s.pad \in Nat
        /\ s.kind = "encrypted" => s.len >= 6 /\ (s.len - 2) % 4 = 0
        /\ s.kind = "plain" => s.len >= 5
        /\ s.kind = "short" => s.len = 1
        /\ s.pad < 4
    BY TunnelAssumption
  <1>2. CASE s.kind = "encrypted"
    <2>1. (s.len + s.pad - 2) % 4 = s.pad
      BY <1>1, <1>2
    <2>2. QED
      BY <1>1, <1>2, <2>1 DEF T!StripMtprotoPadding, T!Kept
  <1>3. CASE s.kind = "plain"
    BY <1>1, <1>3 DEF T!StripMtprotoPadding, T!Kept
  <1>4. CASE s.kind = "short"
    BY <1>1, <1>4 DEF T!StripMtprotoPadding, T!Kept
  <1>5. QED
    BY <1>1, <1>2, <1>3, <1>4

LEMMA ClientKeeps ==
    ASSUME NEW s \in ClientShapes
    PROVE  T!Kept(s) \in Nat
  <1>1. s.len \in Nat /\ s.pad \in Nat
    BY TunnelAssumption
  <1>2. QED
    BY <1>1 DEF T!Kept

\* What leaves one direction alone keeps its flow.
LEMMA UpSame ==
    ASSUME UpFlows, UNCHANGED <<asked, upBuf, upWire, txPos>>,
           proxy'.pos = proxy.pos, proxy'.buf = proxy.buf, proxy'.got = proxy.got
    PROVE  UpFlows'
  BY DEF UpFlows, UpFlow

LEMMA DownSame ==
    ASSUME DownPart, UNCHANGED <<told, unsent, downWire, rxPos, rxBuf, got, seqNo>>,
           proxy'.sent = proxy.sent, proxy'.greeted = proxy.greeted
    PROVE  DownPart'
  BY DEF DownPart, DownTyped, DownKept, DownFlows, DownFlow, T!Misgreeted

\* Before the header, nothing is there.
LEMMA NothingDown ==
    ASSUME TunnelKept, txPos = 0, NEW U, NEW at, NEW p, DownFlow(U, at, p)
    PROVE  rxPos = 0 /\ proxy.sent = 0 /\ Len(U) = 0 /\ \A k \in 1 .. Len(downWire) + 1 : p[k] = 0
  <1>0. /\ Spells(U, at, told) /\ Carries(downWire, p, U, 0)
        /\ p[1] = rxPos /\ p[Len(downWire) + 1] = proxy.sent
        /\ Cut(U, proxy.sent + 1, unsent) /\ proxy.sent + Len(unsent) = Len(U)
    BY DEF DownFlow
  <1>1. told = <<>> /\ rxPos \in Nat /\ proxy.sent \in Nat
    BY DEF TunnelKept, Opened, TunnelTyped, Ends
  <1>2. Len(U) = 0
    BY <1>0, <1>1 DEF Spells
  <1>3. Len(unsent) \in Nat /\ Len(downWire) \in Nat
    BY <1>0 DEF Cut, Carries
  <1>4. proxy.sent = 0
    BY <1>0, <1>1, <1>2, <1>3
  <1>5. \A k \in 1 .. Len(downWire) + 1 : p[k] <= p[Len(downWire) + 1] /\ p[k] \in Nat
    BY <1>0, <1>3, SMTT(30) DEF Carries
  <1>6. \A k \in 1 .. Len(downWire) + 1 : p[k] = 0
    BY <1>0, <1>4, <1>5
  <1>7. QED
    BY <1>0, <1>2, <1>3, <1>4, <1>6

\* The handshake, the header and the end.
LEMMA HandshakeKept ==
    ASSUME TunnelKept, T!Connect \/ T!Greet \/ T!Greeted \/ T!SendInit \/ T!Close
    PROVE  TunnelKept' /\ UNCHANGED <<asked, told, got>> /\ proxy'.got = proxy.got
  <1> USE DEF T!upVars, T!downVars, UpFlow, DownFlow
  <1>0. TunnelTyped /\ Opened /\ UpFlows /\ DownPart
    BY DEF TunnelKept
  <1>1. CASE T!Connect \/ T!Close
    <2>1. TunnelTyped' /\ Opened'
      BY <1>0, <1>1 DEF T!Connect, T!Close, TunnelTyped, Opened, Early
    <2>2. UpFlows' /\ DownPart'
      BY <1>0, <1>1, UpSame, DownSame DEF T!Connect, T!Close
    <2>3. QED
      BY <1>0, <1>1, <2>1, <2>2 DEF T!Connect, T!Close, TunnelKept
  <1>2. CASE T!Greet
    <2>1. /\ phase = "hello" /\ UNCHANGED <<phase, asked, told, got, seqNo>>
          /\ proxy.greeted = "no"
          /\ \/ proxy' = [proxy EXCEPT !.greeted = "plain"]
             \/ proxy' = [proxy EXCEPT !.greeted = "data"]
          /\ UNCHANGED <<tls, upBuf, upWire, txPos, unsent, rxPos, rxBuf>>
      BY <1>2 DEF T!Greet
    <2>2. TunnelTyped' /\ Opened'
      <3>1. proxy' \in Ends
        <4>1. CASE proxy' = [proxy EXCEPT !.greeted = "plain"]
          BY <1>0, <4>1 DEF TunnelTyped, Ends
        <4>2. CASE proxy' = [proxy EXCEPT !.greeted = "data"]
          BY <1>0, <4>2 DEF TunnelTyped, Ends
        <4>3. QED
          BY <2>1, <4>1, <4>2
      <3>2. proxy'.pos = proxy.pos
        BY <1>0, <2>1 DEF TunnelTyped, Ends
      <3>3. TunnelTyped'
        BY <1>0, <2>1, <3>1 DEF TunnelTyped
      <3>4. QED
        BY <1>0, <2>1, <3>2, <3>3 DEF Opened
    <2>3. /\ proxy'.pos = proxy.pos /\ proxy'.buf = proxy.buf /\ proxy'.sent = proxy.sent
          /\ proxy'.got = proxy.got
      BY <1>0, <2>1 DEF TunnelTyped, Ends
    <2>4. UpFlows'
      BY <1>0, <2>1, <2>3, UpSame
    <2>5. CASE downWire' \in {<<T!Skipped>>, <<T!Skipped, T!Skipped>>}
      <3>1. PICK U, at, p : DownFlow(U, at, p)
        BY <1>0, <2>1 DEF DownPart, DownKept, DownFlows, T!Misgreeted
      <3>2. txPos = 0
        BY <1>0, <2>1 DEF Opened, Early
      <3>3. rxPos = 0 /\ proxy.sent = 0
        BY <3>1, <3>2, NothingDown
      <3>4. \E q : Carries(downWire', q, U, 0) /\ q[1] = 0 /\ q[Len(downWire') + 1] = 0
        <4> DEFINE q == [k \in 1 .. Len(downWire') + 1 |-> 0]
        <4>1. T!Skipped \in Records /\ T!Skipped.type = "skip" /\ T!Skipped.words = <<>>
          BY DEF T!Skipped, Records
        <4>2. /\ downWire' \in Seq(Records) /\ Len(downWire') \in Nat
              /\ \A k \in 1 .. Len(downWire') : downWire'[k] = T!Skipped
          <5> DEFINE S == T!Skipped
          <5>1. downWire' = <<S>> \/ downWire' = <<S, S>>
            BY <2>5
          <5>2. S \in Records
            BY <4>1
          <5> HIDE DEF S
          <5>3. /\ <<S>> \in Seq(Records) /\ Len(<<S>>) = 1 /\ <<S>>[1] = S
                /\ <<S, S>> \in Seq(Records) /\ Len(<<S, S>>) = 2
                /\ <<S, S>>[1] = S /\ <<S, S>>[2] = S
            BY <5>2
          <5>4. CASE downWire' = <<S>>
            BY <5>3, <5>4 DEF S
          <5>5. CASE downWire' = <<S, S>>
            BY <5>3, <5>5 DEF S
          <5>6. QED
            BY <5>1, <5>4, <5>5
        <4>3. /\ q \in [1 .. Len(downWire') + 1 -> Nat]
              /\ \A k \in 1 .. Len(downWire') + 1 : q[k] = 0
          OBVIOUS
        <4>4. q[1] = 0 /\ q[Len(downWire') + 1] = 0
          BY <4>2, <4>3
        <4> HIDE DEF q
        <4>5. \A k \in 1 .. Len(downWire') : q[k] = 0 /\ q[k + 1] = 0 /\ Len(downWire'[k].words) = 0
          BY <4>1, <4>2, <4>3
        <4>6. Carries(downWire', q, U, 0)
          BY <4>1, <4>2, <4>3, <4>5 DEF Carries
        <4>7. QED
          BY <4>4, <4>6
      <3>5. downWire' \in Seq(Records) /\ DownFlows'
        <4>1. downWire' \in Seq(Records)
          BY <3>4 DEF Carries
        <4>2. DownFlows'
          BY <2>1, <2>3, <3>1, <3>3, <3>4 DEF DownFlows
        <4>3. QED
          BY <4>1, <4>2
      <3>6. DownPart'
        BY <1>0, <2>1, <3>5 DEF DownPart, DownTyped, DownKept, T!Misgreeted
      <3>7. QED
        BY <2>1, <2>2, <2>3, <2>4, <3>6 DEF TunnelKept
    <2>6. CASE /\ downWire' = <<T!Skipped, T!Skipped, T!Random>>
               /\ proxy' = [proxy EXCEPT !.greeted = "data"]
      <3>1. T!Skipped \in Records /\ T!Random \in Records
        BY DEF T!Skipped, T!Random, T!Record, T!Noise, Records, Letters
      <3>2. downWire' \in Seq(Records) /\ unsent' \in Seq(Letters)
        BY <1>0, <2>1, <2>6, <3>1 DEF DownPart, DownTyped
      <3>3. T!Misgreeted'
        BY <1>0, <2>6 DEF TunnelTyped, Ends, T!Misgreeted
      <3>4. QED
        BY <2>1, <2>2, <2>3, <2>4, <3>2, <3>3 DEF TunnelKept, DownPart, DownTyped
    <2>7. QED
      BY <1>2, <2>5, <2>6 DEF T!Greet
  <1>3. CASE T!Greeted
    <2>1. /\ phase = "hello" /\ phase' = "init" /\ downWire # <<>>
          /\ downWire' = Tail(downWire)
          /\ UNCHANGED <<tls, asked, told, got, seqNo, upBuf, upWire, txPos, unsent, rxPos,
                         rxBuf,
                        proxy>>
      BY <1>3 DEF T!Greeted
    <2>2. TunnelTyped' /\ Opened'
      BY <1>0, <2>1 DEF TunnelTyped, Opened, Early
    <2>3. UpFlows'
      BY <1>0, <2>1, UpSame
    <2>4. downWire' \in Seq(Records) /\ unsent' \in Seq(Letters)
      BY <1>0, <2>1 DEF DownPart, DownTyped
    <2>5. DownKept => DownKept'
      <3> SUFFICES ASSUME DownKept PROVE DownKept'
        OBVIOUS
      <3>1. PICK U, at, p : DownFlow(U, at, p)
        BY DEF DownKept, DownFlows
      <3>2. txPos = 0
        BY <1>0, <2>1 DEF Opened, Early
      <3>3. rxPos = 0 /\ proxy.sent = 0
        BY <3>1, <3>2, NothingDown
      <3>4. PICK q : /\ Carries(downWire', q, U, 0) /\ q[Len(downWire') + 1] = proxy.sent
        BY <2>1, <3>1, CarriesLess
      <3>5. q[1] = 0
        <4>1. Len(downWire') \in Nat
          BY <3>4 DEF Carries
        <4>2. q[1] <= q[Len(downWire') + 1] /\ q[1] \in Nat
          BY <3>4, <4>1 DEF Carries
        <4>3. QED
          BY <3>3, <3>4, <4>2
      <3>6. QED
        BY <2>1, <3>1, <3>3, <3>4, <3>5 DEF DownKept, DownFlows
    <2>6. DownPart'
      BY <1>0, <2>1, <2>4, <2>5 DEF DownPart, DownTyped, T!Misgreeted
    <2>7. QED
      BY <2>1, <2>2, <2>3, <2>6 DEF TunnelKept
  <1>4. CASE T!SendInit
    <2> DEFINE r == T!Record(txPos, <<<<0, 1>>>>)
    <2>1. /\ phase = "init" /\ phase' = "tunnel" /\ upWire' = Append(upWire, r)
          /\ txPos' = txPos + 1
          /\ UNCHANGED <<tls, asked, told, got, seqNo, upBuf, unsent, downWire, rxPos, rxBuf,
                         proxy>>
      BY <1>4 DEF T!SendInit
    <2>2. txPos = 0 /\ upBuf = <<>> /\ asked = <<>>
      BY <1>0, <2>1 DEF Opened, Early
    <2>3. TunnelTyped' /\ Opened'
      BY <1>0, <2>1, <2>2 DEF TunnelTyped, Opened, Early
    <2>4. DownPart'
      BY <1>0, <2>1, DownSame
    <2>5. r \in Records /\ r.type = "data" /\ r.pos = 0 /\ Len(r.words) = 1
      BY <2>2 DEF T!Record, Records, Letters
    <2> HIDE DEF r
    <2>6. UpFlows'
      <3>1. PICK U, at, p : UpFlow(U, at, p)
        BY <1>0 DEF UpFlows
      <3>2. PICK q : /\ Carries(upWire', q, U, 1) /\ q[1] = p[1]
                     /\ q[Len(upWire') + 1] = p[Len(upWire) + 1] + Len(r.words)
        <4>1. r.pos = p[Len(upWire) + 1]
          BY <2>2, <2>5, <3>1
        <4>2. IF r.pos < 1 THEN Len(r.words) = 1 ELSE Cut(U, r.pos + 1 - 1, r.words)
          BY <2>5
        <4>3. Carries(upWire, p, U, 1) /\ r \in Records /\ r.type = "data" /\ 1 \in {0, 1}
          BY <2>5, <3>1
        <4>4. \E q : /\ Carries(Append(upWire, r), q, U, 1) /\ q[1] = p[1]
                     /\ q[Len(Append(upWire, r)) + 1] = p[Len(upWire) + 1] + Len(r.words)
          BY <4>1, <4>2, <4>3, CarriesMore
        <4>5. QED
          BY <2>1, <4>4
      <3>3. q[Len(upWire') + 1] = 1 /\ txPos' = 1
        BY <2>1, <2>2, <2>5, <3>1, <3>2
      <3>4. Len(U) = 0 /\ U \in Seq(Letters)
        BY <2>2, <3>1 DEF Spells
      <3>5. Cut(U, 1, <<>>) /\ 1 + Len(<<>>) = Len(U) + 1
        BY <3>4 DEF Cut
      <3>6. QED
        BY <2>1, <2>2, <3>1, <3>2, <3>3, <3>5 DEF UpFlows
    <2>7. QED
      BY <1>0, <2>1, <2>3, <2>4, <2>6 DEF TunnelKept
  <1>5. QED
    BY <1>1, <1>2, <1>3, <1>4


\* The client sends a frame, and the bridge writes it.
LEMMA ReadClientKept ==
    ASSUME TunnelKept, T!ReadClient
    PROVE  /\ TunnelKept' /\ UNCHANGED <<told, got, proxy>>
           /\ Len(asked) < FramesEach /\ \E s \in ClientShapes : asked' = Append(asked, s)
  <1> USE DEF T!downVars
  <1>0. TunnelTyped /\ Opened /\ UpFlows /\ DownPart
    BY DEF TunnelKept
  <1>1. /\ phase = "tunnel" /\ upBuf = <<>> /\ Len(asked) < FramesEach
        /\ UNCHANGED <<phase, tls, upWire, txPos, told, unsent, downWire, rxPos, rxBuf,
                       seqNo, got,
                      proxy>>
    BY DEF T!ReadClient
  <1>2. PICK s \in ClientShapes :
          asked' = Append(asked, s) /\ upBuf' = T!Words(Len(asked) + 1, s)
    BY DEF T!ReadClient
  <1>a. PICK More : More = T!Words(Len(asked) + 1, s)
    OBVIOUS
  <1>3. asked \in Seq(ClientShapes) /\ Len(asked) \in Nat
    BY <1>0 DEF TunnelTyped, Shaped
  <1>4. PICK U, at, p : UpFlow(U, at, p)
    BY <1>0 DEF UpFlows
  <1>5. /\ Spells(U, at, asked) /\ Carries(upWire, p, U, 1)
        /\ p[1] = proxy.pos /\ p[Len(upWire) + 1] = txPos
        /\ Len(proxy.got) <= Len(asked)
        /\ Cut(U, at[Len(proxy.got) + 1], proxy.buf)
        /\ at[Len(proxy.got) + 1] + Len(proxy.buf) = IF proxy.pos = 0 THEN 1 ELSE proxy.pos
        /\ txPos # 0 => Cut(U, txPos, upBuf) /\ txPos + Len(upBuf) = Len(U) + 1
    BY <1>4 DEF UpFlow
  <1>6. More \in Seq(Letters)
    <2>1. Len(asked) + 1 \in Nat
      BY <1>3
    <2>2. s \in [kind : {"encrypted", "plain", "short"}, len : Nat, pad : Nat]
      BY TunnelAssumption
    <2>3. QED
      BY <1>a, <2>1, <2>2, WordsOf
  <1>7. /\ Cut(U \o More, Len(U) + 1, More) /\ Len(U \o More) = Len(U) + Len(More)
        /\ \E b : /\ Spells(U \o More, b, Append(asked, s))
                  /\ \A i \in 1 .. Len(asked) + 1 : b[i] = at[i]
    <2>1. WellShaped(ClientShapes)
      BY TunnelAssumption DEF WellShaped
    <2>2. Spells(U, at, asked) /\ s \in ClientShapes
      BY <1>5
    <2>3. QED
      BY <1>a, <1>3, <2>1, <2>2, SpellsMore
  <1>8. PICK b : /\ Spells(U \o More, b, asked') /\ \A i \in 1 .. Len(asked) + 1 : b[i] = at[i]
    BY <1>2, <1>7
  <1>9. upBuf' = More
    BY <1>2, <1>a
  <1>10. /\ U \in Seq(Letters) /\ Len(U) \in Nat /\ txPos # 0 /\ txPos = Len(U) + 1
    <2>1. U \in Seq(Letters) /\ txPos # 0 /\ txPos \in Nat
      BY <1>0, <1>1, <1>5 DEF Spells, Opened, TunnelTyped
    <2>2. Len(upBuf) = 0
      BY <1>1
    <2>3. QED
      BY <1>5, <2>1, <2>2
  <1>11. UpFlow(U \o More, b, p)'
    <2>1. Len(proxy.got) + 1 \in 1 .. Len(asked) + 1
      BY <1>0, <1>3, <1>5 DEF TunnelTyped
    <2>2. b[Len(proxy.got) + 1] = at[Len(proxy.got) + 1] /\ at[Len(proxy.got) + 1] \in Nat \ {0}
      BY <1>5, <1>8, <2>1 DEF Spells
    <2>3. Carries(upWire, p, U \o More, 1)
      BY <1>5, <1>6, <1>10, CarriesOn
    <2>4. Cut(U \o More, at[Len(proxy.got) + 1], proxy.buf)
      BY <1>5, <1>6, <1>10, <2>2, CutGrows
    <2>5. Cut(U \o More, txPos, More) /\ txPos + Len(More) = Len(U \o More) + 1
      BY <1>6, <1>7, <1>10
    <2>6. Len(asked') = Len(asked) + 1 /\ Len(proxy.got) <= Len(asked')
      BY <1>0, <1>2, <1>3, <1>5 DEF TunnelTyped
    <2>7. /\ Cut(U \o More, b[Len(proxy.got) + 1], proxy.buf)
          /\ b[Len(proxy.got) + 1] + Len(proxy.buf) = IF proxy.pos = 0 THEN 1 ELSE proxy.pos
      BY <1>5, <2>2, <2>4
    <2>8. proxy' = proxy /\ upWire' = upWire /\ txPos' = txPos
      BY <1>1
    <2>9. QED
      BY <1>5, <1>8, <1>9, <2>3, <2>5, <2>6, <2>7, <2>8 DEF UpFlow
  <1>12. TunnelTyped' /\ Opened'
    <2>1. Shaped(asked', ClientShapes)
      BY <1>0, <1>1, <1>2, TunnelAssumption DEF TunnelTyped, Shaped
    <2>2. QED
      BY <1>0, <1>1, <1>6, <1>9, <1>10, <2>1 DEF TunnelTyped, Opened, Early
  <1>13. DownPart'
    BY <1>0, <1>1, DownSame
  <1>14. UpFlows'
    BY <1>11 DEF UpFlows
  <1>15. QED
    BY <1>0, <1>1, <1>2, <1>12, <1>13, <1>14 DEF TunnelKept

LEMMA WriteUpKept ==
    ASSUME TunnelKept, T!WriteUp
    PROVE  TunnelKept' /\ UNCHANGED <<asked, told, got, proxy>>
  <1> USE DEF T!downVars
  <1>0. TunnelTyped /\ Opened /\ UpFlows /\ DownPart
    BY DEF TunnelKept
  <1> DEFINE chunk == IF tls THEN T!Take(upBuf) ELSE upBuf
             r == T!Record(txPos, chunk)
  <1>1. /\ phase = "tunnel" /\ upBuf # <<>>
        /\ upWire' = Append(upWire, r) /\ upBuf' = T!Rest(upBuf, Len(chunk))
        /\ txPos' = txPos + Len(chunk)
        /\ UNCHANGED <<phase, tls, asked, told, unsent, downWire, rxPos, rxBuf, seqNo, got,
                       proxy>>
    BY DEF T!WriteUp
  <1>2. upBuf \in Seq(Letters) /\ Len(upBuf) \in Nat /\ txPos \in Nat \ {0}
    BY <1>0, <1>1 DEF TunnelTyped, Opened
  <1>3. Len(chunk) \in 0 .. Len(upBuf) /\ chunk = SubSeq(upBuf, 1, Len(chunk))
    <2>1. CASE tls
      BY <1>2, <2>1, TunnelAssumption DEF T!Take
    <2>2. CASE ~ tls
      BY <1>2, <2>2
    <2>3. QED
      BY <2>1, <2>2
  <1> HIDE DEF chunk
  <1>4. PICK U, at, p : UpFlow(U, at, p)
    BY <1>0 DEF UpFlows
  <1>5. /\ Spells(U, at, asked) /\ Carries(upWire, p, U, 1)
        /\ p[1] = proxy.pos /\ p[Len(upWire) + 1] = txPos
        /\ Len(proxy.got) <= Len(asked)
        /\ Cut(U, at[Len(proxy.got) + 1], proxy.buf)
        /\ at[Len(proxy.got) + 1] + Len(proxy.buf) = IF proxy.pos = 0 THEN 1 ELSE proxy.pos
        /\ Cut(U, txPos, upBuf) /\ txPos + Len(upBuf) = Len(U) + 1
        /\ U \in Seq(Letters)
    BY <1>2, <1>4 DEF UpFlow, Spells
  <1>6. /\ Cut(U, txPos, chunk) /\ chunk \in Seq(Letters)
        /\ Cut(U, txPos + Len(chunk), upBuf') /\ Len(upBuf') = Len(upBuf) - Len(chunk)
        /\ upBuf' \in Seq(Letters)
    <2> DEFINE n == Len(chunk)
    <2>1. n \in 0 .. Len(upBuf) /\ chunk = SubSeq(upBuf, 1, n) /\ upBuf' = T!Rest(upBuf, n)
      BY <1>1, <1>3
    <2> HIDE DEF n
    <2>2. /\ Cut(U, txPos, SubSeq(upBuf, 1, n))
          /\ Cut(U, txPos + n, T!Rest(upBuf, n)) /\ Len(T!Rest(upBuf, n)) = Len(upBuf) - n
      BY <1>2, <1>5, <2>1, CutSplits
    <2>3. chunk \in Seq(Letters) /\ upBuf' \in Seq(Letters)
      BY <2>1, <2>2 DEF Cut
    <2>4. QED
      BY <2>1, <2>2, <2>3 DEF n
  <1>7. r \in Records /\ r.type = "data" /\ r.pos = txPos /\ r.words = chunk
    BY <1>2, <1>6 DEF T!Record, Records
  <1> HIDE DEF r
  <1>8. PICK q : /\ Carries(upWire', q, U, 1) /\ q[1] = p[1]
                 /\ q[Len(upWire') + 1] = p[Len(upWire) + 1] + Len(r.words)
    <2>1. IF r.pos < 1 THEN Len(r.words) = 1 ELSE Cut(U, r.pos + 1 - 1, r.words)
      <3>1. ~ (r.pos < 1) /\ r.pos + 1 - 1 = txPos
        BY <1>2, <1>7
      <3>2. QED
        BY <1>6, <1>7, <3>1
    <2>2. r.pos = p[Len(upWire) + 1] /\ 1 \in {0, 1}
      BY <1>5, <1>7
    <2>3. \E q : /\ Carries(Append(upWire, r), q, U, 1) /\ q[1] = p[1]
                 /\ q[Len(Append(upWire, r)) + 1] = p[Len(upWire) + 1] + Len(r.words)
      BY <1>5, <1>7, <2>1, <2>2, CarriesMore
    <2>4. QED
      BY <1>1, <2>3
  <1>9. UpFlow(U, at, q)'
    <2>1. q[Len(upWire') + 1] = txPos'
      BY <1>1, <1>5, <1>7, <1>8
    <2>2. txPos' + Len(upBuf') = Len(U) + 1
      <3>1. Len(chunk) \in Nat /\ Len(U) \in Nat
        BY <1>3, <1>5
      <3>2. txPos' = txPos + Len(chunk) /\ txPos + Len(upBuf) = Len(U) + 1
        BY <1>1, <1>5
      <3>3. Len(upBuf') = Len(upBuf) - Len(chunk)
        BY <1>6
      <3>4. QED
        BY <1>2, <3>1, <3>2, <3>3
    <2>3. QED
      BY <1>1, <1>5, <1>6, <1>8, <2>1, <2>2 DEF UpFlow
  <1>10. TunnelTyped' /\ Opened'
    <2>1. txPos' \in Nat \ {0}
      BY <1>1, <1>2, <1>3
    <2>2. QED
      BY <1>0, <1>1, <1>6, <2>1 DEF TunnelTyped, Opened, Early
  <1>11. DownPart'
    BY <1>0, <1>1, DownSame
  <1>12. UpFlows'
    BY <1>9 DEF UpFlows
  <1>13. QED
    BY <1>0, <1>1, <1>10, <1>11, <1>12 DEF TunnelKept


\* The proxy reads a record: the frame it completes, if it does, is the next.
LEMMA ProxyReadsKept ==
    ASSUME TunnelKept, T!ProxyReads
    PROVE  /\ TunnelKept' /\ UNCHANGED <<asked, told, got>>
           /\ \/ proxy'.got = proxy.got
              \/ /\ Len(proxy.got) < Len(asked)
                 /\ proxy'.got = Append(proxy.got,
                                        <<Len(proxy.got), T!Kept(asked[Len(proxy.got) + 1])>>)
  <1> USE DEF T!downVars
  <1>0. TunnelTyped /\ Opened /\ UpFlows /\ DownPart
    BY DEF TunnelKept
  <1> DEFINE r == Head(upWire)
             words == T!Decrypted(r, proxy.pos)
             new == proxy.buf \o (IF proxy.pos = 0 THEN <<>> ELSE words)
             whole == T!Ready(new, asked)
             frame == Head(new)
             shape == asked[frame[1]]
  <1>1. /\ upWire # <<>> /\ upWire' = Tail(upWire)
        /\ UNCHANGED <<phase, tls, asked, upBuf, txPos, told, unsent, downWire, rxPos, rxBuf,
                       seqNo,
                      got>>
    BY DEF T!ProxyReads
  <1>2. proxy' = [proxy EXCEPT
          !.pos = @ + Len(words),
          !.buf = IF ~ whole THEN new
                  ELSE IF frame = T!Noise THEN <<>>
                  ELSE T!Rest(new, 1 + shape.len + shape.pad),
          !.got = IF ~ whole THEN @ ELSE Append(@, IF frame = T!Noise THEN T!Noise
                                                   ELSE <<Len(@), T!Kept(shape)>>)]
    BY DEF T!ProxyReads
  <1>3. /\ proxy \in Ends
        /\ asked \in Seq(ClientShapes) /\ Len(asked) \in Nat /\ Len(asked) <= FramesEach
    BY <1>0 DEF TunnelTyped, Shaped
  <1>4. PICK U, at, p : UpFlow(U, at, p)
    BY <1>0 DEF UpFlows
  <1>5. /\ Spells(U, at, asked) /\ Carries(upWire, p, U, 1)
        /\ p[1] = proxy.pos /\ p[Len(upWire) + 1] = txPos
        /\ Len(proxy.got) <= Len(asked)
        /\ Cut(U, at[Len(proxy.got) + 1], proxy.buf)
        /\ at[Len(proxy.got) + 1] + Len(proxy.buf) = IF proxy.pos = 0 THEN 1 ELSE proxy.pos
        /\ txPos # 0 => Cut(U, txPos, upBuf) /\ txPos + Len(upBuf) = Len(U) + 1
        /\ U \in Seq(Letters)
    BY <1>4 DEF UpFlow, Spells
  <1>6. PICK q : /\ Carries(upWire', q, U, 1) /\ q[1] = p[1] + Len(r.words)
                 /\ q[Len(upWire') + 1] = p[Len(upWire) + 1]
    BY <1>1, <1>5, CarriesLess
  <1>7. /\ r \in Records /\ r.type = "data" /\ r.pos = proxy.pos
        /\ IF proxy.pos = 0 THEN Len(r.words) = 1 ELSE Cut(U, proxy.pos, r.words)
    <2>1. upWire \in Seq(Records) /\ r = upWire[1] /\ 1 \in 1 .. Len(upWire) /\ r \in Records
      BY <1>1, <1>5 DEF Carries
    <2>2. r.type \in {"data", "skip"}
      BY <2>1 DEF Records
    <2>3. r.type = "data"
      BY <1>5, <2>1, <2>2 DEF Carries
    <2>4. /\ r.pos = p[1]
          /\ IF p[1] < 1 THEN Len(r.words) = 1 ELSE Cut(U, p[1] + 1 - 1, r.words)
      BY <1>5, <2>1, <2>3 DEF Carries
    <2>5. proxy.pos \in Nat /\ proxy.pos + 1 - 1 = proxy.pos
      BY <1>3 DEF Ends
    <2>6. QED
      BY <1>5, <2>1, <2>3, <2>4, <2>5
  <1>8. words = r.words /\ words \in Seq(Letters) /\ Len(words) \in Nat
    BY <1>7 DEF T!Decrypted, Records
  <1>9. PICK g : g = Len(proxy.got)
    OBVIOUS
  <1>10. g \in 0 .. Len(asked) /\ g + 1 \in 1 .. Len(asked) + 1 /\ at[g + 1] \in Nat \ {0}
    <2>1. g \in Nat
      BY <1>3, <1>9
    <2>2. g \in 0 .. Len(asked) /\ g + 1 \in 1 .. Len(asked) + 1
      BY <1>3, <1>5, <1>9, <2>1
    <2>3. QED
      BY <1>5, <2>2 DEF Spells
  <1> HIDE DEF words, r
  <1>a. new = IF proxy.pos = 0 THEN proxy.buf ELSE proxy.buf \o words
    BY <1>3 DEF Ends
  <1> HIDE DEF new
  <1>11. Cut(U, at[g + 1], new) /\ at[g + 1] + Len(new) = proxy.pos + Len(words)
    <2>1. proxy.buf \in Seq(Letters) /\ Len(proxy.buf) \in Nat /\ proxy.pos \in Nat
      BY <1>3 DEF Ends
    <2>2. CASE proxy.pos = 0
      <3>1. Len(proxy.buf) = 0 /\ at[g + 1] = 1
        BY <1>5, <1>9, <1>10, <2>1, <2>2
      <3>2. new = proxy.buf
        BY <1>a, <2>2
      <3>3. Len(words) = 1
        BY <1>7, <1>8, <2>2
      <3>4. at[g + 1] + Len(new) = proxy.pos + Len(words)
        BY <2>2, <3>1, <3>2, <3>3
      <3>5. QED
        BY <1>5, <1>9, <3>2, <3>4
    <2>3. CASE proxy.pos # 0
      <3>1. new = proxy.buf \o words
        BY <1>a, <2>3
      <3>2. at[g + 1] + Len(proxy.buf) = proxy.pos
        BY <1>5, <1>9, <2>3
      <3>3. Cut(U, at[g + 1], proxy.buf) /\ Cut(U, at[g + 1] + Len(proxy.buf), words)
        BY <1>5, <1>7, <1>8, <1>9, <2>3, <3>2
      <3>4. Cut(U, at[g + 1], proxy.buf \o words)
        BY <1>5, <1>10, <3>3, CutJoins
      <3>5. Len(proxy.buf \o words) = Len(proxy.buf) + Len(words)
        BY <1>8, <2>1
      <3>6. at[g + 1] + (Len(proxy.buf) + Len(words)) = proxy.pos + Len(words)
        <4>1. at[g + 1] \in Nat
          BY <1>10
        <4>2. Len(words) \in Nat /\ Len(proxy.buf) \in Nat /\ proxy.pos \in Nat
          BY <1>8, <2>1
        <4>3. QED
          BY <3>2, <4>1, <4>2
      <3>7. QED
        BY <3>1, <3>4, <3>5, <3>6
    <2>4. QED
      BY <2>2, <2>3
  <1>12. proxy.pos + Len(words) \in Nat \ {0}
    <2>1. proxy.pos \in Nat /\ Len(words) \in Nat /\ (proxy.pos = 0 => Len(words) = 1)
      BY <1>3, <1>7, <1>8 DEF Ends
    <2>2. QED
      BY <2>1
  <1>13. /\ proxy'.pos = proxy.pos + Len(words) /\ proxy'.greeted = proxy.greeted
         /\ proxy'.sent = proxy.sent
         /\ proxy' \in [greeted : {proxy'.greeted}, pos : {proxy'.pos}, buf : {proxy'.buf},
                        sent : {proxy'.sent}, got : {proxy'.got}]
    BY <1>2, <1>3 DEF Ends
  <1>14. p[1] = proxy.pos /\ q[1] = proxy'.pos /\ q[Len(upWire') + 1] = txPos'
    BY <1>1, <1>5, <1>6, <1>8, <1>13
  <1>15. CASE ~ whole
    <2>1. proxy'.buf = new /\ proxy'.got = proxy.got
      BY <1>2, <1>3, <1>15
    <2>2. UpFlow(U, at, q)'
      <3>1. /\ Cut(U, at[Len(proxy'.got) + 1], proxy'.buf) /\ Len(proxy'.got) <= Len(asked')
            /\ at[Len(proxy'.got) + 1] + Len(proxy'.buf) = IF proxy'.pos = 0 THEN 1 ELSE proxy'.pos
        BY <1>1, <1>5, <1>9, <1>11, <1>12, <1>13, <2>1
      <3>2. QED
        BY <1>1, <1>5, <1>6, <1>14, <3>1 DEF UpFlow
    <2>3. new \in Seq(Letters)
      BY <1>11 DEF Cut
    <2>4. TunnelTyped' /\ Opened'
      <3>1. proxy' \in Ends
        BY <1>3, <1>12, <1>13, <2>1, <2>3 DEF Ends
      <3>2. QED
        BY <1>0, <1>1, <3>1 DEF TunnelTyped, Opened
    <2>5. UpFlows' /\ DownPart'
      BY <1>0, <1>1, <1>13, <2>2, DownSame DEF UpFlows
    <2>6. QED
      BY <1>0, <1>1, <2>1, <2>4, <2>5 DEF TunnelKept
  <1>16. CASE whole
    <2>1. new # <<>>
      BY <1>16 DEF T!Ready
    <2>z. PICK z : z = Size(asked[g + 1])
      OBVIOUS
    <2>2. WellShaped(ClientShapes)
      BY TunnelAssumption DEF WellShaped
    <2>3. /\ g + 1 \in 1 .. Len(asked) /\ frame = <<g + 1, 0>>
          /\ Cut(U, at[g + 2], T!Rest(new, z))
          /\ at[g + 2] + Len(T!Rest(new, z)) = at[g + 1] + Len(new)
      <3>1. /\ asked \in Seq(ClientShapes) /\ Spells(U, at, asked) /\ g \in 0 .. Len(asked)
            /\ Cut(U, at[g + 1], new)
        BY <1>3, <1>5, <1>10, <1>11
      <3>2. /\ g + 1 \in 1 .. Len(asked) /\ frame = <<g + 1, 0>>
            /\ whole <=> Len(new) >= Size(asked[g + 1])
            /\ Len(new) >= Size(asked[g + 1]) =>
                 /\ Cut(U, at[g + 2], T!Rest(new, Size(asked[g + 1])))
                 /\ at[g + 2] + Len(T!Rest(new, Size(asked[g + 1]))) = at[g + 1] + Len(new)
        BY <2>1, <2>2, <3>1, NextFrame
      <3>3. QED
        BY <1>16, <2>z, <3>2
    <2>4. frame[1] = g + 1 /\ frame # T!Noise
      <3>1. g + 1 # 0
        BY <2>3
      <3>2. <<g + 1, 0>>[1] = g + 1 /\ <<g + 1, 0>> # <<0, 0>>
        BY <3>1
      <3>3. QED
        BY <2>3, <3>2 DEF T!Noise
    <2>5. shape = asked[g + 1] /\ T!Kept(shape) \in Nat
      BY <1>3, <2>3, <2>4, ClientKeeps
    <2>6. /\ proxy'.buf = T!Rest(new, z)
          /\ proxy'.got = Append(proxy.got, <<g, T!Kept(asked[g + 1])>>)
      <3>1. /\ proxy'.buf = T!Rest(new, 1 + shape.len + shape.pad)
            /\ proxy'.got = Append(proxy.got, <<Len(proxy.got), T!Kept(shape)>>)
        BY <1>2, <1>3, <1>16, <2>4
      <3>2. QED
        BY <1>9, <2>5, <2>z, <3>1 DEF Size
    <2>7. Len(proxy'.got) = g + 1 /\ proxy'.got \in Seq(Letters)
      BY <1>3, <1>9, <1>10, <2>5, <2>6 DEF Letters, Ends
    <2>8. UpFlow(U, at, q)'
      <3>1. at[g + 2] + Len(T!Rest(new, z)) = proxy'.pos /\ proxy'.pos # 0
        BY <1>11, <1>12, <1>13, <2>3
      <3>2. (g + 1) + 1 = g + 2 /\ g + 1 <= Len(asked)
        BY <1>10, <2>3
      <3>3. /\ Cut(U, at[Len(proxy'.got) + 1], proxy'.buf) /\ Len(proxy'.got) <= Len(asked')
            /\ at[Len(proxy'.got) + 1] + Len(proxy'.buf) = IF proxy'.pos = 0 THEN 1 ELSE proxy'.pos
        BY <1>1, <2>3, <2>6, <2>7, <3>1, <3>2
      <3>4. QED
        BY <1>1, <1>5, <1>6, <1>14, <3>3 DEF UpFlow
    <2>9. TunnelTyped' /\ Opened'
      <3>1. proxy'.buf \in Seq(Letters)
        BY <2>3, <2>6 DEF Cut
      <3>2. proxy' \in Ends
        BY <1>3, <1>12, <1>13, <2>7, <3>1 DEF Ends
      <3>3. QED
        BY <1>0, <1>1, <3>2 DEF TunnelTyped, Opened
    <2>10. UpFlows' /\ DownPart'
      BY <1>0, <1>1, <1>13, <2>8, DownSame DEF UpFlows
    <2>11. Len(proxy.got) < Len(asked)
      BY <1>3, <1>9, <1>10, <2>3
    <2>12. QED
      BY <1>0, <1>1, <1>9, <2>6, <2>9, <2>10, <2>11 DEF TunnelKept
  <1>17. QED
    BY <1>15, <1>16


\* The proxy sends a frame and writes it in records; the bridge reads them.
LEMMA ProxySendsKept ==
    ASSUME TunnelKept, DownKept, T!ProxySends
    PROVE  /\ TunnelKept' /\ UNCHANGED <<asked, got, proxy>>
           /\ Len(told) < FramesEach /\ \E s \in ServerShapes : told' = Append(told, s)
  <1> USE DEF T!upVars
  <1>0. /\ TunnelTyped /\ Opened /\ UpFlows
        /\ DownFlows /\ seqNo = Len(got) /\ got \in Seq(Letters)
    BY DEF TunnelKept, DownKept
  <1>1. /\ proxy.pos > 0 /\ Len(told) < FramesEach
        /\ UNCHANGED <<phase, tls, asked, upBuf, upWire, txPos, downWire, rxPos, rxBuf,
                       seqNo, got,
                      proxy>>
    BY DEF T!ProxySends
  <1>2. PICK s \in ServerShapes :
          told' = Append(told, s) /\ unsent' = unsent \o T!Words(Len(told) + 1, s)
    BY DEF T!ProxySends
  <1>3. PICK More : More = T!Words(Len(told) + 1, s)
    OBVIOUS
  <1>4. told \in Seq(ServerShapes) /\ Len(told) \in Nat
    BY <1>0 DEF TunnelTyped, Shaped
  <1>5. PICK U, at, p : DownFlow(U, at, p)
    BY <1>0 DEF DownFlows
  <1>6. /\ Spells(U, at, told) /\ Carries(downWire, p, U, 0)
        /\ p[1] = rxPos /\ p[Len(downWire) + 1] = proxy.sent
        /\ Len(got) <= Len(told)
        /\ Cut(U, at[Len(got) + 1], rxBuf) /\ at[Len(got) + 1] + Len(rxBuf) = rxPos + 1
        /\ Cut(U, proxy.sent + 1, unsent) /\ proxy.sent + Len(unsent) = Len(U)
        /\ U \in Seq(Letters) /\ unsent \in Seq(Letters)
    BY <1>5 DEF DownFlow, Spells, Cut
  <1>7. More \in Seq(Letters)
    <2>1. Len(told) + 1 \in Nat
      BY <1>4
    <2>2. s \in [kind : {"encrypted", "plain", "short"}, len : Nat, pad : Nat]
      BY TunnelAssumption
    <2>3. QED
      BY <1>3, <2>1, <2>2, WordsOf
  <1>8. /\ Cut(U \o More, Len(U) + 1, More) /\ Len(U \o More) = Len(U) + Len(More)
        /\ \E b : /\ Spells(U \o More, b, Append(told, s))
                  /\ \A i \in 1 .. Len(told) + 1 : b[i] = at[i]
    <2>1. WellShaped(ServerShapes)
      BY TunnelAssumption DEF WellShaped
    <2>2. Spells(U, at, told) /\ s \in ServerShapes
      BY <1>6
    <2>3. QED
      BY <1>3, <1>4, <2>1, <2>2, SpellsMore
  <1>9. PICK b : /\ Spells(U \o More, b, told') /\ \A i \in 1 .. Len(told) + 1 : b[i] = at[i]
    BY <1>2, <1>8
  <1>10. unsent' = unsent \o More
    BY <1>2, <1>3
  <1>11. /\ Len(U) \in Nat /\ Len(More) \in Nat /\ Len(unsent) \in Nat /\ proxy.sent \in Nat
         /\ Len(got) \in Nat
    BY <1>0, <1>6, <1>7, SMTT(30) DEF TunnelTyped, Ends
  <1>12. DownFlow(U \o More, b, p)'
    <2>1. Len(got) + 1 \in 1 .. Len(told) + 1
      BY <1>4, <1>6, <1>11
    <2>2. b[Len(got) + 1] = at[Len(got) + 1] /\ at[Len(got) + 1] \in Nat \ {0}
      BY <1>6, <1>9, <2>1 DEF Spells
    <2>3. Carries(downWire, p, U \o More, 0)
      BY <1>6, <1>7, CarriesOn
    <2>4. Cut(U \o More, at[Len(got) + 1], rxBuf)
      BY <1>6, <1>7, <2>2, CutGrows
    <2>5. Cut(U \o More, proxy.sent + 1, unsent \o More)
      <3>1. proxy.sent + 1 \in Nat \ {0} /\ proxy.sent + 1 + Len(unsent) = Len(U) + 1
        <4>1. PICK n \in Nat, m \in Nat : n = proxy.sent /\ m = Len(unsent)
          BY <1>11
        <4>2. n + m = Len(U)
          BY <1>6, <4>1
        <4>3. QED
          BY <4>1, <4>2
      <3>2. Cut(U \o More, proxy.sent + 1, unsent) /\ U \o More \in Seq(Letters)
        BY <1>6, <1>7, <3>1, CutGrows
      <3>3. Cut(U \o More, proxy.sent + 1 + Len(unsent), More)
        BY <1>8, <3>1
      <3>4. QED
        BY <3>1, <3>2, <3>3, CutJoins
    <2>6. Len(unsent \o More) = Len(unsent) + Len(More)
      BY <1>6, <1>7
    <2>7. proxy.sent + Len(unsent \o More) = Len(U \o More)
      <3>1. proxy.sent + Len(unsent) = Len(U) /\ Len(U \o More) = Len(U) + Len(More)
        BY <1>6, <1>8
      <3>2. proxy.sent \in Nat /\ Len(unsent) \in Nat /\ Len(More) \in Nat
        BY <1>11
      <3>3. proxy.sent + (Len(unsent) + Len(More)) = Len(U) + Len(More)
        BY <3>1, <3>2
      <3>4. QED
        BY <2>6, <3>1, <3>3
    <2>8. Len(told') = Len(told) + 1 /\ Len(got) <= Len(told')
      BY <1>2, <1>4, <1>6, <1>11
    <2>9. /\ proxy' = proxy /\ downWire' = downWire /\ rxPos' = rxPos /\ got' = got
          /\ rxBuf' = rxBuf
      BY <1>1
    <2>10. /\ Cut(U \o More, b[Len(got) + 1], rxBuf) /\ b[Len(got) + 1] + Len(rxBuf) = rxPos + 1
      BY <1>6, <2>2, <2>4
    <2>11. QED
      BY <1>6, <1>9, <1>10, <2>3, <2>5, <2>7, <2>8, <2>9, <2>10 DEF DownFlow
  <1>13. TunnelTyped' /\ Opened'
    <2>1. Shaped(told', ServerShapes)
      BY <1>1, <1>2, <1>4, TunnelAssumption DEF Shaped
    <2>2. txPos # 0
      BY <1>0, <1>1 DEF Opened
    <2>3. QED
      BY <1>0, <1>1, <2>1, <2>2 DEF TunnelTyped, Opened
  <1>14. UpFlows'
    BY <1>0, <1>1, UpSame
  <1>15. DownFlows'
    BY <1>12 DEF DownFlows
  <1>16. DownPart'
    <2>1. unsent' \in Seq(Letters) /\ downWire' \in Seq(Records)
      BY <1>12 DEF DownFlow, Carries, Cut
    <2>2. QED
      BY <1>0, <1>1, <1>15, <2>1 DEF DownPart, DownTyped, DownKept
  <1>17. QED
    BY <1>1, <1>2, <1>13, <1>14, <1>16 DEF TunnelKept

LEMMA ProxyWritesKept ==
    ASSUME TunnelKept, DownKept, T!ProxyWrites
    PROVE  TunnelKept' /\ UNCHANGED <<asked, told, got>> /\ proxy'.got = proxy.got
  <1> USE DEF T!upVars
  <1>0. /\ TunnelTyped /\ Opened /\ UpFlows
        /\ DownFlows /\ seqNo = Len(got) /\ got \in Seq(Letters)
    BY DEF TunnelKept, DownKept
  <1>1. /\ unsent # <<>>
        /\ UNCHANGED <<phase, tls, asked, upBuf, upWire, txPos, told, rxPos, rxBuf, seqNo,
                       got>>
    BY DEF T!ProxyWrites
  <1>2. PICK n \in 1 .. Len(T!Take(unsent)) :
          /\ downWire' = Append(downWire, T!Record(proxy.sent, SubSeq(unsent, 1, n)))
          /\ unsent' = T!Rest(unsent, n)
          /\ proxy' = [proxy EXCEPT !.sent = @ + n]
    BY DEF T!ProxyWrites
  <1>3. proxy \in Ends
    BY <1>0 DEF TunnelTyped
  <1>4. PICK U, at, p : DownFlow(U, at, p)
    BY <1>0 DEF DownFlows
  <1>5. /\ Spells(U, at, told) /\ Carries(downWire, p, U, 0)
        /\ p[1] = rxPos /\ p[Len(downWire) + 1] = proxy.sent
        /\ Len(got) <= Len(told)
        /\ Cut(U, at[Len(got) + 1], rxBuf) /\ at[Len(got) + 1] + Len(rxBuf) = rxPos + 1
        /\ Cut(U, proxy.sent + 1, unsent) /\ proxy.sent + Len(unsent) = Len(U)
        /\ U \in Seq(Letters) /\ unsent \in Seq(Letters)
    BY <1>4 DEF DownFlow, Spells, Cut
  <1>6. n \in 0 .. Len(unsent) /\ n \in Nat
    <2>1. Len(T!Take(unsent)) \in Nat /\ Len(T!Take(unsent)) <= Len(unsent)
      BY <1>5, TunnelAssumption DEF T!Take
    <2>2. QED
      BY <1>2, <1>5, <2>1
  <1>7. PICK chunk : chunk = SubSeq(unsent, 1, n)
    OBVIOUS
  <1>8. proxy.sent \in Nat /\ proxy.sent + 1 \in Nat \ {0} /\ Len(unsent) \in Nat /\ Len(U) \in Nat
    BY <1>3, <1>5, SMTT(30) DEF Ends
  <1>9. /\ Cut(U, proxy.sent + 1, chunk) /\ Len(chunk) = n /\ chunk \in Seq(Letters)
        /\ Cut(U, proxy.sent + 1 + n, unsent') /\ Len(unsent') = Len(unsent) - n
    <2>1. /\ Cut(U, proxy.sent + 1, SubSeq(unsent, 1, n)) /\ Len(SubSeq(unsent, 1, n)) = n
          /\ Cut(U, proxy.sent + 1 + n, T!Rest(unsent, n))
          /\ Len(T!Rest(unsent, n)) = Len(unsent) - n
      BY <1>5, <1>6, <1>8, CutSplits, SMTT(30)
    <2>2. chunk \in Seq(Letters)
      BY <1>7, <2>1 DEF Cut
    <2>3. QED
      BY <1>2, <1>7, <2>1, <2>2
  <1>10. PICK r : r = T!Record(proxy.sent, chunk)
    OBVIOUS
  <1>11. r \in Records /\ r.type = "data" /\ r.pos = proxy.sent /\ r.words = chunk
    BY <1>8, <1>9, <1>10 DEF T!Record, Records
  <1>12. PICK q : /\ Carries(downWire', q, U, 0) /\ q[1] = p[1]
                  /\ q[Len(downWire') + 1] = p[Len(downWire) + 1] + Len(r.words)
    <2>1. IF r.pos < 0 THEN Len(r.words) = 1 ELSE Cut(U, r.pos + 1 - 0, r.words)
      <3>1. ~ (r.pos < 0) /\ r.pos + 1 - 0 = proxy.sent + 1
        BY <1>8, <1>11
      <3>2. QED
        BY <1>9, <1>11, <3>1
    <2>2. r.pos = p[Len(downWire) + 1] /\ 0 \in {0, 1} /\ Carries(downWire, p, U, 0)
      BY <1>5, <1>11
    <2>3. \E q : /\ Carries(Append(downWire, r), q, U, 0) /\ q[1] = p[1]
                 /\ q[Len(Append(downWire, r)) + 1] = p[Len(downWire) + 1] + Len(r.words)
      BY <1>11, <2>1, <2>2, CarriesMore
    <2>4. QED
      BY <1>2, <1>7, <1>10, <2>3
  <1>13. /\ proxy'.sent = proxy.sent + n /\ proxy'.pos = proxy.pos /\ proxy'.buf = proxy.buf
         /\ proxy'.got = proxy.got
         /\ proxy' \in Ends
    <2>1. proxy.sent + n \in Nat
      BY <1>6, <1>8
    <2>2. proxy' = [proxy EXCEPT !.sent = proxy.sent + n]
      BY <1>2, <1>3 DEF Ends
    <2>3. QED
      BY <1>3, <2>1, <2>2 DEF Ends
  <1>14. DownFlow(U, at, q)'
    <2>1. q[1] = rxPos' /\ q[Len(downWire') + 1] = proxy'.sent
      BY <1>1, <1>5, <1>9, <1>11, <1>12, <1>13
    <2>2. proxy'.sent + 1 = proxy.sent + 1 + n /\ proxy'.sent + Len(unsent') = Len(U)
      <3>1. proxy'.sent = proxy.sent + n /\ Len(unsent') = Len(unsent) - n
        BY <1>9, <1>13
      <3>2. proxy.sent + Len(unsent) = Len(U)
        BY <1>5
      <3>3. proxy.sent \in Nat /\ n \in Nat /\ Len(unsent) \in Nat
        BY <1>6, <1>8
      <3>4. proxy.sent + n + 1 = proxy.sent + 1 + n
        BY <3>3
      <3>5. proxy.sent + n + (Len(unsent) - n) = Len(U)
        BY <3>2, <3>3
      <3>6. QED
        BY <3>1, <3>4, <3>5
    <2>3. Cut(U, proxy'.sent + 1, unsent')
      BY <1>9, <2>2
    <2>4. QED
      BY <1>1, <1>5, <1>12, <2>1, <2>2, <2>3 DEF DownFlow
  <1>15. TunnelTyped' /\ Opened'
    BY <1>0, <1>1, <1>13 DEF TunnelTyped, Opened
  <1>16. UpFlows'
    BY <1>0, <1>1, <1>13, UpSame
  <1>17. DownFlows'
    BY <1>14 DEF DownFlows
  <1>18. DownPart'
    <2>1. unsent' \in Seq(Letters) /\ downWire' \in Seq(Records)
      BY <1>14 DEF DownFlow, Carries, Cut
    <2>2. QED
      BY <1>0, <1>1, <1>17, <2>1 DEF DownPart, DownTyped, DownKept
  <1>19. QED
    BY <1>1, <1>13, <1>15, <1>16, <1>18 DEF TunnelKept

LEMMA ReadUpstreamKept ==
    ASSUME TunnelKept, DownKept, T!ReadUpstream
    PROVE  TunnelKept' /\ UNCHANGED <<asked, told, got, proxy>>
  <1> USE DEF T!upVars
  <1>0. /\ TunnelTyped /\ Opened /\ UpFlows
        /\ DownFlows /\ seqNo = Len(got) /\ got \in Seq(Letters)
    BY DEF TunnelKept, DownKept
  <1>1. PICK r : r = Head(downWire)
    OBVIOUS
  <1>2. /\ phase = "tunnel" /\ downWire # <<>> /\ downWire' = Tail(downWire)
        /\ UNCHANGED <<phase, tls, asked, upBuf, upWire, txPos, told, unsent, seqNo, got,
                       proxy>>
        /\ IF r.type = "skip" THEN UNCHANGED <<rxBuf, rxPos>>
           ELSE /\ rxBuf' = rxBuf \o T!Decrypted(r, rxPos)
                /\ rxPos' = rxPos + Len(r.words)
    BY <1>1 DEF T!ReadUpstream
  <1>3. PICK U, at, p : DownFlow(U, at, p)
    BY <1>0 DEF DownFlows
  <1>4. /\ Spells(U, at, told) /\ Carries(downWire, p, U, 0)
        /\ p[1] = rxPos /\ p[Len(downWire) + 1] = proxy.sent
        /\ Len(got) <= Len(told)
        /\ Cut(U, at[Len(got) + 1], rxBuf) /\ at[Len(got) + 1] + Len(rxBuf) = rxPos + 1
        /\ Cut(U, proxy.sent + 1, unsent) /\ proxy.sent + Len(unsent) = Len(U)
        /\ U \in Seq(Letters) /\ rxBuf \in Seq(Letters)
    BY <1>3 DEF DownFlow, Spells, Cut
  <1>5. PICK q : /\ Carries(downWire', q, U, 0) /\ q[1] = p[1] + Len(r.words)
                 /\ q[Len(downWire') + 1] = p[Len(downWire) + 1]
    BY <1>1, <1>2, <1>4, CarriesLess
  <1>6. /\ r \in Records /\ r.type \in {"data", "skip"} /\ Len(r.words) \in Nat
        /\ r.type = "skip" => Len(r.words) = 0
        /\ r.type = "data" => r.pos = rxPos /\ Cut(U, rxPos + 1, r.words)
    <2>1. downWire \in Seq(Records) /\ r = downWire[1] /\ 1 \in 1 .. Len(downWire) /\ r \in Records
      BY <1>1, <1>2, <1>4 DEF Carries
    <2>2. r.type \in {"data", "skip"} /\ Len(r.words) \in Nat
      BY <2>1 DEF Records
    <2>3. r.type = "skip" => r.words = <<>>
      BY <1>4, <2>1 DEF Carries
    <2>4. r.type = "data" =>
            r.pos = p[1] /\ IF p[1] < 0 THEN Len(r.words) = 1 ELSE Cut(U, p[1] + 1 - 0, r.words)
      BY <1>4, <2>1 DEF Carries
    <2>5. rxPos \in Nat /\ rxPos + 1 - 0 = rxPos + 1 /\ ~ (rxPos < 0)
      BY <1>0 DEF TunnelTyped
    <2>6. QED
      BY <1>4, <2>1, <2>2, <2>3, <2>4, <2>5
  <1>7. PICK a : a = at[Len(got) + 1]
    OBVIOUS
  <1>8. a \in Nat \ {0} /\ rxPos \in Nat /\ Len(rxBuf) \in Nat
    <2>1. Len(got) + 1 \in 1 .. Len(told) + 1
      BY <1>0, <1>4 DEF TunnelTyped, Shaped
    <2>2. rxPos \in Nat
      BY <1>0 DEF TunnelTyped
    <2>3. Len(rxBuf) \in Nat /\ at \in [1 .. Len(told) + 1 -> Nat \ {0}]
      BY <1>4 DEF Spells
    <2>4. QED
      BY <1>7, <2>1, <2>2, <2>3
  <1>9. Cut(U, a, rxBuf') /\ a + Len(rxBuf') = rxPos' + 1 /\ rxPos' = rxPos + Len(r.words)
    <2>1. CASE r.type = "skip"
      BY <1>2, <1>4, <1>6, <1>7, <1>8, <2>1, SMTT(30)
    <2>2. CASE r.type = "data"
      <3>1. T!Decrypted(r, rxPos) = r.words /\ r.words \in Seq(Letters)
        BY <1>6, <2>2 DEF T!Decrypted, Records
      <3>2. rxBuf' = rxBuf \o r.words /\ rxPos' = rxPos + Len(r.words)
        BY <1>2, <2>2, <3>1
      <3>3. Cut(U, a, rxBuf) /\ a + Len(rxBuf) = rxPos + 1
        BY <1>4, <1>7
      <3>4. Cut(U, a + Len(rxBuf), r.words)
        BY <1>6, <2>2, <3>3
      <3>5. Cut(U, a, rxBuf \o r.words)
        BY <1>4, <1>8, <3>3, <3>4, CutJoins
      <3>6. Len(rxBuf') = Len(rxBuf) + Len(r.words) /\ Len(r.words) \in Nat
        BY <1>4, <3>1, <3>2
      <3>7. a + Len(rxBuf') = rxPos' + 1
        <4>1. PICK n \in Nat, m \in Nat : n = Len(rxBuf) /\ m = Len(r.words)
          BY <1>8, <3>6
        <4>2. Len(rxBuf') = n + m /\ rxPos' = rxPos + m /\ a + n = rxPos + 1
          BY <3>2, <3>3, <3>6, <4>1
        <4>3. QED
          BY <1>8, <4>2
      <3>8. QED
        BY <3>2, <3>5, <3>7
    <2>3. QED
      BY <1>6, <2>1, <2>2
  <1>10. DownFlow(U, at, q)'
    <2>1. q[1] = rxPos' /\ q[Len(downWire') + 1] = proxy'.sent
      BY <1>2, <1>4, <1>5, <1>9
    <2>2. QED
      BY <1>2, <1>4, <1>5, <1>7, <1>9, <2>1 DEF DownFlow
  <1>11. rxPos' \in Nat
    BY <1>6, <1>8, <1>9
  <1>12. TunnelTyped' /\ Opened'
    BY <1>0, <1>2, <1>11 DEF TunnelTyped, Opened
  <1>13. UpFlows'
    BY <1>0, <1>2, UpSame
  <1>14. DownFlows'
    BY <1>10 DEF DownFlows
  <1>15. DownPart'
    <2>1. unsent' \in Seq(Letters) /\ downWire' \in Seq(Records)
      BY <1>10 DEF DownFlow, Carries, Cut
    <2>2. QED
      BY <1>0, <1>2, <1>14, <2>1 DEF DownPart, DownTyped, DownKept
  <1>16. QED
    BY <1>2, <1>12, <1>13, <1>15 DEF TunnelKept


\* The client gets the next frame, under its number and without its padding.
LEMMA ForwardFrameKept ==
    ASSUME TunnelKept, DownKept, T!ForwardFrame
    PROVE  /\ TunnelKept' /\ UNCHANGED <<asked, told, proxy>>
           /\ Len(got) < Len(told)
           /\ got' = Append(got, <<Len(got), T!Kept(told[Len(got) + 1])>>)
  <1> USE DEF T!upVars
  <1>0. /\ TunnelTyped /\ Opened /\ UpFlows
        /\ DownFlows /\ seqNo = Len(got) /\ got \in Seq(Letters)
    BY DEF TunnelKept, DownKept
  <1>1. PICK frame : frame = Head(rxBuf)
    OBVIOUS
  <1>2. /\ phase = "tunnel" /\ T!Ready(rxBuf, told) /\ seqNo' = seqNo + 1
        /\ UNCHANGED <<phase, tls, asked, upBuf, upWire, txPos, told, unsent, downWire, rxPos,
                      proxy>>
        /\ ~ (frame = T!Noise \/ frame[2] # 0) =>
             /\ got' = Append(got, <<seqNo, T!StripMtprotoPadding(told[frame[1]])>>)
             /\ rxBuf' = T!Rest(rxBuf, 1 + told[frame[1]].len + told[frame[1]].pad)
    BY <1>1 DEF T!ForwardFrame
  <1>3. PICK U, at, p : DownFlow(U, at, p)
    BY <1>0 DEF DownFlows
  <1>4. /\ Spells(U, at, told) /\ Carries(downWire, p, U, 0)
        /\ p[1] = rxPos /\ p[Len(downWire) + 1] = proxy.sent
        /\ Len(got) <= Len(told)
        /\ Cut(U, at[Len(got) + 1], rxBuf) /\ at[Len(got) + 1] + Len(rxBuf) = rxPos + 1
        /\ Cut(U, proxy.sent + 1, unsent) /\ proxy.sent + Len(unsent) = Len(U)
    BY <1>3 DEF DownFlow
  <1>5. told \in Seq(ServerShapes) /\ Len(told) \in Nat /\ got \in Seq(Letters) /\ Len(got) \in Nat
    BY <1>0 DEF TunnelTyped, Shaped
  <1>6. PICK g : g = Len(got)
    OBVIOUS
  <1>7. g \in 0 .. Len(told) /\ g \in Nat
    BY <1>4, <1>5, <1>6
  <1>8. /\ g + 1 \in 1 .. Len(told) /\ frame = <<g + 1, 0>>
        /\ T!Ready(rxBuf, told) <=> Len(rxBuf) >= Size(told[g + 1])
        /\ Len(rxBuf) >= Size(told[g + 1]) =>
             /\ Cut(U, at[g + 2], T!Rest(rxBuf, Size(told[g + 1])))
             /\ at[g + 2] + Len(T!Rest(rxBuf, Size(told[g + 1]))) = at[g + 1] + Len(rxBuf)
    <2>1. WellShaped(ServerShapes)
      BY TunnelAssumption DEF WellShaped
    <2>2. rxBuf # <<>>
      BY <1>2 DEF T!Ready
    <2>3. Spells(U, at, told) /\ Cut(U, at[g + 1], rxBuf)
      BY <1>4, <1>6
    <2>4. QED
      BY <1>1, <1>5, <1>7, <2>1, <2>2, <2>3, NextFrame
  <1>9. PICK s \in ServerShapes : s = told[g + 1]
    BY <1>5, <1>8
  <1>10. /\ got' = Append(got, <<g, T!Kept(s)>>) /\ rxBuf' = T!Rest(rxBuf, Size(s))
    <2>1. frame[1] = g + 1 /\ frame[2] = 0
      BY <1>8
    <2>2. frame # T!Noise
      <3>1. g + 1 # 0
        BY <1>7
      <3>2. QED
        BY <2>1, <3>1 DEF T!Noise
    <2>3. T!StripMtprotoPadding(s) = T!Kept(s)
      BY StripsPadding
    <2>4. QED
      BY <1>0, <1>2, <1>6, <1>9, <2>1, <2>2, <2>3 DEF Size
  <1>11. /\ Cut(U, at[g + 2], rxBuf') /\ at[g + 2] + Len(rxBuf') = at[g + 1] + Len(rxBuf)
    BY <1>2, <1>8, <1>9, <1>10, Zenon
  <1>12. got' \in Seq(Letters) /\ Len(got') = g + 1
    <2>1. T!Kept(s) \in Nat
      BY StripsPadding
    <2>2. <<g, T!Kept(s)>> \in Letters
      BY <1>7, <2>1 DEF Letters
    <2>3. QED
      BY <1>5, <1>6, <1>10, <2>2
  <1>13. DownFlow(U, at, p)'
    <2>1. /\ (g + 1) + 1 = g + 2 /\ g + 1 <= Len(told)
      BY <1>7, <1>8
    <2>2. Len(got') <= Len(told) /\ Cut(U, at[Len(got') + 1], rxBuf')
      BY <1>11, <1>12, <2>1
    <2>3. at[Len(got') + 1] + Len(rxBuf') = rxPos + 1
      BY <1>4, <1>6, <1>11, <1>12, <2>1
    <2>4. QED
      BY <1>2, <1>4, <2>2, <2>3 DEF DownFlow
  <1>14. seqNo' = Len(got') /\ seqNo' \in Nat
    BY <1>0, <1>2, <1>6, <1>7, <1>12
  <1>15. TunnelTyped' /\ Opened'
    BY <1>0, <1>2, <1>12, <1>14 DEF TunnelTyped, Opened
  <1>16. UpFlows'
    BY <1>0, <1>2, UpSame
  <1>17. DownFlows'
    BY <1>13 DEF DownFlows
  <1>18. TunnelKept'
    <2>1. unsent' \in Seq(Letters) /\ downWire' \in Seq(Records)
      BY <1>13 DEF DownFlow, Carries, Cut
    <2>2. DownPart'
      BY <1>12, <1>14, <1>17, <2>1 DEF DownPart, DownTyped, DownKept
    <2>3. QED
      BY <1>15, <1>16, <2>2 DEF TunnelKept
  <1>19. Len(got) < Len(told)
    BY <1>5, <1>6, <1>7, <1>8
  <1>20. QED
    BY <1>2, <1>6, <1>9, <1>10, <1>18, <1>19

\* After a greeting that brought noise, the words keep their types, and the way
\* up is as it was.
LEMMA MisgreetedKept ==
    ASSUME TunnelKept, T!Misgreeted,
           T!ProxySends \/ T!ProxyWrites \/ T!ReadUpstream \/ T!ForwardFrame
    PROVE  TunnelKept' /\ asked' = asked /\ proxy'.got = proxy.got
  <1> USE DEF T!upVars
  <1>0. TunnelTyped /\ Opened /\ UpFlows /\ DownTyped /\ proxy.greeted = "data"
    BY DEF TunnelKept, DownPart, T!Misgreeted
  <1>1. UNCHANGED <<phase, tls, asked, upBuf, upWire, txPos>>
    BY DEF T!ProxySends, T!ProxyWrites, T!ReadUpstream, T!ForwardFrame
  <1>2. proxy \in Ends
    BY <1>0 DEF TunnelTyped
  <1>3. ASSUME proxy' \in Ends, proxy'.greeted = "data", proxy'.pos = proxy.pos,
               proxy'.buf = proxy.buf, proxy'.got = proxy.got,
               DownTyped', rxPos' \in Nat, seqNo' \in Nat, Shaped(told', ServerShapes),
               told # told' => proxy.pos # 0
        PROVE  TunnelKept'
    <2>1. TunnelTyped' /\ Opened'
      BY <1>0, <1>1, <1>3 DEF TunnelTyped, Opened
    <2>2. UpFlows'
      BY <1>0, <1>1, <1>3, UpSame
    <2>3. QED
      BY <1>3, <2>1, <2>2 DEF TunnelKept, DownPart, T!Misgreeted
  <1>4. CASE T!ProxySends
    <2>1. /\ proxy.pos > 0 /\ Len(told) < FramesEach
          /\ UNCHANGED <<downWire, rxPos, seqNo, proxy>>
      BY <1>4 DEF T!ProxySends
    <2>2. PICK s \in ServerShapes :
            told' = Append(told, s) /\ unsent' = unsent \o T!Words(Len(told) + 1, s)
      BY <1>4 DEF T!ProxySends
    <2>3. told \in Seq(ServerShapes) /\ Len(told) + 1 \in Nat
      BY <1>0 DEF TunnelTyped, Shaped
    <2>4. T!Words(Len(told) + 1, s) \in Seq(Letters)
      BY <2>3, WordsOf, TunnelAssumption
    <2>5. unsent' \in Seq(Letters) /\ Shaped(told', ServerShapes)
      BY <1>0, <2>1, <2>2, <2>3, <2>4, TunnelAssumption DEF DownTyped, Shaped
    <2>6. QED
      BY <1>0, <1>1, <1>2, <1>3, <2>1, <2>5 DEF TunnelTyped, DownTyped
  <1>5. CASE T!ProxyWrites
    <2>1. UNCHANGED <<told, rxPos, seqNo>>
      BY <1>5 DEF T!ProxyWrites
    <2>2. PICK n \in 1 .. Len(T!Take(unsent)) :
            /\ downWire' = Append(downWire, T!Record(proxy.sent, SubSeq(unsent, 1, n)))
            /\ unsent' = T!Rest(unsent, n)
            /\ proxy' = [proxy EXCEPT !.sent = @ + n]
      BY <1>5 DEF T!ProxyWrites
    <2>3. n \in 0 .. Len(unsent) /\ n \in Nat /\ unsent \in Seq(Letters)
      <3>1. unsent \in Seq(Letters)
        BY <1>0 DEF DownTyped
      <3>2. Len(T!Take(unsent)) \in Nat /\ Len(T!Take(unsent)) <= Len(unsent)
        BY <3>1, TunnelAssumption DEF T!Take
      <3>3. QED
        BY <2>2, <3>1, <3>2
    <2>4. SubSeq(unsent, 1, n) \in Seq(Letters) /\ unsent' \in Seq(Letters)
      BY <2>2, <2>3 DEF T!Rest
    <2>5. /\ proxy' \in Ends /\ proxy'.greeted = "data" /\ proxy'.pos = proxy.pos
          /\ proxy'.buf = proxy.buf /\ proxy'.got = proxy.got
      <3>1. proxy.sent + n \in Nat
        BY <1>2, <2>3 DEF Ends
      <3>2. QED
        BY <1>0, <1>2, <2>2, <3>1 DEF Ends
    <2>6. T!Record(proxy.sent, SubSeq(unsent, 1, n)) \in Records
      BY <1>2, <2>4 DEF T!Record, Records, Ends
    <2>7. downWire' \in Seq(Records)
      BY <1>0, <2>2, <2>6 DEF DownTyped
    <2>8. QED
      BY <1>0, <1>1, <1>3, <2>1, <2>4, <2>5, <2>7 DEF TunnelTyped, DownTyped
  <1>6. CASE T!ReadUpstream
    <2>1. /\ downWire # <<>> /\ downWire' = Tail(downWire)
          /\ UNCHANGED <<told, unsent, seqNo, proxy>>
          /\ rxPos' = rxPos \/ rxPos' = rxPos + Len(Head(downWire).words)
      BY <1>6 DEF T!ReadUpstream
    <2>2. downWire \in Seq(Records) /\ Head(downWire) \in Records /\ downWire' \in Seq(Records)
      BY <1>0, <2>1 DEF DownTyped
    <2>3. rxPos' \in Nat
      BY <1>0, <2>1, <2>2 DEF TunnelTyped, Records
    <2>4. QED
      BY <1>0, <1>1, <1>2, <1>3, <2>1, <2>2, <2>3 DEF TunnelTyped, DownTyped
  <1>7. CASE T!ForwardFrame
    <2>1. UNCHANGED <<told, unsent, downWire, rxPos, proxy>> /\ seqNo' = seqNo + 1
      BY <1>7 DEF T!ForwardFrame
    <2>2. QED
      BY <1>0, <1>1, <1>2, <1>3, <2>1 DEF TunnelTyped, DownTyped
  <1>8. QED
    BY <1>4, <1>5, <1>6, <1>7

\* What each end sends and gets at a step.
LEMMA TunnelStep ==
    ASSUME TunnelKept, [T!TunnelNext]_tunnelVars
    PROVE  /\ TunnelKept'
           /\ \/ UNCHANGED <<asked, proxy.got>>
              \/ /\ \E s \in ClientShapes : asked' = Append(asked, s)
                 /\ Len(asked) < FramesEach /\ proxy'.got = proxy.got
              \/ /\ asked' = asked /\ Len(proxy.got) < Len(asked)
                 /\ proxy'.got = Append(proxy.got,
                                        <<Len(proxy.got), T!Kept(asked[Len(proxy.got) + 1])>>)
           /\ \/ T!Misgreeted \/ UNCHANGED <<told, got>>
              \/ /\ \E s \in ServerShapes : told' = Append(told, s)
                 /\ Len(told) < FramesEach /\ got' = got
              \/ /\ told' = told /\ Len(got) < Len(told)
                 /\ got' = Append(got, <<Len(got), T!Kept(told[Len(got) + 1])>>)
  <1>1. CASE T!Connect \/ T!Greet \/ T!Greeted \/ T!SendInit \/ T!Close
    BY <1>1, HandshakeKept
  <1>2. CASE T!ReadClient
    BY <1>2, ReadClientKept
  <1>3. CASE T!WriteUp
    BY <1>3, WriteUpKept
  <1>4. CASE T!ProxyReads
    BY <1>4, ProxyReadsKept
  <1>0. T!Misgreeted \/ DownKept
    BY DEF TunnelKept, DownPart
  <1>5. CASE T!ProxySends
    BY <1>0, <1>5, ProxySendsKept, MisgreetedKept
  <1>6. CASE T!ProxyWrites
    BY <1>0, <1>6, ProxyWritesKept, MisgreetedKept
  <1>7. CASE T!ReadUpstream
    BY <1>0, <1>7, ReadUpstreamKept, MisgreetedKept
  <1>8. CASE T!ForwardFrame
    BY <1>0, <1>8, ForwardFrameKept, MisgreetedKept
  <1>9. CASE UNCHANGED tunnelVars
    <2>1. /\ UNCHANGED <<asked, told, got, proxy, phase, tls, txPos, rxPos, seqNo, upBuf,
                         upWire>>
          /\ UNCHANGED <<unsent, downWire, rxBuf>>
      BY <1>9 DEF tunnelVars
    <2>2. UpFlows' /\ DownPart'
      BY <2>1, UpSame, DownSame DEF TunnelKept
    <2>3. TunnelTyped' /\ Opened'
      BY <2>1 DEF TunnelKept, TunnelTyped, Opened
    <2>4. QED
      BY <2>1, <2>2, <2>3 DEF TunnelKept
  <1>10. QED
    BY <1>1, <1>2, <1>3, <1>4, <1>5, <1>6, <1>7, <1>8, <1>9 DEF T!TunnelNext

\* Before it connects, nothing is on the way.
LEMMA TunnelBegins ==
    ASSUME T!TunnelInit
    PROVE  TunnelKept
  <1>1. /\ phase = "connect" /\ tls \in BOOLEAN /\ asked = <<>> /\ upBuf = <<>>
        /\ upWire = <<>>
        /\ txPos = 0 /\ told = <<>> /\ unsent = <<>> /\ downWire = <<>>
        /\ rxPos = 0 /\ rxBuf = <<>> /\ seqNo = 0 /\ got = <<>>
        /\ proxy = [greeted |-> "no", pos |-> 0, buf |-> <<>>, sent |-> 0, got |-> <<>>]
    BY DEF T!TunnelInit
  <1>2. /\ proxy.pos = 0 /\ proxy.buf = <<>> /\ proxy.sent = 0 /\ proxy.got = <<>>
        /\ proxy \in Ends
    BY <1>1 DEF Ends
  <1>3. TunnelTyped /\ Opened
    BY <1>1, <1>2, TunnelAssumption DEF TunnelTyped, Opened, Shaped
  <1> DEFINE one == [i \in 1 .. 1 |-> 1]
             zero == [i \in 1 .. 1 |-> 0]
  <1>4. /\ one \in [1 .. 1 -> Nat \ {0}] /\ one[1] = 1 /\ zero \in [1 .. 1 -> Nat]
        /\ zero[1] = 0
    OBVIOUS
  <1> HIDE DEF one, zero
  <1>5. Len(<<>>) = 0 /\ <<>> \in Seq(Letters) /\ <<>> \in Seq(Records) /\ Len(<<>>) + 1 = 1
    OBVIOUS
  <1>6. \A frames : frames = <<>> => Spells(<<>>, one, frames)
    BY <1>4, <1>5 DEF Spells
  <1>7. \A h : Carries(<<>>, zero, <<>>, h)
    BY <1>4, <1>5 DEF Carries
  <1>8. Cut(<<>>, 1, <<>>)
    BY <1>5 DEF Cut
  <1>9. UpFlow(<<>>, one, zero)
    BY <1>1, <1>2, <1>4, <1>5, <1>6, <1>7, <1>8 DEF UpFlow
  <1>10. DownFlow(<<>>, one, zero)
    BY <1>1, <1>2, <1>4, <1>5, <1>6, <1>7, <1>8 DEF DownFlow
  <1>11. DownPart
    BY <1>1, <1>5, <1>10 DEF DownPart, DownTyped, DownKept, DownFlows
  <1>12. QED
    BY <1>3, <1>9, <1>11 DEF TunnelKept, UpFlows

\* The numbered frames of a channel, one more frame, and one received.
LEMMA NumberedMore ==
    ASSUME NEW S, NEW frames \in Seq(S), NEW s \in S, Len(frames) < FramesEach
    PROVE  /\ T!Numbered(Append(frames, s)) = Append(T!Numbered(frames), <<Len(frames), T!Kept(s)>>)
           /\ <<Len(frames), T!Kept(s)>> \in T!Numbers(S)
  <1>1. /\ Len(frames) \in Nat /\ DOMAIN frames = 1 .. Len(frames)
        /\ DOMAIN Append(frames, s) = 1 .. Len(frames) + 1
        /\ Append(frames, s)[Len(frames) + 1] = s
        /\ \A i \in 1 .. Len(frames) : Append(frames, s)[i] = frames[i]
    OBVIOUS
  <1> DEFINE A1 == T!Numbered(frames)
             B1 == T!Numbered(Append(frames, s))
             x == <<Len(frames), T!Kept(s)>>
  <1>2. /\ A1 = [i \in 1 .. Len(frames) |-> <<i - 1, T!Kept(frames[i])>>]
        /\ B1 = [i \in 1 .. Len(frames) + 1 |-> <<i - 1, T!Kept(Append(frames, s)[i])>>]
    BY <1>1 DEF T!Numbered
  <1>3. /\ DOMAIN A1 = 1 .. Len(frames) /\ \A i \in 1 .. Len(frames) : A1[i] = <<i - 1, T!Kept(frames[i])>>
    BY <1>2
  <1>4. Len(A1) = Len(frames) /\ A1 \in Seq(Nat \X {T!Kept(t) : t \in S})
    <2>1. \A i \in 1 .. Len(frames) : <<i - 1, T!Kept(frames[i])>> \in Nat \X {T!Kept(t) : t \in S}
      <3>1. \A i \in 1 .. Len(frames) : i - 1 \in Nat /\ frames[i] \in S
        BY <1>1
      <3>2. QED
        BY <3>1
    <2>2. A1 \in [1 .. Len(frames) -> Nat \X {T!Kept(t) : t \in S}]
      BY <1>2, <2>1
    <2> HIDE DEF A1
    <2>3. QED
      BY <1>1, <2>2
  <1>5. B1 = Append(A1, x)
    <2> DEFINE R == Nat \X {T!Kept(t) : t \in S}
               n == Len(frames)
    <2>1. A1 \in Seq(R) /\ x \in R /\ n \in Nat /\ Len(A1) = n
      BY <1>1, <1>4
    <2>2. \A i \in 1 .. n + 1 : B1[i] = IF i <= n THEN A1[i] ELSE x
      <3> SUFFICES ASSUME NEW i \in 1 .. n + 1
                   PROVE  B1[i] = IF i <= n THEN A1[i] ELSE x
        OBVIOUS
      <3>0. B1[i] = <<i - 1, T!Kept(Append(frames, s)[i])>>
        BY <1>2
      <3>1. CASE i <= n
        <4>1. i \in 1 .. n
          BY <2>1, <3>1
        <4>2. Append(frames, s)[i] = frames[i] /\ A1[i] = <<i - 1, T!Kept(frames[i])>>
          BY <1>1, <1>3, <4>1
        <4>3. QED
          BY <3>0, <3>1, <4>2
      <3>2. CASE ~ (i <= n)
        <4>1. i = n + 1 /\ i - 1 = n
          BY <2>1, <3>2
        <4>2. Append(frames, s)[i] = s
          BY <1>1, <4>1
        <4>3. QED
          BY <3>0, <3>2, <4>1, <4>2
      <3>3. QED
        BY <3>1, <3>2
    <2>3. B1 = [i \in 1 .. n + 1 |-> B1[i]]
      BY <1>2
    <2> HIDE DEF A1, x, R, n, B1
    <2>4. /\ Append(A1, x) \in [1 .. n + 1 -> R]
          /\ \A i \in 1 .. n + 1 : Append(A1, x)[i] = IF i <= n THEN A1[i] ELSE x
      <3>1. Append(A1, x) \in Seq(R) /\ Len(Append(A1, x)) = n + 1
        BY <2>1
      <3>2. PICK w : w = Append(A1, x)
        OBVIOUS
      <3>3. w \in Seq(R) /\ Len(w) = n + 1 /\ n + 1 \in Nat
        BY <2>1, <3>1, <3>2
      <3>4. w \in [1 .. n + 1 -> R]
        BY <3>3
      <3>5. \A i \in 1 .. n + 1 : Append(A1, x)[i] = IF i <= n THEN A1[i] ELSE x
        BY <2>1
      <3>6. QED
        BY <3>2, <3>4, <3>5
    <2>5. \A i \in 1 .. n + 1 : B1[i] = Append(A1, x)[i]
      BY <2>2, <2>4
    <2>6. Append(A1, x) = [i \in 1 .. n + 1 |-> Append(A1, x)[i]]
      BY <2>4
    <2>7. QED
      BY <2>3, <2>5, <2>6
  <1>6. x \in T!Numbers(S)
    <2>1. Len(frames) \in 0 .. FramesEach /\ T!Kept(s) \in {T!Kept(t) : t \in S}
      BY <1>1, TunnelAssumption
    <2>2. QED
      BY <2>1 DEF T!Numbers
  <1>7. QED
    BY <1>5, <1>6

LEMMA NumberedAt ==
    ASSUME NEW S, NEW frames \in Seq(S), NEW n \in Nat, n < Len(frames)
    PROVE  n < Len(T!Numbered(frames)) /\ T!Numbered(frames)[n + 1] = <<n, T!Kept(frames[n + 1])>>
  <1>1. /\ Len(frames) \in Nat /\ DOMAIN frames = 1 .. Len(frames)
        /\ n + 1 \in 1 .. Len(frames)
        /\ (n + 1) - 1 = n
    OBVIOUS
  <1>2. T!Numbered(frames) = [i \in 1 .. Len(frames) |-> <<i - 1, T!Kept(frames[i])>>]
    BY <1>1 DEF T!Numbered
  <1>3. Len(T!Numbered(frames)) = Len(frames)
    <2>1. T!Numbered(frames) \in [1 .. Len(frames) -> {<<i - 1, T!Kept(frames[i])>> : i \in 1 .. Len(frames)}]
      BY <1>2
    <2> DEFINE R == {<<i - 1, T!Kept(frames[i])>> : i \in 1 .. Len(frames)}
    <2>2. T!Numbered(frames) \in [1 .. Len(frames) -> R]
      BY <2>1
    <2> HIDE DEF R
    <2>3. QED
      BY <1>1, <2>2
  <1>4. T!Numbered(frames)[n + 1] = <<(n + 1) - 1, T!Kept(frames[n + 1])>>
    BY <1>1, <1>2
  <1>5. QED
    BY <1>1, <1>3, <1>4


\* A step of the tunnel is a step of the channel up, and of the one down.
LEMMA UpIsAChannel ==
    ASSUME TunnelKept, [T!TunnelNext]_tunnelVars
    PROVE  [T!Up!Send \/ T!Up!Receive]_<<T!Numbered(asked), proxy.got>>
  <1>1. asked \in Seq(ClientShapes)
    BY DEF TunnelKept, TunnelTyped, Shaped
  <1>2. CASE UNCHANGED <<asked, proxy.got>>
    BY <1>2 DEF T!Numbered
  <1>3. CASE /\ \E s \in ClientShapes : asked' = Append(asked, s)
             /\ Len(asked) < FramesEach /\ proxy'.got = proxy.got
    <2>1. PICK s \in ClientShapes : asked' = Append(asked, s)
      BY <1>3
    <2>2. /\ T!Numbered(asked') = Append(T!Numbered(asked), <<Len(asked), T!Kept(s)>>)
          /\ <<Len(asked), T!Kept(s)>> \in T!Numbers(ClientShapes)
      BY <1>1, <1>3, <2>1, NumberedMore
    <2>3. T!Numbered(asked)' = T!Numbered(asked')
      BY DEF T!Numbered
    <2>4. QED
      BY <1>3, <2>2, <2>3 DEF T!Up!Send
  <1>4. CASE /\ asked' = asked /\ Len(proxy.got) < Len(asked)
             /\ proxy'.got = Append(proxy.got,
                                    <<Len(proxy.got), T!Kept(asked[Len(proxy.got) + 1])>>)
    <2>1. Len(proxy.got) \in Nat
      BY DEF TunnelKept, TunnelTyped
    <2>2. /\ Len(proxy.got) < Len(T!Numbered(asked))
          /\ T!Numbered(asked)[Len(proxy.got) + 1]
               = <<Len(proxy.got), T!Kept(asked[Len(proxy.got) + 1])>>
      BY <1>1, <1>4, <2>1, NumberedAt
    <2>3. T!Numbered(asked)' = T!Numbered(asked)
      BY <1>4 DEF T!Numbered
    <2>4. QED
      BY <1>4, <2>2, <2>3 DEF T!Up!Receive
  <1>5. QED
    BY <1>2, <1>3, <1>4, TunnelStep

LEMMA DownIsAChannel ==
    ASSUME TunnelKept, [T!TunnelNext]_tunnelVars
    PROVE  [T!Misgreeted \/ T!Down!Send \/ T!Down!Receive]_<<told, got>>
  <1>1. told \in Seq(ServerShapes)
    BY DEF TunnelKept, TunnelTyped, Shaped
  <1>2. CASE T!Misgreeted \/ UNCHANGED <<told, got>>
    BY <1>2
  <1>3. CASE /\ \E s \in ServerShapes : told' = Append(told, s)
             /\ Len(told) < FramesEach /\ got' = got
    <2>1. PICK s \in ServerShapes : told' = Append(told, s)
      BY <1>3
    <2>2. /\ T!Numbered(told') = Append(T!Numbered(told), <<Len(told), T!Kept(s)>>)
          /\ <<Len(told), T!Kept(s)>> \in T!Numbers(ServerShapes)
      BY <1>1, <1>3, <2>1, NumberedMore
    <2>3. T!Numbered(told)' = T!Numbered(told')
      BY DEF T!Numbered
    <2>4. QED
      BY <1>3, <2>2, <2>3 DEF T!Down!Send
  <1>4. CASE /\ told' = told /\ Len(got) < Len(told)
             /\ got' = Append(got, <<Len(got), T!Kept(told[Len(got) + 1])>>)
    <2>1. Len(got) \in Nat
      BY DEF TunnelKept, TunnelTyped
    <2>2. /\ Len(got) < Len(T!Numbered(told))
          /\ T!Numbered(told)[Len(got) + 1] = <<Len(got), T!Kept(told[Len(got) + 1])>>
      BY <1>1, <1>4, <2>1, NumberedAt
    <2>3. T!Numbered(told)' = T!Numbered(told)
      BY <1>4 DEF T!Numbered
    <2>4. QED
      BY <1>4, <2>2, <2>3 DEF T!Down!Receive
  <1>5. QED
    BY <1>2, <1>3, <1>4, TunnelStep

\* Both channels begin empty.
LEMMA ChannelsBegin ==
    ASSUME T!TunnelInit
    PROVE  T!Numbered(asked) = <<>> /\ proxy.got = <<>> /\ T!Numbered(told) = <<>> /\ got = <<>>
  <1>1. asked = <<>> /\ told = <<>> /\ got = <<>> /\ proxy.got = <<>>
    BY DEF T!TunnelInit
  <1>2. \A f : f = <<>> => T!Numbered(f) = <<>>
    BY DEF T!Numbered
  <1>3. QED
    BY <1>1, <1>2

\* Either end of the tunnel gets the frames of the other whole, once and in
\* their order, the client's numbered from 0 and without their padding, whatever
\* the records they are cut into and whenever the tunnel closes: the bridge is
\* two channels.  The frames are those of TunnelAssumption, a padded error code
\* keeps its padding, and nothing is said of what reaches the client after a
\* fake TLS greeting that ends with application data.
THEOREM TunnelIsTwoChannels == Spec => TunnelKeepsFrames
  <1>1. Init => TunnelKept
    BY TunnelBegins DEF Init
  <1>2. [Next]_servicesVars => [T!TunnelNext]_tunnelVars
    BY PartsMove
  <1>3. TunnelKept /\ [Next]_servicesVars => TunnelKept'
    BY <1>2, TunnelStep
  <1>4. TunnelKept /\ [Next]_servicesVars
          => [T!Up!Send \/ T!Up!Receive]_<<T!Numbered(asked), proxy.got>>
    BY <1>2, UpIsAChannel
  <1>5. TunnelKept /\ [Next]_servicesVars
          => [T!Misgreeted \/ T!Down!Send \/ T!Down!Receive]_<<told, got>>
    BY <1>2, DownIsAChannel
  <1>6. Init => T!Numbered(asked) = <<>> /\ proxy.got = <<>> /\ T!Numbered(told) = <<>> /\ got = <<>>
    BY ChannelsBegin DEF Init
  <1>7. QED
    BY <1>1, <1>3, <1>4, <1>5, <1>6, PTL
       DEF Spec, TunnelKeepsFrames, T!TunnelKeepsFrames, T!Up!ChannelSpec

-----------------------------------------------------------------------------
(* The bytes of a file                                                     *)

\* The number of pieces of length b that hold a.
LEMMA PiecesOf ==
    ASSUME NEW a \in Nat, NEW b \in Nat \ {0}
    PROVE  /\ B!DivCeil(a, b) \in Nat /\ a <= B!DivCeil(a, b) * b
           /\ B!DivCeil(a, b) * b < a + b
  <1>1. a + b - 1 \in Nat
    OBVIOUS
  <1>2. PICK q \in Nat, r \in 0 .. b - 1 : q = B!DivCeil(a, b) /\ a + b - 1 = q * b + r
    BY <1>1, Divided DEF B!DivCeil
  <1>3. PICK m \in Int : m = q * b
    BY Product
  <1>4. a <= m /\ m < a + b
    BY <1>2, <1>3
  <1>5. QED
    BY <1>2, <1>3, <1>4

\* No other number is it.
LEMMA PiecesAre ==
    ASSUME NEW a \in Nat, NEW b \in Nat \ {0}, NEW q \in Nat, a <= q * b, q * b < a + b
    PROVE  B!DivCeil(a, b) = q
  <1>1. PICK m \in Int : m = q * b
    BY Product
  <1>2. PICK r \in Int : r = a + b - 1 - m
    BY <1>1
  <1>3. a + b - 1 = m + r /\ 0 <= r /\ r < b /\ a + b - 1 \in Int
    BY <1>1, <1>2
  <1>4. (a + b - 1) \div b = q
    BY <1>1, <1>3, DividedIs
  <1>5. QED
    BY <1>4 DEF B!DivCeil

\* A longer whole has no fewer pieces.
LEMMA MorePieces ==
    ASSUME NEW a \in Nat, NEW c \in Nat, a <= c, NEW b \in Nat \ {0}
    PROVE  B!DivCeil(a, b) <= B!DivCeil(c, b)
  <1>1. PICK q \in Nat : q = B!DivCeil(a, b) /\ a <= q * b /\ q * b < a + b
    BY PiecesOf
  <1>2. PICK r \in Nat : r = B!DivCeil(c, b) /\ c <= r * b
    BY PiecesOf
  <1>3. (r + 1) * b = r * b + b
    BY Product
  <1>4. PICK m \in Int, n \in Int : m = q * b /\ n = r * b
    BY Product
  <1>5. q * b < (r + 1) * b
    BY <1>1, <1>2, <1>3, <1>4
  <1>6. q < r + 1
    BY <1>5, QuotientOrder
  <1>7. QED
    BY <1>1, <1>2, <1>6


\* A file of s bytes in C chunks of P, each with a tag of T: what is stored falls
\* into as many pieces of P + T, and piece c is as long as its chunk and a tag.
LaidOut(s, P1, T1, C) ==
    /\ s + C * T1 \in Nat /\ B!DivCeil(s + C * T1, P1 + T1) = C
    /\ \A c \in 0 .. C - 1 :
         /\ B!Least(P1, s - c * P1) \in 0 .. P1
         /\ c * (P1 + T1) + B!Least(P1, s - c * P1) + T1
              = B!Least((c + 1) * (P1 + T1), s + C * T1)

LEMMA Layout ==
    ASSUME NEW s \in Nat, NEW P1 \in Nat \ {0}, NEW T1 \in Nat \ {0}, NEW C \in Nat \ {0},
           (C - 1) * P1 <= s, s <= C * P1
    PROVE  LaidOut(s, P1, T1, C)
  <1>1. PICK p \in Int, t \in Int : p = C * P1 /\ t = C * T1
    BY Product
  <1>2. /\ C * (P1 + T1) = p + t
        /\ (C - 1) * (P1 + T1) = (p - P1) + (t - T1)
        /\ (C - 1) * P1 = p - P1
    <2>1. (C - 1) * P1 = C * P1 - 1 * P1 /\ (C - 1) * T1 = C * T1 - 1 * T1
      BY Product
    <2>2. /\ C * (P1 + T1) = C * P1 + C * T1
          /\ (C - 1) * (P1 + T1) = (C - 1) * P1 + (C - 1) * T1
      BY Product
    <2>3. QED
      BY <1>1, <2>1, <2>2
  <1>3. t >= 0
    <2>1. 0 * T1 <= C * T1
      BY ProductOrder
    <2>2. QED
      BY <1>1, <2>1
  <1>4. p - P1 <= s /\ s <= p /\ s + t \in Nat /\ P1 + T1 \in Nat \ {0}
    BY <1>1, <1>2, <1>3
  <1>5. s + t <= C * (P1 + T1) /\ C * (P1 + T1) < (s + t) + (P1 + T1)
    BY <1>1, <1>2, <1>4
  <1>6. B!DivCeil(s + t, P1 + T1) = C
    BY <1>4, <1>5, PiecesAre
  <1>7. ASSUME NEW c \in 0 .. C - 1
        PROVE  /\ B!Least(P1, s - c * P1) \in 0 .. P1
               /\ c * (P1 + T1) + B!Least(P1, s - c * P1) + T1
                    = B!Least((c + 1) * (P1 + T1), s + t)
    <2>1. PICK d \in Int, e \in Int : d = c * P1 /\ e = c * T1
      BY Product
    <2>2. /\ c * (P1 + T1) = d + e
          /\ (c + 1) * (P1 + T1) = (d + P1) + (e + T1)
          /\ (c + 1) * P1 = d + P1 /\ (c + 1) * T1 = e + T1
      <3>1. (c + 1) * P1 = c * P1 + 1 * P1 /\ (c + 1) * T1 = c * T1 + 1 * T1
        BY Product
      <3>2. /\ c * (P1 + T1) = c * P1 + c * T1
            /\ (c + 1) * (P1 + T1) = (c + 1) * P1 + (c + 1) * T1
        BY Product
      <3>3. QED
        BY <2>1, <3>1, <3>2
    <2>3. CASE c = C - 1
      <3>1. d = p - P1 /\ e = t - T1
        <4>1. (C - 1) * T1 = C * T1 - 1 * T1
          BY Product
        <4>2. QED
          BY <1>1, <1>2, <2>1, <2>3, <4>1
      <3>2. s - d <= P1 /\ 0 <= s - d /\ s - d \in Int
        BY <1>1, <1>4, <3>1
      <3>3. B!Least(P1, s - d) = s - d
        BY <3>2 DEF B!Least
      <3>4. (d + P1) + (e + T1) >= s + t
        BY <1>1, <1>4, <3>1
      <3>5. B!Least((d + P1) + (e + T1), s + t) = s + t
        BY <1>1, <1>4, <2>1, <3>4 DEF B!Least
      <3>6. d + e + (s - d) + T1 = s + t
        BY <1>1, <2>1, <3>1
      <3>7. QED
        BY <2>1, <2>2, <3>2, <3>3, <3>5, <3>6
    <2>4. CASE c < C - 1
      <3>1. c + 1 <= C - 1 /\ c + 1 \in Int /\ C - 1 \in Int
        BY <2>4
      <3>2. (c + 1) * P1 <= (C - 1) * P1 /\ (c + 1) * T1 <= (C - 1) * T1
        BY <3>1, ProductOrder
      <3>3. d + P1 <= p - P1 /\ e + T1 <= t - T1
        <4>1. (C - 1) * T1 = C * T1 - 1 * T1
          BY Product
        <4>2. QED
          BY <1>1, <1>2, <2>1, <2>2, <3>2, <4>1
      <3>4. P1 <= s - d /\ s - d \in Int
        BY <1>1, <1>4, <2>1, <3>3
      <3>5. B!Least(P1, s - d) = P1
        BY <3>4 DEF B!Least
      <3>6. (d + P1) + (e + T1) < s + t
        BY <1>1, <1>4, <2>1, <3>3
      <3>7. B!Least((d + P1) + (e + T1), s + t) = (d + P1) + (e + T1)
        BY <3>6 DEF B!Least
      <3>8. d + e + P1 + T1 = (d + P1) + (e + T1)
        BY <2>1
      <3>9. QED
        BY <2>1, <2>2, <3>5, <3>7, <3>8
    <2>5. QED
      BY <2>3, <2>4
  <1>8. QED
    BY <1>1, <1>4, <1>6, <1>7 DEF LaidOut

\* The bytes of a file, by their places.
FileBytes(n) == [j \in 1 .. n |-> j - 1]

\* The chunks of a file, and what is stored, which the slack has room for.
FileTyped == node \in [size : 0 .. MaxSize, key : OrNone(Keys)]
LEMMA FileSizes ==
    ASSUME FileTyped
    PROVE  /\ node.size \in Nat /\ B!Chunks \in Nat \ {0}
           /\ (B!Chunks - 1) * PlainChunk <= node.size /\ node.size <= B!Chunks * PlainChunk
           /\ B!StoredSize \in Nat /\ B!StoredSize <= B!Limit /\ B!Limit \in Nat
           /\ B!StoredSize = node.size + IF B!Encrypted THEN B!Chunks * Tag ELSE 0
  <1>1. /\ node.size \in Nat /\ node.size <= MaxSize /\ MaxSize \in Nat /\ Slack \in Nat
        /\ PlainChunk \in Nat \ {0} /\ Tag \in Nat \ {0}
    BY ContentAssumption DEF FileTyped
  <1>2. PICK q \in Nat : /\ q = B!DivCeil(node.size, PlainChunk)
                         /\ node.size <= q * PlainChunk
                         /\ q * PlainChunk < node.size + PlainChunk
    BY <1>1, PiecesOf
  <1>3. PICK r \in Nat : r = B!DivCeil(MaxSize, PlainChunk) /\ q <= r
    <2>1. B!DivCeil(MaxSize, PlainChunk) \in Nat
      BY <1>1, PiecesOf
    <2>2. q <= B!DivCeil(MaxSize, PlainChunk)
      BY <1>1, <1>2, MorePieces
    <2>3. QED
      BY <2>1, <2>2
  <1>4. PICK C \in Nat \ {0} : C = B!Chunks /\ C = B!Most(1, q)
    BY <1>2 DEF B!Chunks, B!Most
  <1>5. C = q \/ (q = 0 /\ C = 1)
    BY <1>4 DEF B!Most
  <1>6. (C - 1) * PlainChunk <= node.size /\ node.size <= C * PlainChunk
    <2>1. CASE C = q
      <3>1. (q - 1) * PlainChunk = q * PlainChunk - 1 * PlainChunk
        BY <1>1, Product
      <3>2. PICK m \in Int : m = q * PlainChunk
        BY <1>1, Product
      <3>3. QED
        BY <1>1, <1>2, <2>1, <3>1, <3>2
    <2>2. CASE q = 0 /\ C = 1
      BY <1>1, <1>2, <2>2
    <2>3. QED
      BY <1>5, <2>1, <2>2
  <1>7. C * Tag <= Slack /\ C * Tag \in Nat
    <2>1. PICK D \in Nat : D = B!Most(1, r) /\ C <= D
      BY <1>3, <1>5 DEF B!Most
    <2>2. C * Tag <= D * Tag
      BY <1>1, <2>1, ProductOrder
    <2>3. D * Tag <= Slack
      BY <1>3, <2>1, ContentAssumption
    <2>4. 0 * Tag <= C * Tag /\ C * Tag \in Int /\ D * Tag \in Int
      BY <1>1, ProductOrder, Product
    <2>5. QED
      BY <1>1, <2>2, <2>3, <2>4
  <1>8. B!StoredSize = node.size + IF B!Encrypted THEN C * Tag ELSE 0
    BY <1>4 DEF B!StoredSize
  <1>9. B!Limit = node.size + Slack
    BY DEF B!Limit
  <1>10. B!StoredSize \in Nat /\ B!StoredSize <= B!Limit /\ B!Limit \in Nat
    <2>1. PICK u \in Nat : u = C * Tag
      BY <1>7
    <2>2. QED
      BY <1>1, <1>7, <1>8, <1>9, <2>1
  <1>11. QED
    BY <1>1, <1>4, <1>6, <1>8, <1>10


\* What is stored is a sequence, and its first bytes, all of them, are it.
LEMMA WholeIsStored ==
    ASSUME FileTyped
    PROVE  /\ \E X : B!Stored \in Seq(X)
           /\ Len(B!Stored) = B!StoredSize /\ DOMAIN B!Stored = 1 .. B!StoredSize
           /\ SubSeq(B!Stored, 1, B!StoredSize) = B!Stored
  <1>1. PICK n \in Nat : n = B!StoredSize
    BY FileSizes
  <1>2. PICK g : g = B!Stored
    OBVIOUS
  <1>3. g = [j \in 1 .. n |-> g[j]] /\ DOMAIN g = 1 .. n
    BY <1>1, <1>2 DEF B!Stored
  <1> DEFINE X == {g[j] : j \in 1 .. n}
  <1>4. g \in [1 .. n -> X]
    BY <1>3
  <1> HIDE DEF X
  <1>5. g \in Seq(X) /\ Len(g) = n
    BY <1>4
  <1>6. PICK w : w = SubSeq(g, 1, n)
    OBVIOUS
  <1>7. w \in Seq(X) /\ Len(w) = n /\ \A j \in 1 .. n : w[j] = g[j]
    BY <1>5, <1>6
  <1>8. w \in [1 .. n -> X]
    BY <1>7
  <1>9. w = [j \in 1 .. n |-> w[j]]
    BY <1>8
  <1>10. w = g
    BY <1>3, <1>7, <1>9
  <1>11. QED
    BY <1>1, <1>2, <1>3, <1>5, <1>6, <1>10

\* Byte o of stored piece c is of chunk c.
LEMMA SealedAt ==
    ASSUME FileTyped, NEW c \in Nat, NEW o \in 0 .. B!EncryptedChunk - 1
    PROVE  LET u == B!Sealed(c * B!EncryptedChunk + o)
               l == B!Least(PlainChunk, node.size - c * PlainChunk)
           IN /\ u.chunk = c /\ u.last = B!IsLast(c) /\ u.key = node.key /\ u.len = l
              /\ o < l => u.byte = c * PlainChunk + o
  <1>1. B!EncryptedChunk \in Nat \ {0}
    BY ContentAssumption DEF B!EncryptedChunk
  <1>2. PICK x \in Int : x = c * B!EncryptedChunk + o
    BY <1>1, Product
  <1>3. x \div B!EncryptedChunk = c /\ x % B!EncryptedChunk = o
    BY <1>1, <1>2, DividedIs
  <1>4. QED
    BY <1>2, <1>3 DEF B!Sealed

\* With its key a sealed file opens, slice by slice,
LEMMA RightKeyOpens ==
    ASSUME FileTyped, B!Encrypted
    PROVE  /\ B!DivCeil(Len(B!Stored), B!EncryptedChunk) = B!Chunks
           /\ B!AllOpen(B!Stored, node.key)
  <1>1. /\ node.size \in Nat /\ B!Chunks \in Nat \ {0} /\ B!StoredSize \in Nat
        /\ (B!Chunks - 1) * PlainChunk <= node.size /\ node.size <= B!Chunks * PlainChunk
        /\ B!StoredSize = node.size + B!Chunks * Tag
        /\ PlainChunk \in Nat \ {0} /\ Tag \in Nat \ {0}
    BY FileSizes, ContentAssumption
  <1>2. B!EncryptedChunk = PlainChunk + Tag /\ B!EncryptedChunk \in Nat \ {0}
    BY <1>1 DEF B!EncryptedChunk
  <1>3. PICK g, X : g = B!Stored /\ g \in Seq(X) /\ Len(g) = B!StoredSize
    BY WholeIsStored
  <1>4. /\ B!DivCeil(Len(g), B!EncryptedChunk) = B!Chunks
        /\ \A c \in 0 .. B!Chunks - 1 :
             /\ B!Least(PlainChunk, node.size - c * PlainChunk) \in 0 .. PlainChunk
             /\ c * B!EncryptedChunk + B!Least(PlainChunk, node.size - c * PlainChunk) + Tag
                  = B!Least((c + 1) * B!EncryptedChunk, Len(g))
    <2>1. PICK s \in Nat, C \in Nat \ {0} :
            /\ s = node.size /\ C = B!Chunks
            /\ (C - 1) * PlainChunk <= s /\ s <= C * PlainChunk
      BY <1>1
    <2>2. /\ B!DivCeil(s + C * Tag, PlainChunk + Tag) = C
          /\ \A c \in 0 .. C - 1 :
               /\ B!Least(PlainChunk, s - c * PlainChunk) \in 0 .. PlainChunk
               /\ c * (PlainChunk + Tag) + B!Least(PlainChunk, s - c * PlainChunk) + Tag
                    = B!Least((c + 1) * (PlainChunk + Tag), s + C * Tag)
      <3>1. PlainChunk \in Nat \ {0} /\ Tag \in Nat \ {0}
        BY <1>1
      <3>2. (C - 1) * PlainChunk <= s /\ s <= C * PlainChunk
        BY <2>1
      <3>3. QED
        <4>1. LaidOut(s, PlainChunk, Tag, C)
          BY <3>1, <3>2, Layout
        <4>2. QED
          BY <4>1, Zenon DEF LaidOut
    <2>3. Len(g) = s + C * Tag
      BY <1>1, <1>3, <2>1, Zenon
    <2>4. QED
      BY <1>2, <2>1, <2>2, <2>3, Zenon
  <1>5. ASSUME NEW c \in 0 .. B!Chunks - 1
        PROVE  B!Opens(B!Slice(g, c), c, c + 1 = B!Chunks, node.key)
    <2>1. PICK l \in 0 .. PlainChunk : l = B!Least(PlainChunk, node.size - c * PlainChunk)
      BY <1>4
    <2>2. PICK lo \in Nat : lo = c * B!EncryptedChunk
      <3>1. 0 * B!EncryptedChunk <= c * B!EncryptedChunk /\ c * B!EncryptedChunk \in Int
        BY <1>2, ProductOrder, Product
      <3>2. QED
        BY <1>2, <3>1
    <2>3. PICK hi \in Nat : /\ hi = B!Least((c + 1) * B!EncryptedChunk, Len(g))
                            /\ hi = lo + l + Tag
      <3>1. c * B!EncryptedChunk + B!Least(PlainChunk, node.size - c * PlainChunk) + Tag
              = B!Least((c + 1) * B!EncryptedChunk, Len(g))
        BY <1>4
      <3>2. lo + l + Tag = B!Least((c + 1) * B!EncryptedChunk, Len(g))
        BY <2>1, <2>2, <3>1, Zenon
      <3>3. lo + l + Tag \in Nat
        BY <1>1, <2>1, <2>2
      <3>4. QED
        BY <3>2, <3>3, Zenon
    <2>4. hi <= Len(g)
      <3>1. (c + 1) * B!EncryptedChunk \in Int /\ Len(g) \in Int
        BY <1>1, <1>2, <1>3, Product
      <3>2. QED
        BY <2>3, <3>1 DEF B!Least
    <2>5. PICK w : w = B!Slice(g, c)
      OBVIOUS
    <2>6. w = SubSeq(g, lo + 1, hi)
      BY <2>2, <2>3, <2>5 DEF B!Slice
    <2>7. lo + 1 <= hi /\ hi - (lo + 1) + 1 = l + Tag /\ l + Tag \in Nat /\ l + Tag >= 1
      BY <1>1, <2>3, SMTT(30)
    <2>8. Len(w) = l + Tag /\ w \in Seq(X)
      BY <1>3, <2>4, <2>6, <2>7
    <2>9. \A j \in 1 .. l + Tag : w[j] = g[lo + j]
      <3> SUFFICES ASSUME NEW j \in 1 .. l + Tag
                   PROVE  w[j] = g[lo + j]
        OBVIOUS
      <3>1. lo + 1 + j - 1 = lo + j /\ j \in 1 .. hi - (lo + 1) + 1
        BY <2>7
      <3>2. w[j] = g[lo + 1 + j - 1]
        BY <1>3, <2>4, <2>6, <2>7, <3>1
      <3>3. QED
        BY <3>1, <3>2
    <2>10. ASSUME NEW j \in 1 .. l + Tag
           PROVE  /\ w[j].chunk = c /\ w[j].last = (c + 1 = B!Chunks) /\ w[j].key = node.key
                  /\ w[j].len = l
      <3>1. PICK o \in 0 .. B!EncryptedChunk - 1 : o = j - 1 /\ (lo + j) - 1 = lo + o
        BY <1>1, <1>2, <2>1
      <3>2. lo + j \in 1 .. B!StoredSize
        BY <1>1, <1>3, <2>3, <2>4
      <3>3. g[lo + j] = B!Sealed((lo + j) - 1)
        BY <1>3, <3>2 DEF B!Stored
      <3>4. w[j] = B!Sealed(c * B!EncryptedChunk + o)
        BY <2>2, <2>9, <3>1, <3>3
      <3>5. c \in Nat
        BY <1>1
      <3>6. QED
        BY <2>1, <3>1, <3>4, <3>5, SealedAt DEF B!IsLast
    <2>11. DOMAIN w = 1 .. l + Tag /\ 1 \in 1 .. l + Tag /\ Tag <= l + Tag
      BY <1>1, <2>1, <2>7, <2>8
    <2>12. w[1].len = l
      BY <2>10, <2>11
    <2>13. QED
      BY <2>5, <2>8, <2>10, <2>11, <2>12 DEF B!Opens
  <1>6. QED
    BY <1>3, <1>4, <1>5 DEF B!AllOpen

\* and what is opened are the bytes of the file.
LEMMA OpenedIsTheFile ==
    ASSUME FileTyped, B!Encrypted
    PROVE  B!Opened(B!Stored) = FileBytes(node.size)
  <1>1. /\ node.size \in Nat /\ B!Chunks \in Nat \ {0} /\ B!StoredSize \in Nat
        /\ B!StoredSize = node.size + B!Chunks * Tag
        /\ PlainChunk \in Nat \ {0} /\ Tag \in Nat \ {0}
    BY FileSizes, ContentAssumption
  <1>2. B!EncryptedChunk = PlainChunk + Tag /\ B!EncryptedChunk \in Nat \ {0}
    BY <1>1 DEF B!EncryptedChunk
  <1>3. /\ Len(B!Stored) = B!StoredSize
        /\ B!DivCeil(Len(B!Stored), B!EncryptedChunk) = B!Chunks
    BY WholeIsStored, RightKeyOpens
  <1>4. Len(B!Stored) - B!Chunks * Tag = node.size
    <2>1. PICK t \in Int : t = B!Chunks * Tag
      BY <1>1, Product
    <2>2. QED
      BY <1>1, <1>3, <2>1
  <1> DEFINE Place(j) == (j \div PlainChunk) * B!EncryptedChunk + (j % PlainChunk)
  <1>5. ASSUME NEW j \in 1 .. node.size
        PROVE  B!Stored[Place(j - 1) + 1].byte = j - 1
    <2>1. PICK q \in Nat, o \in 0 .. PlainChunk - 1 :
            /\ q = (j - 1) \div PlainChunk /\ o = (j - 1) % PlainChunk
            /\ j - 1 = q * PlainChunk + o
      <3>1. j - 1 \in Nat
        BY <1>1
      <3>2. QED
        BY <1>1, <3>1, Divided, ZenonT(30)
    <2>2. PICK m \in Int : m = q * PlainChunk
      BY <1>1, Product
    <2>3. PICK l \in Int : l = B!Least(PlainChunk, node.size - q * PlainChunk) /\ o < l
      BY <1>1, <2>1, <2>2 DEF B!Least
    <2>4. o \in 0 .. B!EncryptedChunk - 1
      BY <1>1, <1>2, <2>1
    <2>5. PICK x \in Int : x = q * B!EncryptedChunk + o
      BY <1>1, <1>2, <2>1, Product
    <2>6. B!Sealed(x).byte = j - 1
      BY <2>1, <2>3, <2>4, <2>5, SealedAt
    <2>7. x + 1 \in 1 .. B!StoredSize
      <3>1. q < B!Chunks
        <4>1. node.size <= B!Chunks * PlainChunk
          BY FileSizes
        <4>2. PICK n \in Int : n = B!Chunks * PlainChunk
          BY <1>1, Product
        <4>3. q * PlainChunk < B!Chunks * PlainChunk
          BY <1>1, <2>1, <2>2, <4>1, <4>2
        <4>4. QED
          BY <1>1, <4>3, QuotientOrder
      <3>2. q * Tag <= B!Chunks * Tag
        BY <1>1, <3>1, ProductOrder
      <3>3. q * B!EncryptedChunk = q * PlainChunk + q * Tag
        BY <1>1, <1>2, Product
      <3>4. PICK d \in Int, e \in Int : d = q * Tag /\ e = B!Chunks * Tag
        BY <1>1, Product
      <3>5. 0 * Tag <= q * Tag /\ 0 * PlainChunk <= q * PlainChunk
        BY <1>1, ProductOrder
      <3>6. d >= 0 /\ m >= 0 /\ d <= e /\ x = m + d + o /\ B!StoredSize = node.size + e
        BY <1>1, <2>1, <2>2, <2>5, <3>2, <3>3, <3>4, <3>5
      <3>7. m + o < node.size
        BY <1>1, <2>1, <2>2
      <3>8. QED
        BY <1>1, <2>1, <2>2, <3>6, <3>7
    <2>8. B!Stored[x + 1] = B!Sealed(x)
      <3>1. (x + 1) - 1 = x
        OBVIOUS
      <3>2. QED
        BY <2>7, <3>1 DEF B!Stored
    <2>9. Place(j - 1) = x
      BY <2>1, <2>5
    <2>10. QED
      BY <2>6, <2>8, <2>9
  <1>6. B!Opened(B!Stored) = [j \in 1 .. node.size |-> B!Stored[Place(j - 1) + 1].byte]
    BY <1>3, <1>4 DEF B!Opened
  <1> HIDE DEF Place
  <1>7. QED
    BY <1>5, <1>6 DEF FileBytes

\* So are the bytes that were not sealed.
LEMMA PlainIsTheFile ==
    ASSUME FileTyped, ~ B!Encrypted
    PROVE  B!Unsealed(B!Stored) = FileBytes(node.size)
  <1>1. node.size \in Nat /\ B!StoredSize = node.size /\ DOMAIN B!Stored = 1 .. node.size
    BY FileSizes, WholeIsStored
  <1>2. ASSUME NEW j \in 1 .. node.size PROVE B!Stored[j].byte = j - 1
    BY <1>1 DEF B!Stored, B!Plain
  <1>3. QED
    BY <1>1, <1>2 DEF B!Unsealed, FileBytes


\* What a read is made of.
Requests == {B!Whole} \cup B!Ranges \cup B!Suffixes
ReadRecords ==
    [at : {None, "fetch", "open", "done"}, by : {None, "dav", "command"}, asked : Requests,
     key : OrNone(Keys), known : BOOLEAN, got : Nat, failed : BOOLEAN,
     status : {None, "ok", "refused"}, header : Nat \X Nat, body : Seq(Nat)]

\* A part shorter than asked for was the last one, and a read under way has no
\* answer yet; what is answered or refused is what should be.
ReadKept(g) ==
    /\ g \in ReadRecords /\ g.got <= B!StoredSize
    /\ g.at = "open" => g.got = B!StoredSize
    /\ g.at \in {"fetch", "open"} => g.status = None
    /\ g.status = "refused" => g.failed \/ (B!Encrypted /\ g.key # node.key)
    /\ g.status = "ok" /\ g.known =>
         /\ g.body = B!Named(g.header)
         /\ g.asked.kind # "suffix" => g.header = B!Due(g.asked)

ContentKept ==
    /\ FileTyped /\ memoryKey \in OrNone(Keys) /\ listed \in BOOLEAN /\ ReadKept(get)

\* Ranges have places, suffixes a count.
LEMMA RequestsAre ==
    ASSUME NEW r \in Requests
    PROVE  /\ r.kind \in {"whole", "range", "suffix"}
           /\ r.kind = "range" => r.from \in Nat /\ r.to \in Nat \cup {None}
           /\ r.kind = "suffix" => r.count \in Nat
  BY ContentAssumption DEF Requests, B!Whole, B!Ranges, B!Suffixes

\* An answer keeps the rest of the read, and its body is a part of the data.
IsAnswer(h, g, data) ==
    \E first \in Nat, last \in Nat, count \in Nat :
       /\ first = B!First(g.asked) /\ last = B!Last(g.asked, Len(data))
       /\ count = IF data = <<>> THEN 0 ELSE B!Most(0, last - first + 1)
       /\ h.header = <<first, count>>
       /\ h.body = SubSeq(data, first + 1, B!Least(first + count, Len(data)))

LEMMA AnswerTyped ==
    ASSUME FileTyped, NEW g \in ReadRecords, NEW data \in Seq(Nat),
           NEW h, h = B!Answered(g, data)
    PROVE  /\ h \in ReadRecords /\ h.at = "done" /\ h.status = "ok"
           /\ h.asked = g.asked /\ h.known = g.known /\ h.got = g.got
           /\ IsAnswer(h, g, data)
  <1>1. PICK r \in Requests : r = g.asked
    BY DEF ReadRecords
  <1>2. /\ r.kind \in {"whole", "range", "suffix"}
        /\ r.kind = "range" => r.from \in Nat /\ r.to \in Nat \cup {None}
        /\ r.kind = "suffix" => r.count \in Nat
    BY RequestsAre
  <1>3. PICK first \in Nat : first = B!First(r)
    BY <1>2 DEF B!First
  <1>4. PICK n \in Nat : n = Len(data)
    OBVIOUS
  <1>5. PICK end \in Nat : end = B!Most(n - 1, 0)
    BY DEF B!Most
  <1>6. PICK last \in Nat : last = B!Last(r, n)
    <2>1. B!Last(r, n) = CASE r.kind = "whole" -> end
                           [] r.kind = "suffix" -> B!Least(r.count, end)
                           [] OTHER -> IF r.to = None THEN end ELSE B!Least(r.to, end)
      BY <1>5 DEF B!Last
    <2>2. CASE r.kind = "whole"
      BY <2>1, <2>2
    <2>3. CASE r.kind = "suffix"
      <3>1. B!Least(r.count, end) \in Nat
        BY <1>2, <2>3 DEF B!Least
      <3>2. QED
        BY <2>1, <2>3, <3>1
    <2>4. CASE r.kind = "range"
      <3>1. r.to # None => B!Least(r.to, end) \in Nat
        BY <1>2, <2>4 DEF B!Least
      <3>2. QED
        BY <2>1, <2>4, <3>1
    <2>5. QED
      BY <1>2, <2>2, <2>3, <2>4
  <1>7. PICK count \in Nat : count = IF data = <<>> THEN 0 ELSE B!Most(0, last - first + 1)
    <2>1. PICK m \in Int : m = last - first + 1
      OBVIOUS
    <2>2. B!Most(0, m) \in Nat
      BY DEF B!Most
    <2>3. QED
      BY <2>1, <2>2
  <1>8. PICK body \in Seq(Nat) : body = SubSeq(data, first + 1, B!Least(first + count, n))
    <2>1. PICK hi \in Nat : hi = B!Least(first + count, n) /\ hi <= n
      BY DEF B!Least
    <2>2. SubSeq(data, first + 1, hi) \in Seq(Nat)
      BY <1>4, <2>1
    <2>3. QED
      BY <2>1, <2>2
  <1>9. h = [g EXCEPT !.at = "done", !.status = "ok", !.header = <<first, count>>,
                      !.body = body]
    BY <1>1, <1>3, <1>4, <1>6, <1>7, <1>8, Zenon DEF B!Answered
  <1>10. <<first, count>> \in Nat \X Nat
    OBVIOUS
  <1>11. /\ h \in ReadRecords /\ h.at = "done" /\ h.status = "ok"
         /\ h.header = <<first, count>> /\ h.body = body /\ h.asked = g.asked /\ h.known = g.known /\ h.got = g.got
    BY <1>9, <1>10 DEF ReadRecords
  <1>12. IsAnswer(h, g, data)
    <2>1. /\ first = B!First(g.asked) /\ last = B!Last(g.asked, Len(data))
          /\ count = IF data = <<>> THEN 0 ELSE B!Most(0, last - first + 1)
          /\ h.header = <<first, count>>
          /\ h.body = SubSeq(data, first + 1, B!Least(first + count, Len(data)))
      BY <1>1, <1>3, <1>4, <1>6, <1>7, <1>8, <1>11, Zenon
    <2>2. first \in Nat /\ last \in Nat /\ count \in Nat
      OBVIOUS
    <2>3. QED
      BY <2>1, <2>2, Zenon DEF IsAnswer
  <1>13. QED
    BY <1>11, <1>12

\* The bytes of a file are a sequence.
LEMMA FileBytesAre ==
    ASSUME NEW n \in Nat
    PROVE  /\ FileBytes(n) \in Seq(Nat) /\ Len(FileBytes(n)) = n
           /\ \A j \in 1 .. n : FileBytes(n)[j] = j - 1
           /\ FileBytes(n) = <<>> <=> n = 0
  <1>1. FileBytes(n) \in [1 .. n -> Nat] /\ \A j \in 1 .. n : FileBytes(n)[j] = j - 1
    BY DEF FileBytes
  <1>2. PICK w : w = FileBytes(n)
    OBVIOUS
  <1>3. w \in Seq(Nat) /\ Len(w) = n
    BY <1>1, <1>2
  <1>4. w = <<>> <=> n = 0
    BY <1>3
  <1>5. QED
    BY <1>1, <1>2, <1>3, <1>4

\* The answer with the bytes of the file is the one that is due.
LEMMA AnswerIsDue ==
    ASSUME FileTyped, NEW g \in ReadRecords, NEW h, h = B!Answered(g, FileBytes(node.size))
    PROVE  /\ h.body = B!Named(h.header)
           /\ g.asked.kind # "suffix" => h.header = B!Due(g.asked)
  <1>1. PICK n \in Nat : n = node.size
    BY FileSizes
  <1>2. PICK data \in Seq(Nat) : /\ data = FileBytes(n) /\ Len(data) = n
                                 /\ \A j \in 1 .. n : data[j] = j - 1
                                 /\ data = <<>> <=> n = 0
    BY FileBytesAre
  <1>3. PICK first \in Nat, last \in Nat, count \in Nat :
          /\ first = B!First(g.asked) /\ last = B!Last(g.asked, n)
          /\ count = IF n = 0 THEN 0 ELSE B!Most(0, last - first + 1)
          /\ h.header = <<first, count>>
          /\ h.body = SubSeq(data, first + 1, B!Least(first + count, n))
    <2>1. h = B!Answered(g, data)
      BY <1>1, <1>2
    <2>2. PICK first \in Nat, last \in Nat, count \in Nat :
            /\ first = B!First(g.asked) /\ last = B!Last(g.asked, Len(data))
            /\ count = IF data = <<>> THEN 0 ELSE B!Most(0, last - first + 1)
            /\ h.header = <<first, count>>
            /\ h.body = SubSeq(data, first + 1, B!Least(first + count, Len(data)))
      <3>1. IsAnswer(h, g, data)
        BY <2>1, AnswerTyped
      <3>2. QED
        BY <3>1, Zenon DEF IsAnswer
    <2>3. /\ last = B!Last(g.asked, n)
          /\ h.body = SubSeq(data, first + 1, B!Least(first + count, n))
      BY <1>2, <2>2
    <2>4. count = IF n = 0 THEN 0 ELSE B!Most(0, last - first + 1)
      BY <1>2, <2>2, Zenon
    <2>5. QED
      BY <2>2, <2>3, <2>4
  <1>4. PICK r \in Requests : r = g.asked
    BY DEF ReadRecords
  <1>5. /\ r.kind \in {"whole", "range", "suffix"}
        /\ r.kind = "range" => r.from \in Nat /\ r.to \in Nat \cup {None}
        /\ r.kind = "suffix" => r.count \in Nat
    BY RequestsAre
  <1>6. PICK end \in Nat : /\ end = B!Most(n - 1, 0)
                           /\ (n = 0 => end = 0) /\ (n # 0 => end = n - 1)
    BY DEF B!Most
  <1>7. /\ r.kind = "whole" => last = end
        /\ r.kind = "suffix" => last = B!Least(r.count, end)
        /\ r.kind = "range" => last = IF r.to = None THEN end ELSE B!Least(r.to, end)
    BY <1>3, <1>4, <1>6 DEF B!Last
  <1>8. last <= end
    BY <1>5, <1>7 DEF B!Least
  <1>9. h.body = B!Named(h.header)
    <2>1. count # 0 => first + count <= n
      <3>1. n # 0 => end = n - 1 /\ last <= n - 1
        BY <1>6, <1>8
      <3>2. PICK m \in Int : m = last - first + 1
        BY <1>3
      <3>3. count = IF n = 0 \/ ~ (0 < m) THEN 0 ELSE m
        BY <1>3, <3>2 DEF B!Most
      <3>4. QED
        BY <3>1, <3>2, <3>3
    <2>2. PICK hi \in Nat : /\ hi = B!Least(first + count, n) /\ hi <= n
                            /\ (count # 0 => hi = first + count)
                            /\ (count = 0 => hi <= first)
      BY <2>1 DEF B!Least
    <2>3. PICK w : w = h.body
      OBVIOUS
    <2>4. w = SubSeq(data, first + 1, hi)
      BY <1>3, <2>2, <2>3
    <2>5. Len(w) = count /\ w \in Seq(Nat)
      <3>1. w \in Seq(Nat) /\ Len(w) = IF first + 1 <= hi THEN hi - (first + 1) + 1 ELSE 0
        <4>1. data \in Seq(Nat) /\ hi <= Len(data) /\ first + 1 \in Nat \ {0} /\ hi \in Nat
          BY <1>2, <2>2
        <4>2. CASE first + 1 <= hi
          BY <2>4, <4>1, <4>2
        <4>3. CASE ~ (first + 1 <= hi)
          BY <2>4, <4>1, <4>3
        <4>4. QED
          BY <4>2, <4>3
      <3>2. count = IF first + 1 <= hi THEN hi - (first + 1) + 1 ELSE 0
        BY <2>2
      <3>3. QED
        BY <3>1, <3>2
    <2>6. \A j \in 1 .. count : w[j] = first + j - 1
      <3> SUFFICES ASSUME NEW j \in 1 .. count
                   PROVE  w[j] = first + j - 1
        OBVIOUS
      <3>1. first + j \in 1 .. n /\ first + 1 + j - 1 = first + j /\ hi = first + count
        BY <2>1, <2>2
      <3>2. j \in 1 .. Len(w)
        BY <2>5
      <3>3. w[j] = data[first + 1 + j - 1]
        BY <1>2, <2>2, <2>4, <3>1, <3>2
      <3>4. QED
        BY <1>2, <3>1, <3>3
    <2>7. w \in [1 .. count -> Nat]
      BY <2>5
    <2>8. w = [j \in 1 .. count |-> w[j]]
      BY <2>7
    <2>9. w = [j \in 1 .. count |-> first + j - 1]
      BY <2>6, <2>8
    <2>10. h.header[1] = first /\ h.header[2] = count
      BY <1>3
    <2>11. QED
      BY <2>3, <2>9, <2>10 DEF B!Named
  <1>10. ASSUME r.kind # "suffix" PROVE h.header = B!Due(r)
    <2>1. CASE r.kind = "whole"
      <3>1. first = 0 /\ count = n
        BY <1>3, <1>4, <1>6, <1>7, <2>1 DEF B!First, B!Most
      <3>2. QED
        BY <1>1, <1>3, <2>1, <3>1 DEF B!Due
    <2>2. CASE r.kind = "range"
      <3>1. first = r.from
        BY <1>3, <1>4, <2>2 DEF B!First
      <3>2. PICK e \in Int : e = IF r.to = None THEN n - 1 ELSE B!Least(r.to, n - 1)
        BY <1>5, <2>2 DEF B!Least
      <3>3. CASE n = 0
        <4>1. e = -1
          BY <1>5, <2>2, <3>2, <3>3 DEF B!Least
        <4>2. B!Most(0, e - first + 1) = 0 /\ count = 0
          BY <1>3, <3>3, <4>1 DEF B!Most
        <4>3. QED
          BY <1>1, <1>3, <2>2, <3>1, <3>2, <4>2 DEF B!Due
      <3>4. CASE n # 0
        <4>1. last = e
          BY <1>6, <1>7, <2>2, <3>2, <3>4
        <4>2. count = B!Most(0, e - first + 1)
          BY <1>3, <3>4, <4>1
        <4>3. QED
          BY <1>1, <1>3, <2>2, <3>1, <3>2, <4>2 DEF B!Due
      <3>5. QED
        BY <3>3, <3>4
    <2>3. QED
      BY <1>5, <1>10, <2>1, <2>2
  <1>11. QED
    BY <1>4, <1>9, <1>10


\* The file stays what it is.
LEMMA SameFile ==
    ASSUME FileTyped, node' = node, memoryKey' \in OrNone(Keys), listed' \in BOOLEAN,
           NEW g, g = get', ReadKept(g)
    PROVE  ContentKept'
  <1>1. FileTyped'
    BY DEF FileTyped
  <1>2. ReadKept(g)'
    BY DEF ReadKept, B!StoredSize, B!Encrypted, B!Chunks, B!DivCeil, B!Most, B!Due,
       B!Named, B!Least
  <1>3. QED
    BY <1>1, <1>2 DEF ContentKept, ReadKept

\* An answer with the file, and a refusal with a reason, are as they should be.
LEMMA AnsweredIsKept ==
    ASSUME FileTyped, NEW g \in ReadRecords, g.got <= B!StoredSize,
           NEW h, h = B!Answered(g, FileBytes(node.size))
    PROVE  ReadKept(h)
  <1>1. FileBytes(node.size) \in Seq(Nat)
    BY FileSizes, FileBytesAre
  <1>2. /\ h \in ReadRecords /\ h.at = "done" /\ h.status = "ok"
        /\ h.asked = g.asked /\ h.got = g.got
    BY <1>1, AnswerTyped
  <1>3. h.body = B!Named(h.header) /\ (g.asked.kind # "suffix" => h.header = B!Due(g.asked))
    BY AnswerIsDue
  <1>4. QED
    BY <1>2, <1>3, Zenon DEF ReadKept

LEMMA RefusedIsKept ==
    ASSUME FileTyped, NEW g \in ReadRecords, g.got <= B!StoredSize,
           g.failed \/ (B!Encrypted /\ g.key # node.key),
           NEW h, h = B!Refused(g)
    PROVE  ReadKept(h)
  <1>1. h = [g EXCEPT !.at = "done", !.status = "refused"]
    BY DEF B!Refused
  <1>2. /\ h \in ReadRecords /\ h.at = "done" /\ h.status = "refused"
        /\ h.got = g.got /\ h.failed = g.failed /\ h.key = g.key
    BY <1>1 DEF ReadRecords
  <1>3. QED
    BY <1>2 DEF ReadKept

\* So is no read at all.
LEMMA NothingIsKept ==
    ASSUME FileTyped
    PROVE  B!NoGet \in ReadRecords /\ ReadKept(B!NoGet)
  <1>1. /\ B!NoGet \in [at : {None, "fetch", "open", "done"}, by : {None, "dav", "command"},
              asked : Requests, key : OrNone(Keys), known : BOOLEAN, got : Nat,
              failed : BOOLEAN, status : {None, "ok", "refused"}, header : Nat \X Nat,
              body : Seq(Nat)]
        /\ B!NoGet.got = 0 /\ B!NoGet.at = None /\ B!NoGet.status = None
    BY DEF B!NoGet, Requests, OrNone
  <1>2. /\ B!StoredSize \in Nat
        /\ None \notin {"fetch", "open", "done"} /\ None \notin {"ok", "refused"}
    BY FileSizes, ContentAssumption
  <1>3. QED
    BY <1>1, <1>2 DEF ReadKept, ReadRecords

\* The reads begin, and step by step go on, as they should be.
LEMMA ContentInitKept == Init => ContentKept
  <1> SUFFICES ASSUME Init PROVE ContentKept
    OBVIOUS
  <1>1. FileTyped /\ memoryKey \in OrNone(Keys) /\ listed \in BOOLEAN /\ get = B!NoGet
    BY DEF Init, B!ContentInit, FileTyped, OrNone
  <1>2. QED
    BY <1>1, NothingIsKept DEF ContentKept

LEMMA BeginStep ==
    ASSUME ContentKept, NEW by \in {"dav", "command"}, NEW r \in Requests, B!Begin(by, r)
    PROVE  ContentKept'
  <1>1. FileTyped /\ memoryKey \in OrNone(Keys) /\ listed \in BOOLEAN
    BY DEF ContentKept
  <1>2. PICK g : g = [B!NoGet EXCEPT !.by = by, !.asked = r, !.key = memoryKey,
                                     !.known = listed]
    OBVIOUS
  <1>3. /\ g \in ReadRecords /\ g.got = 0 /\ g.at = None /\ g.status = None
        /\ g.key = memoryKey /\ g.known = listed
    <2>1. /\ B!NoGet \in ReadRecords
          /\ B!NoGet.got = 0 /\ B!NoGet.at = None /\ B!NoGet.status = None
      BY <1>1, NothingIsKept DEF B!NoGet
    <2>2. QED
      BY <1>1, <1>2, <2>1 DEF ReadRecords
  <1>4. PICK h : h = get'
    OBVIOUS
  <1>5. /\ h = IF by = "dav" /\ node.size = 0 THEN B!Answered(g, <<>>)
               ELSE IF B!Encrypted /\ memoryKey = None THEN B!Refused(g)
               ELSE IF ~ listed THEN B!Answered(g, <<>>)
               ELSE [g EXCEPT !.at = "fetch"]
        /\ node' = node /\ memoryKey' = memoryKey /\ listed' = listed
    BY <1>2, <1>4 DEF B!Begin
  <1>6. g.got <= B!StoredSize
    BY <1>1, <1>3, FileSizes
  <1>7. ReadKept(h)
    <2>1. CASE by = "dav" /\ node.size = 0
      <3>1. FileBytes(node.size) = <<>>
        BY <2>1, FileBytesAre
      <3>2. h = B!Answered(g, FileBytes(node.size))
        BY <1>5, <2>1, <3>1
      <3>3. QED
        BY <1>1, <1>3, <1>6, <3>2, AnsweredIsKept
    <2>2. CASE ~ (by = "dav" /\ node.size = 0) /\ B!Encrypted /\ memoryKey = None
      <3>1. h = B!Refused(g) /\ g.key # node.key
        BY <1>3, <1>5, <2>2 DEF B!Encrypted
      <3>2. QED
        BY <1>1, <1>3, <1>6, <2>2, <3>1, RefusedIsKept
    <2>3. CASE /\ ~ (by = "dav" /\ node.size = 0) /\ ~ (B!Encrypted /\ memoryKey = None)
               /\ ~ listed
      <3>1. h = B!Answered(g, <<>>) /\ <<>> \in Seq(Nat)
        BY <1>5, <2>3
      <3>2. /\ h \in ReadRecords /\ h.at = "done" /\ h.status = "ok"
            /\ h.known = g.known /\ h.got = g.got
        BY <1>1, <1>3, <3>1, AnswerTyped
      <3>3. QED
        BY <1>3, <1>6, <2>3, <3>2 DEF ReadKept
    <2>4. CASE /\ ~ (by = "dav" /\ node.size = 0) /\ ~ (B!Encrypted /\ memoryKey = None)
               /\ listed
      <3>1. h = [g EXCEPT !.at = "fetch"]
        BY <1>5, <2>4
      <3>2. h \in ReadRecords /\ h.at = "fetch" /\ h.got = g.got /\ h.status = None
        BY <1>3, <3>1 DEF ReadRecords
      <3>3. None \notin {"ok", "refused"}
        BY ContentAssumption
      <3>4. QED
        BY <1>6, <3>2, <3>3 DEF ReadKept
    <2>5. QED
      BY <2>1, <2>2, <2>3, <2>4
  <1>8. QED
    BY <1>1, <1>4, <1>5, <1>7, SameFile

LEMMA FetchPartStep == ContentKept /\ B!FetchPart => ContentKept'
  <1> SUFFICES ASSUME ContentKept, B!FetchPart PROVE ContentKept'
    OBVIOUS
  <1>1. FileTyped /\ memoryKey \in OrNone(Keys) /\ listed \in BOOLEAN /\ ReadKept(get)
    BY DEF ContentKept
  <1>2. PICK n : n = B!Least(Part, B!StoredSize - get.got)
    OBVIOUS
  <1>3. PICK h : h = get'
    OBVIOUS
  <1>4. /\ get.at = "fetch"
        /\ h = [get EXCEPT !.got = @ + n, !.at = IF n < Part THEN "open" ELSE "fetch"]
        /\ node' = node /\ memoryKey' = memoryKey /\ listed' = listed
    BY <1>2, <1>3 DEF B!FetchPart
  <1>5. get \in ReadRecords /\ get.got \in Nat /\ get.got <= B!StoredSize /\ get.status = None
    BY <1>1, <1>4 DEF ReadKept, ReadRecords
  <1>6. n \in Nat /\ get.got + n \in Nat /\ get.got + n <= B!StoredSize
        /\ (n < Part => get.got + n = B!StoredSize)
    <2>1. Part \in Nat /\ B!StoredSize \in Nat
      BY <1>1, FileSizes, ContentAssumption
    <2>2. QED
      BY <1>2, <1>5, <2>1 DEF B!Least
  <1>7. /\ h \in ReadRecords /\ h.got = get.got + n /\ h.status = None
        /\ h.at = IF n < Part THEN "open" ELSE "fetch"
    BY <1>4, <1>5, <1>6 DEF ReadRecords
  <1>8. None \notin {"ok", "refused"}
    BY ContentAssumption
  <1>9. ReadKept(h)
    BY <1>6, <1>7, <1>8 DEF ReadKept
  <1>10. QED
    BY <1>1, <1>3, <1>4, <1>9, SameFile

LEMMA FetchFailsStep == ContentKept /\ B!FetchFails => ContentKept'
  <1> SUFFICES ASSUME ContentKept, B!FetchFails PROVE ContentKept'
    OBVIOUS
  <1>1. FileTyped /\ memoryKey \in OrNone(Keys) /\ listed \in BOOLEAN /\ ReadKept(get)
    BY DEF ContentKept
  <1>2. PICK g : g = [get EXCEPT !.failed = TRUE]
    OBVIOUS
  <1>3. PICK h : h = get'
    OBVIOUS
  <1>4. /\ h = B!Refused(g) /\ node' = node /\ memoryKey' = memoryKey /\ listed' = listed
    BY <1>2, <1>3 DEF B!FetchFails
  <1>5. g \in ReadRecords /\ g.got <= B!StoredSize /\ g.failed
    BY <1>1, <1>2 DEF ReadKept, ReadRecords
  <1>6. ReadKept(h)
    BY <1>1, <1>4, <1>5, RefusedIsKept
  <1>7. QED
    BY <1>1, <1>3, <1>4, <1>6, SameFile

\* Everything that is stored has been fetched when it is opened.
LEMMA OpenAndAnswerStep == ContentKept /\ B!OpenAndAnswer => ContentKept'
  <1> SUFFICES ASSUME ContentKept, B!OpenAndAnswer PROVE ContentKept'
    OBVIOUS
  <1>1. FileTyped /\ memoryKey \in OrNone(Keys) /\ listed \in BOOLEAN /\ ReadKept(get)
    BY DEF ContentKept
  <1>2. PICK h : h = get'
    OBVIOUS
  <1>3. PICK bytes : bytes = SubSeq(B!Stored, 1, B!Least(get.got, B!Limit))
    OBVIOUS
  <1>4. /\ get.at = "open" \/ (get.at = "fetch" /\ get.got >= B!Limit)
        /\ h = IF ~ B!Encrypted THEN B!Answered(get, B!Unsealed(bytes))
               ELSE IF B!AllOpen(bytes, get.key) THEN B!Answered(get, B!Opened(bytes))
               ELSE B!Refused(get)
        /\ node' = node /\ memoryKey' = memoryKey /\ listed' = listed
    BY <1>2, <1>3 DEF B!OpenAndAnswer
  <1>5. get \in ReadRecords /\ get.got \in Nat /\ get.got <= B!StoredSize
        /\ (get.at = "open" => get.got = B!StoredSize)
    BY <1>1 DEF ReadKept, ReadRecords
  <1>6. B!Least(get.got, B!Limit) = B!StoredSize
    <2>1. B!StoredSize \in Nat /\ B!Limit \in Nat /\ B!StoredSize <= B!Limit
      BY <1>1, FileSizes
    <2>2. get.got = B!StoredSize
      BY <1>4, <1>5, <2>1
    <2>3. QED
      BY <2>1, <2>2 DEF B!Least
  <1>7. bytes = B!Stored
    BY <1>1, <1>3, <1>6, WholeIsStored
  <1>8. ReadKept(h)
    <2>1. CASE ~ B!Encrypted
      <3>1. h = B!Answered(get, FileBytes(node.size))
        BY <1>1, <1>4, <1>7, <2>1, PlainIsTheFile
      <3>2. QED
        BY <1>1, <1>5, <3>1, AnsweredIsKept
    <2>2. CASE B!Encrypted /\ B!AllOpen(bytes, get.key)
      <3>1. h = B!Answered(get, FileBytes(node.size))
        BY <1>1, <1>4, <1>7, <2>2, OpenedIsTheFile
      <3>2. QED
        BY <1>1, <1>5, <3>1, AnsweredIsKept
    <2>3. CASE B!Encrypted /\ ~ B!AllOpen(bytes, get.key)
      <3>1. h = B!Refused(get)
        BY <1>4, <2>3
      <3>2. get.key # node.key
        BY <1>1, <1>7, <2>3, RightKeyOpens
      <3>3. QED
        BY <1>1, <1>5, <2>3, <3>1, <3>2, RefusedIsKept
    <2>4. QED
      BY <2>1, <2>2, <2>3
  <1>9. QED
    BY <1>1, <1>2, <1>4, <1>8, SameFile

LEMMA ContentStepKept == ContentKept /\ [B!ContentNext]_contentVars => ContentKept'
  <1> SUFFICES ASSUME ContentKept, [B!ContentNext]_contentVars PROVE ContentKept'
    OBVIOUS
  <1>1. FileTyped /\ memoryKey \in OrNone(Keys) /\ listed \in BOOLEAN /\ ReadKept(get)
    BY DEF ContentKept
  <1>2. CASE B!HandleGet
    <2>1. PICK r \in Requests : B!Begin("dav", r)
      BY <1>2 DEF B!HandleGet, Requests
    <2>2. QED
      BY <2>1, BeginStep
  <1>3. CASE B!DownloadCommand
    <2>1. B!Whole \in Requests /\ B!Begin("command", B!Whole)
      BY <1>3 DEF B!DownloadCommand, Requests
    <2>2. QED
      BY <2>1, BeginStep
  <1>4. CASE B!FetchPart
    BY <1>4, FetchPartStep
  <1>5. CASE B!FetchFails
    BY <1>5, FetchFailsStep
  <1>6. CASE B!OpenAndAnswer
    BY <1>6, OpenAndAnswerStep
  <1>7. CASE B!ReadEnds
    <2>1. get' = B!NoGet /\ node' = node /\ memoryKey' = memoryKey /\ listed' = listed
      BY <1>7 DEF B!ReadEnds
    <2>2. ReadKept(B!NoGet)
      BY <1>1, NothingIsKept
    <2>3. QED
      BY <1>1, <2>1, <2>2, SameFile
  <1>8. CASE B!KeyChanges \/ B!DrivesChange \/ UNCHANGED contentVars
    <2>1. /\ get' = get /\ node' = node /\ memoryKey' \in OrNone(Keys) /\ listed' \in BOOLEAN
      BY <1>1, <1>8 DEF B!KeyChanges, B!DrivesChange, contentVars, OrNone
    <2>2. QED
      BY <1>1, <2>1, SameFile
  <1>9. QED
    BY <1>2, <1>3, <1>4, <1>5, <1>6, <1>7, <1>8 DEF B!ContentNext

LEMMA KeptReads == ContentKept => ReadsWhatWasWritten
  BY DEF ContentKept, ReadKept, ReadsWhatWasWritten, B!ReadsWhatWasWritten, B!WrongKey

\* Whatever the sizes of chunks, tags, parts and files, a read from a drive that
\* is listed has exactly the bytes its header names, and the header names what was
\* asked unless that was the last bytes; any read is refused only after a failed
\* request or without the file's key.
THEOREM ReadsAreExact == Spec => []ReadsWhatWasWritten
  <1>1. ContentKept /\ [Next]_servicesVars => ContentKept'
    BY PartsMove, ContentStepKept
  <1>2. QED
    BY <1>1, ContentInitKept, KeptReads, PTL DEF Spec

-----------------------------------------------------------------------------
(* The types                                                                *)

\* The records of the folder, the keys and the file are in their invariants.
LEMMA FolderTypes == Spec => []F!FolderTypeOK
  <1>1. FolderKept => F!FolderTypeOK
    <2> SUFFICES ASSUME FolderKept PROVE F!FolderTypeOK
      OBVIOUS
    <2>1. FolderTyped
      BY DEF FolderKept
    <2>2. \A t \in Triggers : trigger[t] \in TriggerRecords
      BY <2>1 DEF FolderTyped
    <2>3. QED
      BY <2>1, <2>2 DEF F!FolderTypeOK, FolderTyped, TriggerRecords, OrNone
  <1>2. QED
    BY <1>1, FolderAlwaysKept, PTL

LEMMA ContentTypes == Spec => []B!ContentTypeOK
  <1>1. ContentKept => B!ContentTypeOK
    BY FileSizes DEF ContentKept, FileTyped, ReadKept, ReadRecords, OrNone, B!ContentTypeOK
  <1>2. ContentKept /\ [Next]_servicesVars => ContentKept'
    BY PartsMove, ContentStepKept
  <1>3. QED
    BY <1>1, <1>2, ContentInitKept, PTL DEF Spec

\* What a command answers is a file as well.
LEMMA FileOf ==
    ASSUME NEW f \in [doc : Documents, version : Nat \ {0}, history : Seq(PastRecords)],
           Len(f.history) <= MaxHistory
    PROVE  V!File(f)
  <1>1. V!VersionRecords = PastRecords
    BY DEF V!VersionRecords, PastRecords
  <1>2. V!Past(f) \in PastRecords
    BY DEF V!Past, PastRecords
  <1>3. \A i \in DOMAIN f.history : f.history[i] \in PastRecords
    OBVIOUS
  <1>4. DOMAIN f = {"doc", "version", "history"}
    OBVIOUS
  <1>5. QED
    BY <1>1, <1>2, <1>3, <1>4 DEF V!File

LEMMA CurrentIsAFile == VersionsKept => V!File(file)
  <1> SUFFICES ASSUME VersionsKept PROVE V!File(file)
    OBVIOUS
  <1>1. /\ file \in [doc : Documents, version : Nat \ {0}, history : Seq(PastRecords)]
        /\ Len(latest) \in Nat /\ MaxHistory \in Nat
        /\ Len(file.history) + 1 = IF Len(latest) > MaxHistory + 1 THEN MaxHistory + 1
                                   ELSE Len(latest)
    BY ServicesAssumption DEF VersionsKept
  <1>2. Len(file.history) \in Nat
    BY <1>1
  <1>3. Len(file.history) <= MaxHistory
    BY <1>1, <1>2
  <1>4. QED
    BY <1>1, <1>3, FileOf

LEMMA RestoredIsAFile ==
    ASSUME VersionsKept, NEW n \in V!Numbers(file)
    PROVE  V!File(V!Restored(file, n))
  <1> DEFINE h == file.history
  <1>1. /\ file \in [doc : Documents, version : Nat \ {0}, history : Seq(PastRecords)]
        /\ h \in Seq(PastRecords) /\ V!Past(file) \in PastRecords
    BY DEF VersionsKept, V!Past, PastRecords
  <1>2. PICK i \in 1 .. Len(h) : i = V!Place(file, n)
    <2>1. DOMAIN h = 1 .. Len(h) /\ V!Places(file, n) \in SUBSET Nat /\ V!Places(file, n) # {}
      BY <1>1 DEF V!Places, V!Numbers
    <2>2. V!Place(file, n) \in V!Places(file, n)
      BY <2>1, LeastMember DEF V!Place
    <2>3. QED
      BY <2>1, <2>2 DEF V!Places
  <1>3. h[i].doc \in Documents /\ n \in Nat \ {0}
    <2>1. \A k \in DOMAIN h : h[k] \in PastRecords
      BY <1>1
    <2>2. QED
      BY <1>1, <2>1 DEF PastRecords, V!Numbers
  <1>4. PICK rest : rest = V!Without(h, i) /\ rest \in Seq(PastRecords) /\ Len(rest) = Len(h) - 1
    BY <1>1, WithoutOne
  <1>5. PICK past : past = <<V!Past(file)>> \o rest
    OBVIOUS
  <1>6. past \in Seq(PastRecords) /\ Len(past) = Len(h)
    BY <1>1, <1>4, <1>5, Added
  <1>7. Len(h) <= MaxHistory
    BY CurrentIsAFile DEF V!File
  <1>8. V!Restored(file, n) = [doc |-> h[i].doc, version |-> n, history |-> past]
    BY <1>2, <1>4, <1>5 DEF V!Restored
  <1>9. QED
    BY <1>3, <1>6, <1>7, <1>8, FileOf

LEMMA VersionTypes == Spec => []V!VersionTypeOK
  <1> DEFINE Answers == answer = None \/ V!File(answer)
  <1>1. Init => Answers
    BY DEF Init, V!VersionInit
  <1>2. VersionsKept /\ Answers /\ [Next]_servicesVars => Answers'
    <2> SUFFICES ASSUME VersionsKept, Answers, [V!VersionNext]_versionVars
                 PROVE  Answers'
      BY PartsMove
    <2>1. CASE answer' = answer
      BY <2>1 DEF V!File, V!Past
    <2>2. CASE answer' = file
      BY <2>2, CurrentIsAFile DEF V!File, V!Past
    <2>3. ASSUME NEW n, V!RestoreCommand(n) PROVE Answers'
      <3>1. answer' = None \/ (n \in V!Numbers(file) /\ answer' = V!Restored(file, n))
        BY <2>3 DEF V!RestoreCommand
      <3>2. n \in V!Numbers(file) => V!File(V!Restored(file, n))
        BY RestoredIsAFile
      <3>3. PICK f : f = answer'
        OBVIOUS
      <3>4. f = None \/ V!File(f)
        BY <3>1, <3>2, <3>3
      <3>5. QED
        BY <3>3, <3>4 DEF V!File, V!Past
    <2>4. QED
      BY <2>1, <2>2, <2>3
         DEF V!VersionNext, V!Record, V!Restore, V!ListVersions, versionVars
  <1>3. VersionsKept /\ Answers => V!VersionTypeOK
    BY CurrentIsAFile DEF VersionsKept, V!VersionTypeOK
  <1> HIDE DEF Answers
  <1>4. QED
    BY <1>1, <1>2, <1>3, VersionAlwaysKept, PTL DEF Spec

LEMMA TunnelTypes == Spec => []T!TunnelTypeOK
  <1>1. TunnelKept => T!TunnelTypeOK
    <2> SUFFICES ASSUME TunnelKept PROVE T!TunnelTypeOK
      OBVIOUS
    <2>1. TunnelTyped /\ UpFlows /\ (T!Misgreeted \/ DownFlows)
      BY DEF TunnelKept, DownPart, DownKept
    <2>2. txPos >= proxy.pos
      <3>1. PICK U, at, p : UpFlow(U, at, p)
        BY <2>1 DEF UpFlows
      <3>2. /\ \A k, l \in 1 .. Len(upWire) + 1 : k <= l => p[k] <= p[l]
            /\ upWire \in Seq(Records)
            /\ p[1] = proxy.pos /\ p[Len(upWire) + 1] = txPos
        BY <3>1 DEF UpFlow, Carries
      <3>3. Len(upWire) \in Nat
        BY <3>2
      <3>4. p[1] <= p[Len(upWire) + 1]
        BY <3>2, <3>3
      <3>5. QED
        BY <2>1, <3>2, <3>4 DEF TunnelTyped
    <2>3. ~ T!Misgreeted => proxy.sent >= rxPos
      <3> SUFFICES ASSUME ~ T!Misgreeted PROVE proxy.sent >= rxPos
        OBVIOUS
      <3>1. PICK U, at, p : DownFlow(U, at, p)
        BY <2>1 DEF DownFlows
      <3>2. /\ \A k, l \in 1 .. Len(downWire) + 1 : k <= l => p[k] <= p[l]
            /\ downWire \in Seq(Records)
            /\ p[1] = rxPos /\ p[Len(downWire) + 1] = proxy.sent
        BY <3>1 DEF DownFlow, Carries
      <3>3. Len(downWire) \in Nat
        BY <3>2
      <3>4. p[1] <= p[Len(downWire) + 1]
        BY <3>2, <3>3
      <3>5. QED
        BY <2>1, <3>2, <3>4 DEF TunnelTyped
    <2>4. /\ \A i \in DOMAIN asked : asked[i] \in ClientShapes
          /\ \A i \in DOMAIN told : told[i] \in ServerShapes
      BY <2>1 DEF TunnelTyped, Shaped
    <2>5. QED
      BY <2>1, <2>2, <2>3, <2>4 DEF TunnelTyped, Ends, T!TunnelTypeOK
  <1>2. Init => TunnelKept
    BY TunnelBegins DEF Init
  <1>3. TunnelKept /\ [Next]_servicesVars => TunnelKept'
    BY PartsMove, TunnelStep
  <1>4. QED
    BY <1>1, <1>2, <1>3, PTL DEF Spec

\* A command that decides has been given a port.
PortKept ==
    /\ port \in Ports
    /\ \A c \in Openers : caller[c].at \in {"configure", "decide"} => caller[c].port \in Ports

LEMMA PortMoves == DavKept /\ PortKept /\ [W!DavNext]_davVars => PortKept'
  <1> SUFFICES ASSUME DavKept, PortKept, [W!DavNext]_davVars
               PROVE  PortKept'
    OBVIOUS
  <1>0. /\ caller \in [Openers -> CallerRecords]
        /\ None \notin {"startup", "configure", "decide", "clear", "start", "announce"}
    BY ServicesAssumption DEF DavKept, DavTyped
  <1>1. ASSUME port' \in Ports, NEW c \in Openers, NEW r \in CallerRecords,
               caller' = [caller EXCEPT ![c] = r],
               r.at \in {"configure", "decide"} => r.port \in Ports
        PROVE  PortKept'
    BY <1>0, <1>1 DEF PortKept
  <1>2. ASSUME port' \in Ports, NEW c \in Openers, NEW l \in {"clear", "start", "announce"},
               W!Become(c, l)
        PROVE  PortKept'
    <2> DEFINE r == [caller[c] EXCEPT !.at = l]
    <2>1. /\ r \in CallerRecords /\ caller' = [caller EXCEPT ![c] = r]
          /\ r.at \notin {"configure", "decide"}
      BY <1>0, <1>2 DEF W!Become, CallerRecords, Working
    <2> HIDE DEF r
    <2>2. QED
      BY <1>1, <1>2, <2>1
  <1>3. ASSUME port' \in Ports, NEW c \in Openers, W!Leave(c)
        PROVE  PortKept'
    <2>1. /\ W!Idle \in CallerRecords /\ W!Idle.at \notin {"configure", "decide"}
      BY <1>0 DEF W!Idle, CallerRecords, OrNone
    <2>2. QED
      BY <1>1, <1>3, <2>1 DEF W!Leave
  <1>4. ASSUME NEW c \in Openers, W!Configure(c)
        PROVE  PortKept'
    <2>1. PICK on \in BOOLEAN, p \in Ports :
             caller' = [caller EXCEPT ![c] =
                            [at |-> "configure", on |-> on, port |-> p, was |-> FALSE]]
      BY <1>4 DEF W!Configure
    <2> DEFINE r == [at |-> "configure", on |-> on, port |-> p, was |-> FALSE]
    <2>2. port' \in Ports
      BY <1>4 DEF W!Configure, PortKept
    <2>3. r \in CallerRecords /\ r.port \in Ports /\ caller' = [caller EXCEPT ![c] = r]
      BY <2>1 DEF CallerRecords, OrNone
    <2> HIDE DEF r
    <2>4. QED
      BY <1>1, <2>2, <2>3
  <1>5. ASSUME NEW c \in Openers, W!Look(c)
        PROVE  PortKept'
    <2> DEFINE r == [caller[c] EXCEPT !.at = "decide", !.was = bound # None]
    <2>1. /\ r \in CallerRecords /\ caller' = [caller EXCEPT ![c] = r]
          /\ r.port = caller[c].port /\ caller[c].at = "configure"
      BY <1>0, <1>5 DEF W!Look, CallerRecords, Working
    <2>2. port' \in Ports
      BY <1>5 DEF W!Look, PortKept
    <2> HIDE DEF r
    <2>3. QED
      BY <1>1, <2>1, <2>2 DEF PortKept
  <1>6. ASSUME NEW c \in Openers, W!Decide(c)
        PROVE  PortKept'
    <2>1. port' \in Ports
      BY <1>6 DEF W!Decide, PortKept
    <2>2. W!Become(c, "clear") \/ W!Become(c, "start") \/ W!Leave(c)
      BY <1>6 DEF W!Decide
    <2>3. QED
      BY <1>2, <1>3, <2>1, <2>2
  <1>7. ASSUME NEW c \in Openers,
               W!Clear(c) \/ W!Mount(c) \/ W!StartUp(c) \/ W!Bind(c) \/ W!Announce(c)
        PROVE  PortKept'
    <2>1. port' \in Ports
      BY <1>7 DEF W!Clear, W!Mount, W!StartUp, W!Bind, W!Announce, PortKept
    <2>2. W!Become(c, "start") \/ W!Become(c, "announce") \/ W!Leave(c)
      BY <1>7 DEF W!Clear, W!Mount, W!StartUp, W!Bind, W!Announce
    <2>3. QED
      BY <1>2, <1>3, <2>1, <2>2
  <1>8. ASSUME UNCHANGED <<port, caller>>
        PROVE  PortKept'
    BY <1>8 DEF PortKept
  <1>9. QED
    BY <1>4, <1>5, <1>6, <1>7, <1>8 DEF W!DavNext, W!EndTask, W!DropSocket, davVars

LEMMA DavTypes == Spec => []W!DavTypeOK
  <1>1. Init => PortKept
    <2> SUFFICES ASSUME W!DavInit PROVE PortKept
      BY DEF Init
    <2>1. PICK e \in {"startup", None} :
             caller = [c \in Openers |->
                 IF c = CHOOSE d \in Openers : TRUE THEN [W!Idle EXCEPT !.at = e] ELSE W!Idle]
      BY DEF W!DavInit
    <2>2. \A c \in Openers : caller[c].at \in {"startup", None}
      BY <2>1 DEF W!Idle
    <2>3. QED
      BY <2>2, ServicesAssumption DEF W!DavInit, PortKept
  <1>2. DavKept /\ PortKept => W!DavTypeOK
    <2> SUFFICES ASSUME DavKept, PortKept PROVE W!DavTypeOK
      OBVIOUS
    <2>1. DavTyped
      BY DEF DavKept
    <2>2. \A l \in Listeners : listener[l] \in ListenerRecords
      BY <2>1 DEF DavTyped
    <2>3. \A c \in Openers : caller[c] \in CallerRecords
      BY <2>1 DEF DavTyped
    <2>4. QED
      BY <2>1, <2>2, <2>3
         DEF DavTyped, PortKept, W!DavTypeOK, ListenerRecords, CallerRecords, Working, OrNone
  <1>3. QED
    BY <1>1, <1>2, PortMoves, PartsMove, DavAlwaysKept, PTL DEF Spec

\* What the start of the program has yet to set is a route of its own.
CallsKept == calls \in 0 .. Budget /\ startup \in OrNone(P!Routes \ {P!Direct})

LEMMA CallsMove == ProxyKept /\ CallsKept /\ [P!ProxyNext]_proxyVars => CallsKept'
  <1> SUFFICES ASSUME ProxyKept, CallsKept, [P!ProxyNext]_proxyVars
               PROVE  CallsKept'
    OBVIOUS
  <1>1. ASSUME UNCHANGED <<calls, startup>>
        PROVE  CallsKept'
    BY <1>1 DEF CallsKept
  <1>2. ASSUME P!Spend
        PROVE  calls' \in 0 .. Budget
    <2>1. calls \in Nat /\ Budget \in Nat /\ calls < Budget /\ calls' = calls + 1
      BY <1>2, ProxyAssumption DEF P!Spend, CallsKept
    <2>2. QED
      BY <2>1
  <1>3. ASSUME P!Spend, startup' = startup
        PROVE  CallsKept'
    BY <1>2, <1>3 DEF CallsKept
  <1>4. ASSUME NEW c \in Callers, P!LoginStep(c), UNCHANGED startup
        PROVE  CallsKept'
    BY <1>1, <1>3, <1>4
       DEF P!LoginStep, P!BeginLogin, P!Requested, P!Submit, P!VerifyCode, P!CheckQrCode,
       P!Verify2fa, P!SwitchToReal, P!Answered
  <1>5. ASSUME NEW c \in Callers, P!EndLogin(c)
        PROVE  CallsKept'
    BY <1>1, <1>5 DEF P!EndLogin, P!RegisterAccount
  <1>6. ASSUME NEW s \in Settlers, P!BeginCommand(s)
        PROVE  CallsKept'
    BY <1>3, <1>6 DEF P!BeginCommand
  <1>7. ASSUME NEW s \in Settlers, P!SettlerStep(s)
        PROVE  CallsKept'
    BY <1>1, <1>7
       DEF P!SettlerStep, P!SaveRow, P!SaveSecret, P!FlagActive, P!DeleteRow, P!WriteSetting,
       P!SetEnabled, P!ReadSettings, P!ApplyProxy, P!FindAccount, P!Reconnect, P!loginVars
  <1>8. CASE P!StartupTask
    BY <1>8 DEF P!StartupTask, CallsKept, OrNone
  <1>9. CASE P!RestoreSession
    BY <1>1, <1>9 DEF P!RestoreSession
  <1>10. CASE P!Restart
    <2>1. P!Spend /\ startup' = IF P!Route = P!Direct THEN None ELSE P!Route
      BY <1>10 DEF P!Restart
    <2>2. P!Route \in P!Routes
      BY RouteTyped DEF ProxyKept
    <2>3. QED
      BY <1>2, <2>1, <2>2 DEF CallsKept, OrNone
  <1>11. CASE UNCHANGED proxyVars
    BY <1>1, <1>11 DEF proxyVars
  <1>12. QED
    BY <1>4, <1>5, <1>6, <1>7, <1>8, <1>9, <1>10, <1>11 DEF P!ProxyNext, P!settings

LEMMA ProxyTypes == Spec => []P!ProxyTypeOK
  <1>1. Init => CallsKept
    <2> SUFFICES ASSUME P!ProxyInit PROVE CallsKept
      BY DEF Init
    <2>1. P!Route \in P!Routes
      BY ProxyInitKept, RouteTyped DEF ProxyKept
    <2>2. calls = 0 /\ startup = IF P!Route = P!Direct THEN None ELSE P!Route
      BY DEF P!ProxyInit
    <2>3. QED
      BY <2>1, <2>2, ProxyAssumption DEF CallsKept, OrNone
  <1>2. ProxyKept /\ CallsKept => P!ProxyTypeOK
    <2> SUFFICES ASSUME ProxyKept, CallsKept PROVE P!ProxyTypeOK
      OBVIOUS
    <2>1. ProxyTyped /\ LoginHeld
      BY DEF ProxyKept
    <2>2. pending = None \/ DOMAIN pending = {"kind", "via", "password"}
      <3>1. pending \in Logins => DOMAIN pending = {"kind", "via", "password"}
        BY DEF Logins
      <3>2. QED
        BY <2>1, <3>1 DEF ProxyTyped, OrNone
    <2>3. P!LoginTypeOK
      BY <2>1, <2>2 DEF ProxyTyped, LoginHeld, P!LoginTypeOK, P!LoginAt, OrNone
    <2>4. \A s \in Settlers : command[s].cfg \in P!Routes
      <3>1. \A s \in Settlers : command[s] \in CommandRecords
        BY <2>1 DEF ProxyTyped
      <3>2. QED
        BY <3>1 DEF CommandRecords
    <2>5. {rows, proxySecrets} \subseteq [Profiles -> Versions \cup {0}]
      BY <2>1 DEF ProxyTyped
    <2>6. startup = None \/ startup \in P!Routes \ {P!Direct}
      BY DEF CallsKept, OrNone
    <2>7. QED
      BY <2>1, <2>3, <2>4, <2>5, <2>6 DEF ProxyTyped, CallsKept, P!ProxyTypeOK, OrNone
  <1>3. QED
    BY <1>1, <1>2, CallsMove, PartsMove, ProxyAlwaysKept, PTL DEF Spec

\* A list of accounts has each of them once.
NoRepeat(s) == \A i, j \in DOMAIN s : s[i] = s[j] => i = j
SoundRegistries == {reg \in Registries : NoRepeat(reg.accounts)}

LEMMA MembersCounted ==
    ASSUME NEW s \in Seq(Users), NoRepeat(s)
    PROVE  Len(s) = Cardinality(A!Members(s))
  <1> DEFINE n == Len(s)
             M == A!Members(s)
  <1>1. n \in Nat /\ DOMAIN s = 1 .. n
    OBVIOUS
  <1>2. IsFiniteSet(1 .. n) /\ Cardinality(1 .. n) = n
    BY <1>1, FS_Interval, SMTT(30)
  <1>3. s \in [1 .. n -> M] /\ \A m \in M : \E i \in 1 .. n : s[i] = m
    BY <1>1 DEF A!Members
  <1>4. s \in Bijection(1 .. n, M)
    BY <1>1, <1>3 DEF NoRepeat, Bijection, Injection, Surjection, IsInjective
  <1>5. ExistsBijection(1 .. n, M)
    BY <1>4 DEF ExistsBijection
  <1> HIDE DEF n, M
  <1>6. Cardinality(M) = Cardinality(1 .. n)
    BY <1>2, <1>5, FS_Bijection
  <1>7. QED
    BY <1>2, <1>6 DEF n, M

LEMMA SoundIsRegistry ==
    ASSUME NEW reg \in OrNone(SoundRegistries)
    PROVE  A!IsRegistry(reg)
  <1>1. CASE reg = None
    BY <1>1 DEF A!IsRegistry
  <1>2. CASE reg \in SoundRegistries
    <2>1. reg \in Registries /\ NoRepeat(reg.accounts) /\ reg.accounts \in Seq(Users)
      BY <1>2 DEF SoundRegistries, Registries
    <2>2. Len(reg.accounts) = Cardinality(A!Members(reg.accounts))
      BY <2>1, MembersCounted
    <2>3. A!Members(reg.accounts) \subseteq Users /\ reg.active \in Users \cup {None}
      BY <2>1, Listed DEF Registries, OrNone
    <2>4. \A S : A!Cardinality(S) = Cardinality(S)
      BY DEF A!Cardinality, Cardinality
    <2>5. QED
      BY <2>2, <2>3, <2>4 DEF A!IsRegistry
  <1>3. QED
    BY <1>1, <1>2 DEF OrNone

\* An account is put on the list, taken off it, or made the active one.
LEMMA AppendedOnce ==
    ASSUME NEW s \in Seq(Users), NoRepeat(s), NEW u \in Users, u \notin A!Members(s)
    PROVE  Append(s, u) \in Seq(Users) /\ NoRepeat(Append(s, u))
  <1> DEFINE a == Append(s, u)
  <1>1. /\ Len(s) \in Nat /\ DOMAIN s = 1 .. Len(s)
        /\ a \in Seq(Users) /\ DOMAIN a = 1 .. Len(s) + 1
        /\ a[Len(s) + 1] = u /\ \A i \in 1 .. Len(s) : a[i] = s[i]
    OBVIOUS
  <1> HIDE DEF a
  <1>2. \A i \in 1 .. Len(s) : s[i] # u
    BY <1>1 DEF A!Members
  <1>3. \A i \in DOMAIN a : i \in 1 .. Len(s) \/ i = Len(s) + 1
    BY <1>1
  <1>4. ASSUME NEW i \in DOMAIN a, NEW j \in DOMAIN a, a[i] = a[j]
        PROVE  i = j
    BY <1>1, <1>2, <1>3, <1>4 DEF NoRepeat
  <1>5. NoRepeat(a)
    BY <1>4 DEF NoRepeat
  <1>6. QED
    BY <1>1, <1>5 DEF a

LEMMA WithoutRepeat ==
    ASSUME NEW s \in Seq(Users), NoRepeat(s), NEW i \in 1 .. Len(s)
    PROVE  V!Without(s, i) \in Seq(Users) /\ NoRepeat(V!Without(s, i))
  <1>1. PICK w : w = V!Without(s, i)
    OBVIOUS
  <1>2. /\ w \in Seq(Users) /\ Len(w) = Len(s) - 1 /\ Len(s) \in Nat
        /\ \A k \in 1 .. Len(s) - 1 : w[k] = IF k < i THEN s[k] ELSE s[k + 1]
    BY <1>1, WithoutOne, SMTT(30)
  <1>3. ASSUME NEW j \in 1 .. Len(s) - 1, NEW k \in 1 .. Len(s) - 1, w[j] = w[k]
        PROVE  j = k
    <2>1. \A x, y \in 1 .. Len(s) : s[x] = s[y] => x = y
      BY DEF NoRepeat
    <2>2. PICK x \in 1 .. Len(s) : x = (IF j < i THEN j ELSE j + 1) /\ w[j] = s[x]
      BY <1>2
    <2>3. PICK y \in 1 .. Len(s) : y = (IF k < i THEN k ELSE k + 1) /\ w[k] = s[y]
      BY <1>2
    <2>4. x = y
      BY <1>3, <2>1, <2>2, <2>3
    <2>5. j \in Nat /\ k \in Nat /\ i \in Nat
      BY <1>2
    <2>6. QED
      BY <2>2, <2>3, <2>4, <2>5
  <1>4. DOMAIN w = 1 .. Len(s) - 1
    BY <1>2
  <1>5. NoRepeat(w)
    BY <1>3, <1>4 DEF NoRepeat
  <1>6. QED
    BY <1>1, <1>2, <1>5

LEMMA RegistryMoves ==
    ASSUME NEW reg \in SoundRegistries
    PROVE  /\ reg.accounts \in Seq(Users)
           /\ \A u \in OrNone(Users) : [reg EXCEPT !.active = u] \in SoundRegistries
           /\ \A u \in Users :
                /\ [accounts |-> A!Registered(reg, u), active |-> u] \in SoundRegistries
                /\ [reg EXCEPT !.accounts = A!Unregistered(reg, u)] \in SoundRegistries
  <1>1. /\ reg \in Registries /\ reg.accounts \in Seq(Users) /\ NoRepeat(reg.accounts)
        /\ reg.active \in OrNone(Users)
    BY DEF SoundRegistries, Registries
  <1>2. ASSUME NEW s \in Seq(Users), NoRepeat(s), NEW u \in OrNone(Users)
        PROVE  [accounts |-> s, active |-> u] \in SoundRegistries
    BY <1>2 DEF SoundRegistries, Registries
  <1>3. /\ \A u : [reg EXCEPT !.active = u] = [accounts |-> reg.accounts, active |-> u]
        /\ \A s : [reg EXCEPT !.accounts = s] = [accounts |-> s, active |-> reg.active]
    BY <1>1 DEF Registries
  <1>4. ASSUME NEW u \in Users
        PROVE  A!Registered(reg, u) \in Seq(Users) /\ NoRepeat(A!Registered(reg, u))
    BY <1>1, AppendedOnce DEF A!Registered
  <1>5. ASSUME NEW u \in Users
        PROVE  A!Unregistered(reg, u) \in Seq(Users) /\ NoRepeat(A!Unregistered(reg, u))
    <2>1. CASE u \in A!Members(reg.accounts)
      <3>1. PICK i \in 1 .. Len(reg.accounts) :
               i = CHOOSE k \in DOMAIN reg.accounts : reg.accounts[k] = u
        <4>1. DOMAIN reg.accounts = 1 .. Len(reg.accounts)
          BY <1>1
        <4>2. \E k \in DOMAIN reg.accounts : reg.accounts[k] = u
          BY <2>1 DEF A!Members
        <4>3. QED
          BY <4>1, <4>2
      <3>2. A!Unregistered(reg, u) = V!Without(reg.accounts, i)
        BY <2>1, <3>1 DEF A!Unregistered, V!Without
      <3>3. QED
        BY <1>1, <3>2, WithoutRepeat
    <2>2. CASE u \notin A!Members(reg.accounts)
      BY <1>1, <2>2 DEF A!Unregistered
    <2>3. QED
      BY <2>1, <2>2
  <1>6. ASSUME NEW u \in OrNone(Users)
        PROVE  [reg EXCEPT !.active = u] \in SoundRegistries
    <2>1. [accounts |-> reg.accounts, active |-> u] \in SoundRegistries
      BY <1>1, <1>2
    <2>2. QED
      BY <1>3, <2>1
  <1>7. ASSUME NEW u \in Users
        PROVE  [accounts |-> A!Registered(reg, u), active |-> u] \in SoundRegistries
    BY <1>2, <1>4 DEF OrNone
  <1>8. ASSUME NEW u \in Users
        PROVE  [reg EXCEPT !.accounts = A!Unregistered(reg, u)] \in SoundRegistries
    <2>1. PICK s : s = A!Unregistered(reg, u)
      OBVIOUS
    <2>2. [accounts |-> s, active |-> reg.active] \in SoundRegistries
      BY <1>1, <1>2, <1>5, <2>1
    <2>3. QED
      BY <1>3, <2>1, <2>2
  <1>9. QED
    BY <1>1, <1>6, <1>7, <1>8

\* Side by side or alone: a command that acts for a user knows that user, and a
\* removal under way has the registry it will save.
Acting == Chooses \cup Reading \cup {"enter"}
ShapedTasks ==
    {r \in TaskRecords :
       /\ r.reg \in OrNone(SoundRegistries)
       /\ r.at \in Acting => r.user \in Users
       /\ r.at \in {"purge", "unlist"} => r.reg # None}
TasksShaped == task \in [Tasks -> ShapedTasks]
FilesShaped == AccountTyped /\ registry \in OrNone(SoundRegistries)
LocksShaped ==
    /\ writer \in [A!Lock -> OrNone(Tasks)] /\ readers \in SUBSET Tasks
    /\ alone \in BOOLEAN /\ begun \in SUBSET Tasks
AccountShaped == TasksShaped /\ FilesShaped /\ LocksShaped

\* How the record of a task changes.
LEMMA NoTaskShaped == A!NoTask \in ShapedTasks
  BY NotNone DEF A!NoTask, ShapedTasks, TaskRecords, Acting, Chooses, Reading, OrNone, A!Where

LEMMA ShapedAt ==
    ASSUME TasksShaped, NEW t \in Tasks
    PROVE  /\ task[t] \in ShapedTasks /\ task[t] \in TaskRecords
           /\ task[t].op \in OrNone(Commands) /\ task[t].user \in OrNone(Users)
           /\ task[t].list \in SUBSET Channels /\ task[t].reg \in OrNone(SoundRegistries)
           /\ task[t].at \in Acting => task[t].user \in Users
           /\ task[t].at \in {"purge", "unlist"} => task[t].reg \in SoundRegistries
  <1>1. task[t] \in ShapedTasks
    BY DEF TasksShaped
  <1>2. /\ task[t] \in TaskRecords /\ task[t].reg \in OrNone(SoundRegistries)
        /\ task[t].at \in Acting => task[t].user \in Users
        /\ task[t].at \in {"purge", "unlist"} => task[t].reg # None
    BY <1>1 DEF ShapedTasks
  <1>3. /\ task[t].op \in OrNone(Commands) /\ task[t].user \in OrNone(Users)
        /\ task[t].list \in SUBSET Channels
    BY <1>2 DEF TaskRecords
  <1>4. QED
    BY <1>1, <1>2, <1>3 DEF OrNone

LEMMA ShapedTurn ==
    ASSUME TasksShaped, NEW t \in Tasks, NEW l \in A!Where, NEW u \in OrNone(Users),
           NEW S \in SUBSET Channels, NEW g \in OrNone(SoundRegistries),
           task' = [task EXCEPT ![t] =
                      [op |-> task[t].op, at |-> l, user |-> u, list |-> S, reg |-> g]],
           l \in Acting => u \in Users, l \in {"purge", "unlist"} => g # None
    PROVE  TasksShaped'
  <1> DEFINE r == [op |-> task[t].op, at |-> l, user |-> u, list |-> S, reg |-> g]
  <1>1. g \in OrNone(Registries)
    BY DEF SoundRegistries, OrNone
  <1>2. r \in TaskRecords
    BY <1>1, ShapedAt DEF TaskRecords, OrNone
  <1>3. r \in ShapedTasks
    BY <1>2 DEF ShapedTasks
  <1>4. task' = [task EXCEPT ![t] = r]
    OBVIOUS
  <1> HIDE DEF r
  <1>5. QED
    BY <1>3, <1>4 DEF TasksShaped

LEMMA ShapedGoto ==
    ASSUME TasksShaped, NEW t \in Tasks, NEW l \in A!Where, A!Goto(t, l),
           l \in Acting => task[t].at \in Acting,
           l \in {"purge", "unlist"} => task[t].at \in {"purge", "unlist"}
    PROVE  TasksShaped'
  <1>1. /\ task \in [Tasks -> ShapedTasks] /\ task[t] \in TaskRecords
        /\ task[t].user \in OrNone(Users) /\ task[t].list \in SUBSET Channels
        /\ task[t].reg \in OrNone(SoundRegistries)
        /\ l \in Acting => task[t].user \in Users
        /\ l \in {"purge", "unlist"} => task[t].reg # None
    BY ShapedAt, NotNone DEF TasksShaped, ShapedTasks
  <1>2. [task[t] EXCEPT !.at = l] =
          [op |-> task[t].op, at |-> l, user |-> task[t].user, list |-> task[t].list,
           reg |-> task[t].reg]
    BY <1>1 DEF TaskRecords
  <1>3. task' = [task EXCEPT ![t] = [task[t] EXCEPT !.at = l]]
    BY DEF A!Goto
  <1>4. QED
    BY <1>1, <1>2, <1>3, ShapedTurn

LEMMA ShapedGotoWith ==
    ASSUME TasksShaped, NEW t \in Tasks, NEW l \in A!Where \ {"purge", "unlist"},
           NEW u \in Users, A!GotoWith(t, l, u)
    PROVE  TasksShaped'
  <1>1. /\ task \in [Tasks -> ShapedTasks] /\ task[t] \in TaskRecords
        /\ task[t].list \in SUBSET Channels
        /\ task[t].reg \in OrNone(SoundRegistries) /\ u \in OrNone(Users)
    BY ShapedAt DEF TasksShaped, OrNone
  <1>2. [task[t] EXCEPT !.at = l, !.user = u] =
          [op |-> task[t].op, at |-> l, user |-> u, list |-> task[t].list,
           reg |-> task[t].reg]
    <2>1. PICK r \in TaskRecords : r = task[t]
      BY <1>1
    <2>2. PICK m \in [op : {r.op}, at : {l}, user : {r.user}, list : {r.list}, reg : {r.reg}] :
             m = [r EXCEPT !.at = l]
      BY DEF TaskRecords
    <2>3. [r EXCEPT !.at = l, !.user = u] = [m EXCEPT !.user = u]
      BY <2>2
    <2>4. [m EXCEPT !.user = u] =
            [op |-> r.op, at |-> l, user |-> u, list |-> r.list,
             reg |-> r.reg]
      OBVIOUS
    <2>5. QED
      BY <2>1, <2>3, <2>4
  <1>3. task' = [task EXCEPT ![t] = [task[t] EXCEPT !.at = l, !.user = u]]
    BY <1>1 DEF A!GotoWith
  <1>4. QED
    BY <1>1, <1>2, <1>3, ShapedTurn

LEMMA ShapedKeep ==
    ASSUME TasksShaped, NEW t \in Tasks, NEW l \in A!Where \ {"purge", "unlist"},
           NEW S \in SUBSET Channels, A!Keep(t, l, S),
           l \in Acting => task[t].at \in Acting
    PROVE  TasksShaped'
  <1>1. /\ task \in [Tasks -> ShapedTasks] /\ task[t] \in TaskRecords
        /\ task[t].user \in OrNone(Users) /\ task[t].reg \in OrNone(SoundRegistries)
        /\ l \in Acting => task[t].user \in Users
    BY ShapedAt DEF TasksShaped
  <1>2. [task[t] EXCEPT !.at = l, !.list = S] =
          [op |-> task[t].op, at |-> l, user |-> task[t].user, list |-> S,
           reg |-> task[t].reg]
    <2>1. PICK r \in TaskRecords : r = task[t]
      BY <1>1
    <2>2. PICK m \in [op : {r.op}, at : {l}, user : {r.user}, list : {r.list}, reg : {r.reg}] :
             m = [r EXCEPT !.at = l]
      BY DEF TaskRecords
    <2>3. [r EXCEPT !.at = l, !.list = S] = [m EXCEPT !.list = S]
      BY <2>2
    <2>4. [m EXCEPT !.list = S] =
            [op |-> r.op, at |-> l, user |-> r.user, list |-> S,
             reg |-> r.reg]
      OBVIOUS
    <2>5. QED
      BY <2>1, <2>3, <2>4
  <1>3. task' = [task EXCEPT ![t] = [task[t] EXCEPT !.at = l, !.list = S]]
    BY <1>1 DEF A!Keep
  <1>4. QED
    BY <1>1, <1>2, <1>3, ShapedTurn

LEMMA ShapedFinish ==
    ASSUME TasksShaped, NEW t \in Tasks, A!Finish(t)
    PROVE  TasksShaped'
  BY NoTaskShaped DEF A!Finish, TasksShaped

\* Three fields of a record are set, or two.
LEMMA Purges ==
    ASSUME TasksShaped, NEW t \in Tasks, NEW l, NEW g,
           task' = [task EXCEPT ![t].at = l, ![t].reg = g]
    PROVE  task' = [task EXCEPT ![t] =
                      [op |-> task[t].op, at |-> l, user |-> task[t].user,
                       list |-> task[t].list, reg |-> g]]
  <1>1. task \in [Tasks -> ShapedTasks] /\ task[t] \in TaskRecords
    BY ShapedAt DEF TasksShaped
  <1>2. PICK r \in TaskRecords : r = task[t]
    BY <1>1
  <1>3. PICK m \in [op : {r.op}, at : {l}, user : {r.user}, list : {r.list}, reg : {r.reg}] :
           m = [r EXCEPT !.at = l]
    BY DEF TaskRecords
  <1>4. [m EXCEPT !.reg = g] =
          [op |-> r.op, at |-> l, user |-> r.user, list |-> r.list, reg |-> g]
    OBVIOUS
  <1>5. task' = [task EXCEPT ![t] = [m EXCEPT !.reg = g]]
    BY <1>1, <1>2, <1>3
  <1>6. QED
    BY <1>2, <1>4, <1>5

Connects(t, u) ==
    task' = [task EXCEPT ![t].at = "connect", ![t].user = u, ![t].reg = None]
LEMMA Unlists ==
    ASSUME TasksShaped, NEW t \in Tasks, NEW u, Connects(t, u)
    PROVE  task' = [task EXCEPT ![t] =
                      [op |-> task[t].op, at |-> "connect", user |-> u, list |-> task[t].list,
                       reg |-> None]]
  <1>1. task \in [Tasks -> ShapedTasks] /\ task[t] \in TaskRecords
    BY ShapedAt DEF TasksShaped
  <1>2. PICK r \in TaskRecords : r = task[t]
    BY <1>1
  <1>3. PICK m \in [op : {r.op}, at : {"connect"}, user : {r.user}, list : {r.list}, reg : {r.reg}] :
           m = [r EXCEPT !.at = "connect"]
    BY DEF TaskRecords
  <1>4. PICK n \in [op : {r.op}, at : {"connect"}, user : {u}, list : {r.list}, reg : {r.reg}] :
           n = [m EXCEPT !.user = u]
    OBVIOUS
  <1>5. [n EXCEPT !.reg = None] =
          [op |-> r.op, at |-> "connect", user |-> u, list |-> r.list, reg |-> None]
    OBVIOUS
  <1>6. task' = [task EXCEPT ![t] = [n EXCEPT !.reg = None]]
    BY <1>1, <1>2, <1>3, <1>4 DEF Connects
  <1>7. QED
    BY <1>2, <1>5, <1>6

\* What a command finds in the files.
LEMMA LoadsShaped ==
    ASSUME FilesShaped
    PROVE  /\ A!LoadedRegistry \in SoundRegistries
           /\ A!Members(A!LoadedRegistry.accounts) \subseteq Users
           /\ A!MigratedCreds \in [Users -> OrNone(Users)]
           /\ (IF A!Migrates THEN A!LoadedRegistry ELSE registry) \in OrNone(SoundRegistries)
  <1>1. \A s \in Seq(Users), u \in OrNone(Users) :
           NoRepeat(s) => [accounts |-> s, active |-> u] \in SoundRegistries
    BY DEF SoundRegistries, Registries
  <1>2. A!LoadedRegistry \in SoundRegistries
    <2>1. CASE registry # None
      BY <2>1 DEF FilesShaped, A!LoadedRegistry, OrNone
    <2>2. CASE registry = None /\ auth # None
      <3>1. auth \in Users
        BY <2>2 DEF FilesShaped, AccountTyped, OrNone
      <3>2. <<auth>> \in Seq(Users) /\ NoRepeat(<<auth>>)
        BY <3>1 DEF NoRepeat
      <3>3. A!LoadedRegistry = [accounts |-> <<auth>>, active |-> auth]
        BY <2>2 DEF A!LoadedRegistry
      <3>4. QED
        BY <1>1, <3>1, <3>2, <3>3 DEF OrNone
    <2>3. CASE registry = None /\ auth = None
      <3>1. <<>> \in Seq(Users) /\ NoRepeat(<<>>) /\ None \in OrNone(Users)
        BY DEF NoRepeat, OrNone
      <3>2. A!LoadedRegistry = [accounts |-> <<>>, active |-> None]
        BY <2>3 DEF A!LoadedRegistry
      <3>3. QED
        BY <1>1, <3>1, <3>2
    <2>4. QED
      BY <2>1, <2>2, <2>3
  <1>3. A!Members(A!LoadedRegistry.accounts) \subseteq Users
    BY <1>2, Listed DEF SoundRegistries
  <1>4. A!MigratedCreds \in [Users -> OrNone(Users)]
    <2>1. creds \in [Users -> OrNone(Users)] /\ legacy \in OrNone(Users)
      BY DEF FilesShaped, AccountTyped
    <2>2. QED
      BY <2>1 DEF A!MigratedCreds
  <1>5. QED
    BY <1>2, <1>3, <1>4 DEF FilesShaped, OrNone

\* A command begins.
LEMMA BeginShaped ==
    ASSUME AccountShaped, NEW t \in Tasks, A!BeginCommand(t)
    PROVE  AccountShaped'
  <1>1. TasksShaped /\ FilesShaped /\ LocksShaped
    BY DEF AccountShaped
  <1>2. FilesShaped' /\ LocksShaped'
    BY <1>1
       DEF A!BeginCommand, A!files, A!memory, A!locks, FilesShaped, AccountTyped, LocksShaped
  <1>3. PICK op \in Commands : \E s \in A!Start(op) :
          task' = [task EXCEPT ![t] =
                     [A!NoTask EXCEPT !.op = op, !.at = s[1], !.user = s[2], !.list = s[3]]]
    BY DEF A!BeginCommand
  <1>4. PICK s \in A!Start(op) :
          task' = [task EXCEPT ![t] =
                     [A!NoTask EXCEPT !.op = op, !.at = s[1], !.user = s[2], !.list = s[3]]]
    BY <1>3
  <1>5. ASSUME NEW l \in Begins \cup Within, NEW u \in OrNone(Users), NEW S \in SUBSET Channels,
               s = <<l, u, S>>, l \in {"signed", "choose", "forget"} => u \in Users
        PROVE  AccountShaped'
    <2> DEFINE r == [A!NoTask EXCEPT !.op = op, !.at = l, !.user = u, !.list = S]
    <2>1. r \in TaskRecords /\ r.at = l /\ r.user = u /\ r.reg = None
      BY DEF A!NoTask, TaskRecords, OrNone, Begins, Within, A!Where
    <2>2. r \in ShapedTasks
      BY <1>5, <2>1 DEF ShapedTasks, Acting, Chooses, Reading, Begins, Within, OrNone
    <2>3. task' = [task EXCEPT ![t] = r]
      BY <1>4, <1>5
    <2> HIDE DEF r
    <2>4. QED
      BY <1>1, <1>2, <2>2, <2>3 DEF TasksShaped, AccountShaped
  <1>6. A!Members(A!LoadedRegistry.accounts) \subseteq Users
    BY <1>1, LoadsShaped
  <1>7. drives \in SUBSET Channels
    BY <1>1 DEF FilesShaped, AccountTyped
  <1>8. ASSUME NEW l \in {"signed", "choose", "forget"}, NEW u \in Users, s = <<l, u, {}>>
        PROVE  AccountShaped'
    <2>1. l \in Begins \cup Within /\ u \in OrNone(Users)
      BY DEF Begins, Within, OrNone
    <2>2. QED
      BY <1>5, <1>8, <2>1
  <1>9. ASSUME NEW l \in (Begins \cup Within) \ {"signed", "choose", "forget"},
               NEW S \in SUBSET Channels, s = <<l, None, S>>
        PROVE  AccountShaped'
    BY <1>5, <1>9 DEF OrNone
  <1>10. CASE op = "login"
    <2>1. PICK u \in Users : s = <<"signed", u, {}>>
      BY <1>10 DEF A!Start
    <2>2. QED
      BY <1>8, <2>1
  <1>11. CASE op \in {"switch", "remove"}
    <2>1. PICK u \in Users : s = <<"choose", u, {}>> \/ s = <<"forget", u, {}>>
      BY <1>6, <1>11 DEF A!Start
    <2>2. QED
      BY <1>8, <2>1
  <1>12. CASE op \in {"status", "logout", "check", "reconnect", "drives", "prune"}
    <2>1. PICK l \in {"look", "whoami", "ping", "refresh", "guard", "owned"} :
             s = <<l, None, {}>>
      BY <1>12 DEF A!Start
    <2>2. QED
      BY <1>9, <2>1 DEF Begins, Within
  <1>13. CASE op \in {"create", "link", "adopt", "delete"}
    <2>1. PICK l \in {"make", "push", "hold", "unlink"}, c \in Channels :
             s = <<l, None, {c}>>
      BY <1>7, <1>13 DEF A!Start
    <2>2. QED
      BY <1>9, <2>1 DEF Begins, Within
  <1>14. QED
    BY <1>10, <1>11, <1>12, <1>13, AccountAssumption

\* A step of a task: the locks, then the files, then its own record.
LEMMA LocksMove ==
    ASSUME AccountShaped, NEW t \in Tasks, A!Step(t)
    PROVE  LocksShaped'
  <1> USE DEF A!locks, A!mode, A!memory
  <1>1. LocksShaped
    BY DEF AccountShaped
  <1>2. ASSUME UNCHANGED <<alone, begun>>, readers' \in SUBSET Tasks,
               \/ writer' = writer
               \/ \E l \in A!Lock, x \in OrNone(Tasks) : writer' = [writer EXCEPT ![l] = x]
        PROVE  LocksShaped'
    BY <1>1, <1>2 DEF LocksShaped
  <1>3. /\ "session" \in A!Lock /\ "drives" \in A!Lock
        /\ t \in OrNone(Tasks) /\ None \in OrNone(Tasks)
        /\ readers \in SUBSET Tasks
    BY <1>1 DEF A!Lock, OrNone, LocksShaped
  <1>4. ASSUME UNCHANGED <<writer, readers, alone, begun>>
        PROVE  LocksShaped'
    BY <1>2, <1>3, <1>4
  <1>5. CASE \/ A!Signed(t) \/ A!Register(t) \/ A!ReadDrives(t) \/ A!ListDrives(t)
             \/ A!LookForSession(t) \/ A!Connect(t) \/ A!ChooseAccount(t) \/ A!ForgetUser(t)
             \/ A!PurgeDrives(t) \/ A!UnlistUser(t)
    BY <1>4, <1>5
       DEF A!Signed, A!Register, A!ReadDrives, A!ListDrives, A!LookForSession, A!Connect,
       A!ChooseAccount, A!ForgetUser, A!PurgeDrives, A!UnlistUser
  <1>6. CASE \/ A!WhoAmI(t) \/ A!Ping(t) \/ A!Disconnect(t) \/ A!Refresh(t)
             \/ A!MakeChannel(t) \/ A!UnlinkChannel(t) \/ A!ListOwned(t)
    BY <1>4, <1>6
       DEF A!WhoAmI, A!Ping, A!Disconnect, A!Refresh, A!MakeChannel, A!UnlinkChannel,
       A!ListOwned
  <1>7. CASE A!RewriteDrives(t) \/ A!GuardSession(t)
    <2>1. UNCHANGED <<writer, alone, begun>> /\ readers' \in SUBSET Tasks
      BY <1>3, <1>7 DEF A!RewriteDrives, A!GuardSession
    <2>2. QED
      BY <1>2, <2>1
  <1>8. CASE \/ A!EnterSession(t) \/ A!SwapDrives(t) \/ A!HoldDrives(t) \/ A!PushDrive(t)
             \/ A!StoreDrives(t) \/ A!RetainDrives(t)
    <2>1. UNCHANGED <<readers, alone, begun>>
      BY <1>8
         DEF A!EnterSession, A!SwapDrives, A!HoldDrives, A!PushDrive, A!StoreDrives,
         A!RetainDrives
    <2>2. \/ writer' = writer
          \/ \E x \in OrNone(Tasks) : writer' = [writer EXCEPT !["drives"] = x]
      <3>1. CASE A!EnterSession(t)
        <4>1. writer["drives"] \in OrNone(Tasks)
          BY <1>1, <1>3 DEF LocksShaped
        <4>2. writer' = [writer EXCEPT !["drives"] = IF writer["drives"] = t THEN None
                                                     ELSE writer["drives"]]
          BY <3>1 DEF A!EnterSession
        <4>3. QED
          BY <1>3, <4>1, <4>2
      <3>2. QED
        BY <1>3, <1>8, <3>1
           DEF A!SwapDrives, A!HoldDrives, A!PushDrive, A!StoreDrives, A!RetainDrives
    <2>3. QED
      BY <1>2, <1>3, <2>1, <2>2
  <1>9. CASE A!CloseSession(t) \/ A!ClearDrives(t)
    <2>1. /\ UNCHANGED <<readers, alone, begun>>
          /\ \E x \in OrNone(Tasks) : writer' = [writer EXCEPT !["session"] = x]
      BY <1>3, <1>9 DEF A!CloseSession, A!ClearDrives
    <2>2. QED
      BY <1>2, <1>3, <2>1
  <1>10. QED
    BY <1>5, <1>6, <1>7, <1>8, <1>9 DEF A!Step

LEMMA FilesMove ==
    ASSUME AccountShaped, NEW t \in Tasks, A!Step(t)
    PROVE  FilesShaped'
  <1> USE DEF A!files, A!memory, A!At, A!User, A!List, A!Op
  <1>1. /\ registry \in OrNone(SoundRegistries) /\ creds \in [Users -> OrNone(Users)]
        /\ legacy \in OrNone(Users) /\ auth \in OrNone(Users)
        /\ session \in OrNone(Users) /\ transport \in OrNone(Users)
        /\ saved \in [Users -> SUBSET Channels] /\ drives \in SUBSET Channels
        /\ owner \in [Channels -> OrNone(Users)] /\ stale \in BOOLEAN
        /\ Users \subseteq OrNone(Users) /\ None \in OrNone(Users)
        /\ None \in OrNone(SoundRegistries) /\ SoundRegistries \subseteq OrNone(SoundRegistries)
    BY DEF AccountShaped, FilesShaped, AccountTyped, OrNone
  <1>2. /\ A!LoadedRegistry \in SoundRegistries
        /\ A!MigratedCreds \in [Users -> OrNone(Users)]
        /\ (IF A!Migrates THEN A!LoadedRegistry ELSE registry) \in OrNone(SoundRegistries)
    BY LoadsShaped DEF AccountShaped
  <1>3. /\ task[t].user \in OrNone(Users) /\ task[t].list \in SUBSET Channels
        /\ task[t].at \in Acting => task[t].user \in Users
        /\ task[t].at \in {"purge", "unlist"} => task[t].reg \in SoundRegistries
    BY ShapedAt DEF AccountShaped
  <1>4. /\ {"signed", "register", "rewrite", "enter", "connect", "choose", "swap"} \subseteq Acting
        /\ {"forget", "purge", "unlist"} \subseteq Acting
    BY DEF Acting, Chooses, Reading
  <1>5. ASSUME registry' \in OrNone(SoundRegistries), creds' \in [Users -> OrNone(Users)],
               legacy' \in OrNone(Users), auth' \in OrNone(Users),
               session' \in OrNone(Users), transport' \in OrNone(Users),
               saved' \in [Users -> SUBSET Channels], drives' \in SUBSET Channels,
               owner' \in [Channels -> OrNone(Users)], stale' \in BOOLEAN
        PROVE  FilesShaped'
    BY <1>5 DEF FilesShaped, AccountTyped, SoundRegistries, OrNone
  <1>6. CASE A!Signed(t)
    <2>1. task[t].user \in Users
      BY <1>3, <1>4, <1>6 DEF A!Signed
    <2>2. creds' \in [Users -> OrNone(Users)]
      BY <1>1, <1>6, <2>1 DEF A!Signed
    <2>3. QED
      BY <1>1, <1>5, <1>6, <2>1, <2>2 DEF A!Signed
  <1>7. CASE A!Register(t)
    <2>1. task[t].user \in Users
      BY <1>3, <1>4, <1>7 DEF A!Register
    <2>2. registry' \in SoundRegistries
      BY <1>2, <1>7, <2>1, RegistryMoves DEF A!Register
    <2>3. QED
      BY <1>1, <1>2, <1>5, <1>7, <2>2 DEF A!Register
  <1>8. CASE A!RewriteDrives(t) \/ A!PurgeDrives(t)
    <2>1. saved' \in [Users -> SUBSET Channels]
      BY <1>1, <1>3, <1>8 DEF A!RewriteDrives, A!PurgeDrives
    <2>2. QED
      BY <1>1, <1>5, <1>8, <2>1 DEF A!RewriteDrives, A!PurgeDrives
  <1>9. CASE A!ListDrives(t)
    BY <1>1, <1>3, <1>5, <1>9 DEF A!ListDrives
  <1>10. CASE A!EnterSession(t)
    BY <1>1, <1>3, <1>5, <1>10 DEF A!EnterSession
  <1>11. CASE A!LookForSession(t) \/ A!Refresh(t)
    <2>1. /\ registry' \in OrNone(SoundRegistries) /\ creds' \in [Users -> OrNone(Users)]
      BY <1>1, <1>2, <1>11 DEF A!LookForSession, A!Refresh, A!LoadRegistry
    <2>2. QED
      BY <1>1, <1>5, <1>11, <2>1 DEF A!LookForSession, A!Refresh
  <1>12. CASE A!Connect(t)
    <2>1. task[t].user \in Users
      BY <1>3, <1>4, <1>12 DEF A!Connect
    <2>2. A!Credentials(task[t].user) \in OrNone(Users)
      BY <1>1, <2>1 DEF A!Credentials
    <2>3. transport' \in OrNone(Users) /\ stale' \in BOOLEAN
      BY <1>1, <1>12, <2>2 DEF A!Connect, A!Refreshes
    <2>4. QED
      BY <1>1, <1>5, <1>12, <2>3 DEF A!Connect
  <1>13. CASE A!ChooseAccount(t)
    <2>1. task[t].user \in OrNone(Users)
      BY <1>3
    <2>2. registry' \in OrNone(SoundRegistries)
      BY <1>1, <1>2, <1>13, <2>1, RegistryMoves DEF A!ChooseAccount
    <2>3. QED
      BY <1>1, <1>2, <1>5, <1>13, <2>2 DEF A!ChooseAccount
  <1>14. CASE A!SwapDrives(t)
    <2>1. saved[task[t].user] \in SUBSET Channels
      BY <1>1, <1>3, <1>4, <1>14 DEF A!SwapDrives
    <2>2. QED
      BY <1>1, <1>5, <1>14, <2>1 DEF A!SwapDrives
  <1>15. CASE A!ForgetUser(t)
    <2>1. creds' \in [Users -> OrNone(Users)]
      BY <1>1, <1>2, <1>15 DEF A!ForgetUser
    <2>2. QED
      BY <1>1, <1>2, <1>5, <1>15, <2>1 DEF A!ForgetUser
  <1>16. CASE A!UnlistUser(t)
    <2>1. task[t].reg \in SoundRegistries
      BY <1>3, <1>16 DEF A!UnlistUser
    <2>2. PICK reg \in SoundRegistries : reg = task[t].reg
      BY <2>1
    <2>3. reg.accounts # <<>> => Head(reg.accounts) \in OrNone(Users)
      BY <1>1, Listed DEF SoundRegistries
    <2>4. \A u \in OrNone(Users) : [reg EXCEPT !.active = u] \in SoundRegistries
      BY RegistryMoves
    <2>5. registry' \in SoundRegistries
      BY <1>1, <1>16, <2>2, <2>3, <2>4 DEF A!UnlistUser
    <2>6. QED
      BY <1>1, <1>5, <1>16, <2>5 DEF A!UnlistUser
  <1>17. CASE A!CloseSession(t) \/ A!ClearDrives(t) \/ A!Disconnect(t)
    BY <1>1, <1>5, <1>17 DEF A!CloseSession, A!ClearDrives, A!Disconnect
  <1>18. CASE \/ A!ReadDrives(t) \/ A!WhoAmI(t) \/ A!Ping(t) \/ A!GuardSession(t)
              \/ A!HoldDrives(t) \/ A!ListOwned(t)
    BY <1>1, <1>5, <1>18
       DEF A!ReadDrives, A!WhoAmI, A!Ping, A!GuardSession, A!HoldDrives, A!ListOwned
  <1>19. CASE A!MakeChannel(t) \/ A!UnlinkChannel(t)
    <2>1. owner' \in [Channels -> OrNone(Users)]
      BY <1>1, <1>19 DEF A!MakeChannel, A!UnlinkChannel
    <2>2. QED
      BY <1>1, <1>5, <1>19, <2>1 DEF A!MakeChannel, A!UnlinkChannel
  <1>20. CASE A!PushDrive(t) \/ A!RetainDrives(t)
    <2>1. drives' \in SUBSET Channels
      BY <1>1, <1>3, <1>20 DEF A!PushDrive, A!RetainDrives
    <2>2. QED
      BY <1>1, <1>5, <1>20, <2>1 DEF A!PushDrive, A!RetainDrives
  <1>21. CASE A!StoreDrives(t)
    <2>1. saved' \in [Users -> SUBSET Channels]
      BY <1>1, <1>21 DEF A!StoreDrives
    <2>2. QED
      BY <1>1, <1>5, <1>21, <2>1 DEF A!StoreDrives
  <1>22. QED
    BY <1>6, <1>7, <1>8, <1>9, <1>10, <1>11, <1>12, <1>13, <1>14, <1>15, <1>16, <1>17,
       <1>18, <1>19, <1>20, <1>21 DEF A!Step

LEMMA TasksMove ==
    ASSUME AccountShaped, NEW t \in Tasks, A!Step(t)
    PROVE  TasksShaped'
  <1> USE DEF A!At, A!User, A!List, A!Op
  <1>0. TasksShaped /\ FilesShaped
    BY DEF AccountShaped
  <1>1. /\ task[t].user \in OrNone(Users) /\ task[t].list \in SUBSET Channels
        /\ task[t].at \in Acting => task[t].user \in Users
        /\ task[t].at \in {"purge", "unlist"} => task[t].reg \in SoundRegistries
        /\ session \in OrNone(Users) /\ saved \in [Users -> SUBSET Channels]
    BY <1>0, ShapedAt DEF FilesShaped, AccountTyped
  <1>2. ASSUME NEW l \in A!Where \ Acting, A!Goto(t, l) \/ A!Finish(t)
        PROVE  TasksShaped'
    <2>1. l \notin {"purge", "unlist"}
      BY DEF Acting, Chooses
    <2>2. QED
      BY <1>0, <1>2, <2>1, ShapedGoto, ShapedFinish
  <1>3. ASSUME NEW l \in Acting \ {"purge", "unlist"}, task[t].at \in Acting,
               A!Goto(t, l) \/ A!Finish(t)
        PROVE  TasksShaped'
    <2>1. l \in A!Where
      BY DEF Acting, Chooses, Reading, A!Where
    <2>2. QED
      BY <1>0, <1>3, <2>1, ShapedGoto, ShapedFinish
  <1>4. CASE A!Signed(t) \/ A!Register(t) \/ A!RewriteDrives(t) \/ A!SwapDrives(t)
    <2>1. task[t].at \in {"signed", "register", "rewrite", "swap"}
      BY <1>4 DEF A!Signed, A!Register, A!RewriteDrives, A!SwapDrives
    <2>2. PICK l \in {"register", "read", "list", "enter"} : A!Goto(t, l)
      BY <1>4 DEF A!Signed, A!Register, A!RewriteDrives, A!SwapDrives
    <2>3. QED
      BY <1>3, <2>1, <2>2 DEF Acting, Chooses, Reading
  <1>5. CASE A!ListDrives(t) \/ A!Connect(t) \/ A!ChooseAccount(t) \/ A!EnterSession(t)
    <2>1. task[t].at \in {"list", "connect", "choose", "enter"}
      BY <1>5 DEF A!ListDrives, A!Connect, A!ChooseAccount, A!EnterSession
    <2>2. \/ A!Finish(t)
          \/ \E l \in {"enter", "read", "swap", "connect"} : A!Goto(t, l)
      BY <1>5 DEF A!ListDrives, A!Connect, A!ChooseAccount, A!EnterSession
    <2>3. QED
      BY <1>0, <1>3, <2>1, <2>2, ShapedFinish DEF Acting, Chooses, Reading
  <1>6. CASE A!ReadDrives(t)
    <2>1. task[t].at \in Acting
      BY <1>6 DEF A!ReadDrives, Acting, Reading
    <2>2. saved[task[t].user] \in SUBSET Channels
      BY <1>1, <2>1
    <2>3. PICK l \in {"list", "rewrite"} : A!Keep(t, l, saved[task[t].user])
      BY <1>6 DEF A!ReadDrives
    <2>4. l \in A!Where \ {"purge", "unlist"}
      BY DEF A!Where
    <2>5. QED
      BY <1>0, <2>1, <2>2, <2>3, <2>4, ShapedKeep
  <1>7. CASE A!LookForSession(t) \/ A!Refresh(t)
    <2>1. A!Members(A!LoadedRegistry.accounts) \subseteq Users
      BY <1>0, LoadsShaped
    <2>2. \/ A!Finish(t)
          \/ \E u \in Users : A!GotoWith(t, "connect", u)
      BY <1>7, <2>1 DEF A!LookForSession, A!Refresh
    <2>3. "connect" \in A!Where \ {"purge", "unlist"}
      BY DEF A!Where
    <2>4. QED
      BY <1>0, <2>2, <2>3, ShapedGotoWith, ShapedFinish
  <1>8. CASE A!WhoAmI(t) \/ A!GuardSession(t)
    <2>1. \/ A!Finish(t) \/ A!Goto(t, "closing")
          \/ \E l \in {"forget", "read"}, u \in Users : A!GotoWith(t, l, u)
      BY <1>1, <1>8 DEF A!WhoAmI, A!GuardSession, OrNone
    <2>2. /\ {"forget", "read"} \subseteq A!Where \ {"purge", "unlist"}
          /\ "closing" \in A!Where \ Acting
      BY DEF A!Where, Acting, Chooses, Reading
    <2>3. QED
      BY <1>0, <1>2, <2>1, <2>2, ShapedGotoWith, ShapedFinish
  <1>9. CASE A!ForgetUser(t)
    <2>1. task[t].user \in Users
      BY <1>1, <1>9 DEF A!ForgetUser, Acting, Chooses
    <2>2. PICK g : g = [A!LoadedRegistry EXCEPT
                          !.accounts = A!Unregistered(A!LoadedRegistry, task[t].user)]
      OBVIOUS
    <2>3. g \in SoundRegistries
      BY <1>0, <2>1, <2>2, LoadsShaped, RegistryMoves
    <2>4. task' = [task EXCEPT ![t].at = "purge", ![t].reg = g]
      BY <1>9, <2>2 DEF A!ForgetUser
    <2>5. task' = [task EXCEPT ![t] =
                     [op |-> task[t].op, at |-> "purge", user |-> task[t].user,
                      list |-> task[t].list, reg |-> g]]
      BY <1>0, <2>4, Purges
    <2>6. g # None /\ g \in OrNone(SoundRegistries) /\ "purge" \in A!Where
      BY <2>3, NotNone DEF SoundRegistries, OrNone, A!Where
    <2>7. QED
      BY <1>0, <1>1, <2>1, <2>5, <2>6, ShapedTurn
  <1>10. CASE A!PurgeDrives(t)
    <2>1. /\ A!Goto(t, "unlist") /\ task[t].at = "purge" /\ "purge" \in Acting
          /\ "unlist" \in A!Where
      BY <1>10 DEF A!PurgeDrives, A!Where, Acting, Chooses
    <2>2. QED
      BY <1>0, <2>1, ShapedGoto
  <1>11. CASE A!UnlistUser(t)
    <2>1. task[t].reg \in SoundRegistries
      BY <1>1, <1>11 DEF A!UnlistUser
    <2>2. PICK rest : rest = task[t].reg.accounts
      OBVIOUS
    <2>3. rest # <<>> => Head(rest) \in Users
      BY <2>1, <2>2, Listed DEF SoundRegistries
    <2>4. \/ A!Finish(t)
          \/ \E u \in Users : Connects(t, u)
          \/ task' = [task EXCEPT ![t].at = "closing", ![t].reg = None]
      BY <1>11, <2>2, <2>3 DEF A!UnlistUser, Connects
    <2>5. CASE A!Finish(t)
      BY <1>0, <2>5, ShapedFinish
    <2>6. ASSUME NEW u \in Users, Connects(t, u)
          PROVE  TasksShaped'
      <3>1. task' = [task EXCEPT ![t] =
                       [op |-> task[t].op, at |-> "connect", user |-> u,
                        list |-> task[t].list, reg |-> None]]
        BY <1>0, <2>6, Unlists
      <3>2. /\ None \in OrNone(SoundRegistries) /\ u \in OrNone(Users)
            /\ "connect" \in A!Where
        BY DEF OrNone, A!Where
      <3>3. QED
        BY <1>0, <1>1, <3>1, <3>2, ShapedTurn
    <2>7. ASSUME task' = [task EXCEPT ![t].at = "closing", ![t].reg = None]
          PROVE  TasksShaped'
      <3>1. task' = [task EXCEPT ![t] =
                       [op |-> task[t].op, at |-> "closing", user |-> task[t].user,
                        list |-> task[t].list, reg |-> None]]
        BY <1>0, <2>7, Purges
      <3>2. /\ None \in OrNone(SoundRegistries) /\ "closing" \in A!Where \ Acting
        BY DEF OrNone, A!Where, Acting, Chooses, Reading
      <3>3. QED
        BY <1>0, <1>1, <3>1, <3>2, ShapedTurn
    <2>8. QED
      BY <2>4, <2>5, <2>6, <2>7
  <1>12. CASE \/ A!CloseSession(t) \/ A!Ping(t) \/ A!Disconnect(t) \/ A!MakeChannel(t)
              \/ A!HoldDrives(t) \/ A!PushDrive(t) \/ A!RetainDrives(t)
              \/ A!ClearDrives(t) \/ A!StoreDrives(t)
    <2>1. \/ A!Finish(t)
          \/ \E l \in {"clearing", "refresh", "drop", "push", "store"} : A!Goto(t, l)
      BY <1>12
         DEF A!CloseSession, A!Ping, A!Disconnect, A!MakeChannel, A!HoldDrives, A!PushDrive,
         A!RetainDrives, A!ClearDrives, A!StoreDrives
    <2>2. {"clearing", "refresh", "drop", "push", "store"} \subseteq A!Where \ Acting
      BY DEF A!Where, Acting, Chooses, Reading
    <2>3. QED
      BY <1>0, <1>2, <2>1, <2>2, ShapedFinish
  <1>13. CASE A!UnlinkChannel(t) \/ A!ListOwned(t)
    <2>1. \/ A!Finish(t)
          \/ \E S \in SUBSET Channels : A!Keep(t, "retain", S)
      BY <1>13 DEF A!UnlinkChannel, A!ListOwned, A!Owned
    <2>2. "retain" \in A!Where \ {"purge", "unlist"} /\ "retain" \notin Acting
      BY DEF A!Where, Acting, Chooses, Reading
    <2>3. QED
      BY <1>0, <2>1, <2>2, ShapedKeep, ShapedFinish
  <1>14. QED
    BY <1>4, <1>5, <1>6, <1>7, <1>8, <1>9, <1>10, <1>11, <1>12, <1>13 DEF A!Step

LEMMA NextShaped == AccountShaped /\ [A!AccountNext]_accountVars => AccountShaped'
  <1> SUFFICES ASSUME AccountShaped, [A!AccountNext]_accountVars
               PROVE  AccountShaped'
    OBVIOUS
  <1>1. CASE A!Restart
    <2>1. TasksShaped'
      BY <1>1, NoTaskShaped DEF A!Restart, TasksShaped
    <2>2. FilesShaped'
      BY <1>1
         DEF A!Restart, A!files, AccountShaped, FilesShaped, AccountTyped, OrNone
    <2>3. LocksShaped'
      BY <1>1 DEF A!Restart, A!mode, AccountShaped, LocksShaped, OrNone
    <2>4. QED
      BY <2>1, <2>2, <2>3 DEF AccountShaped
  <1>2. ASSUME NEW t \in Tasks, A!Step(t)
        PROVE  AccountShaped'
    BY <1>2, TasksMove, FilesMove, LocksMove DEF AccountShaped
  <1>3. CASE UNCHANGED accountVars
    BY <1>3
       DEF accountVars, AccountShaped, TasksShaped, FilesShaped, LocksShaped, AccountTyped
  <1>4. QED
    BY <1>1, <1>2, <1>3, BeginShaped DEF A!AccountNext

LEMMA InitShaped == A!AccountInit => AccountShaped
  <1> SUFFICES ASSUME A!AccountInit PROVE AccountShaped
    OBVIOUS
  <1>1. TasksShaped
    BY NoTaskShaped DEF A!AccountInit, TasksShaped
  <1>2. LocksShaped
    BY DEF A!AccountInit, LocksShaped, OrNone
  <1>3. FilesShaped
    <2>1. stale \in BOOLEAN
      BY DEF A!AccountInit
    <2>2. CASE A!NewInstallation
      BY <2>1, <2>2 DEF A!NewInstallation, FilesShaped, AccountTyped, OrNone
    <2>3. CASE A!OldInstallation
      <3>1. PICK u \in Users, c \in Channels :
              /\ registry = None /\ legacy = u /\ auth = u
              /\ creds = [v \in Users |-> None]
              /\ saved = [v \in Users |-> IF v = u THEN {c} ELSE {}]
              /\ owner = [d \in Channels |-> IF d = c THEN u ELSE None]
              /\ session = None /\ drives = {} /\ transport = None
        BY <2>3 DEF A!OldInstallation
      <3>2. saved \in [Users -> SUBSET Channels] /\ owner \in [Channels -> OrNone(Users)]
        BY <3>1 DEF OrNone
      <3>3. QED
        BY <2>1, <3>1, <3>2 DEF FilesShaped, AccountTyped, OrNone
    <2>4. CASE A!InstallationInUse
      <3>1. PICK u \in Users, v \in Users, c \in Channels :
              /\ registry = [accounts |-> IF u = v THEN <<u>> ELSE <<u, v>>, active |-> u]
              /\ legacy = v /\ auth = u
              /\ creds = [w \in Users |-> IF w \in {u, v} THEN w ELSE None]
              /\ saved = [w \in Users |-> IF w = u THEN {c} ELSE {}]
              /\ owner = [d \in Channels |-> IF d = c THEN u ELSE None]
              /\ session \in {u, None} /\ transport = session
              /\ drives = IF session = None THEN {} ELSE {c}
        BY <2>4 DEF A!InstallationInUse
      <3>2. /\ saved \in [Users -> SUBSET Channels] /\ owner \in [Channels -> OrNone(Users)]
            /\ creds \in [Users -> OrNone(Users)] /\ drives \in SUBSET Channels
        BY <3>1 DEF OrNone
      <3>3. PICK s : s = IF u = v THEN <<u>> ELSE <<u, v>>
        OBVIOUS
      <3>4. s \in Seq(Users) /\ NoRepeat(s)
        <4>1. CASE u = v
          BY <3>3, <4>1 DEF NoRepeat
        <4>2. CASE u # v
          <5>1. s = <<u, v>> /\ s \in Seq(Users) /\ DOMAIN s = 1 .. 2 /\ s[1] = u /\ s[2] = v
            BY <3>3, <4>2
          <5>2. QED
            BY <4>2, <5>1 DEF NoRepeat
        <4>3. QED
          BY <4>1, <4>2
      <3>5. registry = [accounts |-> s, active |-> u]
        BY <3>1, <3>3
      <3>6. registry \in SoundRegistries
        BY <3>4, <3>5 DEF SoundRegistries, Registries, OrNone
      <3>7. registry \in Registries
        BY <3>6 DEF SoundRegistries
      <3>8. QED
        BY <2>1, <3>1, <3>2, <3>6, <3>7 DEF FilesShaped, AccountTyped, OrNone
    <2>5. QED
      BY <2>2, <2>3, <2>4 DEF A!AccountInit
  <1>4. QED
    BY <1>1, <1>2, <1>3 DEF AccountShaped

LEMMA AccountTypes == Spec => []A!AccountTypeOK
  <1>1. Init => AccountShaped
    BY InitShaped DEF Init
  <1>2. AccountShaped => A!AccountTypeOK
    <2> SUFFICES ASSUME AccountShaped PROVE A!AccountTypeOK
      OBVIOUS
    <2>1. TasksShaped /\ FilesShaped /\ LocksShaped
      BY DEF AccountShaped
    <2>2. A!IsRegistry(registry)
      BY <2>1, SoundIsRegistry DEF FilesShaped
    <2>3. ASSUME NEW t \in Tasks
          PROVE  /\ task[t].op \in Commands \cup {None} /\ task[t].at \in A!Where \cup {None}
                 /\ task[t].user \in Users \cup {None} /\ task[t].list \subseteq Channels
                 /\ A!IsRegistry(task[t].reg)
      <3>1. task[t] \in TaskRecords /\ A!IsRegistry(task[t].reg)
        BY <2>1, ShapedAt, SoundIsRegistry
      <3>2. QED
        BY <3>1 DEF TaskRecords, OrNone
    <2>4. DOMAIN task = Tasks
      BY <2>1 DEF TasksShaped
    <2>5. /\ creds \in [Users -> Users \cup {None}]
          /\ {legacy, auth, session, transport} \subseteq Users \cup {None}
          /\ saved \in [Users -> SUBSET Channels] /\ drives \subseteq Channels
          /\ owner \in [Channels -> Users \cup {None}] /\ stale \in BOOLEAN
      BY <2>1 DEF FilesShaped, AccountTyped, OrNone
    <2>6. /\ writer \in [A!Lock -> Tasks \cup {None}] /\ readers \subseteq Tasks
          /\ alone \in BOOLEAN /\ begun \subseteq Tasks
      BY <2>1 DEF LocksShaped, OrNone
    <2>7. QED
      BY <2>2, <2>3, <2>4, <2>5, <2>6 DEF A!AccountTypeOK
  <1>3. QED
    BY <1>1, <1>2, NextShaped, PartsMove, PTL DEF Spec

\* Whatever the parts do, every variable keeps its type, no account is listed
\* twice (register_account, remove_account), the numbers of the two ends of the
\* tunnel never cross, and a login is held by who asks for its answer.
THEOREM ServicesTyped == Spec => []TypeOK
  <1>1. /\ A!AccountTypeOK /\ P!ProxyTypeOK /\ T!TunnelTypeOK
        /\ V!VersionTypeOK /\ B!ContentTypeOK /\ F!FolderTypeOK /\ W!DavTypeOK
        => TypeOK
    BY DEF TypeOK
  <1>2. QED
    BY <1>1, AccountTypes, ProxyTypes, TunnelTypes, VersionTypes, ContentTypes, FolderTypes,
       DavTypes, PTL
=============================================================================
