--------------------------- MODULE TransfersProofs ---------------------------
(***************************************************************************)
(* That the table of signals is exact and a cancel in time is final, for   *)
(* any number of transfers, any limits and any files.  The queue comes in  *)
(* because it starts uploads: an upload that is queued must not be under   *)
(* way already (Waiting).  BInv adds the counts: of uploads, of permits,   *)
(* of attempts and of what a batch has yet to publish.                     *)
(***************************************************************************)
EXTENDS Transfers, NatFacts, FiniteSetTheorems

UI == [queue: Seq(Uploads), active: Int, choice: {None, "upload", "skip"},
       uploaded: BOOLEAN, dialog: Uploads \cup {None}, asked: SUBSET Uploads]

Typed ==
    /\ world \in Worlds /\ ui \in UI
    /\ stage \in [Transfer -> Stage]
    /\ table \subseteq Transfer /\ stopped \subseteq Transfer
    /\ signal \in [Transfer -> {"running", "paused", "cancelled"}]
    /\ read \in [Transfer -> Nat] /\ pausedAt \in [Transfer -> Nat]
    /\ docs \in [Transfer -> Nat]
    /\ result \in [Transfer -> {"none", "ok", "failed"}]

\* The files of the queue are queued, once each; that of the dialog is asked
\* about.
Waiting(u, st) ==
    /\ \A k \in 1..Len(u.queue) : st[u.queue[k]] = "queued"
    /\ \A k, l \in 1..Len(u.queue) : u.queue[k] = u.queue[l] => k = l
    /\ u.dialog # None => st[u.dialog] = "asking"

Ended == {"leaving", "returned", "refreshing", "done"}

\* A transfer that has not ended has no result and no document.
Unanswered ==
    \A i \in Transfer : stage[i] \notin Ended => docs[i] = 0 /\ result[i] = "none"

\* A stopped transfer is before a gate with the cancel in its signal and out
\* of the table, so that no resume reaches it; or it has failed.
StoppedFails ==
    \A i \in stopped :
        /\ docs[i] = 0
        /\ \/ GateAhead(i) /\ signal[i] = "cancelled"
           \/ stage[i] \in Ended \ {"refreshing"} /\ result[i] = "failed"

\* A paused transfer that is reading has read nothing since; the gate lets it
\* begin no other part.
PausedReads ==
    \A i \in Transfer : signal[i] = "paused" =>
        /\ read[i] <= pausedAt[i] + 1
        /\ stage[i] = "reading" => read[i] = pausedAt[i]

IInv ==
    /\ Typed /\ Waiting(ui, stage) /\ Unanswered
    /\ TableIsExact /\ StoppedFails /\ PausedReads

-----------------------------------------------------------------------------
\* What a served queue may do to the stages.
Served(st, st2) ==
    /\ st2 \in [Transfer -> Stage]
    /\ \A j \in Transfer : \/ st2[j] = st[j]
                           \/ st[j] = "queued" /\ st2[j] \in {"skipped", "asking", "called"}

LEMMA FirstServedInRange ==
    ASSUME NEW u \in UI
    PROVE  FirstServed(u) \in 1..(Len(u.queue) + 1)
<1> DEFINE S == {k \in DOMAIN u.queue : ~ (u.choice = "skip" /\ u.queue[k] \in Conflicting)}
<1>1. u.queue \in Seq(Uploads) /\ Len(u.queue) \in Nat /\ DOMAIN u.queue = 1..Len(u.queue)
  BY DEF UI
<1>2. CASE S = {}
  BY <1>1, <1>2 DEF FirstServed
<1>3. CASE S # {}
  <2>1. S \in SUBSET Nat BY <1>1
  <2>2. Min(S) \in S BY <1>3, <2>1, MinIsMember
  <2> QED BY <1>1, <1>3, <2>2 DEF FirstServed
<1> QED BY <1>2, <1>3

LEMMA CheckBatchKeeps ==
    ASSUME NEW u \in UI
    PROVE  /\ CheckBatch(u) \in UI
           /\ CheckBatch(u).queue = u.queue /\ CheckBatch(u).dialog = u.dialog
BY DEF CheckBatch, UI

LEMMA BeginKeeps ==
    ASSUME NEW u \in UI
    PROVE  Begin(u) \in UI /\ Begin(u).queue = u.queue /\ Begin(u).dialog = u.dialog
<1>1. u.active + 1 \in Int BY DEF UI
<1> DEFINE n == u.active + 1
<1> HIDE DEF n
<1>2. [u EXCEPT !.active = n] \in UI
  BY <1>1 DEF UI, n
<1> QED BY <1>2 DEF UI, Begin, n

\* Serving the queue keeps it in order and starts only what was queued.
LEMMA ServeNext ==
    ASSUME world \in Worlds, NEW u \in UI, NEW st \in [Transfer -> Stage],
           Waiting(u, st), ProcessNext(u, st)
    PROVE  ui' \in UI /\ Waiting(ui', stage') /\ Served(st, stage')
<1>1. CASE u.active >= MaxConcurrency
  <2>1. ui' = CheckBatch(u) /\ stage' = st
    BY <1>1 DEF ProcessNext
  <2> QED BY <2>1, CheckBatchKeeps DEF Waiting, Served
<1>2. CASE ~ (u.active >= MaxConcurrency)
  <2> DEFINE k == FirstServed(u)
             i == u.queue[k]
             q == SubSeq(u.queue, k + 1, Len(u.queue))
             rest == [u EXCEPT !.queue = q]
             st1 == [j \in Transfer |-> IF \E n \in 1..(k - 1) : u.queue[n] = j
                                        THEN "skipped" ELSE st[j]]
  <2>0. \/ /\ k > Len(u.queue)
           /\ ui' = CheckBatch([u EXCEPT !.queue = <<>>])
           /\ stage' = st1
        \/ /\ k <= Len(u.queue)
           /\ ui' = [rest EXCEPT !.dialog = i, !.asked = @ \cup {i}]
           /\ stage' = [st1 EXCEPT ![i] = "asking"]
        \/ /\ k <= Len(u.queue)
           /\ ui' = [rest EXCEPT !.active = @ + 1]
           /\ stage' = [st1 EXCEPT ![i] = "called"]
    BY <1>2 DEF ProcessNext, ProcessNextAtOnce, Begin
  <2>1. /\ u.queue \in Seq(Uploads) /\ Len(u.queue) \in Nat
        /\ k \in 1..(Len(u.queue) + 1)
    BY FirstServedInRange DEF UI
  <2> HIDE DEF k
  <2>2. \A n \in 1..Len(u.queue) : u.queue[n] \in Uploads /\ st[u.queue[n]] = "queued"
    BY <2>1 DEF Waiting
  <2>3. st1 \in [Transfer -> Stage] /\ Served(st, st1)
    BY <2>1, <2>2 DEF Served, Stage
  <2>4. u.dialog # None => st1[u.dialog] = "asking"
    BY <2>1, <2>2 DEF Waiting, UI, Transfer
  <2>5. CASE k > Len(u.queue)
    <3>0. <<>> \in Seq(Uploads) OBVIOUS
    <3>1. [u EXCEPT !.queue = <<>>] \in UI BY <3>0 DEF UI
    <3>2. ui' = CheckBatch([u EXCEPT !.queue = <<>>]) /\ stage' = st1
      BY <2>0, <2>1, <2>5
    <3>3. ui' \in UI /\ ui'.queue = <<>> /\ ui'.dialog = u.dialog
      BY <3>1, <3>2, CheckBatchKeeps DEF UI
    <3>4. Waiting(ui', stage')
      BY <2>4, <3>2, <3>3 DEF Waiting
    <3> QED BY <2>3, <3>2, <3>3, <3>4
  <2>6. CASE k <= Len(u.queue)
    <3>1. i \in Uploads /\ st[i] = "queued" /\ i \in Transfer
      BY <2>1, <2>2, <2>6 DEF Transfer
    <3>2. /\ q \in Seq(Uploads) /\ Len(q) = Len(u.queue) - k
          /\ \A n \in 1..Len(q) : q[n] = u.queue[n + k]
      BY <2>1, <2>6
    <3>3. \A n \in 1..Len(q) : st1[q[n]] = "queued" /\ q[n] # i
      <4> SUFFICES ASSUME NEW n \in 1..Len(q) PROVE st1[q[n]] = "queued" /\ q[n] # i
        OBVIOUS
      <4>1. q[n] = u.queue[n + k] /\ n + k \in 1..Len(u.queue)
        BY <2>1, <2>6, <3>2
      <4>2. q[n] # i
        <5>1. k \in 1..Len(u.queue) /\ n + k # k
          BY <2>1, <2>6
        <5> QED BY <4>1, <5>1 DEF Waiting
      <4>3. ~ \E l \in 1..(k - 1) : u.queue[l] = q[n]
        BY <2>1, <2>6, <3>2, <4>1 DEF Waiting
      <4>4. q[n] \in Transfer /\ st[q[n]] = "queued"
        BY <2>2, <4>1 DEF Transfer
      <4> QED BY <4>2, <4>3, <4>4
    <3>4. \A n, l \in 1..Len(q) : q[n] = q[l] => n = l
      BY <2>1, <2>6, <3>2 DEF Waiting
    <3>5. u.dialog # None => u.dialog # i
      BY <3>1 DEF Waiting
    <3>6. rest \in UI BY <3>2 DEF UI
    <3> HIDE DEF q, st1
    <3>7. CASE /\ ui' = [rest EXCEPT !.dialog = i, !.asked = @ \cup {i}]
               /\ stage' = [st1 EXCEPT ![i] = "asking"]
      <4>1. ui' \in UI /\ ui'.queue = q /\ ui'.dialog = i
        BY <3>1, <3>6, <3>7 DEF UI
      <4>2. Waiting(ui', stage')
        BY <2>3, <3>1, <3>2, <3>3, <3>4, <3>7, <4>1 DEF Waiting, Transfer
      <4>3. Served(st, stage')
        BY <2>3, <3>1, <3>7 DEF Served, Stage
      <4> QED BY <4>1, <4>2, <4>3
    <3>8. CASE /\ ui' = [rest EXCEPT !.active = @ + 1]
               /\ stage' = [st1 EXCEPT ![i] = "called"]
      <4>1. ui' \in UI /\ ui'.queue = q /\ ui'.dialog = u.dialog
        <5>1. rest.queue = q /\ rest.dialog = u.dialog BY DEF UI
        <5> QED BY <3>6, <3>8, <5>1, BeginKeeps DEF Begin
      <4>2. Waiting(ui', stage')
        BY <2>3, <2>4, <3>1, <3>2, <3>3, <3>4, <3>5, <3>8, <4>1 DEF Waiting, Transfer, UI
      <4>3. Served(st, stage')
        BY <2>3, <3>1, <3>8 DEF Served, Stage
      <4> QED BY <4>1, <4>2, <4>3
    <3> QED BY <2>0, <2>1, <2>6, <3>7, <3>8
  <2> QED BY <2>1, <2>5, <2>6
<1> QED BY <1>1, <1>2

-----------------------------------------------------------------------------
\* A step of a transfer that is neither queued nor asked about does not
\* disturb the queue.
LEMMA WaitingKept ==
    ASSUME NEW u \in UI, NEW st \in [Transfer -> Stage], NEW i \in Transfer, NEW s,
           Waiting(u, st), st[i] \notin {"queued", "asking"}
    PROVE  Waiting(u, [st EXCEPT ![i] = s])
<1>1. u.queue \in Seq(Uploads) /\ u.dialog \in Uploads \cup {None}
  BY DEF UI
<1>2. \A k \in 1..Len(u.queue) : u.queue[k] \in Transfer /\ u.queue[k] # i
  BY <1>1 DEF Waiting, Transfer
<1>3. u.dialog # None => u.dialog \in Transfer /\ u.dialog # i
  BY <1>1 DEF Waiting, Transfer
<1> QED BY <1>2, <1>3 DEF Waiting

\* The steps of the interface: what was not begun is queued, skipped, asked
\* about or begun; what is back is refreshed if it succeeded, or done.
LEMMA InterfaceKeeps ==
    ASSUME IInv, UNCHANGED <<control, read, wire, result>>,
           ui' \in UI, Waiting(ui', stage'), stage' \in [Transfer -> Stage],
           \A j \in Transfer :
              \/ stage'[j] = stage[j]
              \/ /\ stage[j] \in {"new", "queued", "asking"}
                 /\ stage'[j] \in {"queued", "skipped", "asking", "called"}
              \/ stage[j] = "returned" /\ result[j] = "ok" /\ stage'[j] = "refreshing"
              \/ stage[j] \in {"returned", "refreshing"} /\ stage'[j] = "done"
    PROVE  IInv'
<1> USE DEF control, wire
<1>1. Typed' BY DEF IInv, Typed
<1>2. Unanswered'
  BY DEF IInv, Typed, Unanswered, Ended
<1>3. TableIsExact'
  BY DEF IInv, Typed, TableIsExact, Registered
<1>4. StoppedFails'
  BY DEF IInv, Typed, StoppedFails, GateAhead, At, Ended, Size
<1>5. PausedReads'
  BY DEF IInv, Typed, PausedReads
<1> QED BY <1>1, <1>2, <1>3, <1>4, <1>5 DEF IInv

LEMMA DownloadKeeps ==
    ASSUME IInv, NEW i \in Transfer, Download(i)
    PROVE  IInv'
<1> USE DEF Download, Leave, Go, At, control, wire
<1>1. Typed'
  BY DEF IInv, Typed, Stage
<1>2. Waiting(ui, stage)'
  BY WaitingKept DEF IInv, Typed
<1>3. Unanswered'
  BY DEF IInv, Typed, Unanswered, Ended
<1>4. TableIsExact'
  BY DEF IInv, Typed, TableIsExact, Registered
<1>5. StoppedFails'
  BY DEF IInv, Typed, TableIsExact, Unanswered, StoppedFails, GateAhead, Ended, Registered, Size
<1>6. PausedReads'
  BY DEF IInv, Typed, PausedReads
<1> QED BY <1>1, <1>2, <1>3, <1>4, <1>5, <1>6 DEF IInv

LEMMA RegisterKeeps ==
    ASSUME IInv, NEW i \in Transfer, Register(i)
    PROVE  IInv'
<1> USE DEF Register, Leave, Go, At, control, wire
<1>1. Typed'
  BY DEF IInv, Typed, Stage
<1>2. Waiting(ui, stage)'
  BY WaitingKept DEF IInv, Typed
<1>3. Unanswered'
  BY DEF IInv, Typed, Unanswered, Ended
<1>4. TableIsExact'
  BY DEF IInv, Typed, TableIsExact, Registered
<1>5. StoppedFails'
  BY DEF IInv, Typed, TableIsExact, Unanswered, StoppedFails, GateAhead, Ended, Registered, Size
<1>6. PausedReads'
  BY DEF IInv, Typed, PausedReads
<1> QED BY <1>1, <1>2, <1>3, <1>4, <1>5, <1>6 DEF IInv

LEMMA OpenKeeps ==
    ASSUME IInv, NEW i \in Transfer, Open(i)
    PROVE  IInv'
<1> USE DEF Open, Leave, Go, At, control, wire
<1>1. Typed'
  BY DEF IInv, Typed, Stage
<1>2. Waiting(ui, stage)'
  <2>1. PICK s \in {"leaving", "gate", "permit"} : stage' = [stage EXCEPT ![i] = s]
    OBVIOUS
  <2> QED BY <2>1, WaitingKept DEF IInv, Typed
<1>3. Unanswered'
  BY DEF IInv, Typed, Unanswered, Ended
<1>4. TableIsExact'
  BY DEF IInv, Typed, TableIsExact, Registered
<1>5. StoppedFails'
  BY TransferAssumption DEF IInv, Typed, TableIsExact, Unanswered, StoppedFails, GateAhead, Ended, Registered, Size
<1>6. PausedReads'
  BY DEF IInv, Typed, PausedReads
<1> QED BY <1>1, <1>2, <1>3, <1>4, <1>5, <1>6 DEF IInv

LEMMA GateKeeps ==
    ASSUME IInv, NEW i \in Transfer, Gate(i)
    PROVE  IInv'
<1> USE DEF Gate, Leave, Go, At, control, wire
<1>1. Typed'
  BY DEF IInv, Typed, Stage
<1>2. Waiting(ui, stage)'
  <2>1. PICK s \in {"leaving", "reading", "permit"} : stage' = [stage EXCEPT ![i] = s]
    OBVIOUS
  <2> QED BY <2>1, WaitingKept DEF IInv, Typed
<1>3. Unanswered'
  BY DEF IInv, Typed, Unanswered, Ended
<1>4. TableIsExact'
  BY DEF IInv, Typed, TableIsExact, Registered
<1>5. StoppedFails'
  BY DEF IInv, Typed, TableIsExact, Unanswered, StoppedFails, GateAhead, Ended, Registered, Size
<1>6. PausedReads'
  BY DEF IInv, Typed, PausedReads
<1> QED BY <1>1, <1>2, <1>3, <1>4, <1>5, <1>6 DEF IInv

LEMMA ReadKeeps ==
    ASSUME IInv, NEW i \in Transfer, Read(i)
    PROVE  IInv'
<1> USE DEF Read, Leave, Go, At, control, wire
<1>1. Typed'
  BY DEF IInv, Typed, Stage
<1>2. Waiting(ui, stage)'
  <2>1. PICK s \in {"leaving", "gate", "permit"} : stage' = [stage EXCEPT ![i] = s]
    OBVIOUS
  <2> QED BY <2>1, WaitingKept DEF IInv, Typed
<1>3. Unanswered'
  BY DEF IInv, Typed, Unanswered, Ended
<1>4. TableIsExact'
  BY DEF IInv, Typed, TableIsExact, Registered
<1>5. StoppedFails'
  BY DEF IInv, Typed, TableIsExact, Unanswered, StoppedFails, GateAhead, Ended, Registered, Size
<1>6. PausedReads'
  BY DEF IInv, Typed, PausedReads
<1> QED BY <1>1, <1>2, <1>3, <1>4, <1>5, <1>6 DEF IInv

LEMMA TakePermitKeeps ==
    ASSUME IInv, NEW i \in Transfer, TakePermit(i)
    PROVE  IInv'
<1> USE DEF TakePermit, Leave, Go, At, control, wire
<1>1. Typed'
  BY DEF IInv, Typed, Stage
<1>2. Waiting(ui, stage)'
  BY WaitingKept DEF IInv, Typed
<1>3. Unanswered'
  BY DEF IInv, Typed, Unanswered, Ended
<1>4. TableIsExact'
  BY DEF IInv, Typed, TableIsExact, Registered
<1>5. StoppedFails'
  BY DEF IInv, Typed, TableIsExact, Unanswered, StoppedFails, GateAhead, Ended, Registered, Size
<1>6. PausedReads'
  BY DEF IInv, Typed, PausedReads
<1> QED BY <1>1, <1>2, <1>3, <1>4, <1>5, <1>6 DEF IInv

LEMMA MoveKeeps ==
    ASSUME IInv, NEW i \in Transfer, Move(i)
    PROVE  IInv'
<1> USE DEF Move, Leave, Go, At, control, wire
<1>1. Typed'
  BY DEF IInv, Typed, Stage
<1>2. Waiting(ui, stage)'
  <2>1. PICK s \in {"leaving", "sending"} : stage' = [stage EXCEPT ![i] = s]
    OBVIOUS
  <2> QED BY <2>1, WaitingKept DEF IInv, Typed
<1>3. Unanswered'
  BY DEF IInv, Typed, Unanswered, Ended
<1>4. TableIsExact'
  BY DEF IInv, Typed, TableIsExact, Registered
<1>5. StoppedFails'
  BY DEF IInv, Typed, TableIsExact, Unanswered, StoppedFails, GateAhead, Ended, Registered, Size
<1>6. PausedReads'
  BY DEF IInv, Typed, PausedReads
<1> QED BY <1>1, <1>2, <1>3, <1>4, <1>5, <1>6 DEF IInv

LEMMA SendKeeps ==
    ASSUME IInv, NEW i \in Transfer, Send(i)
    PROVE  IInv'
<1> USE DEF Send, Leave, Go, At, control, wire
<1>1. Typed'
  BY DEF IInv, Typed, Stage
<1>2. Waiting(ui, stage)'
  <2>1. PICK s \in {"leaving", "waiting"} : stage' = [stage EXCEPT ![i] = s]
    OBVIOUS
  <2> QED BY <2>1, WaitingKept DEF IInv, Typed
<1>3. Unanswered'
  BY DEF IInv, Typed, Unanswered, Ended
<1>4. TableIsExact'
  BY DEF IInv, Typed, TableIsExact, Registered
<1>5. StoppedFails'
  BY DEF IInv, Typed, TableIsExact, Unanswered, StoppedFails, GateAhead, Ended, Registered, Size
<1>6. PausedReads'
  BY DEF IInv, Typed, PausedReads
<1> QED BY <1>1, <1>2, <1>3, <1>4, <1>5, <1>6 DEF IInv

LEMMA WaitKeeps ==
    ASSUME IInv, NEW i \in Transfer, Wait(i)
    PROVE  IInv'
<1> USE DEF Wait, Leave, Go, At, control, wire
<1>1. Typed'
  BY DEF IInv, Typed, Stage
<1>2. Waiting(ui, stage)'
  BY WaitingKept DEF IInv, Typed
<1>3. Unanswered'
  BY DEF IInv, Typed, Unanswered, Ended
<1>4. TableIsExact'
  BY DEF IInv, Typed, TableIsExact, Registered
<1>5. StoppedFails'
  BY DEF IInv, Typed, TableIsExact, Unanswered, StoppedFails, GateAhead, Ended, Registered, Size
<1>6. PausedReads'
  BY DEF IInv, Typed, PausedReads
<1> QED BY <1>1, <1>2, <1>3, <1>4, <1>5, <1>6 DEF IInv

LEMMA UnregisterKeeps ==
    ASSUME IInv, NEW i \in Transfer, Unregister(i)
    PROVE  IInv'
<1> USE DEF Unregister, Leave, Go, At, control, wire
<1>1. Typed'
  BY DEF IInv, Typed, Stage
<1>2. Waiting(ui, stage)'
  BY WaitingKept DEF IInv, Typed
<1>3. Unanswered'
  BY DEF IInv, Typed, Unanswered, Ended
<1>4. TableIsExact'
  BY DEF IInv, Typed, TableIsExact, Registered
<1>5. StoppedFails'
  BY DEF IInv, Typed, TableIsExact, Unanswered, StoppedFails, GateAhead, Ended, Registered, Size
<1>6. PausedReads'
  BY DEF IInv, Typed, PausedReads
<1> QED BY <1>1, <1>2, <1>3, <1>4, <1>5, <1>6 DEF IInv

LEMMA CancelKeeps ==
    ASSUME IInv, NEW i \in Transfer, Cancel(i)
    PROVE  IInv'
<1> USE DEF Cancel, Leave, Go, At, control, wire
<1>1. Typed'
  BY DEF IInv, Typed, Stage
<1>2. Waiting(ui, stage)'
  BY WaitingKept DEF IInv, Typed
<1>3. Unanswered'
  BY DEF IInv, Typed, Unanswered, Ended
<1>4. TableIsExact'
  BY DEF IInv, Typed, TableIsExact, Registered
<1>5. StoppedFails'
  BY DEF IInv, Typed, TableIsExact, Unanswered, StoppedFails, GateAhead, Ended, Registered, Size
<1>6. PausedReads'
  BY DEF IInv, Typed, PausedReads
<1> QED BY <1>1, <1>2, <1>3, <1>4, <1>5, <1>6 DEF IInv

LEMMA PauseKeeps ==
    ASSUME IInv, NEW i \in Transfer, Pause(i)
    PROVE  IInv'
<1> USE DEF Pause, Leave, Go, At, control, wire
<1>1. Typed'
  BY DEF IInv, Typed, Stage
<1>2. Waiting(ui, stage)'
  BY WaitingKept DEF IInv, Typed
<1>3. Unanswered'
  BY DEF IInv, Typed, Unanswered, Ended
<1>4. TableIsExact'
  BY DEF IInv, Typed, TableIsExact, Registered
<1>5. StoppedFails'
  BY DEF IInv, Typed, TableIsExact, Unanswered, StoppedFails, GateAhead, Ended, Registered, Size
<1>6. PausedReads'
  BY DEF IInv, Typed, PausedReads
<1> QED BY <1>1, <1>2, <1>3, <1>4, <1>5, <1>6 DEF IInv

LEMMA ResumeKeeps ==
    ASSUME IInv, NEW i \in Transfer, Resume(i)
    PROVE  IInv'
<1> USE DEF Resume, Leave, Go, At, control, wire
<1>1. Typed'
  BY DEF IInv, Typed, Stage
<1>2. Waiting(ui, stage)'
  BY WaitingKept DEF IInv, Typed
<1>3. Unanswered'
  BY DEF IInv, Typed, Unanswered, Ended
<1>4. TableIsExact'
  BY DEF IInv, Typed, TableIsExact, Registered
<1>5. StoppedFails'
  BY DEF IInv, Typed, TableIsExact, Unanswered, StoppedFails, GateAhead, Ended, Registered, Size
<1>6. PausedReads'
  BY DEF IInv, Typed, PausedReads
<1> QED BY <1>1, <1>2, <1>3, <1>4, <1>5, <1>6 DEF IInv

\* One gesture drops different files.
LEMMA GestureIsQueue ==
    ASSUME NEW s \in Gestures
    PROVE  /\ s \in Seq(Uploads)
           /\ \A k, l \in 1..Len(s) : s[k] = s[l] => k = l
<1>1. CASE \E a \in Uploads : s = <<a>>
  BY <1>1
<1>2. CASE s \in Uploads \X Uploads /\ s[1] # s[2]
  <2>1. PICK a, b \in Uploads : s = <<a, b>>
    BY <1>2
  <2> QED BY <1>2, <2>1
<1> QED BY <1>1, <1>2 DEF Gestures

\* Whoever is dropped waits in the queue, behind those that did.
LEMMA DropWaits ==
    ASSUME IInv, NEW s \in Gestures, \A k \in DOMAIN s : At(s[k], "new")
    PROVE  LET u == [ui EXCEPT !.queue = @ \o s]
               st == [j \in Transfer |-> IF \E k \in DOMAIN s : s[k] = j
                                         THEN "queued" ELSE stage[j]]
           IN  /\ \A k \in 1..Len(s) : s[k] \in Transfer /\ stage[s[k]] = "new"
               /\ s \in Seq(Uploads) /\ u \in UI /\ st \in [Transfer -> Stage]
               /\ Waiting(u, st)
<1> DEFINE q == ui.queue
           u == [ui EXCEPT !.queue = @ \o s]
           st == [j \in Transfer |-> IF \E k \in DOMAIN s : s[k] = j
                                     THEN "queued" ELSE stage[j]]
<1>2. /\ s \in Seq(Uploads) /\ \A k, l \in 1..Len(s) : s[k] = s[l] => k = l
      /\ q \in Seq(Uploads) /\ ui.dialog \in Uploads \cup {None}
  BY GestureIsQueue DEF IInv, Typed, UI
<1>3. \A k \in 1..Len(s) : s[k] \in Transfer /\ stage[s[k]] = "new"
  BY <1>2 DEF At, Transfer
<1>4. \A k \in 1..Len(q) : q[k] \in Transfer /\ stage[q[k]] = "queued"
  BY <1>2 DEF IInv, Waiting, Transfer
<1>5. q \o s \in Seq(Uploads) BY <1>2
<1>6. u \in UI /\ u.queue = q \o s /\ u.dialog = ui.dialog
  BY <1>5 DEF IInv, Typed, UI
<1>7. st \in [Transfer -> Stage]
  BY DEF IInv, Typed, Stage
<1>8. /\ \A k \in 1..Len(s) : st[s[k]] = "queued"
      /\ \A j \in Transfer : stage[j] # "new" => st[j] = stage[j]
  BY <1>2, <1>3
<1> HIDE DEF u, st
<1>9. Waiting(u, st)
  <2>1. \A k \in 1..Len(q) : st[q[k]] = "queued"
    BY <1>4, <1>8
  <2>2. \A k \in 1..Len(q) : \A l \in 1..Len(s) : q[k] # s[l]
    BY <1>3, <1>4
  <2>3. \A k, l \in 1..Len(q) : q[k] = q[l] => k = l
    BY DEF IInv, Waiting
  <2>4. u.dialog # None => st[u.dialog] = "asking"
    BY <1>2, <1>6, <1>8 DEF IInv, Waiting, Transfer
  <2>5. \A k \in 1..Len(s) : st[s[k]] = "queued"
    BY <1>8
  <2> DEFINE qs == q \o s
  <2>0. u.queue = qs
    BY <1>6
  <2>6. /\ Len(qs) = Len(q) + Len(s) /\ Len(q) \in Nat /\ Len(s) \in Nat
        /\ \A k \in 1..Len(q) : qs[k] = q[k]
        /\ \A k \in 1..Len(qs) : k > Len(q) =>
               qs[k] = s[k - Len(q)] /\ k - Len(q) \in 1..Len(s)
    BY <1>2
  <2> HIDE DEF q, qs
  <2>7. \A k \in 1..Len(qs) : st[qs[k]] = "queued"
    <3> SUFFICES ASSUME NEW k \in 1..Len(qs)
                 PROVE  st[qs[k]] = "queued"
      OBVIOUS
    <3>1. CASE k <= Len(q)
      BY <2>6, <2>1, <3>1
    <3>2. CASE k > Len(q)
      <4>1. qs[k] = s[k - Len(q)] /\ k - Len(q) \in 1..Len(s)
        BY <2>6, <3>2
      <4> QED BY <2>5, <4>1
    <3> QED BY <2>6, <3>1, <3>2
  <2>8. \A k, l \in 1..Len(qs) : qs[k] = qs[l] => k = l
    <3> SUFFICES ASSUME NEW k \in 1..Len(qs), NEW l \in 1..Len(qs), qs[k] = qs[l]
                 PROVE  k = l
      OBVIOUS
    <3>1. CASE k <= Len(q) /\ l <= Len(q)
      BY <2>6, <2>3, <3>1
    <3>2. CASE k > Len(q) /\ l > Len(q)
      <4>1. /\ k - Len(q) \in 1..Len(s) /\ l - Len(q) \in 1..Len(s)
            /\ s[k - Len(q)] = s[l - Len(q)]
        BY <2>6, <3>2
      <4>2. k - Len(q) = l - Len(q)
        BY <1>2, <4>1
      <4> QED BY <2>6, <4>2
    <3>3. CASE k <= Len(q) /\ l > Len(q)
      <4>1. qs[l] = s[l - Len(q)] /\ l - Len(q) \in 1..Len(s) /\ qs[k] = q[k] /\ k \in 1..Len(q)
        BY <2>6, <3>3
      <4> QED BY <2>2, <4>1
    <3>4. CASE k > Len(q) /\ l <= Len(q)
      <4>1. qs[k] = s[k - Len(q)] /\ k - Len(q) \in 1..Len(s) /\ qs[l] = q[l] /\ l \in 1..Len(q)
        BY <2>6, <3>4
      <4> QED BY <2>2, <4>1
    <3> QED BY <2>6, <3>1, <3>2, <3>3, <3>4
  <2> QED BY <2>0, <2>4, <2>7, <2>8 DEF Waiting
<1> QED BY <1>2, <1>3, <1>6, <1>7, <1>9 DEF u, st

LEMMA DropKeeps ==
    ASSUME IInv, Drop
    PROVE  IInv'
<1>1. PICK s \in Gestures :
        /\ \A k \in DOMAIN s : At(s[k], "new")
        /\ ProcessNext([ui EXCEPT !.queue = @ \o s],
                       [j \in Transfer |-> IF \E k \in DOMAIN s : s[k] = j
                                           THEN "queued" ELSE stage[j]])
        /\ UNCHANGED <<control, read, wire, result>>
  BY DEF Drop
<1> DEFINE u == [ui EXCEPT !.queue = @ \o s]
           st == [j \in Transfer |-> IF \E k \in DOMAIN s : s[k] = j
                                     THEN "queued" ELSE stage[j]]
<1>2. /\ \A k \in 1..Len(s) : s[k] \in Transfer /\ stage[s[k]] = "new"
      /\ s \in Seq(Uploads) /\ u \in UI /\ st \in [Transfer -> Stage] /\ Waiting(u, st)
  BY <1>1, DropWaits
<1>9. ui' \in UI /\ Waiting(ui', stage') /\ Served(st, stage')
  BY <1>1, <1>2, ServeNext DEF IInv, Typed
<1>10. \A j \in Transfer :
         \/ stage'[j] = stage[j]
         \/ stage[j] \in {"new", "queued"} /\ stage'[j] \in {"queued", "skipped", "asking", "called"}
  BY <1>2, <1>9 DEF Served
<1> QED BY <1>1, <1>9, <1>10, InterfaceKeeps DEF Served

LEMMA AnswerWaits ==
    ASSUME IInv, NEW u \in UI, u.queue = ui.queue, u.dialog = None, NEW i, i = ui.dialog,
           i # None, NEW s \in {"skipped", "called"}
    PROVE  /\ [stage EXCEPT ![i] = s] \in [Transfer -> Stage]
           /\ Waiting(u, [stage EXCEPT ![i] = s])
<1>1. i \in Transfer /\ stage[i] = "asking"
  BY DEF IInv, Typed, Waiting, UI, Transfer
<1>2. \A k \in 1..Len(ui.queue) : ui.queue[k] # i
  BY <1>1 DEF IInv, Waiting
<1>3. \A k \in 1..Len(ui.queue) : ui.queue[k] \in Transfer
  BY DEF IInv, Typed, UI, Transfer
<1> QED BY <1>1, <1>2, <1>3 DEF IInv, Typed, Waiting, Stage

LEMMA AnswerKeeps ==
    ASSUME IInv, Answer
    PROVE  IInv'
<1>1. PICK a \in {"upload", "skip"}, c \in {"upload", "skip", None} :
        \/ ProcessNext([ui EXCEPT !.dialog = None, !.choice = c],
                       [stage EXCEPT ![ui.dialog] = "skipped"])
        \/ /\ ui' = Begin([ui EXCEPT !.dialog = None, !.choice = c])
           /\ stage' = [stage EXCEPT ![ui.dialog] = "called"]
  BY DEF Answer, Go
<1> DEFINE u == [ui EXCEPT !.dialog = None, !.choice = c]
           i == ui.dialog
<1>2. UNCHANGED <<control, read, wire, result>> /\ i # None
  BY DEF Answer
<1>3. i \in Transfer /\ stage[i] = "asking"
  BY <1>2 DEF IInv, Typed, Waiting, UI, Transfer
<1>4. u \in UI /\ u.queue = ui.queue /\ u.dialog = None
  BY DEF IInv, Typed, UI
<1>5. ASSUME NEW s \in {"skipped", "called"}
      PROVE  /\ [stage EXCEPT ![i] = s] \in [Transfer -> Stage]
             /\ Waiting(u, [stage EXCEPT ![i] = s])
  BY <1>2, <1>4, AnswerWaits
<1>6. CASE ProcessNext(u, [stage EXCEPT ![i] = "skipped"])
  <2>1. /\ ui' \in UI /\ Waiting(ui', stage')
        /\ Served([stage EXCEPT ![i] = "skipped"], stage')
    BY <1>4, <1>5, <1>6, ServeNext DEF IInv, Typed
  <2>2. \A j \in Transfer :
           \/ stage'[j] = stage[j]
           \/ stage[j] \in {"queued", "asking"} /\ stage'[j] \in {"skipped", "asking", "called"}
    BY <1>3, <2>1 DEF Served, IInv, Typed
  <2> QED BY <1>2, <2>1, <2>2, InterfaceKeeps DEF Served
<1>7. CASE ui' = Begin(u) /\ stage' = [stage EXCEPT ![i] = "called"]
  <2>0. stage' \in [Transfer -> Stage] /\ Waiting(u, stage')
    BY <1>5, <1>7
  <2> HIDE DEF u
  <2>1. ui' \in UI /\ Waiting(ui', stage') /\ stage' \in [Transfer -> Stage]
    BY <1>4, <1>7, <2>0, BeginKeeps DEF Waiting
  <2>2. \A j \in Transfer :
           \/ stage'[j] = stage[j]
           \/ stage[j] = "asking" /\ stage'[j] = "called"
    BY <1>3, <1>7 DEF IInv, Typed
  <2> QED BY <1>2, <2>1, <2>2, InterfaceKeeps
<1> QED BY <1>1, <1>6, <1>7

LEMMA SuccessKeeps ==
    ASSUME IInv, NEW i \in Transfer, Success(i)
    PROVE  IInv'
<1>1. ui' \in UI /\ ui'.queue = ui.queue /\ ui'.dialog = ui.dialog
  BY DEF Success, IInv, Typed, UI
<1>2. stage' = [stage EXCEPT ![i] = "refreshing"] /\ stage' \in [Transfer -> Stage]
  BY DEF Success, Go, IInv, Typed, Stage
<1>3. stage[i] = "returned" /\ result[i] = "ok" /\ UNCHANGED <<control, read, wire, result>>
  BY DEF Success, At
<1>4. Waiting(ui, stage')
  BY <1>2, <1>3, WaitingKept DEF IInv, Typed
<1>5. Waiting(ui', stage')
  BY <1>1, <1>4 DEF Waiting
<1>6. \A j \in Transfer : \/ stage'[j] = stage[j]
                          \/ /\ stage[j] = "returned" /\ result[j] = "ok"
                             /\ stage'[j] = "refreshing"
  BY <1>2, <1>3 DEF IInv, Typed
<1> QED BY <1>1, <1>2, <1>3, <1>5, <1>6, InterfaceKeeps

LEMMA CloseWaits ==
    ASSUME IInv, NEW i \in Transfer, stage[i] \in {"returned", "refreshing"}
    PROVE  LET u == CheckBatch([ui EXCEPT !.active = @ - 1])
               st == [stage EXCEPT ![i] = "done"]
           IN  u \in UI /\ st \in [Transfer -> Stage] /\ Waiting(u, st)
<1> DEFINE v == [ui EXCEPT !.active = @ - 1]
           u == CheckBatch(v)
           st == [stage EXCEPT ![i] = "done"]
<1>2. v \in UI /\ v.queue = ui.queue /\ v.dialog = ui.dialog
  <2>1. ui.active - 1 \in Int BY DEF IInv, Typed, UI
  <2> DEFINE n == ui.active - 1
  <2> HIDE DEF n
  <2>2. [ui EXCEPT !.active = n] \in UI BY <2>1 DEF IInv, Typed, UI, n
  <2> QED BY <2>2 DEF IInv, Typed, UI, n
<1>3. u \in UI /\ u.queue = ui.queue /\ u.dialog = ui.dialog
  BY <1>2, CheckBatchKeeps
<1>4. st \in [Transfer -> Stage] BY DEF IInv, Typed, Stage
<1>5. Waiting(ui, st)
  BY WaitingKept DEF IInv, Typed
<1> HIDE DEF u, v
<1>6. Waiting(u, st) BY <1>3, <1>5 DEF Waiting
<1> QED BY <1>3, <1>4, <1>6 DEF u, v

LEMMA CloseKeeps ==
    ASSUME IInv, NEW i \in Transfer, Close(i)
    PROVE  IInv'
<1> DEFINE v == [ui EXCEPT !.active = @ - 1]
           u == CheckBatch(v)
           st == [stage EXCEPT ![i] = "done"]
<1>1. /\ stage[i] \in {"returned", "refreshing"}
      /\ ProcessNext(u, st) /\ UNCHANGED <<control, read, wire, result>>
  BY DEF Close, Failed, At
<1>3. u \in UI /\ st \in [Transfer -> Stage] /\ Waiting(u, st)
  BY <1>1, CloseWaits
<1> HIDE DEF u, v
<1>7. ui' \in UI /\ Waiting(ui', stage') /\ Served(st, stage')
  BY <1>1, <1>3, ServeNext DEF IInv, Typed
<1>8. \A j \in Transfer :
         \/ stage'[j] = stage[j]
         \/ stage[j] = "queued" /\ stage'[j] \in {"skipped", "asking", "called"}
         \/ stage[j] \in {"returned", "refreshing"} /\ stage'[j] = "done"
  BY <1>1, <1>7 DEF Served, IInv, Typed
<1> QED BY <1>1, <1>7, <1>8, InterfaceKeeps DEF Served

-----------------------------------------------------------------------------
LEMMA InitHolds == Init => IInv
<1> SUFFICES ASSUME Init PROVE IInv
  OBVIOUS
<1>1. <<>> \in Seq(Uploads) OBVIOUS
<1>2. Typed BY <1>1 DEF Init, Typed, UI, Stage
<1>3. Waiting(ui, stage) BY DEF Init, Waiting
<1>4. Unanswered BY DEF Init, Unanswered
<1>5. TableIsExact BY DEF Init, TableIsExact, Registered
<1>6. StoppedFails BY DEF Init, StoppedFails
<1>7. PausedReads BY DEF Init, PausedReads
<1> QED BY <1>2, <1>3, <1>4, <1>5, <1>6, <1>7 DEF IInv

LEMMA NextKeeps == IInv /\ [Next]_vars => IInv'
<1> SUFFICES ASSUME IInv, [Next]_vars PROVE IInv'
  OBVIOUS
<1>1. CASE Drop BY <1>1, DropKeeps
<1>2. CASE Answer BY <1>2, AnswerKeeps
<1>3. ASSUME NEW i \in Transfer, Step(i) PROVE IInv'
  BY <1>3, RegisterKeeps, OpenKeeps, GateKeeps, ReadKeeps, TakePermitKeeps, MoveKeeps,
     SendKeeps, WaitKeeps, UnregisterKeeps, SuccessKeeps, CloseKeeps DEF Step
<1>4. ASSUME NEW i \in Transfer, User(i) PROVE IInv'
  BY <1>4, DownloadKeeps, CancelKeeps, PauseKeeps, ResumeKeeps DEF User
<1>5. CASE UNCHANGED vars
  BY <1>5 DEF vars, control, wire, IInv, Typed, Waiting, Unanswered, TableIsExact,
              StoppedFails, PausedReads, GateAhead, At, Size
<1> QED BY <1>1, <1>2, <1>3, <1>4, <1>5 DEF Next

LEMMA IInvAlways == Spec => []IInv
BY InitHolds, NextKeeps, PTL DEF Spec

\* Every return of the two commands unregisters the transfer, whatever failed,
\* and until then it can be paused and cancelled, for any number of transfers.
THEOREM TableExact == Spec => []TableIsExact
<1>1. IInv => TableIsExact BY DEF IInv
<1> QED BY <1>1, IInvAlways, PTL

\* A cancel that check_transfer_gate is still to see is final: no later pause
\* or resume revives the transfer, and it leaves no document.
THEOREM CancelIsFinal == Spec => []CancelTakesEffect
<1>1. IInv => CancelTakesEffect
  BY DEF IInv, Typed, Unanswered, StoppedFails, CancelTakesEffect, GateAhead, At, Ended
<1> QED BY <1>1, IInvAlways, PTL

\* However often a transfer is paused and resumed, at most the part whose
\* reading had begun is read before it is resumed.
THEOREM PauseIsHeld == Spec => []PauseHolds
<1>1. IInv => PauseHolds
  BY DEF IInv, PausedReads, PauseHolds, Transfer
<1> QED BY <1>1, IInvAlways, PTL
-----------------------------------------------------------------------------
\* The counters.  activeCountRef counts the uploads in progress, the semaphore
\* the transfers of bytes; an upload the dialog let pass is in asked.
InProgress(st) == {i \in Uploads : st[i] \in Working}
Moving == {i \in Transfer : stage[i] = "moving"}

Counted(u, st) ==
    /\ IsFiniteSet(InProgress(st)) /\ u.active = Cardinality(InProgress(st))
    /\ Cardinality(InProgress(st) \ u.asked) <= MaxConcurrency
    /\ u.dialog # None => u.dialog \in u.asked
    /\ u.asked \subseteq Conflicting

Permitted == IsFiniteSet(Moving) /\ permits = Permits - Cardinality(Moving) /\ permits \in Nat

\* What the requests of an upload are made for, and what they leave.
Documented ==
    \A i \in Uploads :
        /\ stage[i] \in {"permit", "moving", "sending", "waiting"} => Sends(i)
        /\ docs[i] <= 1
        /\ result[i] = "ok" => docs[i] = (IF Sends(i) THEN 1 ELSE 0)

Bounded ==
    /\ \A i \in Uploads : read[i] <= Size[i]
    /\ retries \in [Transfer -> 0..Retries] /\ pauses \in 0..MaxPauses

BInv == Counted(ui, stage) /\ Permitted /\ Documented /\ Bounded /\ BatchIsPublished

\* To serve the queue leaves the counters alone, opens the dialog for one more
\* file, or begins one more upload within the limit.
LEMMA ServeEffect ==
    ASSUME world \in Worlds, NEW u \in UI, NEW st \in [Transfer -> Stage],
           Waiting(u, st), ProcessNext(u, st)
    PROVE  \/ /\ ui'.active = u.active /\ ui'.asked = u.asked /\ ui'.dialog = u.dialog
              /\ InProgress(stage') = InProgress(st)
              /\ ui'.active = 0 /\ ui'.queue = <<>> => ~ ui'.uploaded
           \/ \E i \in Conflicting :
              /\ ui'.active = u.active /\ ui'.asked = u.asked \cup {i} /\ ui'.dialog = i
              /\ InProgress(stage') = InProgress(st) /\ i # None
           \/ \E i \in Uploads \ InProgress(st) :
              /\ u.active < MaxConcurrency
              /\ ui'.active = u.active + 1 /\ ui'.asked = u.asked /\ ui'.dialog = u.dialog
              /\ InProgress(stage') = InProgress(st) \cup {i}
<1>0. MaxConcurrency \in Nat \ {0} /\ u.active \in Int
  BY TransferAssumption DEF UI
<1>1. CASE u.active >= MaxConcurrency
  <2>1. ui' = CheckBatch(u) /\ stage' = st
    BY <1>1 DEF ProcessNext
  <2> QED BY <1>0, <1>1, <2>1 DEF CheckBatch, UI
<1>2. CASE ~ (u.active >= MaxConcurrency)
  <2> DEFINE k == FirstServed(u)
             i == u.queue[k]
             q == SubSeq(u.queue, k + 1, Len(u.queue))
             rest == [u EXCEPT !.queue = q]
             st1 == [j \in Transfer |-> IF \E n \in 1..(k - 1) : u.queue[n] = j
                                        THEN "skipped" ELSE st[j]]
  <2>0. \/ /\ k > Len(u.queue)
           /\ ui' = CheckBatch([u EXCEPT !.queue = <<>>])
           /\ stage' = st1
        \/ /\ k <= Len(u.queue) /\ i \in Conflicting
           /\ ui' = [rest EXCEPT !.dialog = i, !.asked = @ \cup {i}]
           /\ stage' = [st1 EXCEPT ![i] = "asking"]
        \/ /\ k <= Len(u.queue)
           /\ ui' = [rest EXCEPT !.active = @ + 1]
           /\ stage' = [st1 EXCEPT ![i] = "called"]
    BY <1>2 DEF ProcessNext, ProcessNextAtOnce, Begin
  <2>1. /\ u.queue \in Seq(Uploads) /\ Len(u.queue) \in Nat
        /\ k \in 1..(Len(u.queue) + 1)
    BY FirstServedInRange DEF UI
  <2> HIDE DEF k
  <2>2. \A n \in 1..Len(u.queue) : u.queue[n] \in Uploads /\ st[u.queue[n]] = "queued"
    BY <2>1 DEF Waiting
  <2>3. \A j \in Uploads : st1[j] = st[j] \/ (st[j] = "queued" /\ st1[j] = "skipped")
    <3> SUFFICES ASSUME NEW j \in Uploads
                 PROVE  st1[j] = st[j] \/ (st[j] = "queued" /\ st1[j] = "skipped")
      OBVIOUS
    <3>1. j \in Transfer BY DEF Transfer
    <3>2. CASE \E n \in 1..(k - 1) : u.queue[n] = j
      BY <2>1, <2>2, <3>1, <3>2
    <3>3. CASE ~ \E n \in 1..(k - 1) : u.queue[n] = j
      BY <3>1, <3>3
    <3> QED BY <3>2, <3>3
  <2>4. InProgress(st1) = InProgress(st) /\ DOMAIN st1 = Transfer
    BY <2>3 DEF InProgress, Working, Registered
  <2>5. k <= Len(u.queue) => i \in Uploads /\ st1[i] \in {"queued", "skipped"} /\ i \in Transfer
    BY <2>1, <2>2, <2>3 DEF Transfer
  <2> HIDE DEF st1, i
  <2>6. CASE ui' = CheckBatch([u EXCEPT !.queue = <<>>]) /\ stage' = st1
    BY <2>4, <2>6 DEF CheckBatch, UI
  <2>7. CASE /\ k <= Len(u.queue) /\ i \in Conflicting
             /\ ui' = [rest EXCEPT !.dialog = i, !.asked = @ \cup {i}]
             /\ stage' = [st1 EXCEPT ![i] = "asking"]
    <3>1. ui'.active = u.active /\ ui'.asked = u.asked \cup {i} /\ ui'.dialog = i
      BY <2>7 DEF UI
    <3>2. InProgress(stage') = InProgress(st1)
      BY <2>4, <2>5, <2>7 DEF InProgress, Working, Registered
    <3>3. i \in Conflicting /\ i # None
      BY <2>5, <2>7, TransferAssumption DEF Transfer
    <3> QED BY <2>4, <3>1, <3>2, <3>3
  <2>8. CASE /\ k <= Len(u.queue)
             /\ ui' = [rest EXCEPT !.active = @ + 1]
             /\ stage' = [st1 EXCEPT ![i] = "called"]
    <3>1. ui'.active = u.active + 1 /\ ui'.asked = u.asked /\ ui'.dialog = u.dialog
      BY <2>8 DEF UI
    <3>2. InProgress(stage') = InProgress(st1) \cup {i} /\ i \notin InProgress(st1)
      BY <2>4, <2>5, <2>8 DEF InProgress, Working, Registered
    <3>3. i \in Uploads
      BY <2>5, <2>8
    <3> QED BY <1>0, <1>2, <2>4, <3>1, <3>2, <3>3
  <2> QED BY <2>0, <2>6, <2>7, <2>8
<1> QED BY <1>1, <1>2

\* So the counters stay right.
LEMMA ServeCounts ==
    ASSUME world \in Worlds, NEW u \in UI, NEW st \in [Transfer -> Stage],
           Waiting(u, st), Counted(u, st), ProcessNext(u, st)
    PROVE  Counted(ui', stage') /\ BatchIsPublished'
<1> DEFINE P == InProgress(st)
<1>0. /\ IsFiniteSet(P) /\ Cardinality(P) \in Nat /\ u.active = Cardinality(P)
      /\ u.asked \subseteq Conflicting /\ MaxConcurrency \in Nat \ {0}
  BY FS_CardinalityType, TransferAssumption DEF Counted
<1>1. ASSUME NEW X PROVE /\ IsFiniteSet(P \ X) /\ Cardinality(P \ X) \in Nat
                         /\ Cardinality(P \ X) <= Cardinality(P)
  BY <1>0, FS_Subset, FS_CardinalityType
<1>2. CASE /\ ui'.active = u.active /\ ui'.asked = u.asked /\ ui'.dialog = u.dialog
           /\ InProgress(stage') = P
           /\ ui'.active = 0 /\ ui'.queue = <<>> => ~ ui'.uploaded
  BY <1>0, <1>2 DEF Counted, BatchIsPublished, InProgress
<1>3. CASE \E i \in Conflicting :
              /\ ui'.active = u.active /\ ui'.asked = u.asked \cup {i} /\ ui'.dialog = i
              /\ InProgress(stage') = P /\ i # None
  <2>1. PICK i \in Conflicting :
              /\ ui'.active = u.active /\ ui'.asked = u.asked \cup {i} /\ ui'.dialog = i
              /\ InProgress(stage') = P /\ i # None
    BY <1>3
  <2>2. Cardinality(P \ ui'.asked) <= Cardinality(P \ u.asked)
    BY <1>1, <2>1, FS_Subset, P \ ui'.asked \in SUBSET (P \ u.asked)
  <2>3. Cardinality(P \ ui'.asked) <= MaxConcurrency
    BY <1>0, <1>1, <2>2 DEF Counted
  <2> QED BY <1>0, <2>1, <2>3 DEF Counted, BatchIsPublished, InProgress
<1>4. CASE \E i \in Uploads \ P :
              /\ u.active < MaxConcurrency
              /\ ui'.active = u.active + 1 /\ ui'.asked = u.asked /\ ui'.dialog = u.dialog
              /\ InProgress(stage') = P \cup {i}
  <2>1. PICK i \in Uploads \ P :
              /\ u.active < MaxConcurrency
              /\ ui'.active = u.active + 1 /\ ui'.asked = u.asked /\ ui'.dialog = u.dialog
              /\ InProgress(stage') = P \cup {i}
    BY <1>4
  <2>2. IsFiniteSet(P \cup {i}) /\ Cardinality(P \cup {i}) = Cardinality(P) + 1
    BY <1>0, <2>1, FS_AddElement
  <2>3. /\ IsFiniteSet((P \cup {i}) \ u.asked) /\ Cardinality((P \cup {i}) \ u.asked) \in Nat
        /\ Cardinality((P \cup {i}) \ u.asked) <= Cardinality(P) + 1
    BY <2>2, FS_Subset, FS_CardinalityType
  <2>4. Cardinality((P \cup {i}) \ u.asked) <= MaxConcurrency
    BY <1>0, <2>1, <2>3
  <2>5. ui'.active # 0
    BY <1>0, <2>1
  <2> QED BY <1>0, <2>1, <2>2, <2>4, <2>5 DEF Counted, BatchIsPublished, InProgress
<1> QED BY <1>2, <1>3, <1>4, ServeEffect

-----------------------------------------------------------------------------
\* A step of a transfer that was begun, and is not over with it, leaves the
\* number of uploads in progress alone.
LEMMA CountedKept ==
    ASSUME IInv, Counted(ui, stage), UNCHANGED <<ui, world>>, NEW i \in Transfer, NEW s,
           stage' = [stage EXCEPT ![i] = s],
           i \in Uploads => stage[i] \in Working /\ s \in Working
    PROVE  Counted(ui, stage)'
<1>1. InProgress(stage') = InProgress(stage)
  BY DEF InProgress, IInv, Typed, Transfer
<1> QED BY <1>1 DEF Counted, Conflicting, InProgress

LEMMA PermittedKept ==
    ASSUME IInv, Permitted, permits' = permits, NEW i \in Transfer, NEW s,
           stage' = [stage EXCEPT ![i] = s], stage[i] # "moving", s # "moving"
    PROVE  Permitted'
<1>1. Moving' = Moving
  BY DEF Moving, IInv, Typed
<1> QED BY <1>1 DEF Permitted

LEMMA SizesAreNumbers ==
    ASSUME IInv, NEW i \in Uploads
    PROVE  Size[i] \in Nat
BY TransferAssumption DEF IInv, Typed, Size

LEMMA DownloadCounts ==
    ASSUME IInv, BInv, NEW i \in Transfer, Download(i)
    PROVE  BInv'
<1> USE DEF Download, Leave, Go, At, control, wire
<1>1. UNCHANGED <<ui, world>> /\ BatchIsPublished'
  BY DEF BInv, BatchIsPublished
<1>2. PICK s \in {"called"} : stage' = [stage EXCEPT ![i] = s]
  OBVIOUS
<1>3. i \in Uploads => stage[i] \in Working /\ s \in Working
  BY TransferAssumption DEF Working, Registered
<1>4. Counted(ui, stage)'
  BY <1>1, <1>2, <1>3, CountedKept DEF BInv
<1>5. Permitted'
  BY <1>2, PermittedKept DEF BInv
<1>6. Documented'
  BY SizesAreNumbers, TransferAssumption
     DEF BInv, IInv, Typed, Documented, Unanswered, Ended, Size, Sends, Transfer
<1>7. Bounded'
  BY SizesAreNumbers, TransferAssumption DEF BInv, IInv, Typed, Bounded, Size
<1> QED BY <1>1, <1>4, <1>5, <1>6, <1>7 DEF BInv

LEMMA RegisterCounts ==
    ASSUME IInv, BInv, NEW i \in Transfer, Register(i)
    PROVE  BInv'
<1> USE DEF Register, Leave, Go, At, control, wire
<1>1. UNCHANGED <<ui, world>> /\ BatchIsPublished'
  BY DEF BInv, BatchIsPublished
<1>2. PICK s \in {"opening"} : stage' = [stage EXCEPT ![i] = s]
  OBVIOUS
<1>3. i \in Uploads => stage[i] \in Working /\ s \in Working
  BY TransferAssumption DEF Working, Registered
<1>4. Counted(ui, stage)'
  BY <1>1, <1>2, <1>3, CountedKept DEF BInv
<1>5. Permitted'
  BY <1>2, PermittedKept DEF BInv
<1>6. Documented'
  BY SizesAreNumbers, TransferAssumption
     DEF BInv, IInv, Typed, Documented, Unanswered, Ended, Size, Sends, Transfer
<1>7. Bounded'
  BY SizesAreNumbers, TransferAssumption DEF BInv, IInv, Typed, Bounded, Size
<1> QED BY <1>1, <1>4, <1>5, <1>6, <1>7 DEF BInv

LEMMA OpenCounts ==
    ASSUME IInv, BInv, NEW i \in Transfer, Open(i)
    PROVE  BInv'
<1> USE DEF Open, Leave, Go, At, control, wire
<1>1. UNCHANGED <<ui, world>> /\ BatchIsPublished'
  BY DEF BInv, BatchIsPublished
<1>2. PICK s \in {"leaving", "gate", "permit"} : stage' = [stage EXCEPT ![i] = s]
  OBVIOUS
<1>3. i \in Uploads => stage[i] \in Working /\ s \in Working
  BY TransferAssumption DEF Working, Registered
<1>4. Counted(ui, stage)'
  BY <1>1, <1>2, <1>3, CountedKept DEF BInv
<1>5. Permitted'
  BY <1>2, PermittedKept DEF BInv
<1>6. Documented'
  BY SizesAreNumbers, TransferAssumption
     DEF BInv, IInv, Typed, Documented, Unanswered, Ended, Size, Sends, Transfer
<1>7. Bounded'
  BY SizesAreNumbers, TransferAssumption DEF BInv, IInv, Typed, Bounded, Size
<1> QED BY <1>1, <1>4, <1>5, <1>6, <1>7 DEF BInv

LEMMA GateCounts ==
    ASSUME IInv, BInv, NEW i \in Transfer, Gate(i)
    PROVE  BInv'
<1> USE DEF Gate, Leave, Go, At, control, wire
<1>1. UNCHANGED <<ui, world>> /\ BatchIsPublished'
  BY DEF BInv, BatchIsPublished
<1>2. PICK s \in {"leaving", "reading", "permit"} : stage' = [stage EXCEPT ![i] = s]
  OBVIOUS
<1>3. i \in Uploads => stage[i] \in Working /\ s \in Working
  BY TransferAssumption DEF Working, Registered
<1>4. Counted(ui, stage)'
  BY <1>1, <1>2, <1>3, CountedKept DEF BInv
<1>5. Permitted'
  BY <1>2, PermittedKept DEF BInv
<1>6. Documented'
  BY SizesAreNumbers, TransferAssumption
     DEF BInv, IInv, Typed, Documented, Unanswered, Ended, Size, Sends, Transfer
<1>7. Bounded'
  BY SizesAreNumbers, TransferAssumption DEF BInv, IInv, Typed, Bounded, Size
<1> QED BY <1>1, <1>4, <1>5, <1>6, <1>7 DEF BInv

LEMMA ReadCounts ==
    ASSUME IInv, BInv, NEW i \in Transfer, Read(i)
    PROVE  BInv'
<1> USE DEF Read, Leave, Go, At, control, wire
<1>1. UNCHANGED <<ui, world>> /\ BatchIsPublished'
  BY DEF BInv, BatchIsPublished
<1>2. PICK s \in {"leaving", "gate", "permit"} : stage' = [stage EXCEPT ![i] = s]
  OBVIOUS
<1>3. i \in Uploads => stage[i] \in Working /\ s \in Working
  BY TransferAssumption DEF Working, Registered
<1>4. Counted(ui, stage)'
  BY <1>1, <1>2, <1>3, CountedKept DEF BInv
<1>5. Permitted'
  BY <1>2, PermittedKept DEF BInv
<1>6. Documented'
  BY SizesAreNumbers, TransferAssumption
     DEF BInv, IInv, Typed, Documented, Unanswered, Ended, Size, Sends, Transfer
<1>7. Bounded'
  <2>1. retries' = retries /\ pauses' = pauses
    OBVIOUS
  <2>2. \/ read' = read
        \/ read[i] < Size[i] /\ read' = [read EXCEPT ![i] = @ + 1]
    OBVIOUS
  <2>3. \A j \in Uploads : /\ Size[j] \in Nat /\ read[j] <= Size[j]
                            /\ read[j] \in Nat /\ j \in DOMAIN read
    BY SizesAreNumbers DEF BInv, Bounded, IInv, Typed, Transfer
  <2> HIDE DEF Read
  <2>4. \A j \in Uploads : read'[j] <= Size[j]
    BY <2>2, <2>3
  <2> QED BY <1>1, <2>1, <2>4 DEF BInv, Bounded, Size
<1> QED BY <1>1, <1>4, <1>5, <1>6, <1>7 DEF BInv

LEMMA TakePermitCounts ==
    ASSUME IInv, BInv, NEW i \in Transfer, TakePermit(i)
    PROVE  BInv'
<1> USE DEF TakePermit, Leave, Go, At, control, wire
<1>1. UNCHANGED <<ui, world>> /\ BatchIsPublished'
  BY DEF BInv, BatchIsPublished
<1>2. PICK s \in {"moving"} : stage' = [stage EXCEPT ![i] = s]
  OBVIOUS
<1>3. i \in Uploads => stage[i] \in Working /\ s \in Working
  BY TransferAssumption DEF Working, Registered
<1>4. Counted(ui, stage)'
  BY <1>1, <1>2, <1>3, CountedKept DEF BInv
<1>5. Permitted'
  <2>1. Moving' = Moving \cup {i} /\ i \notin Moving
    BY DEF Moving, IInv, Typed
  <2>2. /\ IsFiniteSet(Moving') /\ Cardinality(Moving') = Cardinality(Moving) + 1
        /\ Cardinality(Moving) \in Nat
    BY <2>1, FS_AddElement, FS_CardinalityType DEF BInv, Permitted
  <2> QED BY <2>2, TransferAssumption DEF BInv, Permitted
<1>6. Documented'
  BY SizesAreNumbers, TransferAssumption
     DEF BInv, IInv, Typed, Documented, Unanswered, Ended, Size, Sends, Transfer
<1>7. Bounded'
  BY SizesAreNumbers, TransferAssumption DEF BInv, IInv, Typed, Bounded, Size
<1> QED BY <1>1, <1>4, <1>5, <1>6, <1>7 DEF BInv

LEMMA MoveCounts ==
    ASSUME IInv, BInv, NEW i \in Transfer, Move(i)
    PROVE  BInv'
<1> USE DEF Move, Leave, Go, At, control, wire
<1>1. UNCHANGED <<ui, world>> /\ BatchIsPublished'
  BY DEF BInv, BatchIsPublished
<1>2. PICK s \in {"leaving", "sending"} : stage' = [stage EXCEPT ![i] = s]
  OBVIOUS
<1>3. i \in Uploads => stage[i] \in Working /\ s \in Working
  BY TransferAssumption DEF Working, Registered
<1>4. Counted(ui, stage)'
  BY <1>1, <1>2, <1>3, CountedKept DEF BInv
<1>5. Permitted'
  <2>1. Moving' = Moving \ {i} /\ i \in Moving
    BY DEF Moving, IInv, Typed
  <2>2. /\ IsFiniteSet(Moving') /\ Cardinality(Moving') = Cardinality(Moving) - 1
        /\ Cardinality(Moving) \in Nat
    BY <2>1, FS_RemoveElement, FS_CardinalityType DEF BInv, Permitted
  <2> QED BY <2>2, TransferAssumption DEF BInv, Permitted
<1>6. Documented'
  BY SizesAreNumbers, TransferAssumption
     DEF BInv, IInv, Typed, Documented, Unanswered, Ended, Size, Sends, Transfer
<1>7. Bounded'
  BY SizesAreNumbers, TransferAssumption DEF BInv, IInv, Typed, Bounded, Size
<1> QED BY <1>1, <1>4, <1>5, <1>6, <1>7 DEF BInv

LEMMA SendCounts ==
    ASSUME IInv, BInv, NEW i \in Transfer, Send(i)
    PROVE  BInv'
<1> USE DEF Send, Leave, Go, At, control, wire
<1>1. UNCHANGED <<ui, world>> /\ BatchIsPublished'
  BY DEF BInv, BatchIsPublished
<1>2. PICK s \in {"leaving", "waiting"} : stage' = [stage EXCEPT ![i] = s]
  OBVIOUS
<1>3. i \in Uploads => stage[i] \in Working /\ s \in Working
  BY TransferAssumption DEF Working, Registered
<1>4. Counted(ui, stage)'
  BY <1>1, <1>2, <1>3, CountedKept DEF BInv
<1>5. Permitted'
  BY <1>2, PermittedKept DEF BInv
<1>6. Documented'
  BY SizesAreNumbers, TransferAssumption
     DEF BInv, IInv, Typed, Documented, Unanswered, Ended, Size, Sends, Transfer
<1>7. Bounded'
  BY SizesAreNumbers, TransferAssumption DEF BInv, IInv, Typed, Bounded, Size
<1> QED BY <1>1, <1>4, <1>5, <1>6, <1>7 DEF BInv

LEMMA WaitCounts ==
    ASSUME IInv, BInv, NEW i \in Transfer, Wait(i)
    PROVE  BInv'
<1> USE DEF Wait, Leave, Go, At, control, wire
<1>1. UNCHANGED <<ui, world>> /\ BatchIsPublished'
  BY DEF BInv, BatchIsPublished
<1>2. PICK s \in {"permit"} : stage' = [stage EXCEPT ![i] = s]
  OBVIOUS
<1>3. i \in Uploads => stage[i] \in Working /\ s \in Working
  BY TransferAssumption DEF Working, Registered
<1>4. Counted(ui, stage)'
  BY <1>1, <1>2, <1>3, CountedKept DEF BInv
<1>5. Permitted'
  BY <1>2, PermittedKept DEF BInv
<1>6. Documented'
  BY SizesAreNumbers, TransferAssumption
     DEF BInv, IInv, Typed, Documented, Unanswered, Ended, Size, Sends, Transfer
<1>7. Bounded'
  BY SizesAreNumbers, TransferAssumption DEF BInv, IInv, Typed, Bounded, Size
<1> QED BY <1>1, <1>4, <1>5, <1>6, <1>7 DEF BInv

LEMMA UnregisterCounts ==
    ASSUME IInv, BInv, NEW i \in Transfer, Unregister(i)
    PROVE  BInv'
<1> USE DEF Unregister, Leave, Go, At, control, wire
<1>1. UNCHANGED <<ui, world>> /\ BatchIsPublished'
  BY DEF BInv, BatchIsPublished
<1>2. PICK s \in {"returned", "done"} : stage' = [stage EXCEPT ![i] = s]
                               /\ (i \in Uploads => s = "returned")
  OBVIOUS
<1>3. i \in Uploads => stage[i] \in Working /\ s \in Working
  BY <1>2 DEF Working, Registered
<1>4. Counted(ui, stage)'
  BY <1>1, <1>2, <1>3, CountedKept DEF BInv
<1>5. Permitted'
  BY <1>2, PermittedKept DEF BInv
<1>6. Documented'
  BY SizesAreNumbers, TransferAssumption
     DEF BInv, IInv, Typed, Documented, Unanswered, Ended, Size, Sends, Transfer
<1>7. Bounded'
  <2>1. \A j \in Uploads : 0 <= Size[j]
    BY SizesAreNumbers
  <2>2. 0 \in 0..Retries
    BY TransferAssumption
  <2>3. /\ \A j \in Uploads : read'[j] = read[j] \/ read'[j] = 0
        /\ retries' = [retries EXCEPT ![i] = 0] /\ UNCHANGED <<world, pauses>>
    BY DEF IInv, Typed, Transfer
  <2> HIDE DEF Unregister
  <2> QED BY <2>1, <2>2, <2>3 DEF BInv, Bounded, Size
<1> QED BY <1>1, <1>4, <1>5, <1>6, <1>7 DEF BInv

\* The commands of the user move no transfer from one await to the next.
LEMMA ControlCounts ==
    ASSUME IInv, BInv, NEW i \in Transfer, Cancel(i) \/ Pause(i) \/ Resume(i)
    PROVE  BInv'
<1>1. UNCHANGED <<ui, world, stage, read, permits, retries, docs, result>>
  BY DEF Cancel, Pause, Resume, wire
<1>2. pauses' \in 0..MaxPauses
  BY TransferAssumption DEF Cancel, Pause, Resume, BInv, Bounded
<1>3. Moving' = Moving /\ InProgress(stage)' = InProgress(stage)
  BY <1>1 DEF Moving, InProgress
<1>4. Counted(ui, stage)' /\ Permitted'
  BY <1>1, <1>3 DEF BInv, Counted, Permitted, Conflicting
<1>5. Documented' /\ Bounded' /\ BatchIsPublished'
  BY <1>1, <1>2 DEF BInv, Documented, Bounded, BatchIsPublished, Size, Sends
<1> QED BY <1>4, <1>5 DEF BInv

\* The steps of the interface leave the requests alone.
LEMMA InterfaceCounts ==
    ASSUME IInv, BInv, UNCHANGED <<control, read, wire, result>>,
           Counted(ui', stage'), BatchIsPublished',
           \A j \in Transfer : \/ stage'[j] = stage[j]
                              \/ /\ stage[j] # "moving"
                                 /\ stage'[j] \notin {"permit", "moving", "sending", "waiting"}
    PROVE  BInv'
<1>1. UNCHANGED <<world, read, permits, retries, docs, result, pauses>>
  BY DEF control, wire
<1>2. Moving' = Moving
  BY DEF Moving
<1>3. Counted(ui, stage)'
  BY <1>1 DEF Counted, Conflicting, InProgress
<1>4. Permitted' /\ Bounded'
  BY <1>1, <1>2 DEF BInv, Permitted, Bounded, Size
<1>5. Documented'
  BY <1>1 DEF BInv, Documented, Size, Sends, Transfer
<1> QED BY <1>3, <1>4, <1>5 DEF BInv

LEMMA DropCounts ==
    ASSUME IInv, BInv, Drop
    PROVE  BInv'
<1>1. PICK s \in Gestures :
        /\ \A k \in DOMAIN s : At(s[k], "new")
        /\ ProcessNext([ui EXCEPT !.queue = @ \o s],
                       [j \in Transfer |-> IF \E k \in DOMAIN s : s[k] = j
                                           THEN "queued" ELSE stage[j]])
        /\ UNCHANGED <<control, read, wire, result>>
  BY DEF Drop
<1> DEFINE u == [ui EXCEPT !.queue = @ \o s]
           st == [j \in Transfer |-> IF \E k \in DOMAIN s : s[k] = j
                                     THEN "queued" ELSE stage[j]]
<1>2. /\ \A k \in 1..Len(s) : s[k] \in Transfer /\ stage[s[k]] = "new"
      /\ s \in Seq(Uploads) /\ u \in UI /\ st \in [Transfer -> Stage] /\ Waiting(u, st)
  BY <1>1, DropWaits
<1>3. InProgress(st) = InProgress(stage)
  <2>1. \A j \in Uploads : \/ st[j] = stage[j]
                           \/ st[j] = "queued" /\ stage[j] = "new"
    BY <1>2 DEF Transfer
  <2> QED BY <2>1 DEF InProgress, Working, Registered
<1>4. u.active = ui.active /\ u.asked = ui.asked /\ u.dialog = ui.dialog
  BY DEF IInv, Typed, UI
<1>5. Counted(u, st)
  BY <1>3, <1>4 DEF BInv, Counted
<1>6. Counted(ui', stage') /\ BatchIsPublished'
  BY <1>1, <1>2, <1>5, ServeCounts DEF IInv, Typed
<1>7. Served(st, stage')
  BY <1>1, <1>2, ServeNext DEF IInv, Typed
<1>8. \A j \in Transfer : \/ stage'[j] = stage[j]
                          \/ /\ stage[j] # "moving"
                             /\ stage'[j] \in {"queued", "skipped", "asking", "called"}
  BY <1>2, <1>7 DEF Served
<1> QED BY <1>1, <1>6, <1>8, InterfaceCounts

LEMMA AnswerCounts ==
    ASSUME IInv, BInv, Answer
    PROVE  BInv'
<1>1. PICK a \in {"upload", "skip"}, c \in {"upload", "skip", None} :
        \/ ProcessNext([ui EXCEPT !.dialog = None, !.choice = c],
                       [stage EXCEPT ![ui.dialog] = "skipped"])
        \/ /\ ui' = Begin([ui EXCEPT !.dialog = None, !.choice = c])
           /\ stage' = [stage EXCEPT ![ui.dialog] = "called"]
  BY DEF Answer, Go
<1> DEFINE u == [ui EXCEPT !.dialog = None, !.choice = c]
           i == ui.dialog
<1>2. UNCHANGED <<control, read, wire, result>> /\ i # None
  BY DEF Answer
<1>3. i \in Uploads /\ i \in Transfer /\ stage[i] = "asking" /\ i \in ui.asked
  BY <1>2 DEF IInv, Typed, Waiting, UI, Transfer, BInv, Counted
<1>4. /\ u \in UI /\ u.queue = ui.queue /\ u.dialog = None
      /\ u.active = ui.active /\ u.asked = ui.asked
  BY DEF IInv, Typed, UI
<1> HIDE DEF u, i
<1>5. CASE ProcessNext(u, [stage EXCEPT ![i] = "skipped"])
  <2> DEFINE st == [stage EXCEPT ![i] = "skipped"]
  <2>1. st \in [Transfer -> Stage] /\ Waiting(u, st)
    BY <1>2, <1>3, <1>4, AnswerWaits DEF i
  <2>2. InProgress(st) = InProgress(stage)
    BY <1>3 DEF InProgress, Working, Registered, IInv, Typed
  <2>3. Counted(u, st)
    BY <1>4, <2>2 DEF BInv, Counted
  <2>4. Counted(ui', stage') /\ BatchIsPublished' /\ Served(st, stage')
    BY <1>4, <1>5, <2>1, <2>3, ServeCounts, ServeNext DEF IInv, Typed
  <2>5. \A j \in Transfer : \/ stage'[j] = stage[j]
                            \/ /\ stage[j] # "moving"
                               /\ stage'[j] \in {"skipped", "asking", "called"}
    BY <1>3, <2>4 DEF Served, IInv, Typed
  <2> QED BY <1>2, <2>4, <2>5, InterfaceCounts
<1>6. CASE ui' = Begin(u) /\ stage' = [stage EXCEPT ![i] = "called"]
  <2> DEFINE P == InProgress(stage)
  <2>1. InProgress(stage') = P \cup {i} /\ i \notin P
    BY <1>3, <1>6 DEF InProgress, Working, Registered, IInv, Typed
  <2>2. ui'.active = ui.active + 1 /\ ui'.asked = ui.asked /\ ui'.dialog = None
    BY <1>4, <1>6 DEF Begin, UI
  <2>3. /\ IsFiniteSet(P \cup {i}) /\ Cardinality(P \cup {i}) = Cardinality(P) + 1
        /\ Cardinality(P) \in Nat
    BY <2>1, FS_AddElement, FS_CardinalityType DEF BInv, Counted
  <2>4. (P \cup {i}) \ ui.asked = P \ ui.asked
    BY <1>3
  <2>5. ui.active = Cardinality(P) /\ Cardinality(P \ ui.asked) <= MaxConcurrency
    BY DEF BInv, Counted
  <2>6. ui'.active = Cardinality(P \cup {i}) /\ ui'.active # 0
    BY <2>2, <2>3, <2>5
  <2>7. Cardinality((P \cup {i}) \ ui.asked) <= MaxConcurrency
    BY <2>4, <2>5
  <2>8. Counted(ui', stage') /\ BatchIsPublished'
    BY <2>1, <2>2, <2>3, <2>6, <2>7 DEF BInv, Counted, BatchIsPublished
  <2>9. \A j \in Transfer : \/ stage'[j] = stage[j]
                            \/ stage[j] # "moving" /\ stage'[j] = "called"
    BY <1>3, <1>6 DEF IInv, Typed
  <2> QED BY <1>2, <2>8, <2>9, InterfaceCounts
<1> QED BY <1>1, <1>5, <1>6 DEF u, i

LEMMA SuccessCounts ==
    ASSUME IInv, BInv, NEW i \in Transfer, Success(i)
    PROVE  BInv'
<1>1. /\ i \in Uploads /\ stage[i] = "returned" /\ stage' = [stage EXCEPT ![i] = "refreshing"]
      /\ UNCHANGED <<control, read, wire, result>>
  BY DEF Success, At, Go
<1>2. ui'.active = ui.active /\ ui'.asked = ui.asked /\ ui'.dialog = ui.dialog
  BY DEF Success, IInv, Typed, UI
<1>3. InProgress(stage') = InProgress(stage) /\ i \in InProgress(stage)
  BY <1>1 DEF InProgress, Working, IInv, Typed, Transfer
<1>4. ui.active # 0
  BY <1>3, FS_EmptySet DEF BInv, Counted
<1>5. Counted(ui', stage') /\ BatchIsPublished'
  BY <1>2, <1>3, <1>4 DEF BInv, Counted, BatchIsPublished
<1>6. \A j \in Transfer : \/ stage'[j] = stage[j]
                          \/ stage[j] # "moving" /\ stage'[j] = "refreshing"
  BY <1>1 DEF IInv, Typed
<1> QED BY <1>1, <1>5, <1>6, InterfaceCounts

LEMMA CloseCounts ==
    ASSUME IInv, BInv, NEW i \in Transfer, Close(i)
    PROVE  BInv'
<1> DEFINE v == [ui EXCEPT !.active = @ - 1]
           u == CheckBatch(v)
           st == [stage EXCEPT ![i] = "done"]
           P == InProgress(stage)
<1>1. /\ i \in Uploads /\ stage[i] \in {"returned", "refreshing"}
      /\ ProcessNext(u, st) /\ UNCHANGED <<control, read, wire, result>>
  BY DEF Close, Failed, At
<1>2. u \in UI /\ st \in [Transfer -> Stage] /\ Waiting(u, st)
  BY <1>1, CloseWaits
<1>3. u.active = ui.active - 1 /\ u.asked = ui.asked /\ u.dialog = ui.dialog
  BY DEF IInv, Typed, UI, CheckBatch
<1>4. InProgress(st) = P \ {i} /\ i \in P
  BY <1>1 DEF InProgress, Working, Registered, IInv, Typed, Transfer
<1>5. /\ IsFiniteSet(P \ {i}) /\ Cardinality(P \ {i}) = Cardinality(P) - 1
  BY <1>4, FS_RemoveElement DEF BInv, Counted
<1>6. Cardinality((P \ {i}) \ ui.asked) <= MaxConcurrency
  <2>1. IsFiniteSet(P \ ui.asked) /\ Cardinality(P \ ui.asked) \in Nat
    BY FS_Subset, FS_CardinalityType DEF BInv, Counted
  <2>2. /\ Cardinality((P \ {i}) \ ui.asked) <= Cardinality(P \ ui.asked)
        /\ Cardinality((P \ {i}) \ ui.asked) \in Nat
    BY <2>1, FS_Subset, FS_CardinalityType, (P \ {i}) \ ui.asked \in SUBSET (P \ ui.asked)
  <2> QED BY <2>1, <2>2, TransferAssumption DEF BInv, Counted
<1> HIDE DEF u, v
<1>7. Counted(u, st)
  BY <1>3, <1>4, <1>5, <1>6 DEF BInv, Counted
<1>8. Counted(ui', stage') /\ BatchIsPublished' /\ Served(st, stage')
  BY <1>1, <1>2, <1>7, ServeCounts, ServeNext DEF IInv, Typed
<1>9. \A j \in Transfer : \/ stage'[j] = stage[j]
                          \/ /\ stage[j] # "moving"
                             /\ stage'[j] \in {"skipped", "asking", "called", "done"}
  BY <1>1, <1>8 DEF Served, IInv, Typed
<1> QED BY <1>1, <1>8, <1>9, InterfaceCounts

LEMMA InitCounts == Init => BInv
<1> SUFFICES ASSUME Init PROVE BInv
  OBVIOUS
<1>1. InProgress(stage) = {} /\ Moving = {} /\ {} \ ui.asked = {}
  BY DEF Init, InProgress, Moving, Working, Registered, Transfer
<1>2. Counted(ui, stage)
  <2>1. ui.active = 0 /\ ui.dialog = None /\ ui.asked = {}
    BY DEF Init
  <2>2. IsFiniteSet({}) /\ Cardinality({}) = 0 /\ 0 <= MaxConcurrency
    BY FS_EmptySet, TransferAssumption
  <2> QED BY <1>1, <2>1, <2>2 DEF Counted
<1>6. Permitted
  BY <1>1, FS_EmptySet, TransferAssumption DEF Init, Permitted
<1>3. Documented
  BY DEF Init, Documented, Transfer
<1>4. Bounded
  BY TransferAssumption DEF Init, Bounded, Transfer, Size
<1>5. BatchIsPublished
  BY DEF Init, BatchIsPublished
<1> QED BY <1>2, <1>3, <1>4, <1>5, <1>6 DEF BInv

LEMMA NextCounts == IInv /\ BInv /\ [Next]_vars => BInv'
<1> SUFFICES ASSUME IInv, BInv, [Next]_vars PROVE BInv'
  OBVIOUS
<1>1. CASE Drop BY <1>1, DropCounts
<1>2. CASE Answer BY <1>2, AnswerCounts
<1>3. ASSUME NEW i \in Transfer, Step(i) PROVE BInv'
  BY <1>3, RegisterCounts, OpenCounts, GateCounts, ReadCounts, TakePermitCounts, MoveCounts,
     SendCounts, WaitCounts, UnregisterCounts, SuccessCounts, CloseCounts DEF Step
<1>4. ASSUME NEW i \in Transfer, User(i) PROVE BInv'
  BY <1>4, DownloadCounts, ControlCounts DEF User
<1>5. CASE UNCHANGED vars
  <2>1. UNCHANGED <<ui, stage, world, read, permits, retries, docs, result, pauses>>
    BY <1>5 DEF vars, control, wire
  <2>2. Moving' = Moving /\ InProgress(stage)' = InProgress(stage)
    BY <2>1 DEF Moving, InProgress
  <2> QED BY <2>1, <2>2 DEF BInv, Counted, Permitted, Documented, Bounded, BatchIsPublished,
              Conflicting, Size, Sends
<1> QED BY <1>1, <1>2, <1>3, <1>4, <1>5 DEF Next

LEMMA CountsAlways == Spec => []BInv
BY InitCounts, NextCounts, IInvAlways, PTL DEF Spec

\* activeCountRef never miscounts, whatever fails, is cancelled or is skipped,
\* and the uploads that did not pass the dialog respect MAX_CONCURRENCY, for
\* any number of files and any limit.
THEOREM LimitKept == Spec => []LimitHolds
<1>1. BInv => LimitHolds
  BY DEF BInv, Counted, LimitHolds, InProgress
<1> QED BY <1>1, CountsAlways, PTL

\* However the uploads of a batch end and in whatever order, the last one out
\* flushes the manifest: none that succeeded is left unpublished.
THEOREM BatchPublished == Spec => []BatchIsPublished
<1>1. BInv => BatchIsPublished
  BY DEF BInv
<1> QED BY <1>1, CountsAlways, PTL

\* do_upload_document never leaves two documents of one upload, whatever was
\* refused and retried; one that succeeds has left its document if the file is
\* not empty and its drive is listed, and none otherwise.
THEOREM OneDocument == Spec => []OneDocumentPerUpload
<1>1. BInv => OneDocumentPerUpload
  BY DEF BInv, Documented, OneDocumentPerUpload
<1> QED BY <1>1, CountsAlways, PTL

\* Among the rest: the semaphore never gives out more permits than it has, nor
\* loses one, and no upload reads past its file or is retried too often.
THEOREM TransfersTyped == Spec => []TypeOK
<1>1. IInv /\ BInv => TypeOK
  <2> SUFFICES ASSUME IInv, BInv PROVE TypeOK
    OBVIOUS
  <2>1. ui.active \in Nat
    BY FS_CardinalityType DEF BInv, Counted
  <2>2. permits \in 0..Permits
    BY FS_CardinalityType, TransferAssumption DEF BInv, Permitted
  <2>3. ui.dialog \in Conflicting \cup {None} /\ ui.asked \subseteq Conflicting
    BY DEF BInv, Counted
  <2> QED BY <2>1, <2>2, <2>3 DEF IInv, Typed, UI, BInv, Bounded, TypeOK
<1> QED BY <1>1, IInvAlways, CountsAlways, PTL
=============================================================================
