-------------------------- MODULE EventRecordsProofs --------------------------
(***************************************************************************)
(* Proofs about EventRecords for every number of events, sources, slots    *)
(* and restarts: the types and capacities, that a confirmation is final    *)
(* and reaches its row, that a Committed row has its directory, and that a *)
(* restart finds all evidence and loses none.  And about EventInspection   *)
(* for every number of readers and files: that a failed check has a cause. *)
(* And about Detection for all levels, rates, configurations and frames:   *)
(* its types, and that a slow drift is not a break.  And about             *)
(* EventWindows for every number of cameras, frames, windows and triggers: *)
(* that a window declared complete lacks no frame.                         *)
(***************************************************************************)
EXTENDS EventRecords, EventInspection, Detection, EventWindows, FiniteSetTheorems,
        SequenceTheorems, NaturalsInduction, WellFoundedInduction, TLAPS

USE RecordsAssumption

-----------------------------------------------------------------------------
(* The statements of the database *)

\* The decision that is written: terminal "Confirmed" rows keep theirs.
LEMMA UpdateLifecycleRow ==
  ASSUME NEW r \in Rows, NEW d \in Decisions, NEW p \in Persistence
  PROVE  /\ UpdateLifecycle(r, d, p) \in Rows
         /\ UpdateLifecycle(r, d, p).integrity = r.integrity
         /\ UpdateLifecycle(r, d, p).persistence \in {p, r.persistence}
         /\ r.decision = "Confirmed" => UpdateLifecycle(r, d, p).decision = "Confirmed"
         /\ d = "Confirmed" /\ r.integrity # "Failed" =>
                UpdateLifecycle(r, d, p).decision = "Confirmed"
  <1> DEFINE kept == LifecycleDecision(r.decision, d)
             storage == CASE p = "Committed"  -> "Present"
                          [] p = "Incomplete" -> "Damaged"
                          [] OTHER            -> "Collecting"
             next == [r EXCEPT !.decision = kept, !.persistence = p, !.storage = storage]
  <1>1. kept \in Decisions /\ storage \in {"Collecting", "Present", "Missing", "Damaged"}
    BY DEF LifecycleDecision, Rows
  <1>2. /\ r.decision = "Confirmed" => kept = "Confirmed"
        /\ d = "Confirmed" => kept = "Confirmed"
    BY DEF LifecycleDecision
  <1>3. CASE RefusedBySchema(r, p)
    BY <1>3 DEF UpdateLifecycle, RefusedBySchema
  <1>4. CASE ~RefusedBySchema(r, p)
    <2>1. UpdateLifecycle(r, d, p) = next
      BY <1>4 DEF UpdateLifecycle, Rows
    <2> HIDE DEF kept, storage
    <2>2. /\ next \in Rows /\ next.integrity = r.integrity /\ next.persistence = p
          /\ next.decision = kept
      BY <1>1 DEF Rows
    <2> QED
      BY <1>2, <2>1, <2>2
  <1> QED
    BY <1>3, <1>4

LEMMA CollectingRowIsRow ==
  ASSUME NEW d \in Decisions
  PROVE  /\ CollectingRow(d) \in Rows
         /\ CollectingRow(d).integrity = "Unverified"
         /\ CollectingRow(d).persistence = "Collecting"
         /\ CollectingRow(d).decision = d
  BY DEF CollectingRow, Rows, Persistence

LEMMA NoRowIsNoRow == \A r \in Rows : r # NoRow
  BY DEF Rows, NoRow, Persistence

LEMMA IndexedRowIsRow ==
  ASSUME NEW r \in Rows \cup {NoRow}, NEW d \in Decisions
  PROVE  /\ IndexedRow(r, d) \in Rows
         /\ IndexedRow(r, d).persistence = "Committed"
         /\ IndexedRow(r, d).storage = "Present"
         /\ IndexedRow(r, d).directory
         /\ r # NoRow => /\ IndexedRow(r, d).integrity = r.integrity
                         /\ r.decision = "Confirmed" =>
                                IndexedRow(r, d).decision = "Confirmed"
  <1>1. CASE r = NoRow
    <2> DEFINE base == CollectingRow(d)
               next == [base EXCEPT !.persistence = "Committed", !.storage = "Present",
                                    !.directory = TRUE]
    <2>1. base \in Rows
      BY CollectingRowIsRow
    <2>2. IndexedRow(r, d) = next
      BY <1>1 DEF IndexedRow
    <2> HIDE DEF base
    <2>3. /\ next \in Rows /\ next.persistence = "Committed" /\ next.storage = "Present"
          /\ next.directory
      BY <2>1 DEF Rows, Persistence
    <2> QED
      BY <1>1, <2>2, <2>3
  <1>2. CASE r \in Rows
    <2> DEFINE kept == IF r.decision = "Candidate" THEN d ELSE r.decision
               next == [r EXCEPT !.decision = kept, !.persistence = "Committed",
                                 !.storage = "Present", !.directory = TRUE]
    <2>1. IndexedRow(r, d) = next
      BY <1>2, NoRowIsNoRow DEF IndexedRow, Rows
    <2>2. kept \in Decisions /\ (r.decision = "Confirmed" => kept = "Confirmed")
      BY <1>2 DEF Rows
    <2> HIDE DEF kept
    <2>3. /\ next \in Rows /\ next.persistence = "Committed" /\ next.storage = "Present"
          /\ next.directory /\ next.decision = kept /\ next.integrity = r.integrity
      BY <1>2, <2>2 DEF Rows, Persistence
    <2> QED
      BY <2>1, <2>2, <2>3
  <1> QED
    BY <1>1, <1>2

\* The combined decision is one of the decisions, and "Confirmed" outranks all.
LEMMA AggregateIsDecision ==
  ASSUME NEW outcomes \in [Sources -> Decisions \cup {"absent"}],
         NEW sources \in SUBSET Sources
  PROVE  /\ AggregateOf(outcomes, sources) \in Decisions
         /\ (\E s \in sources : outcomes[s] = "Confirmed") =>
                AggregateOf(outcomes, sources) = "Confirmed"
  <1> DEFINE decided == {outcomes[s] : s \in sources} \ {"absent"}
             Top(d) == \A other \in decided : Rank(d) >= Rank(other)
  <1>1. decided \subseteq Decisions
    OBVIOUS
  <1>2. CASE decided = {}
    <2>1. AggregateOf(outcomes, sources) = "Rejected"
      BY <1>2 DEF AggregateOf
    <2>2. \A s \in sources : outcomes[s] # "Confirmed"
      BY <1>2
    <2> QED
      BY <2>1, <2>2 DEF Decisions, Terminal
  <1>3. CASE decided # {}
    <2>1. \E d \in decided : Top(d)
      <3>1. \A d \in Decisions : Rank(d) \in 1 .. 4
        BY DEF Rank, Decisions, Terminal
      <3>2. \A d, other \in Decisions : Rank(d) >= Rank(other)
                \/ Rank(other) > Rank(d)
        BY <3>1
      <3>3. CASE "Confirmed" \in decided
        BY <1>1, <3>3 DEF Rank, Decisions, Terminal
      <3>4. CASE "Confirmed" \notin decided /\ "Candidate" \in decided
        BY <1>1, <3>4 DEF Rank, Decisions, Terminal
      <3>5. CASE decided \subseteq {"Timeout", "Rejected"} /\ "Timeout" \in decided
        BY <3>5 DEF Rank
      <3>6. CASE decided = {"Rejected"}
        BY <3>6 DEF Rank
      <3> QED
        BY <1>1, <1>3, <3>3, <3>4, <3>5, <3>6 DEF Decisions, Terminal
    <2>2. AggregateOf(outcomes, sources) = CHOOSE d \in decided : Top(d)
      BY <1>3 DEF AggregateOf
    <2>3. AggregateOf(outcomes, sources) \in decided /\ Top(AggregateOf(outcomes, sources))
      BY <2>1, <2>2
    <2>4. ASSUME NEW s \in sources, outcomes[s] = "Confirmed"
          PROVE  AggregateOf(outcomes, sources) = "Confirmed"
      <3>1. "Confirmed" \in decided
        BY <2>4
      <3>2. Rank(AggregateOf(outcomes, sources)) >= Rank("Confirmed")
        BY <2>3, <3>1
      <3> HIDE DEF decided, Top
      <3>3. AggregateOf(outcomes, sources) \in Decisions
        BY <1>1, <2>3
      <3> QED
        BY <3>2, <3>3 DEF Rank, Decisions, Terminal
    <2> QED
      BY <1>1, <2>3, <2>4
  <1> QED
    BY <1>2, <1>3

-----------------------------------------------------------------------------
(* Types, and who has a row *)

\* Whatever the runtime is busy with has a row, and the source whose decision
\* the event thread is writing is mapped.
Opened ==
    /\ \A e \in Events : stage[e] # "unborn" => HasRow(e)
    /\ \A e \in Events : mapped[e] # {} => HasRow(e)
    /\ \A i \in 1 .. Len(queue) : HasRow(queue[i])
    /\ applying # Nobody => applying.source \in mapped[applying.event]

Typed ==
    /\ row \in [Events -> Rows \cup {NoRow}]
    /\ disk \in [Events -> Disks]
    /\ outcome \in [Events -> [Sources -> Decisions \cup {"absent"}]]
    /\ mapped \in [Events -> SUBSET Sources]
    /\ stage \in [Events -> Stages]
    /\ snapshot \in [Events -> Decisions]
    /\ applying \in DecisionTasks \cup {Nobody}
    /\ writer \in WriterTasks \cup {Nobody}
    /\ queue \in Seq(Events)
    /\ Len(queue) <= QueueCapacity
    /\ service \in {"down", "loading", "recovered", "running", "failed"}
    /\ restarts \in 0 .. MaximumRestarts

RowsInv == Typed /\ Opened

LEMMA RowsInvInit == RecordsInit => RowsInv
  <1> SUFFICES ASSUME RecordsInit PROVE RowsInv
    OBVIOUS
  <1>1. Typed
    BY DEF RecordsInit, Typed, Disks, Places, Contents, Stages, Decisions, Terminal
  <1>2. Opened
    BY DEF RecordsInit, Opened, HasRow
  <1> QED
    BY <1>1, <1>2 DEF RowsInv

\* An update of one row, where everything that had a row keeps it.
LEMMA OneRowChanges ==
  ASSUME Typed, NEW e \in Events, NEW r \in Rows, row' = [row EXCEPT ![e] = r]
  PROVE  /\ row' \in [Events -> Rows \cup {NoRow}]
         /\ row'[e] = r
         /\ HasRow(e)'
         /\ \A f \in Events : HasRow(f) => HasRow(f)'
         /\ \A f \in Events : f # e => row'[f] = row[f]
  BY NoRowIsNoRow DEF Typed, HasRow

\* The update of a row that exists, as every thread makes it.
LEMMA OneRowUpdated ==
  ASSUME Typed, NEW e \in Events, HasRow(e),
         NEW d \in Decisions, NEW p \in Persistence,
         row' = [row EXCEPT ![e] = UpdateLifecycle(@, d, p)]
  PROVE  /\ row' \in [Events -> Rows \cup {NoRow}]
         /\ row'[e] = UpdateLifecycle(row[e], d, p)
         /\ \A f \in Events : HasRow(f) => HasRow(f)'
         /\ \A f \in Events : f # e => row'[f] = row[f]
  <1>1. row[e] \in Rows
    BY DEF Typed, HasRow
  <1>2. UpdateLifecycle(row[e], d, p) \in Rows
    BY <1>1, UpdateLifecycleRow
  <1>3. row' = [row EXCEPT ![e] = UpdateLifecycle(row[e], d, p)]
    OBVIOUS
  <1> QED
    BY <1>2, <1>3, OneRowChanges

LEMMA RowsInvStep == RowsInv /\ [RecordsNext]_recordVars => RowsInv'
  <1> SUFFICES ASSUME RowsInv, [RecordsNext]_recordVars PROVE RowsInv'
    OBVIOUS
  <1> USE DEF RowsInv
  <1>1. ASSUME NEW e \in Events, NEW s \in Sources, StartOrMerge(e, s) PROVE RowsInv'
    <2> DEFINE outcomes == [outcome[e] EXCEPT ![s] = "Candidate"]
               sources  == mapped[e] \cup {s}
               decision == AggregateOf(outcomes, sources)
               base     == IF HasRow(e) THEN row[e] ELSE CollectingRow(decision)
    <2>1. outcomes \in [Sources -> Decisions \cup {"absent"}] /\ sources \in SUBSET Sources
      BY DEF Typed, Decisions
    <2>2. decision \in Decisions
      BY <2>1, AggregateIsDecision
    <2>3. row' = [row EXCEPT ![e] = UpdateLifecycle(base, decision, "Collecting")]
      BY <1>1 DEF StartOrMerge
    <2>4. /\ outcome' = [outcome EXCEPT ![e] = outcomes]
          /\ mapped' = [mapped EXCEPT ![e] = sources]
      BY <1>1 DEF StartOrMerge
    <2> HIDE DEF outcomes, sources, decision
    <2>5. base \in Rows /\ "Collecting" \in Persistence
      BY <2>2, CollectingRowIsRow DEF Typed, HasRow, Persistence
    <2> HIDE DEF base
    <2>6. UpdateLifecycle(base, decision, "Collecting") \in Rows
      BY <2>2, <2>5, UpdateLifecycleRow
    <2>7. /\ row' \in [Events -> Rows \cup {NoRow}]
          /\ HasRow(e)'
          /\ \A f \in Events : HasRow(f) => HasRow(f)'
      BY <2>3, <2>6, OneRowChanges
    <2>8. Typed'
      BY <1>1, <2>1, <2>4, <2>7 DEF StartOrMerge, Typed, processVars, Stages
    <2>9. Opened'
      BY <1>1, <2>4, <2>7 DEF StartOrMerge, Typed, Opened, EventThreadIdle
    <2> QED
      BY <2>8, <2>9
  <1>2. ASSUME NEW e \in Events, NEW s \in Sources, NEW d \in Terminal,
               ReadForDecision(e, s, d)
        PROVE  RowsInv'
    <2>1. HasRow(e) /\ row[e] \in Rows /\ row[e].persistence \in Persistence
      BY <1>2 DEF ReadForDecision, Typed, Opened, HasRow, Rows
    <2>2. applying' \in DecisionTasks /\ applying'.event = e /\ applying'.source = s
      BY <1>2, <2>1 DEF ReadForDecision, DecisionTasks
    <2>3. outcome' \in [Events -> [Sources -> Decisions \cup {"absent"}]]
      BY <1>2 DEF ReadForDecision, Typed, Decisions
    <2>4. Typed'
      BY <1>2, <2>2, <2>3 DEF ReadForDecision, Typed, rowVars, processVars
    <2>5. Opened'
      BY <1>2, <2>2 DEF ReadForDecision, Opened, rowVars, processVars, HasRow
    <2> QED
      BY <2>4, <2>5
  <1>3. ASSUME WriteDecision PROVE RowsInv'
    <2> DEFINE e == applying.event
               decision == AggregateOf(outcome[e], mapped[e])
    <2>1. applying \in DecisionTasks
      BY <1>3 DEF WriteDecision, Typed
    <2>2. e \in Events /\ applying.persistence \in Persistence /\ applying.source \in mapped[e]
      BY <1>3, <2>1 DEF WriteDecision, DecisionTasks, Opened
    <2>3. decision \in Decisions
      BY <2>2, AggregateIsDecision DEF Typed
    <2>4. HasRow(e)
      BY <2>2 DEF Opened
    <2>5. row' = [row EXCEPT ![e] = UpdateLifecycle(@, decision, applying.persistence)]
      BY <1>3 DEF WriteDecision
    <2>6. mapped' \in [Events -> SUBSET Sources] /\ (\A f \in Events : mapped'[f] \subseteq mapped[f])
      BY <1>3, <2>2 DEF WriteDecision, Typed
    <2>6a. applying' = Nobody
      BY <1>3 DEF WriteDecision
    <2> HIDE DEF decision
    <2>7. /\ row' \in [Events -> Rows \cup {NoRow}]
          /\ \A f \in Events : HasRow(f) => HasRow(f)'
      BY <2>2, <2>3, <2>4, <2>5, OneRowUpdated
    <2>8. Typed'
      BY <1>3, <2>6, <2>7 DEF WriteDecision, Typed, processVars
    <2>9. Opened'
      BY <1>3, <2>6, <2>6a, <2>7 DEF WriteDecision, Typed, Opened
    <2> QED
      BY <2>8, <2>9
  <1>4. ASSUME NEW e \in Events, Freeze(e) PROVE RowsInv'
    <2>1. HasRow(e) /\ row[e].decision \in Decisions /\ "Encoding" \in Persistence
      BY <1>4 DEF Freeze, Typed, Opened, HasRow, Rows, Decisions, Terminal, Persistence
    <2>2. row' = [row EXCEPT ![e] = UpdateLifecycle(@, row[e].decision, "Encoding")]
      BY <1>4 DEF Freeze
    <2>3. /\ row' \in [Events -> Rows \cup {NoRow}]
          /\ \A f \in Events : HasRow(f) => HasRow(f)'
      BY <2>1, <2>2, OneRowUpdated
    <2>4. /\ mapped' \in [Events -> SUBSET Sources]
          /\ \A f \in Events : mapped'[f] \subseteq mapped[f]
      BY <1>4 DEF Freeze, Undecided, Typed
    <2>4a. snapshot' \in [Events -> Decisions] /\ stage' \in [Events -> Stages]
      BY <1>4, <2>1 DEF Freeze, Typed, Stages
    <2>5. Typed'
      BY <1>4, <2>3, <2>4, <2>4a DEF Freeze, Typed, processVars
    <2>6. Opened'
      BY <1>4, <2>1, <2>3, <2>4 DEF Freeze, Typed, Opened, EventThreadIdle
    <2> QED
      BY <2>5, <2>6
  <1>5. ASSUME NEW e \in Events, FreezeFails(e) PROVE RowsInv'
    <2>1. HasRow(e) /\ "Candidate" \in Decisions /\ "Incomplete" \in Persistence
      BY <1>5 DEF FreezeFails, Typed, Opened, HasRow, Rows, Decisions, Terminal, Persistence
    <2>2. row' = [row EXCEPT ![e] = UpdateLifecycle(@, "Candidate", "Incomplete")]
      BY <1>5 DEF FreezeFails
    <2>3. /\ row' \in [Events -> Rows \cup {NoRow}]
          /\ \A f \in Events : HasRow(f) => HasRow(f)'
      BY <2>1, <2>2, OneRowUpdated
    <2>4. /\ mapped' \in [Events -> SUBSET Sources]
          /\ \A f \in Events : mapped'[f] \subseteq mapped[f]
      BY <1>5 DEF FreezeFails, Undecided, Typed
    <2>4a. snapshot' \in [Events -> Decisions] /\ stage' \in [Events -> Stages]
      BY <1>5, <2>1 DEF FreezeFails, Typed, Stages
    <2>5. Typed'
      BY <1>5, <2>3, <2>4, <2>4a DEF FreezeFails, Typed, processVars
    <2>6. Opened'
      BY <1>5, <2>1, <2>3, <2>4 DEF FreezeFails, Typed, Opened, EventThreadIdle
    <2> QED
      BY <2>5, <2>6
  <1>6. ASSUME NEW e \in Events, EncodingFails(e) PROVE RowsInv'
    <2>1. HasRow(e) /\ snapshot[e] \in Decisions /\ "Incomplete" \in Persistence
      BY <1>6 DEF EncodingFails, Typed, Opened, HasRow, Rows, Decisions, Terminal, Persistence
    <2>2. row' = [row EXCEPT ![e] = UpdateLifecycle(@, snapshot[e], "Incomplete")]
      BY <1>6 DEF EncodingFails
    <2>3. /\ row' \in [Events -> Rows \cup {NoRow}]
          /\ \A f \in Events : HasRow(f) => HasRow(f)'
      BY <2>1, <2>2, OneRowUpdated
    <2>4. Typed'
      BY <1>6, <2>3 DEF EncodingFails, Typed, Stages, processVars
    <2>5. Opened'
      <3>1. \A f \in Events : stage'[f] # "unborn" => f = e \/ stage[f] # "unborn"
        BY <1>6 DEF EncodingFails, Typed
      <3>2. mapped' = mapped /\ queue' = queue /\ applying' = applying
        BY <1>6 DEF EncodingFails
      <3>3. \A f \in Events : stage'[f] # "unborn" => HasRow(f)'
        BY <2>1, <2>3, <3>1 DEF Opened
      <3>4. /\ \A f \in Events : mapped'[f] # {} => HasRow(f)'
            /\ applying' # Nobody => applying'.source \in mapped'[applying'.event]
        BY <2>3, <3>2 DEF Opened
      <3>5. \A i \in 1 .. Len(queue) : HasRow(queue[i])'
        <4>1. \A i \in 1 .. Len(queue) : queue[i] \in Events /\ HasRow(queue[i])
          BY DEF Typed, Opened
        <4>2. queue' = queue
          BY <3>2
        <4> QED
          BY <2>3, <4>1, <4>2 DEF HasRow
      <3> QED
        BY <3>2, <3>3, <3>4, <3>5 DEF Opened, HasRow
    <2> QED
      BY <2>4, <2>5
  <1>7. ASSUME NEW e \in Events, MarkQueued(e) PROVE RowsInv'
    <2>1. HasRow(e) /\ snapshot[e] \in Decisions /\ "Queued" \in Persistence
      BY <1>7 DEF MarkQueued, Typed, Opened, HasRow, Rows, Decisions, Terminal, Persistence
    <2>2. row' = [row EXCEPT ![e] = UpdateLifecycle(@, snapshot[e], "Queued")]
      BY <1>7 DEF MarkQueued
    <2>3. /\ row' \in [Events -> Rows \cup {NoRow}]
          /\ \A f \in Events : HasRow(f) => HasRow(f)'
      BY <2>1, <2>2, OneRowUpdated
    <2>4. Typed'
      BY <1>7, <2>3 DEF MarkQueued, Typed, Stages, processVars
    <2>5. Opened'
      <3>1. \A f \in Events : stage'[f] # "unborn" => f = e \/ stage[f] # "unborn"
        BY <1>7 DEF MarkQueued, Typed
      <3>2. mapped' = mapped /\ queue' = queue /\ applying' = applying
        BY <1>7 DEF MarkQueued
      <3>3. \A f \in Events : stage'[f] # "unborn" => HasRow(f)'
        BY <2>1, <2>3, <3>1 DEF Opened
      <3>4. /\ \A f \in Events : mapped'[f] # {} => HasRow(f)'
            /\ applying' # Nobody => applying'.source \in mapped'[applying'.event]
        BY <2>3, <3>2 DEF Opened
      <3>5. \A i \in 1 .. Len(queue) : HasRow(queue[i])'
        <4>1. \A i \in 1 .. Len(queue) : queue[i] \in Events /\ HasRow(queue[i])
          BY DEF Typed, Opened
        <4>2. queue' = queue
          BY <3>2
        <4> QED
          BY <2>3, <4>1, <4>2 DEF HasRow
      <3> QED
        BY <3>2, <3>3, <3>4, <3>5 DEF Opened, HasRow
    <2> QED
      BY <2>4, <2>5
  <1>8. ASSUME NEW e \in Events, SubmitRefused(e) PROVE RowsInv'
    <2>1. HasRow(e) /\ "Rejected" \in Decisions /\ "Incomplete" \in Persistence
      BY <1>8 DEF SubmitRefused, Typed, Opened, HasRow, Rows, Decisions, Terminal, Persistence
    <2>2. row' = [row EXCEPT ![e] = UpdateLifecycle(@, "Rejected", "Incomplete")]
      BY <1>8 DEF SubmitRefused
    <2>3. /\ row' \in [Events -> Rows \cup {NoRow}]
          /\ \A f \in Events : HasRow(f) => HasRow(f)'
      BY <2>1, <2>2, OneRowUpdated
    <2>4. Typed'
      BY <1>8, <2>3 DEF SubmitRefused, Typed, Stages, processVars
    <2>5. Opened'
      <3>1. \A f \in Events : stage'[f] # "unborn" => f = e \/ stage[f] # "unborn"
        BY <1>8 DEF SubmitRefused, Typed
      <3>2. mapped' = mapped /\ queue' = queue /\ applying' = applying
        BY <1>8 DEF SubmitRefused
      <3>3. \A f \in Events : stage'[f] # "unborn" => HasRow(f)'
        BY <2>1, <2>3, <3>1 DEF Opened
      <3>4. /\ \A f \in Events : mapped'[f] # {} => HasRow(f)'
            /\ applying' # Nobody => applying'.source \in mapped'[applying'.event]
        BY <2>3, <3>2 DEF Opened
      <3>5. \A i \in 1 .. Len(queue) : HasRow(queue[i])'
        <4>1. \A i \in 1 .. Len(queue) : queue[i] \in Events /\ HasRow(queue[i])
          BY DEF Typed, Opened
        <4>2. queue' = queue
          BY <3>2
        <4> QED
          BY <2>3, <4>1, <4>2 DEF HasRow
      <3> QED
        BY <3>2, <3>3, <3>4, <3>5 DEF Opened, HasRow
    <2> QED
      BY <2>4, <2>5
  <1>9. ASSUME NEW e \in Events, Submit(e) PROVE RowsInv'
    <2>1. HasRow(e)
      BY <1>9 DEF Submit, Opened
    <2>2. queue' = Append(queue, e) /\ Len(queue) < QueueCapacity
      BY <1>9 DEF Submit
    <2>3. /\ queue' \in Seq(Events) /\ Len(queue') <= QueueCapacity
          /\ \A i \in 1 .. Len(queue') :
                 queue'[i] = e \/ (i \in 1 .. Len(queue) /\ queue'[i] = queue[i])
      BY <2>2 DEF Typed
    <2>4. Typed'
      BY <1>9, <2>3 DEF Submit, Typed, Stages, rowVars, processVars
    <2>5. Opened'
      BY <1>9, <2>1, <2>3 DEF Submit, Typed, Opened, HasRow, rowVars
    <2> QED
      BY <2>4, <2>5
  <1>10. ASSUME TakeJob PROVE RowsInv'
    <2>1. /\ Head(queue) \in Events /\ HasRow(Head(queue))
          /\ queue' \in Seq(Events) /\ Len(queue') <= QueueCapacity
      BY <1>10 DEF TakeJob, Typed, Opened
    <2>2. \A i \in 1 .. Len(queue') : HasRow(queue'[i])
      BY <1>10 DEF TakeJob, Typed, Opened
    <2>3. writer' \in WriterTasks
      BY <1>10, <2>1 DEF TakeJob, Typed, WriterTasks, HasRow, Rows
    <2>4. Typed'
      BY <1>10, <2>1, <2>3 DEF TakeJob, Typed, rowVars, processVars
    <2>5. Opened'
      BY <1>10, <2>2 DEF TakeJob, Typed, Opened, HasRow, rowVars
    <2> QED
      BY <2>4, <2>5
  <1>11. ASSUME MarkWriting PROVE RowsInv'
    <2> DEFINE e == writer.event
    <2>0. writer \in WriterTasks
      BY <1>11 DEF MarkWriting, Typed
    <2>1. e \in Events /\ writer.decision \in Decisions /\ "Writing" \in Persistence
      BY <2>0 DEF WriterTasks, Decisions, Terminal, Persistence
    <2>1a. HasRow(e)
      BY <1>11, <2>1 DEF MarkWriting, Opened
    <2>2. row' = [row EXCEPT ![e] = UpdateLifecycle(@, writer.decision, "Writing")]
      BY <1>11 DEF MarkWriting
    <2> HIDE DEF e
    <2>3. /\ row' \in [Events -> Rows \cup {NoRow}]
          /\ \A f \in Events : HasRow(f) => HasRow(f)'
      BY <2>1, <2>1a, <2>2, OneRowUpdated
    <2>4. Typed'
      BY <1>11, <2>1, <2>3 DEF MarkWriting, JobOver, Typed, Stages, processVars, e
    <2>5. Opened'
      BY <1>11, <2>1, <2>1a, <2>3 DEF MarkWriting, JobOver, Typed, Opened, e
    <2> QED
      BY <2>4, <2>5
  <1>12. ASSUME RecordFailure PROVE RowsInv'
    <2> DEFINE e == writer.event
    <2>0. writer \in WriterTasks
      BY <1>12 DEF RecordFailure, Typed
    <2>1. e \in Events /\ "Rejected" \in Decisions /\ "Incomplete" \in Persistence
      BY <2>0 DEF WriterTasks, Decisions, Terminal, Persistence
    <2>1a. HasRow(e)
      BY <1>12, <2>1 DEF RecordFailure, Opened
    <2>2. row' = [row EXCEPT ![e] = UpdateLifecycle(@, "Rejected", "Incomplete")]
      BY <1>12 DEF RecordFailure
    <2> HIDE DEF e
    <2>3. /\ row' \in [Events -> Rows \cup {NoRow}]
          /\ \A f \in Events : HasRow(f) => HasRow(f)'
      BY <2>1, <2>1a, <2>2, OneRowUpdated
    <2>4. Typed'
      BY <1>12, <2>1, <2>3 DEF RecordFailure, JobOver, Typed, Stages, processVars, e
    <2>5. Opened'
      BY <1>12, <2>1, <2>1a, <2>3 DEF RecordFailure, JobOver, Typed, Opened, e
    <2> QED
      BY <2>4, <2>5
  <1>13. ASSUME CommitRow PROVE RowsInv'
    <2> DEFINE e == writer.event
               r == IndexedRow(row[e], snapshot[e])
    <2>0. writer \in WriterTasks
      BY <1>13 DEF CommitRow, Typed
    <2>1. e \in Events /\ row' = [row EXCEPT ![e] = r]
      BY <1>13, <2>0 DEF CommitRow, WriterTasks
    <2>2. r \in Rows
      BY <2>1, IndexedRowIsRow DEF Typed
    <2>3. /\ row' \in [Events -> Rows \cup {NoRow}]
          /\ \A f \in Events : f = e \/ HasRow(f) => HasRow(f)'
      BY <2>1, <2>2, OneRowChanges
    <2> HIDE DEF r, e
    <2>4. Typed'
      BY <1>13, <2>1, <2>3 DEF CommitRow, JobOver, Typed, Stages, processVars, e
    <2>5. Opened'
      BY <1>13, <2>1, <2>3 DEF CommitRow, JobOver, Typed, Opened, e
    <2> QED
      BY <2>4, <2>5
  <1>14. ASSUME WriteTransaction \/ Publish \/ PersistFails PROVE RowsInv'
    <2>0. writer \in WriterTasks /\ writer.event \in Events
      BY <1>14 DEF WriteTransaction, Publish, PersistFails, Typed, WriterTasks
    <2>1. disk' \in [Events -> Disks]
      <3>1. ASSUME NEW p \in Places
            PROVE  [disk EXCEPT ![writer.event].place = p] \in [Events -> Disks]
        <4>1. [disk[writer.event] EXCEPT !.place = p] \in Disks
          BY <2>0 DEF Typed, Disks
        <4>2. disk \in [Events -> Disks]
          BY DEF Typed
        <4> QED
          BY <4>1, <4>2
      <3>2. /\ "partial" \in Places /\ "complete" \in Places /\ "committed" \in Places
            /\ disk \in [Events -> Disks]
        BY DEF Places, Typed
      <3> QED
        BY <1>14, <3>1, <3>2 DEF WriteTransaction, Publish, PersistFails, rowVars
    <2>2. Typed' /\ row' = row /\ mapped' = mapped /\ queue' = queue /\ applying' = applying
      BY <1>14, <2>1 DEF WriteTransaction, Publish, PersistFails, Typed, Stages, rowVars,
                        runtimeVars, processVars
    <2>3. \A e \in Events : stage'[e] # "unborn" => stage[e] # "unborn"
      BY <1>14, <2>0 DEF WriteTransaction, Publish, PersistFails, Typed, runtimeVars
    <2> QED
      BY <2>2, <2>3 DEF Opened, HasRow
  <1>15. ASSUME NEW e \in Events, NEW contents \in Contents \ {"intact"}, Damage(e, contents)
         PROVE  RowsInv'
    <2>1. disk' \in [Events -> Disks]
      BY <1>15 DEF Damage, Typed, Disks
    <2> QED
      BY <1>15, <2>1 DEF Damage, Typed, Opened, HasRow, runtimeVars, processVars
  <1>16. ASSUME NEW e \in Events, Inspect(e) PROVE RowsInv'
    <2> DEFINE r == IF disk[e] = [place |-> "committed", content |-> "intact"]
                    THEN [row[e] EXCEPT !.integrity = "Verified", !.storage = "Present"]
                    ELSE [row[e] EXCEPT !.integrity = "Failed", !.storage = "Damaged"]
    <2>1. row[e] \in Rows /\ row' = [row EXCEPT ![e] = r]
      BY <1>16 DEF Inspect, Typed, HasRow
    <2>2. r \in Rows
      BY <2>1 DEF Rows
    <2> HIDE DEF r
    <2>3. /\ row' \in [Events -> Rows \cup {NoRow}]
          /\ \A f \in Events : HasRow(f) => HasRow(f)'
      BY <2>1, <2>2, OneRowChanges
    <2>4. Typed'
      BY <1>16, <2>3 DEF Inspect, Typed, runtimeVars, processVars
    <2>5. Opened'
      BY <1>16, <2>3 DEF Inspect, Typed, Opened, runtimeVars
    <2> QED
      BY <2>4, <2>5
  <1>17. ASSUME Down PROVE RowsInv'
    <2>1. Typed' /\ row' = row
      BY <1>17 DEF Down, Typed, rowVars, Stages
    <2>2. /\ \A e \in Events : stage'[e] # "unborn" => stage[e] # "unborn"
          /\ \A e \in Events : mapped'[e] = {}
          /\ queue' = <<>> /\ applying' = Nobody
      BY <1>17 DEF Down
    <2> QED
      BY <2>1, <2>2 DEF Opened, HasRow
  <1>18. ASSUME Boot PROVE RowsInv'
    BY <1>18 DEF Boot, Typed, Opened, HasRow, rowVars, runtimeVars
  <1>19. ASSUME RecoverPending PROVE RowsInv'
    <2>1. disk' \in [Events -> Disks]
      BY <1>19 DEF RecoverPending, RecoveredPlace, Typed, Disks, Places
    <2> QED
      BY <1>19, <2>1 DEF RecoverPending, Typed, Opened, HasRow, runtimeVars
  <1>20. ASSUME Reconcile PROVE RowsInv'
    <2>1. ASSUME NEW e \in Events
          PROVE  /\ ReconciledRow(e) \in Rows \cup {NoRow}
                 /\ HasRow(e) => ReconciledRow(e) \in Rows
      <3>1. CASE e \in Committed
        BY <3>1, IndexedRowIsRow DEF ReconciledRow, Typed
      <3>2. CASE e \notin Committed /\ HasRow(e)
        <4>1. row[e] \in Rows
          BY <3>2 DEF HasRow, Typed
        <4> QED
          BY <3>2, <4>1 DEF ReconciledRow, Rows
      <3>3. CASE e \notin Committed /\ ~HasRow(e)
        BY <3>3 DEF ReconciledRow
      <3> QED
        BY <3>1, <3>2, <3>3
    <2>2. /\ row' \in [Events -> Rows \cup {NoRow}]
          /\ \A e \in Events : HasRow(e) => HasRow(e)'
      BY <1>20, <2>1, NoRowIsNoRow DEF Reconcile, HasRow
    <2>3. Typed'
      BY <1>20, <2>2 DEF Reconcile, Typed, runtimeVars
    <2>4. Opened'
      BY <1>20, <2>2 DEF Reconcile, Typed, Opened, runtimeVars
    <2> QED
      BY <2>3, <2>4
  <1>21. ASSUME NEW indexed \in SUBSET Events, ReconcileFails(indexed) PROVE RowsInv'
    <2>1. \A e \in Events : IndexedRow(row[e], snapshot[e]) \in Rows
      BY IndexedRowIsRow DEF Typed
    <2>2. /\ row' \in [Events -> Rows \cup {NoRow}]
          /\ \A e \in Events : HasRow(e) => HasRow(e)'
      BY <1>21, <2>1, NoRowIsNoRow DEF ReconcileFails, HasRow, Typed
    <2>3. Typed'
      BY <1>21, <2>2 DEF ReconcileFails, Typed, runtimeVars
    <2>4. Opened'
      BY <1>21, <2>2 DEF ReconcileFails, Typed, Opened, runtimeVars
    <2> QED
      BY <2>3, <2>4
  <1>22. CASE UNCHANGED recordVars
    BY <1>22 DEF recordVars, Typed, Opened, HasRow
  <1> QED
    BY <1>1, <1>2, <1>3, <1>4, <1>5, <1>6, <1>7, <1>8, <1>9, <1>10, <1>11, <1>12, <1>13,
       <1>14, <1>15, <1>16, <1>17, <1>18, <1>19, <1>20, <1>21, <1>22
       DEF RecordsNext, RunningNext, StartNext, EventThread, JpegThread, PersistenceThread

THEOREM RowsInvAlways == RecordsSpec => []RowsInv
  BY RowsInvInit, RowsInvStep, PTL DEF RecordsSpec

\* The bound on events that wait for their key frames.
PendingFits == Cardinality(Pending) <= PendingCapacity

LEMMA PendingFitsStep == RowsInv /\ PendingFits /\ [RecordsNext]_recordVars => PendingFits'
  <1> SUFFICES ASSUME RowsInv, PendingFits, [RecordsNext]_recordVars PROVE PendingFits'
    OBVIOUS
  <1> USE DEF RowsInv
  <1>1. IsFiniteSet(Pending) /\ Cardinality(Pending) \in Nat
    BY FS_Subset, FS_CardinalityType DEF Pending
  <1>2. ASSUME Pending' \subseteq Pending PROVE PendingFits'
    <2>1. Cardinality(Pending') <= Cardinality(Pending) /\ Cardinality(Pending') \in Nat
      BY <1>1, <1>2, FS_Subset, FS_CardinalityType
    <2> QED
      BY <1>1, <2>1 DEF PendingFits
  <1>3. ASSUME NEW e \in Events, Freeze(e) PROVE PendingFits'
    <2>1. Pending' = Pending \cup {e} /\ Cardinality(Pending) < PendingCapacity
      BY <1>3 DEF Freeze, Pending, Typed
    <2>2. Cardinality(Pending \cup {e}) =
              IF e \in Pending THEN Cardinality(Pending) ELSE Cardinality(Pending) + 1
      BY <1>1, FS_AddElement
    <2>3. Cardinality(Pending \cup {e}) <= PendingCapacity
      BY <1>1, <2>1, <2>2
    <2> QED
      BY <2>1, <2>3 DEF PendingFits
  <1>4. ASSUME NEW e \in Events, NEW s \in Sources, NEW d \in Terminal,
               ReadForDecision(e, s, d)
        PROVE  Pending' \subseteq Pending
    BY <1>4 DEF ReadForDecision, Pending
  <1>5. ASSUME NEW e \in Events, NEW s \in Sources, StartOrMerge(e, s)
        PROVE  Pending' \subseteq Pending
    BY <1>5 DEF StartOrMerge, Pending, Typed
  <1>6. ASSUME NEW e \in Events, FreezeFails(e) \/ JpegThread(e)
        PROVE  Pending' \subseteq Pending
    BY <1>6 DEF FreezeFails, JpegThread, EncodingFails, MarkQueued, Submit, SubmitRefused,
                Pending, Typed
  <1>7. ASSUME PersistenceThread PROVE Pending' \subseteq Pending
    BY <1>7 DEF PersistenceThread, TakeJob, MarkWriting, WriteTransaction, Publish,
                PersistFails, CommitRow, RecordFailure, JobOver, runtimeVars, Pending, Typed
  <1>8. ASSUME NEW e \in Events, Inspect(e) \/ \E contents \in Contents : Damage(e, contents)
        PROVE  Pending' \subseteq Pending
    BY <1>8 DEF Inspect, Damage, runtimeVars, Pending
  <1>9. ASSUME Down PROVE Pending' \subseteq Pending
    BY <1>9 DEF Down, Pending
  <1>10. ASSUME WriteDecision \/ StartNext \/ UNCHANGED recordVars
        PROVE  Pending' \subseteq Pending
    BY <1>10 DEF WriteDecision, StartNext, Boot, RecoverPending, Reconcile, ReconcileFails,
                runtimeVars, recordVars, Pending
  <1> QED
    BY <1>2, <1>3, <1>4, <1>5, <1>6, <1>7, <1>8, <1>9, <1>10
       DEF RecordsNext, RunningNext, EventThread

\* No variable leaves its type and no queue its capacity, whatever the threads
\* and the restarts do.
THEOREM RecordsTypeCorrect == RecordsSpec => []RecordsTypeOK
  <1>1. RecordsInit => PendingFits
    <2> SUFFICES ASSUME RecordsInit PROVE PendingFits
      OBVIOUS
    <2>1. Pending = {}
      BY DEF RecordsInit, Pending
    <2> QED
      BY <2>1, FS_EmptySet DEF PendingFits
  <1>2. RowsInv /\ PendingFits => RecordsTypeOK
    BY DEF RowsInv, Typed, PendingFits, RecordsTypeOK
  <1> QED
    BY <1>1, <1>2, RowsInvInit, RowsInvStep, PendingFitsStep, PTL DEF RecordsSpec

-----------------------------------------------------------------------------
(* Confirmations *)

\* What no step takes away from a row.
RowKept(e) ==
    /\ row'[e] \in Rows
    /\ row[e].decision = "Confirmed" => row'[e].decision = "Confirmed"
    /\ row[e].integrity = "Failed" => row'[e].integrity = "Failed"

LEMMA UpdatedRowKept ==
  ASSUME Typed, NEW e \in Events, HasRow(e),
         NEW f \in Events, NEW d \in Decisions, NEW p \in Persistence,
         row' = [row EXCEPT ![f] = UpdateLifecycle(@, d, p)]
  PROVE  RowKept(e)
  <1>1. row[e] \in Rows /\ row \in [Events -> Rows \cup {NoRow}]
    BY DEF Typed, HasRow
  <1>2. row'[e] \in {row[e], UpdateLifecycle(row[e], d, p)}
    BY <1>1
  <1>3. /\ UpdateLifecycle(row[e], d, p) \in Rows
        /\ UpdateLifecycle(row[e], d, p).integrity = row[e].integrity
        /\ row[e].decision = "Confirmed" =>
               UpdateLifecycle(row[e], d, p).decision = "Confirmed"
    BY <1>1, UpdateLifecycleRow
  <1> QED
    BY <1>1, <1>2, <1>3 DEF RowKept

LEMMA RowsAreKept ==
  ASSUME RowsInv, [RecordsNext]_recordVars, NEW e \in Events, HasRow(e)
  PROVE  RowKept(e)
  <1> USE DEF RowsInv
  <1>0. row[e] \in Rows /\ row \in [Events -> Rows \cup {NoRow}]
    BY DEF Typed, HasRow
  <1>1. ASSUME row' = row PROVE RowKept(e)
    BY <1>0, <1>1 DEF RowKept
  <1>2. ASSUME NEW f \in Events, NEW s \in Sources, StartOrMerge(f, s) PROVE RowKept(e)
    <2> DEFINE outcomes == [outcome[f] EXCEPT ![s] = "Candidate"]
               sources  == mapped[f] \cup {s}
               decision == AggregateOf(outcomes, sources)
    <2>1. outcomes \in [Sources -> Decisions \cup {"absent"}] /\ sources \in SUBSET Sources
      BY DEF Typed, Decisions
    <2>2. decision \in Decisions /\ "Collecting" \in Persistence
      BY <2>1, AggregateIsDecision DEF Persistence
    <2>3. row' = [row EXCEPT ![f] =
             UpdateLifecycle(IF HasRow(f) THEN @ ELSE CollectingRow(decision),
                             decision, "Collecting")]
      BY <1>2 DEF StartOrMerge
    <2> HIDE DEF decision
    <2>4. CASE f = e
      <3>1. row' = [row EXCEPT ![e] = UpdateLifecycle(@, decision, "Collecting")]
        BY <2>3, <2>4
      <3> QED
        BY <2>2, <3>1, UpdatedRowKept
    <2>5. CASE f # e
      BY <1>0, <2>3, <2>5 DEF RowKept
    <2> QED
      BY <2>4, <2>5
  <1>3. ASSUME WriteDecision PROVE RowKept(e)
    <2> DEFINE f == applying.event
               decision == AggregateOf(outcome[f], mapped[f])
    <2>1. applying \in DecisionTasks
      BY <1>3 DEF WriteDecision, Typed
    <2>2. f \in Events /\ applying.persistence \in Persistence
      BY <2>1 DEF DecisionTasks
    <2>3. decision \in Decisions
      BY <2>2, AggregateIsDecision DEF Typed
    <2>4. row' = [row EXCEPT ![f] = UpdateLifecycle(@, decision, applying.persistence)]
      BY <1>3 DEF WriteDecision
    <2> HIDE DEF decision
    <2> QED
      BY <2>2, <2>3, <2>4, UpdatedRowKept
  <1>4. ASSUME NEW f \in Events,
               Freeze(f) \/ FreezeFails(f) \/ EncodingFails(f) \/ MarkQueued(f)
                   \/ SubmitRefused(f)
        PROVE  RowKept(e)
    <2>1. \E d \in Decisions, p \in Persistence :
              row' = [row EXCEPT ![f] = UpdateLifecycle(@, d, p)]
      <3>1. CASE Freeze(f)
        <4>1. row[f].decision \in Decisions /\ "Encoding" \in Persistence
          BY <3>1 DEF Freeze, Opened, Typed, HasRow, Rows, Persistence
        <4> QED
          BY <3>1, <4>1 DEF Freeze
      <3>2. CASE FreezeFails(f)
        BY <3>2 DEF FreezeFails, Decisions, Persistence
      <3>3. CASE EncodingFails(f)
        BY <3>3 DEF EncodingFails, Typed, Persistence
      <3>4. CASE MarkQueued(f)
        BY <3>4 DEF MarkQueued, Typed, Persistence
      <3>5. CASE SubmitRefused(f)
        BY <3>5 DEF SubmitRefused, Decisions, Terminal, Persistence
      <3> QED
        BY <1>4, <3>1, <3>2, <3>3, <3>4, <3>5
    <2> QED
      BY <2>1, UpdatedRowKept
  <1>5. ASSUME MarkWriting \/ RecordFailure PROVE RowKept(e)
    <2>1. writer \in WriterTasks
      BY <1>5 DEF MarkWriting, RecordFailure, Typed
    <2>2. /\ writer.event \in Events /\ writer.decision \in Decisions
          /\ "Rejected" \in Decisions /\ {"Writing", "Incomplete"} \subseteq Persistence
      BY <2>1 DEF WriterTasks, Decisions, Terminal, Persistence
    <2>3. \E d \in Decisions, p \in Persistence :
              row' = [row EXCEPT ![writer.event] = UpdateLifecycle(@, d, p)]
      BY <1>5, <2>2 DEF MarkWriting, RecordFailure
    <2> QED
      BY <2>2, <2>3, UpdatedRowKept
  <1>6. ASSUME row'[e] = IndexedRow(row[e], snapshot[e]) PROVE RowKept(e)
    <2>1. snapshot[e] \in Decisions /\ row[e] # NoRow
      BY <1>0, NoRowIsNoRow DEF Typed
    <2> QED
      BY <1>0, <1>6, <2>1, IndexedRowIsRow DEF RowKept
  <1>7. ASSUME CommitRow PROVE RowKept(e)
    <2>1. CASE writer.event = e
      BY <1>0, <1>6, <1>7, <2>1 DEF CommitRow
    <2>2. CASE writer.event # e
      BY <1>0, <1>7, <2>2 DEF CommitRow, RowKept
    <2> QED
      BY <2>1, <2>2
  <1>8. ASSUME NEW f \in Events, Inspect(f) PROVE RowKept(e)
    <2>1. f # e => row'[e] = row[e]
      BY <1>0, <1>8 DEF Inspect
    <2>2. CASE f = e
      <3>1. row[e].integrity # "Failed"
        BY <1>8, <2>2 DEF Inspect, ArtifactsAvailable
      <3>2. \/ row'[e] = [row[e] EXCEPT !.integrity = "Verified", !.storage = "Present"]
            \/ row'[e] = [row[e] EXCEPT !.integrity = "Failed", !.storage = "Damaged"]
        BY <1>0, <1>8, <2>2 DEF Inspect
      <3> QED
        BY <1>0, <3>1, <3>2 DEF RowKept, Rows
    <2> QED
      BY <1>0, <2>1, <2>2 DEF RowKept
  <1>9. ASSUME Reconcile PROVE RowKept(e)
    <2>1. row'[e] = ReconciledRow(e)
      BY <1>9 DEF Reconcile
    <2>2. CASE e \in Committed
      BY <1>6, <2>1, <2>2 DEF ReconciledRow
    <2>3. CASE e \notin Committed
      <3>1. \E storage \in {"Present", "Missing"} :
                row'[e] = [row[e] EXCEPT !.storage = storage]
        BY <2>1, <2>3 DEF ReconciledRow
      <3> QED
        BY <1>0, <3>1 DEF RowKept, Rows
    <2> QED
      BY <2>2, <2>3
  <1>10. ASSUME NEW indexed \in SUBSET Events, ReconcileFails(indexed) PROVE RowKept(e)
    <2>1. row'[e] \in {row[e], IndexedRow(row[e], snapshot[e])}
      BY <1>10 DEF ReconcileFails
    <2> QED
      BY <1>0, <1>6, <2>1 DEF RowKept
  <1>11. ASSUME NEW f \in Events, Submit(f) PROVE row' = row
    BY <1>11 DEF Submit, rowVars
  <1>12. ASSUME NEW f \in Events, NEW s \in Sources, NEW d \in Terminal,
                ReadForDecision(f, s, d)
         PROVE  row' = row
    BY <1>12 DEF ReadForDecision, rowVars
  <1>13. ASSUME NEW f \in Events, NEW contents \in Contents, Damage(f, contents)
         PROVE  row' = row
    BY <1>13 DEF Damage
  <1>14. ASSUME \/ TakeJob \/ WriteTransaction \/ Publish \/ PersistFails \/ Down \/ Boot
                \/ RecoverPending \/ UNCHANGED recordVars
         PROVE  row' = row
    BY <1>14 DEF TakeJob, WriteTransaction, Publish, PersistFails, Down, Boot,
                 RecoverPending, rowVars, recordVars
  <1> QED
    BY <1>1, <1>2, <1>3, <1>4, <1>5, <1>7, <1>8, <1>9, <1>10, <1>11, <1>12, <1>13, <1>14
       DEF RecordsNext, RunningNext, StartNext, EventThread, JpegThread, PersistenceThread

\* A confirmed row stays confirmed: late sources, stale snapshots, failed
\* writes and restarts cannot take the confirmation back.
THEOREM ConfirmationIsFinal == RecordsSpec => ConfirmedStays
  <1>1. RowsInv /\ [RecordsNext]_recordVars =>
            [\A e \in Events :
                HasRow(e) /\ row[e].decision = "Confirmed"
                    => HasRow(e)' /\ row'[e].decision = "Confirmed"]_recordVars
    <2> SUFFICES ASSUME RowsInv, [RecordsNext]_recordVars, NEW e \in Events,
                        HasRow(e), row[e].decision = "Confirmed"
                 PROVE  HasRow(e)' /\ row'[e].decision = "Confirmed"
      OBVIOUS
    <2>1. RowKept(e)
      BY RowsAreKept
    <2> QED
      BY <2>1, NoRowIsNoRow DEF RowKept, HasRow
  <1> QED
    BY <1>1, RowsInvAlways, PTL DEF RecordsSpec, ConfirmedStays

\* A confirmed outcome of a source has reached the row, unless the event
\* thread is just applying it or the row is sealed by a failed integrity check.
Reached(e, s) ==
    outcome[e][s] = "Confirmed" =>
        \/ applying # Nobody /\ applying.event = e /\ applying.source = s
        \/ HasRow(e) /\ (row[e].integrity = "Failed" \/ row[e].decision = "Confirmed")

ConfirmInv == \A e \in Events, s \in Sources : Reached(e, s)

LEMMA ConfirmInvStep ==
  RowsInv /\ ConfirmInv /\ [RecordsNext]_recordVars => ConfirmInv'
  <1> SUFFICES ASSUME RowsInv, ConfirmInv, [RecordsNext]_recordVars,
                      NEW e \in Events, NEW s \in Sources
               PROVE  Reached(e, s)'
    BY DEF ConfirmInv
  <1> USE DEF RowsInv
  <1>0. Reached(e, s)
    BY DEF ConfirmInv
  <1> DEFINE Settled == HasRow(e) /\ (row[e].integrity = "Failed" \/ row[e].decision = "Confirmed")
  <1>1. ASSUME Settled PROVE Reached(e, s)'
    <2>1. RowKept(e)
      BY <1>1, RowsAreKept
    <2> QED
      BY <1>1, <2>1, NoRowIsNoRow DEF RowKept, Reached, HasRow
  <1>2. ASSUME outcome' = outcome, applying' = applying PROVE Reached(e, s)'
    BY <1>0, <1>1, <1>2 DEF Reached
  <1>3. ASSUME NEW f \in Events, NEW t \in Sources, StartOrMerge(f, t) PROVE Reached(e, s)'
    <2>1. outcome'[e][s] \in {outcome[e][s], "Candidate"} /\ applying = Nobody
      BY <1>3 DEF StartOrMerge, EventThreadIdle, Typed
    <2> QED
      BY <1>0, <1>1, <2>1 DEF Reached
  <1>4. ASSUME NEW f \in Events, NEW t \in Sources, NEW d \in Terminal,
               ReadForDecision(f, t, d)
        PROVE  Reached(e, s)'
    <2>1. CASE f = e /\ t = s
      <3>1. row[e].persistence \in Persistence
        BY <1>4, <2>1 DEF ReadForDecision, Opened, Typed, HasRow, Rows
      <3>2. applying' = [event |-> e, source |-> s, persistence |-> row[e].persistence]
        BY <1>4, <2>1 DEF ReadForDecision
      <3>3. applying' # Nobody
        BY <3>2 DEF Nobody
      <3> QED
        BY <3>2, <3>3 DEF Reached
    <2>2. CASE f # e \/ t # s
      <3>1. outcome'[e][s] = outcome[e][s] /\ applying = Nobody
        BY <1>4, <2>2 DEF ReadForDecision, EventThreadIdle, Typed
      <3> QED
        BY <1>0, <1>1, <3>1 DEF Reached
    <2> QED
      BY <2>1, <2>2
  <1>5. ASSUME WriteDecision PROVE Reached(e, s)'
    <2>1. outcome' = outcome
      BY <1>5 DEF WriteDecision
    <2>2. CASE outcome[e][s] = "Confirmed" /\ applying.event = e /\ applying.source = s
      <3> DEFINE decision == AggregateOf(outcome[e], mapped[e])
      <3>1. s \in mapped[e] /\ mapped[e] \in SUBSET Sources
        BY <1>5, <2>2 DEF WriteDecision, Opened, Typed
      <3>2. decision = "Confirmed" /\ decision \in Decisions
        BY <2>2, <3>1, AggregateIsDecision DEF Typed
      <3>3. applying.persistence \in Persistence /\ row[e] \in Rows
        BY <1>5, <3>1 DEF WriteDecision, Typed, DecisionTasks, Opened, HasRow
      <3>4. row' = [row EXCEPT ![e] = UpdateLifecycle(@, decision, applying.persistence)]
        BY <1>5, <2>2 DEF WriteDecision
      <3> HIDE DEF decision
      <3>5. row'[e] = UpdateLifecycle(row[e], decision, applying.persistence)
        BY <3>4 DEF Typed
      <3>6. /\ row'[e] \in Rows
            /\ row'[e].integrity = "Failed" \/ row'[e].decision = "Confirmed"
        BY <3>2, <3>3, <3>5, UpdateLifecycleRow DEF Rows
      <3> QED
        BY <3>6, NoRowIsNoRow DEF Reached, HasRow
    <2>3. CASE ~(outcome[e][s] = "Confirmed" /\ applying.event = e /\ applying.source = s)
      BY <1>0, <1>1, <2>1, <2>3 DEF Reached
    <2> QED
      BY <2>2, <2>3
  <1>6. ASSUME Down PROVE Reached(e, s)'
    BY <1>6 DEF Down, Reached
  <1>7. ASSUME NEW f \in Events,
               Freeze(f) \/ FreezeFails(f) \/ JpegThread(f) \/ Inspect(f)
                   \/ \E contents \in Contents : Damage(f, contents)
        PROVE  outcome' = outcome /\ applying' = applying
    BY <1>7 DEF Freeze, FreezeFails, JpegThread, EncodingFails, MarkQueued, Submit,
                SubmitRefused, Inspect, Damage, runtimeVars
  <1>8. ASSUME PersistenceThread \/ StartNext \/ UNCHANGED recordVars
        PROVE  outcome' = outcome /\ applying' = applying
    BY <1>8 DEF PersistenceThread, TakeJob, MarkWriting, WriteTransaction, Publish,
                PersistFails, CommitRow, RecordFailure, JobOver, StartNext, Boot,
                RecoverPending, Reconcile, ReconcileFails, runtimeVars, recordVars
  <1> QED
    BY <1>2, <1>3, <1>4, <1>5, <1>6, <1>7, <1>8 DEF RecordsNext, RunningNext, EventThread

\* A source's confirmation that the event thread has applied is in the row.
THEOREM ConfirmationsReachRows == RecordsSpec => []ConfirmationReachesRow
  <1>1. RecordsInit => ConfirmInv
    BY DEF RecordsInit, ConfirmInv, Reached
  <1>2. ConfirmInv => ConfirmationReachesRow
    BY DEF ConfirmInv, Reached, ConfirmationReachesRow
  <1> QED
    BY <1>1, <1>2, RowsInvAlways, ConfirmInvStep, PTL DEF RecordsSpec

-----------------------------------------------------------------------------
(* Rows and directories *)

\* Who changes a directory.
LEMMA DirectoryWriters ==
  ASSUME [RecordsNext]_recordVars
  PROVE  \/ disk' = disk
         \/ (WriteTransaction \/ Publish \/ RecoverPending)
         \/ \E f \in Events, contents \in Contents : Damage(f, contents)
  <1>1. ASSUME EventThread \/ (\E f \in Events : JpegThread(f) \/ Inspect(f))
        PROVE  disk' = disk
    BY <1>1 DEF EventThread, StartOrMerge, ReadForDecision, WriteDecision, Freeze, FreezeFails,
                JpegThread, EncodingFails, MarkQueued, Submit, SubmitRefused, Inspect, rowVars
  <1>2. ASSUME TakeJob \/ MarkWriting \/ PersistFails \/ CommitRow \/ RecordFailure
        PROVE  disk' = disk
    BY <1>2 DEF TakeJob, MarkWriting, PersistFails, CommitRow, RecordFailure, rowVars
  <1>3. ASSUME \/ Down \/ Boot \/ Reconcile \/ UNCHANGED recordVars
               \/ \E indexed \in SUBSET Events : ReconcileFails(indexed)
        PROVE  disk' = disk
    BY <1>3 DEF Down, Boot, Reconcile, ReconcileFails, rowVars, recordVars
  <1> QED
    BY <1>1, <1>2, <1>3 DEF RecordsNext, RunningNext, StartNext, PersistenceThread

LEMMA DirectoriesStay ==
  ASSUME RowsInv, [RecordsNext]_recordVars, NEW e \in Events, disk[e].place = "committed"
  PROVE  disk'[e].place = "committed"
  <1> USE DEF RowsInv
  <1>0. disk \in [Events -> Disks] /\ disk[e] \in Disks
    BY DEF Typed
  <1>1. ASSUME disk' = disk PROVE disk'[e].place = "committed"
    BY <1>1
  <1>2. ASSUME WriteTransaction \/ Publish PROVE disk'[e].place = "committed"
    <2>1. writer \in WriterTasks /\ writer.event \in Events
      BY <1>2 DEF WriteTransaction, Publish, Typed, WriterTasks
    <2> QED
      BY <1>0, <1>2, <2>1 DEF WriteTransaction, Publish, Disks
  <1>3. ASSUME NEW f \in Events, NEW contents \in Contents, Damage(f, contents)
        PROVE  disk'[e].place = "committed"
    BY <1>0, <1>3 DEF Damage, Disks
  <1>4. ASSUME RecoverPending PROVE disk'[e].place = "committed"
    BY <1>0, <1>4 DEF RecoverPending, RecoveredPlace, Disks
  <1> QED
    BY <1>1, <1>2, <1>3, <1>4, DirectoryWriters

\* Committed is only written to a row whose directory is in place: what the
\* event thread has read, and what the persistence thread has published.
CommitInv ==
    /\ CommittedHasDirectory
    /\ \A e \in Events : stage[e] = "published" => disk[e].place = "committed"
    /\ applying # Nobody /\ applying.persistence = "Committed" =>
           disk[applying.event].place = "committed"

\* An update writes the state it is given or leaves the row alone.
LEMMA UpdatedRowCommitted ==
  ASSUME Typed, CommittedHasDirectory,
         NEW f \in Events, HasRow(f), NEW d \in Decisions, NEW p \in Persistence,
         row' = [row EXCEPT ![f] = UpdateLifecycle(@, d, p)],
         p = "Committed" => disk[f].place = "committed",
         NEW e \in Events, HasRow(e)', row'[e].persistence = "Committed"
  PROVE  disk[e].place = "committed"
  <1>1. CASE e # f
    BY <1>1 DEF Typed, HasRow, CommittedHasDirectory
  <1>2. CASE e = f
    <2>1. row[e] \in Rows /\ row'[e] = UpdateLifecycle(row[e], d, p)
      BY <1>2 DEF Typed, HasRow
    <2>2. row'[e].persistence \in {p, row[e].persistence}
      BY <2>1, UpdateLifecycleRow
    <2> QED
      BY <1>2, <2>2 DEF CommittedHasDirectory
  <1> QED
    BY <1>1, <1>2

LEMMA CommittedRowsStep ==
  ASSUME RowsInv, CommitInv, [RecordsNext]_recordVars,
         NEW e \in Events, HasRow(e)', row'[e].persistence = "Committed"
  PROVE  disk'[e].place = "committed"
  <1> USE DEF RowsInv
  <1>0. CommittedHasDirectory /\ row \in [Events -> Rows \cup {NoRow}]
    BY DEF CommitInv, Typed
  <1>1. SUFFICES disk[e].place = "committed" \/ disk'[e].place = "committed"
    BY DirectoriesStay
  <1>2. ASSUME row'[e] = row[e] PROVE disk[e].place = "committed"
    BY <1>0, <1>2 DEF CommittedHasDirectory, HasRow
  <1>3. ASSUME NEW f \in Events, NEW s \in Sources, StartOrMerge(f, s)
        PROVE  disk[e].place = "committed"
    <2> DEFINE outcomes == [outcome[f] EXCEPT ![s] = "Candidate"]
               sources  == mapped[f] \cup {s}
               decision == AggregateOf(outcomes, sources)
    <2>1. outcomes \in [Sources -> Decisions \cup {"absent"}] /\ sources \in SUBSET Sources
      BY DEF Typed, Decisions
    <2>2. decision \in Decisions /\ "Collecting" \in Persistence
      BY <2>1, AggregateIsDecision DEF Persistence
    <2>3. row' = [row EXCEPT ![f] =
             UpdateLifecycle(IF HasRow(f) THEN @ ELSE CollectingRow(decision),
                             decision, "Collecting")]
      BY <1>3 DEF StartOrMerge
    <2> HIDE DEF decision
    <2>4. CASE HasRow(f)
      <3>1. row' = [row EXCEPT ![f] = UpdateLifecycle(@, decision, "Collecting")]
        BY <2>3, <2>4
      <3> QED
        BY <1>0, <2>2, <2>4, <3>1, UpdatedRowCommitted
    <2>5. CASE ~HasRow(f) /\ f = e
      <3>1. row'[e] = UpdateLifecycle(CollectingRow(decision), decision, "Collecting")
        BY <1>0, <2>3, <2>5
      <3>2. row'[e].persistence = "Collecting"
        BY <2>2, <3>1, CollectingRowIsRow, UpdateLifecycleRow
      <3> QED
        BY <3>2
    <2>6. CASE f # e
      BY <1>0, <1>2, <2>3, <2>6
    <2> QED
      BY <2>4, <2>5, <2>6
  <1>4. ASSUME WriteDecision PROVE disk[e].place = "committed"
    <2> DEFINE f == applying.event
               decision == AggregateOf(outcome[f], mapped[f])
    <2>1. applying \in DecisionTasks /\ applying # Nobody
      BY <1>4 DEF WriteDecision, Typed
    <2>2. f \in Events /\ applying.persistence \in Persistence /\ HasRow(f)
      BY <2>1 DEF DecisionTasks, Opened
    <2>3. decision \in Decisions
      BY <2>2, AggregateIsDecision DEF Typed
    <2>4. row' = [row EXCEPT ![f] = UpdateLifecycle(@, decision, applying.persistence)]
      BY <1>4 DEF WriteDecision
    <2>5. applying.persistence = "Committed" => disk[f].place = "committed"
      BY <2>1 DEF CommitInv
    <2> HIDE DEF decision
    <2> QED
      BY <1>0, <2>2, <2>3, <2>4, <2>5, UpdatedRowCommitted
  <1>5. ASSUME NEW f \in Events,
               Freeze(f) \/ FreezeFails(f) \/ EncodingFails(f) \/ MarkQueued(f)
                   \/ SubmitRefused(f)
        PROVE  disk[e].place = "committed"
    <2>1. HasRow(f)
      BY <1>5 DEF Freeze, FreezeFails, EncodingFails, MarkQueued, SubmitRefused, Opened
    <2>2. \E d \in Decisions, p \in Persistence \ {"Committed"} :
              row' = [row EXCEPT ![f] = UpdateLifecycle(@, d, p)]
      <3>1. CASE Freeze(f)
        <4>1. row[f].decision \in Decisions /\ "Encoding" \in Persistence \ {"Committed"}
          BY <2>1 DEF Typed, HasRow, Rows, Persistence
        <4> QED
          BY <3>1, <4>1 DEF Freeze
      <3>2. CASE FreezeFails(f)
        BY <3>2 DEF FreezeFails, Decisions, Persistence
      <3>3. CASE EncodingFails(f)
        BY <3>3 DEF EncodingFails, Typed, Persistence
      <3>4. CASE MarkQueued(f)
        BY <3>4 DEF MarkQueued, Typed, Persistence
      <3>5. CASE SubmitRefused(f)
        BY <3>5 DEF SubmitRefused, Decisions, Terminal, Persistence
      <3> QED
        BY <1>5, <3>1, <3>2, <3>3, <3>4, <3>5
    <2> QED
      BY <1>0, <2>1, <2>2, UpdatedRowCommitted
  <1>6. ASSUME MarkWriting \/ RecordFailure PROVE disk[e].place = "committed"
    <2>1. writer \in WriterTasks
      BY <1>6 DEF MarkWriting, RecordFailure, Typed
    <2>2. /\ writer.event \in Events /\ writer.decision \in Decisions
          /\ "Rejected" \in Decisions
          /\ {"Writing", "Incomplete"} \subseteq Persistence \ {"Committed"}
      BY <2>1 DEF WriterTasks, Decisions, Terminal, Persistence
    <2>3. HasRow(writer.event)
      BY <1>6, <2>2 DEF MarkWriting, RecordFailure, Opened
    <2>4. PICK f \in Events, d \in Decisions, p \in Persistence \ {"Committed"} :
              HasRow(f) /\ row' = [row EXCEPT ![f] = UpdateLifecycle(@, d, p)]
      BY <1>6, <2>2, <2>3 DEF MarkWriting, RecordFailure
    <2> QED
      BY <1>0, <2>4, UpdatedRowCommitted
  <1>7. ASSUME CommitRow PROVE disk[e].place = "committed"
    <2>1. CASE writer.event = e
      BY <1>7, <2>1 DEF CommitRow, CommitInv
    <2>2. CASE writer.event # e
      BY <1>0, <1>2, <1>7, <2>2 DEF CommitRow
    <2> QED
      BY <2>1, <2>2
  <1>8. ASSUME NEW f \in Events, Inspect(f) PROVE disk[e].place = "committed"
    <2>1. CASE f = e
      BY <1>0, <1>8, <2>1 DEF Inspect, ArtifactsAvailable, CommittedHasDirectory
    <2>2. CASE f # e
      BY <1>0, <1>2, <1>8, <2>2 DEF Inspect
    <2> QED
      BY <2>1, <2>2
  <1>9. ASSUME Reconcile PROVE disk[e].place = "committed"
    <2>1. row'[e] = ReconciledRow(e)
      BY <1>9 DEF Reconcile
    <2>2. CASE e \in Committed
      BY <2>2 DEF Committed
    <2>3. CASE e \notin Committed
      <3>1. HasRow(e)
        BY <2>1, <2>3 DEF ReconciledRow, HasRow
      <3>2. row[e] \in Rows /\ \E storage \in {"Present", "Missing"} :
                row'[e] = [row[e] EXCEPT !.storage = storage]
        BY <1>0, <2>1, <2>3, <3>1 DEF ReconciledRow, HasRow
      <3>3. row'[e].persistence = row[e].persistence
        BY <3>2 DEF Rows
      <3> QED
        BY <1>0, <3>1, <3>3 DEF CommittedHasDirectory
    <2> QED
      BY <2>2, <2>3
  <1>10. ASSUME NEW indexed \in SUBSET Events, ReconcileFails(indexed)
         PROVE  disk[e].place = "committed"
    <2>1. CASE e \in indexed
      BY <1>10, <2>1 DEF ReconcileFails, Committed
    <2>2. CASE e \notin indexed
      BY <1>2, <1>10, <2>2 DEF ReconcileFails
    <2> QED
      BY <2>1, <2>2
  <1>11. ASSUME NEW f \in Events, Submit(f) PROVE row'[e] = row[e]
    BY <1>11 DEF Submit, rowVars
  <1>12. ASSUME NEW f \in Events, NEW s \in Sources, NEW d \in Terminal,
                ReadForDecision(f, s, d)
         PROVE  row'[e] = row[e]
    BY <1>12 DEF ReadForDecision, rowVars
  <1>13. ASSUME NEW f \in Events, NEW contents \in Contents, Damage(f, contents)
         PROVE  row'[e] = row[e]
    BY <1>13 DEF Damage
  <1>14. ASSUME \/ TakeJob \/ WriteTransaction \/ Publish \/ PersistFails \/ Down \/ Boot
                \/ RecoverPending \/ UNCHANGED recordVars
         PROVE  row'[e] = row[e]
    BY <1>14 DEF TakeJob, WriteTransaction, Publish, PersistFails, Down, Boot,
                 RecoverPending, rowVars, recordVars
  <1> QED
    BY <1>2, <1>3, <1>4, <1>5, <1>6, <1>7, <1>8, <1>9, <1>10, <1>11, <1>12, <1>13, <1>14
       DEF RecordsNext, RunningNext, StartNext, EventThread, JpegThread, PersistenceThread

LEMMA CommitInvStep ==
  RowsInv /\ CommitInv /\ [RecordsNext]_recordVars => CommitInv'
  <1> SUFFICES ASSUME RowsInv, CommitInv, [RecordsNext]_recordVars PROVE CommitInv'
    OBVIOUS
  <1> USE DEF RowsInv
  <1>1. CommittedHasDirectory'
    BY CommittedRowsStep DEF CommittedHasDirectory
  <1>2. ASSUME NEW e \in Events, stage'[e] = "published" PROVE disk'[e].place = "committed"
    <2>1. SUFFICES stage[e] = "published" \/ disk'[e].place = "committed"
      BY DirectoriesStay DEF CommitInv
    <2>2. CASE Publish
      <3>1. writer \in WriterTasks /\ writer.event \in Events
        BY <2>2 DEF Publish, Typed, WriterTasks
      <3>2. stage[e] # "published" => e = writer.event
        BY <1>2, <2>2 DEF Publish, Typed
      <3> QED
        BY <2>2, <3>1, <3>2 DEF Publish, Typed, Disks
    <2>3. CASE ~Publish
      <3>1. ASSUME EventThread PROVE stage[e] = "published"
        BY <1>2, <3>1 DEF EventThread, StartOrMerge, ReadForDecision, WriteDecision, Freeze,
                          FreezeFails, Typed
      <3>2. ASSUME NEW f \in Events, JpegThread(f) PROVE stage[e] = "published"
        BY <1>2, <3>2 DEF JpegThread, EncodingFails, MarkQueued, Submit, SubmitRefused, Typed
      <3>3. ASSUME PersistenceThread PROVE stage[e] = "published"
        BY <1>2, <2>3, <3>3 DEF PersistenceThread, TakeJob, MarkWriting, WriteTransaction,
                   PersistFails, CommitRow, RecordFailure, JobOver, runtimeVars, Typed
      <3>4. ASSUME NEW f \in Events, Inspect(f) \/ \E contents \in Contents : Damage(f, contents)
            PROVE  stage[e] = "published"
        BY <1>2, <3>4 DEF Inspect, Damage, runtimeVars
      <3>5. ASSUME Down PROVE stage[e] = "published"
        BY <1>2, <3>5 DEF Down
      <3>6. ASSUME StartNext \/ UNCHANGED recordVars PROVE stage[e] = "published"
        BY <1>2, <3>6 DEF StartNext, Boot, RecoverPending, Reconcile, ReconcileFails,
                          runtimeVars, recordVars
      <3> QED
        BY <3>1, <3>2, <3>3, <3>4, <3>5, <3>6 DEF RecordsNext, RunningNext
    <2> QED
      BY <2>2, <2>3
  <1>3. ASSUME applying' # Nobody, applying'.persistence = "Committed"
        PROVE  disk'[applying'.event].place = "committed"
    <2>1. ASSUME applying' = applying PROVE disk'[applying'.event].place = "committed"
      <3>1. applying \in DecisionTasks /\ applying.event \in Events
        BY <1>3, <2>1 DEF Typed, DecisionTasks
      <3>2. disk[applying.event].place = "committed"
        BY <1>3, <2>1 DEF CommitInv
      <3> QED
        BY <2>1, <3>1, <3>2, DirectoriesStay
    <2>2. ASSUME NEW e \in Events, NEW s \in Sources, NEW d \in Terminal,
                 ReadForDecision(e, s, d)
          PROVE  disk'[applying'.event].place = "committed"
      <3>1. /\ applying' = [event |-> e, source |-> s, persistence |-> row[e].persistence]
            /\ HasRow(e) /\ disk' = disk
        BY <2>2 DEF ReadForDecision, Opened, rowVars
      <3>2. disk[e].place = "committed"
        BY <1>3, <3>1 DEF CommitInv, CommittedHasDirectory
      <3> QED
        BY <3>1, <3>2
    <2>3. ASSUME WriteDecision \/ Down PROVE applying' = Nobody
      BY <2>3 DEF WriteDecision, Down
    <2>4. ASSUME NEW e \in Events, NEW s \in Sources, StartOrMerge(e, s)
          PROVE  applying' = applying
      BY <2>4 DEF StartOrMerge
    <2>5. ASSUME NEW e \in Events,
                 Freeze(e) \/ FreezeFails(e) \/ JpegThread(e) \/ Inspect(e)
                     \/ \E contents \in Contents : Damage(e, contents)
          PROVE  applying' = applying
      BY <2>5 DEF Freeze, FreezeFails, JpegThread, EncodingFails, MarkQueued, Submit,
                  SubmitRefused, Inspect, Damage, runtimeVars
    <2>6. ASSUME PersistenceThread \/ StartNext \/ UNCHANGED recordVars
          PROVE  applying' = applying
      BY <2>6 DEF PersistenceThread, TakeJob, MarkWriting, WriteTransaction, Publish,
                  PersistFails, CommitRow, RecordFailure, JobOver, StartNext, Boot,
                  RecoverPending, Reconcile, ReconcileFails, runtimeVars, recordVars
    <2> QED
      BY <1>3, <2>1, <2>2, <2>3, <2>4, <2>5, <2>6 DEF RecordsNext, RunningNext, EventThread
  <1> QED
    BY <1>1, <1>2, <1>3 DEF CommitInv

\* A Committed row always has its directory, also while threads, restarts and
\* damaged files interfere.
THEOREM CommittedRowsHaveDirectories == RecordsSpec => []CommittedHasDirectory
  <1>1. RecordsInit => CommitInv
    BY DEF RecordsInit, CommitInv, CommittedHasDirectory, HasRow
  <1>2. CommitInv => CommittedHasDirectory
    BY DEF CommitInv
  <1> QED
    BY <1>1, <1>2, RowsInvAlways, CommitInvStep, PTL DEF RecordsSpec

\* No step sets whole evidence aside.
THEOREM EvidenceIsKept == RecordsSpec => EvidenceSurvives
  <1>1. RowsInv /\ [RecordsNext]_recordVars =>
            [\A e \in Events :
                /\ disk[e].place \in {"complete", "committed"}
                /\ disk[e].content # "truncated"
                => disk'[e].place \in {"complete", "committed"}]_recordVars
    <2> SUFFICES ASSUME RowsInv, [RecordsNext]_recordVars, NEW e \in Events,
                        disk[e].place \in {"complete", "committed"},
                        disk[e].content # "truncated"
                 PROVE  disk'[e].place \in {"complete", "committed"}
      OBVIOUS
    <2> USE DEF RowsInv
    <2>0. disk \in [Events -> Disks] /\ disk[e] \in Disks
      BY DEF Typed
    <2>1. CASE WriteTransaction \/ Publish
      <3>1. writer \in WriterTasks /\ writer.event \in Events
        BY <2>1 DEF WriteTransaction, Publish, Typed, WriterTasks
      <3> QED
        BY <2>0, <2>1, <3>1 DEF WriteTransaction, Publish, Disks
    <2>2. CASE RecoverPending
      BY <2>0, <2>2 DEF RecoverPending, RecoveredPlace, Disks
    <2>3. ASSUME NEW f \in Events, NEW contents \in Contents, Damage(f, contents)
          PROVE  disk'[e].place \in {"complete", "committed"}
      BY <2>0, <2>3 DEF Damage, Disks
    <2> QED
      BY <2>1, <2>2, <2>3, DirectoryWriters
  <1> QED
    BY <1>1, RowsInvAlways, PTL DEF RecordsSpec, EvidenceSurvives

\* Between the recovery and the reconciliation no transaction is open.
RecoveredInv ==
    service = "recovered" => \A e \in Events : disk[e].place \notin {"partial", "complete"}

LEMMA RecoveredInvStep ==
  RowsInv /\ RecoveredInv /\ [RecordsNext]_recordVars => RecoveredInv'
  <1> SUFFICES ASSUME RowsInv, RecoveredInv, [RecordsNext]_recordVars,
                      service' = "recovered", NEW e \in Events
               PROVE  disk'[e].place \notin {"partial", "complete"}
    BY DEF RecoveredInv
  <1> USE DEF RowsInv
  <1>0. disk \in [Events -> Disks] /\ disk[e] \in Disks
    BY DEF Typed
  <1>1. CASE RecoverPending
    BY <1>0, <1>1 DEF RecoverPending, RecoveredPlace, Disks
  <1>2. CASE service = "recovered" /\ ~RecoverPending
    <2>1. disk' = disk \/ \E f \in Events, contents \in Contents : Damage(f, contents)
      BY <1>2, DirectoryWriters DEF WriteTransaction, Publish, Running
    <2>2. ASSUME NEW f \in Events, NEW contents \in Contents, Damage(f, contents)
          PROVE  disk'[e].place = disk[e].place
      BY <1>0, <2>2 DEF Damage, Disks
    <2> QED
      BY <1>2, <2>1, <2>2 DEF RecoveredInv
  <1>3. CASE service # "recovered" /\ ~RecoverPending
    <2>1. ASSUME RunningNext PROVE service' = service
      <3>1. ASSUME EventThread PROVE service' = service
        BY <3>1 DEF EventThread, StartOrMerge, ReadForDecision, WriteDecision, Freeze,
                    FreezeFails, processVars
      <3>2. ASSUME NEW f \in Events, JpegThread(f) PROVE service' = service
        BY <3>2 DEF JpegThread, EncodingFails, MarkQueued, Submit, SubmitRefused, processVars
      <3>3. ASSUME PersistenceThread PROVE service' = service
        BY <3>3 DEF PersistenceThread, TakeJob, MarkWriting, WriteTransaction, Publish,
                    PersistFails, CommitRow, RecordFailure, processVars
      <3>4. ASSUME NEW f \in Events, Inspect(f) \/ \E contents \in Contents : Damage(f, contents)
            PROVE  service' = service
        BY <3>4 DEF Inspect, Damage, processVars
      <3> QED
        BY <2>1, <3>1, <3>2, <3>3, <3>4 DEF RunningNext
    <2> QED
      BY <1>3, <2>1 DEF RecordsNext, StartNext, Down, Boot, Reconcile, ReconcileFails, recordVars
  <1> QED
    BY <1>1, <1>2, <1>3

\* A start that succeeds has no transaction left open, finds every committed
\* directory through its row and marks the rows whose directory is gone.
THEOREM RestartFindsEvidence == RecordsSpec => RestartIndexes
  <1> DEFINE Found(e) ==
                 /\ disk'[e].place \notin {"partial", "complete"}
                 /\ disk'[e].place = "committed" =>
                        /\ HasRow(e)'
                        /\ row'[e].persistence = "Committed"
                        /\ row'[e].storage = "Present"
                 /\ HasRow(e)' /\ row'[e].directory /\ disk'[e].place # "committed" =>
                        row'[e].storage = "Missing"
  <1>1. RowsInv /\ RecoveredInv /\ [RecordsNext]_recordVars =>
            [service # "running" /\ service' = "running" =>
                \A e \in Events : Found(e)]_recordVars
    <2> SUFFICES ASSUME RowsInv, RecoveredInv, [RecordsNext]_recordVars,
                        service # "running", service' = "running", NEW e \in Events
                 PROVE  Found(e)
      OBVIOUS
    <2> USE DEF RowsInv
    <2>1. Reconcile
      <3>1. ASSUME RunningNext PROVE service' = service
        <4>1. ASSUME EventThread PROVE FALSE
          BY <4>1 DEF EventThread, StartOrMerge, ReadForDecision, WriteDecision, Freeze,
                      FreezeFails, EventThreadIdle, Running
        <4>2. ASSUME NEW f \in Events, JpegThread(f) \/ Inspect(f) PROVE FALSE
          BY <4>2 DEF JpegThread, EncodingFails, MarkQueued, Submit, SubmitRefused, Inspect,
                      Running
        <4>3. ASSUME PersistenceThread PROVE FALSE
          BY <4>3 DEF PersistenceThread, TakeJob, MarkWriting, WriteTransaction, Publish,
                      PersistFails, CommitRow, RecordFailure, Running
        <4>4. ASSUME NEW f \in Events, NEW contents \in Contents, Damage(f, contents)
              PROVE  service' = service
          BY <4>4 DEF Damage, processVars
        <4> QED
          BY <3>1, <4>1, <4>2, <4>3, <4>4 DEF RunningNext
      <3> QED
        BY <3>1 DEF RecordsNext, StartNext, Down, Boot, RecoverPending, ReconcileFails, recordVars
    <2>2. /\ disk' = disk /\ row'[e] = ReconciledRow(e)
          /\ disk[e].place \notin {"partial", "complete"}
      BY <2>1 DEF Reconcile, RecoveredInv
    <2>3. CASE e \in Committed
      <3>1. row'[e] = IndexedRow(row[e], snapshot[e])
        BY <2>2, <2>3 DEF ReconciledRow
      <3>2. /\ row'[e] \in Rows /\ row'[e].persistence = "Committed"
            /\ row'[e].storage = "Present"
        <4>1. row[e] \in Rows \cup {NoRow} /\ snapshot[e] \in Decisions
          BY DEF Typed
        <4> QED
          BY <3>1, <4>1, IndexedRowIsRow
      <3>3. HasRow(e)'
        BY <3>2, NoRowIsNoRow DEF HasRow
      <3>4. disk'[e].place = "committed"
        BY <2>2, <2>3 DEF Committed
      <3> QED
        BY <3>2, <3>3, <3>4
    <2>4. CASE e \notin Committed
      <3>1. disk'[e].place # "committed"
        BY <2>2, <2>4 DEF Committed
      <3>2. ASSUME HasRow(e)', row'[e].directory PROVE row'[e].storage = "Missing"
        <4>1. HasRow(e) /\ row[e] \in Rows
          BY <2>2, <2>4, <3>2 DEF ReconciledRow, HasRow, Typed
        <4>2. row'[e] = [row[e] EXCEPT !.storage =
                             IF DirectoryExists(e) THEN "Present" ELSE "Missing"]
          BY <2>2, <2>4, <4>1 DEF ReconciledRow
        <4>3. row[e].directory
          BY <3>2, <4>1, <4>2 DEF Rows
        <4>4. ~DirectoryExists(e)
          BY <2>2, <3>1, <4>3 DEF DirectoryExists
        <4> QED
          BY <4>1, <4>2, <4>4 DEF Rows
      <3> QED
        BY <2>2, <3>1, <3>2
    <2> QED
      BY <2>3, <2>4
  <1>2. RecordsInit => RecoveredInv
    BY DEF RecordsInit, RecoveredInv
  <1>3. RecordsSpec => []RecoveredInv
    BY <1>2, RowsInvAlways, RecoveredInvStep, PTL DEF RecordsSpec
  <1> QED
    BY <1>1, <1>3, RowsInvAlways, PTL DEF RecordsSpec, RestartIndexes

-----------------------------------------------------------------------------
(* The checks of a committed event *)

EventRows ==
    [committed : BOOLEAN, integrity : {"Unverified", "Verified", "Failed"},
     storage : {"Collecting", "Present", "Damaged", "Missing"}, artifacts : BOOLEAN,
     upload : {"NotQueued", "Pending", "Uploaded", "ManualIntervention"}]

Checks ==
    [kind : Kinds \cup {"none"}, step : {"none", "manifest", "files", "failed"},
     unread : Seq(EventFiles)]

InspectionTypes ==
    /\ record \in EventRows
    /\ content \in [EventFiles -> {"whole", "altered", "cut"}]
    /\ reading \in [Readers -> Checks]

\* Until something gives a check cause to fail, the event is whole, it stays
\* where a row with artifacts announces it, and whoever reads it finds it there.
Blameless ==
    /\ record.integrity # "Failed"
    /\ \A f \in EventFiles : content[f] = "whole"
    /\ retention = "Active"
    /\ place \in {"staging", "committed"}
    /\ record.artifacts => place = "committed"
    /\ \A r \in Readers : /\ reading[r].step # "failed"
                          /\ reading[r].step \in {"manifest", "files"} => place = "committed"

InspectionInv == InspectionTypes /\ (~suspected => Blameless)

LEMMA CheckParts ==
    /\ Thumbnail \in EventFiles
    /\ NoCheck \in Checks /\ NoCheck.step = "none"
    /\ \A kind \in Kinds : Unread(kind) \in Seq(EventFiles)
    /\ \A kind \in Kinds, step \in {"none", "manifest", "files", "failed"}, unread \in Seq(EventFiles) :
            [kind |-> kind, step |-> step, unread |-> unread] \in Checks
    /\ \A kind \in Kinds \cup {"none"} : AfterFailure(kind) \in Checks
    /\ \A kind : AfterFailure(kind).step \in {"none", "failed"}
<1>1. Thumbnail \in EventFiles
  BY InspectionAssumption DEF EventFiles
<1>2. <<>> \in Seq(EventFiles) /\ <<Thumbnail>> \in Seq(EventFiles)
  BY <1>1
<1>3. NoCheck \in Checks /\ NoCheck.step = "none"
  BY <1>2 DEF NoCheck, Checks
<1>4. [f \in EventFiles |-> f] \in Seq(EventFiles)
  BY InspectionAssumption DEF EventFiles
<1>5. \A kind \in Kinds : Unread(kind) \in Seq(EventFiles)
  BY <1>2, <1>4 DEF Unread, Kinds
<1>6. \A kind \in Kinds, step \in {"none", "manifest", "files", "failed"}, unread \in Seq(EventFiles) :
            [kind |-> kind, step |-> step, unread |-> unread] \in Checks
  BY DEF Checks
<1>7. \A kind \in Kinds \cup {"none"} : AfterFailure(kind) \in Checks
  BY <1>2, <1>3 DEF AfterFailure, Checks
<1>8. \A kind : AfterFailure(kind).step \in {"none", "failed"}
  BY <1>3 DEF AfterFailure
<1>9. QED BY <1>1, <1>3, <1>5, <1>6, <1>7, <1>8

LEMMA InitInspectionInv == InspectionInit => InspectionInv
<1> SUFFICES ASSUME InspectionInit PROVE InspectionInv
  OBVIOUS
<1>1. record \in EventRows /\ record.integrity = "Unverified" /\ ~record.artifacts
  BY DEF InspectionInit, EventRows
<1>2. content \in [EventFiles -> {"whole", "altered", "cut"}] /\ \A f \in EventFiles : content[f] = "whole"
  BY DEF InspectionInit
<1>3. reading \in [Readers -> Checks] /\ \A r \in Readers : reading[r].step = "none"
  BY CheckParts DEF InspectionInit
<1>4. retention = "Active" /\ place = "staging"
  BY DEF InspectionInit
<1>5. QED BY <1>1, <1>2, <1>3, <1>4 DEF InspectionInv, InspectionTypes, Blameless

\* A step of one reader that leaves the event as it is.
LEMMA ReaderKeepsInspectionInv ==
    ASSUME InspectionInv, NEW r \in Readers, NEW check \in Checks,
           reading' = [reading EXCEPT ![r] = check],
           UNCHANGED <<place, content, retention, suspected>>, record' \in EventRows,
           record'.integrity # record.integrity => record'.integrity = "Verified",
           record'.artifacts => record.artifacts \/ place = "committed" \/ suspected,
           ~suspected => /\ check.step # "failed"
                         /\ check.step \in {"manifest", "files"} => place = "committed"
    PROVE  InspectionInv'
<1>1. InspectionTypes'
  BY DEF InspectionInv, InspectionTypes
<1>2. ASSUME ~suspected' PROVE Blameless'
  <2>1. ~suspected /\ Blameless /\ reading \in [Readers -> Checks]
    BY <1>2 DEF InspectionInv, InspectionTypes
  <2>2. \A s \in Readers : reading'[s] = IF s = r THEN check ELSE reading[s]
    BY <2>1
  <2>3. QED BY <2>1, <2>2 DEF Blameless
<1>3. QED BY <1>1, <1>2 DEF InspectionInv

LEMMA NextInspectionInv == InspectionInv /\ [InspectionNext]_inspectionVars => InspectionInv'
<1> SUFFICES ASSUME InspectionInv, [InspectionNext]_inspectionVars PROVE InspectionInv'
  OBVIOUS
<1>0. /\ record \in EventRows /\ content \in [EventFiles -> {"whole", "altered", "cut"}]
      /\ reading \in [Readers -> Checks]
  BY DEF InspectionInv, InspectionTypes
<1>1. ASSUME NEW r \in Readers, CheckNext(r)
      PROVE  InspectionInv'
  <2>0. /\ reading[r] \in Checks /\ reading[r].kind \in Kinds \cup {"none"}
        /\ reading[r].unread \in Seq(EventFiles)
    BY <1>0 DEF Checks
  <2>1. ASSUME NEW kind \in Kinds, BeginCheck(r, kind)
        PROVE  InspectionInv'
    <3> DEFINE check == [kind |-> kind, step |-> IF kind = "upload" THEN "files" ELSE "manifest",
                         unread |-> Unread(kind)]
    <3>1. check \in Checks /\ check.step \in {"manifest", "files"}
      BY CheckParts
    <3>2. /\ reading' = [reading EXCEPT ![r] = check] /\ record.artifacts
          /\ UNCHANGED <<record, place, content, retention, suspected>>
      BY <2>1 DEF BeginCheck, Available
    <3>3. ~suspected => place = "committed"
      BY <3>2 DEF InspectionInv, Blameless
    <3> HIDE DEF check
    <3>4. QED BY <1>0, <3>1, <3>2, <3>3, ReaderKeepsInspectionInv
  <2>2. CASE ReadManifest(r)
    <3>1. /\ reading[r].step = "manifest"
          /\ UNCHANGED <<record, place, content, retention, suspected>>
      BY <2>2 DEF ReadManifest
    <3>2. ~suspected => place = "committed" /\ ManifestVerifies
      BY <3>1 DEF InspectionInv, Blameless, ManifestVerifies
    <3>3. CASE ManifestVerifies
      <4>1. PICK check \in {NoCheck, [reading[r] EXCEPT !.step = "files"]} :
                reading' = [reading EXCEPT ![r] = check]
        BY <2>2, <3>3 DEF ReadManifest
      <4>2. /\ [reading[r] EXCEPT !.step = "files"] \in Checks
            /\ [reading[r] EXCEPT !.step = "files"].step = "files"
        BY <2>0 DEF Checks
      <4>3. check \in Checks /\ check.step \in {"none", "files"}
        BY <4>1, <4>2, CheckParts
      <4>4. QED BY <1>0, <3>1, <3>2, <4>1, <4>3, ReaderKeepsInspectionInv
    <3>4. CASE ~ManifestVerifies
      <4>1. reading' = [reading EXCEPT ![r] = AfterFailure(reading[r].kind)]
        BY <2>2, <3>4 DEF ReadManifest
      <4>2. AfterFailure(reading[r].kind) \in Checks
        BY <2>0, CheckParts
      <4>3. QED BY <1>0, <3>1, <3>2, <3>4, <4>1, <4>2, ReaderKeepsInspectionInv
    <3>5. QED BY <3>3, <3>4
  <2>3. CASE ReadFile(r)
    <3>1. /\ reading[r].step = "files" /\ reading[r].unread # <<>>
          /\ UNCHANGED <<record, place, content, retention, suspected>>
      BY <2>3 DEF ReadFile
    <3>2. Head(reading[r].unread) \in EventFiles /\ Tail(reading[r].unread) \in Seq(EventFiles)
      BY <2>0, <3>1
    <3>3. ~suspected => place = "committed" /\ Reads(Head(reading[r].unread))
      BY <3>1, <3>2 DEF InspectionInv, Blameless, Reads
    <3>4. CASE Reads(Head(reading[r].unread))
      <4> DEFINE check == [reading[r] EXCEPT !.unread = Tail(reading[r].unread)]
      <4>1. reading' = [reading EXCEPT ![r] = check]
        BY <2>3, <3>4 DEF ReadFile
      <4>2. check \in Checks /\ check.step = "files"
        BY <2>0, <3>1, <3>2 DEF Checks
      <4> HIDE DEF check
      <4>3. QED BY <1>0, <3>1, <3>3, <4>1, <4>2, ReaderKeepsInspectionInv
    <3>5. CASE ~Reads(Head(reading[r].unread))
      <4>1. reading' = [reading EXCEPT ![r] = AfterFailure(reading[r].kind)]
        BY <2>3, <3>5 DEF ReadFile
      <4>2. AfterFailure(reading[r].kind) \in Checks
        BY <2>0, CheckParts
      <4>3. QED BY <1>0, <3>1, <3>3, <3>5, <4>1, <4>2, ReaderKeepsInspectionInv
    <3>6. QED BY <3>4, <3>5
  <2>4. CASE ExportFails(r)
    <3>1. /\ suspected' = TRUE /\ reading' = [reading EXCEPT ![r] = AfterFailure("export")]
          /\ UNCHANGED <<record, content>>
      BY <2>4 DEF ExportFails
    <3>2. AfterFailure("export") \in Checks
      BY CheckParts DEF Kinds
    <3>3. QED BY <1>0, <3>1, <3>2 DEF InspectionInv, InspectionTypes
  <2>5. CASE Finish(r)
    <3>1. /\ reading' = [reading EXCEPT ![r] = NoCheck] /\ reading[r].step = "files"
          /\ UNCHANGED <<place, content, retention, suspected>>
      BY <2>5 DEF Finish
    <3>2. /\ record' \in EventRows
          /\ record'.integrity # record.integrity => record'.integrity = "Verified"
      BY <1>0, <2>5 DEF Finish, EventRows
    <3>3. ~suspected => place = "committed"
      BY <3>1 DEF InspectionInv, Blameless
    <3>4. QED BY <3>1, <3>2, <3>3, CheckParts, ReaderKeepsInspectionInv
  <2>6. CASE MarkFailed(r)
    <3>1. reading' = [reading EXCEPT ![r] = NoCheck] /\ suspected' = suspected /\ content' = content
      BY <2>6 DEF MarkFailed
    <3>2. record' \in EventRows
      BY <1>0, <2>6 DEF MarkFailed, EventRows
    <3>3. suspected
      BY <2>6 DEF MarkFailed, InspectionInv, Blameless
    <3>4. QED BY <1>0, <3>1, <3>2, <3>3, CheckParts DEF InspectionInv, InspectionTypes
  <2>7. QED BY <1>1, <2>1, <2>2, <2>3, <2>4, <2>5, <2>6 DEF CheckNext
<1>2. CASE CommitDirectory
  <2>1. place' = "committed" /\ UNCHANGED <<record, content, retention, reading, suspected>>
    BY <1>2 DEF CommitDirectory
  <2>2. QED BY <2>1 DEF InspectionInv, InspectionTypes, Blameless
<1>3. CASE WriteRow
  <2>1. place = "committed" /\ UNCHANGED <<place, content, retention, reading, suspected>>
    BY <1>3 DEF WriteRow
  <2>2. record' \in EventRows /\ record'.integrity = record.integrity
    BY <1>0, <1>3 DEF WriteRow, Indexed, EventRows
  <2>3. QED BY <2>1, <2>2 DEF InspectionInv, InspectionTypes, Blameless
<1>4. CASE ClaimDeletion
  <2>1. suspected' = TRUE /\ UNCHANGED <<record, content, reading>>
    BY <1>4 DEF ClaimDeletion
  <2>2. QED BY <2>1 DEF InspectionInv, InspectionTypes
<1>5. CASE MoveAside \/ CompleteDeletion
  <2>1. retention # "Active" /\ UNCHANGED <<content, reading, suspected>>
    BY <1>5 DEF MoveAside, CompleteDeletion
  <2>2. record' \in EventRows
    BY <1>0, <1>5 DEF MoveAside, CompleteDeletion, EventRows
  <2>3. QED BY <2>1, <2>2 DEF InspectionInv, InspectionTypes, Blameless
<1>6. ASSUME NEW f \in EventFiles, NEW how \in {"altered", "cut"}, DamageFile(f, how)
      PROVE  InspectionInv'
  <2>1. suspected' = TRUE /\ UNCHANGED <<record, reading>>
        /\ content' = [content EXCEPT ![f] = how]
    BY <1>6 DEF DamageFile
  <2>2. QED BY <1>0, <2>1 DEF InspectionInv, InspectionTypes
<1>7. CASE Restart
  <2>1. /\ reading' = [r \in Readers |-> NoCheck]
        /\ UNCHANGED <<place, content, retention, suspected>>
    BY <1>7 DEF Restart
  <2>2. \/ record' = Indexed(record) /\ place = "committed"
        \/ record' = [record EXCEPT !.storage = "Missing"]
        \/ record' = record
    BY <1>7 DEF Restart
  <2>3. /\ record' \in EventRows /\ record'.integrity = record.integrity
        /\ record'.artifacts = record.artifacts \/ place = "committed"
    BY <1>0, <2>2 DEF Indexed, EventRows
  <2>4. reading' \in [Readers -> Checks] /\ \A r \in Readers : reading'[r].step = "none"
    BY <2>1, CheckParts
  <2>5. QED BY <2>1, <2>3, <2>4 DEF InspectionInv, InspectionTypes, Blameless
<1>8. CASE UNCHANGED inspectionVars
  BY <1>8 DEF inspectionVars, InspectionInv, InspectionTypes, Blameless
<1>9. QED
  BY <1>1, <1>2, <1>3, <1>4, <1>5, <1>6, <1>7, <1>8 DEF InspectionNext

\* A check never marks an event failed, nor gives up its uploads, without a
\* damaged file, a failed export or a claim for its deletion, however the
\* checks overlap its commit, its upload and restarts.
THEOREM FailedHasCauseAlways == InspectionSpec => []FailedHasCause
<1>1. InspectionInv => FailedHasCause
  BY DEF InspectionInv, Blameless, FailedHasCause
<1>2. QED BY InitInspectionInv, NextInspectionInv, <1>1, PTL DEF InspectionSpec

-----------------------------------------------------------------------------
(* The detector and the slow drift of its background. *)

LEMMA Grows ==
    ASSUME NEW a \in Int, NEW b \in Int, NEW c \in Nat, a <= b
    PROVE  c * a <= c * b
<1>1. c * (b - a) >= 0
  OBVIOUS
<1>2. c * (b - a) = c * b - c * a
  OBVIOUS
<1> QED BY <1>1, <1>2

LEMMA DivisionBound ==
    ASSUME NEW a \in Nat, NEW b \in Nat \ {0}
    PROVE  a \div b \in Nat /\ a < b * (a \div b + 1)
OBVIOUS

LEMMA LearnedKeepsUpFrom ==
    ASSUME NEW p \in Nat \ {0}, NEW s \in 1 .. p, NEW d \in Int, NEW e \in Int, NEW lag \in Nat,
           p < 2 * s * (lag + 1), d <= lag + 1, 2 * (p * e - (p - s) * d) <= p
    PROVE  e <= lag
<1> SUFFICES ASSUME e >= lag + 1 PROVE FALSE
  OBVIOUS
<1>1. p * (lag + 1) <= p * e
  BY Grows
<1>2. p - s \in Nat /\ (p - s) * d <= (p - s) * (lag + 1)
  BY Grows
<1>3. (p - s) * (lag + 1) = p * (lag + 1) - s * (lag + 1)
  OBVIOUS
<1>4. PICK x \in Int : x = p * e
  OBVIOUS
<1>5. PICK y \in Int : y = (p - s) * d
  OBVIOUS
<1>6. PICK z \in Int : z = s * (lag + 1)
  OBVIOUS
<1>7. PICK w \in Int : w = p * (lag + 1)
  OBVIOUS
<1>8. w <= x /\ y <= w - z
  BY <1>1, <1>2, <1>3, <1>4, <1>5, <1>6, <1>7
<1>9. 2 * s * (lag + 1) = 2 * z
  BY <1>6
<1>10. 2 * (x - y) <= p /\ p < 2 * z
  BY <1>4, <1>5, <1>9
<1> QED BY <1>8, <1>10

\* What is learned keeps up with a level that moves by one.
LEMMA LearnedKeepsUp ==
    ASSUME NEW c, c.share \in 1 .. Parts,
           NEW level \in Levels, NEW from \in Levels, NEW n \in Levels,
           Distance(from, level) <= Lag(c) + 1,
           2 * Distance(Parts * n, c.share * level + (Parts - c.share) * from) <= Parts
    PROVE  Distance(n, level) <= Lag(c)
<1>1. PICK s \in 1 .. Parts : s = c.share
  OBVIOUS
<1>2. PICK p \in Nat \ {0} : p = Parts
  BY DetectionAssumption
<1>3. 2 * s \in Nat \ {0}
  BY <1>1, <1>2
<1>4. PICK lag \in Nat : lag = Lag(c) /\ p < (2 * s) * (lag + 1)
  BY <1>1, <1>2, <1>3, DivisionBound DEF Lag
<1>5. level \in Int /\ from \in Int /\ n \in Int
  BY DetectionAssumption DEF Levels
<1>6. PICK d \in Int : d = from - level
  BY <1>5
<1>7. PICK e \in Int : e = n - level
  BY <1>5
<1>8. d <= lag + 1 /\ -d <= lag + 1
  BY <1>4, <1>5, <1>6 DEF Distance
<1>9. p * n - (s * level + (p - s) * from) = p * e - (p - s) * d
  BY <1>2, <1>5, <1>6, <1>7
<1>10. PICK x \in Int : x = p * n
  BY <1>5
<1>11. PICK y \in Int : y = s * level + (p - s) * from
  BY <1>2, <1>5
<1>12. 2 * (x - y) <= p /\ 2 * (y - x) <= p
  BY <1>1, <1>2, <1>10, <1>11 DEF Distance
<1>13. 2 * (p * e - (p - s) * d) <= p
  BY <1>9, <1>10, <1>11, <1>12
<1>14. p * (-e) - (p - s) * (-d) = -(p * e - (p - s) * d)
  BY <1>2
<1>15. 2 * (p * (-e) - (p - s) * (-d)) <= p
  BY <1>9, <1>10, <1>11, <1>12, <1>14
<1>16. 2 * s * (lag + 1) = (2 * s) * (lag + 1) /\ s \in 1 .. p
  BY <1>2
<1>17. e <= lag
  BY <1>4, <1>8, <1>13, <1>16, LearnedKeepsUpFrom
<1>18. -e <= lag
  BY <1>4, <1>8, <1>15, <1>16, LearnedKeepsUpFrom
<1> QED BY <1>4, <1>5, <1>7, <1>17, <1>18 DEF Distance

\* A level that is the background's stays it.
LEMMA LearnedOfItself ==
    ASSUME NEW c, c.share \in 0 .. Parts, NEW level \in Levels, NEW n \in Levels,
           2 * Distance(Parts * n, c.share * level + (Parts - c.share) * level) <= Parts
    PROVE  n = level
<1>1. PICK s \in 0 .. Parts : s = c.share
  OBVIOUS
<1>2. PICK p \in Nat \ {0} : p = Parts
  BY DetectionAssumption
<1>3. level \in Int /\ n \in Int
  BY DetectionAssumption DEF Levels
<1>4. s * level + (p - s) * level = p * level
  BY <1>2, <1>3
<1>5. 2 * Distance(p * n, p * level) <= p
  BY <1>1, <1>2, <1>4
<1>6. CASE n > level
  <2>1. p * (level + 1) <= p * n
    BY <1>3, <1>6, Grows
  <2>2. p * (level + 1) = p * level + p
    BY <1>3
  <2>3. PICK x \in Int, y \in Int : x = p * n /\ y = p * level
    BY <1>3
  <2> QED BY <1>5, <2>1, <2>2, <2>3 DEF Distance
<1>7. CASE level > n
  <2>1. p * (n + 1) <= p * level
    BY <1>3, <1>7, Grows
  <2>2. p * (n + 1) = p * n + p
    BY <1>3
  <2>3. PICK x \in Int, y \in Int : x = p * n /\ y = p * level
    BY <1>3
  <2> QED BY <1>5, <2>1, <2>2, <2>3 DEF Distance
<1> QED BY <1>3, <1>6, <1>7

-----------------------------------------------------------------------------
DetectorTypes ==
    /\ config # NoConfig => config \in Configs /\ Parsed(config)
    /\ mean \in Levels \union {Nothing}
    /\ background = [level |-> background.level, size |-> background.size]
    /\ background.level \in Levels \union {Nothing}
    /\ delivered \in TriggerSources
    /\ calm \in BOOLEAN

\* Where the web was last seen, as far as the background can know: while the
\* paper is missing it learns nothing, and the paper went at its level.
LastSeen == IF PaperMissing(mean) THEN config.paperLevel ELSE mean

\* A background belongs to a detector that has taken a frame; and as long as
\* the web is calm, the background that follows it is not further behind than
\* the rounding allows.
DriftInv ==
    /\ DetectorTypes
    /\ HasBackground => mean \in Levels /\ config # NoConfig
    /\ ~HasBackground => calm /\ delivered # "background"
    /\ config # NoConfig /\ calm /\ FollowsDrift(config) =>
         /\ delivered # "background"
         /\ HasBackground => Distance(background.level, LastSeen) <= Lag(config)

LEMMA ForgottenKeeps ==
    ASSUME Forgotten, config' # NoConfig => config' \in Configs /\ Parsed(config')
    PROVE  DriftInv'
BY DEF Forgotten, DriftInv, DetectorTypes, NoBackground, HasBackground, TriggerSources

LEMMA DriftInvInit == DetectionInit => DriftInv
BY DEF DetectionInit, DriftInv, DetectorTypes, NoBackground, HasBackground, TriggerSources

LEMMA SourceSays ==
    ASSUME NEW level
    PROVE  /\ Source(level) \in TriggerSources
           /\ Source(level) = "none" => ~PaperMissing(level)
           /\ Source(level) = "background" => ~PaperMissing(level) /\ BackgroundChanged(level)
           /\ ~PaperMissing(level) /\ ~BackgroundChanged(level) /\ ~MeanChanged(level)
                => Source(level) = "none"
           /\ PaperMissing(level) => Source(level) = "paper"
BY DEF Source, TriggerSources

\* A frame with no background behind it: either there is still none, or it is
\* the background.
LEMMA FirstKeeps ==
    ASSUME DriftInv, config # NoConfig, NEW frame \in Frames, DetectFrame(frame), UNCHANGED config,
           delivered' \in {delivered, Source(frame.level)}, ~HasBackground
    PROVE  DriftInv'
<1>t. DetectorTypes /\ calm /\ delivered # "background" /\ delivered \in TriggerSources
  BY DEF DriftInv, DetectorTypes
<1>l. frame.level \in Levels /\ Nothing \notin Levels
  BY DetectionAssumption DEF Levels, Nothing
<1>d. delivered' \in TriggerSources /\ delivered' # "background"
  BY <1>t, SourceSays DEF BackgroundChanged
<1>c. mean' = frame.level /\ calm' = TRUE
  BY DEF DetectFrame
<1>1. CASE ~(config.backgroundCheck /\ ~PaperMissing(frame.level))
  <2>1. Taken(frame) = background
    BY <1>1 DEF Taken
  <2>2. ~Learns(frame)
    BY <2>1 DEF Learns, HasBackground
  <2>3. background' = background
    BY <2>1, <2>2 DEF DetectFrame
  <2> QED BY <1>t, <1>l, <1>d, <1>c, <2>3 DEF DriftInv, DetectorTypes, HasBackground
<1>2. CASE config.backgroundCheck /\ ~PaperMissing(frame.level)
  <2>1. Taken(frame) = [level |-> frame.level, size |-> Analysed(config, frame)]
    BY <1>2 DEF Taken
  <2>2. config.share \in 0 .. Parts
    BY <1>t, DetectionAssumption DEF DetectorTypes, Parsed
  <2>3. background' = [level |-> frame.level, size |-> Analysed(config, frame)]
    <3>1. CASE Learns(frame)
      <4>1. PICK n \in Learned(frame.level, frame.level) : background' = [Taken(frame) EXCEPT !.level = n]
        BY <2>1, <3>1 DEF DetectFrame
      <4>2. n = frame.level
        BY <1>l, <2>2, <4>1, LearnedOfItself DEF Learned
      <4> QED BY <2>1, <4>1, <4>2
    <3>2. CASE ~Learns(frame)
      BY <2>1, <3>2 DEF DetectFrame
    <3> QED BY <3>1, <3>2
  <2>4. background'.level = frame.level /\ background' = [level |-> background'.level, size |-> background'.size]
    BY <2>3
  <2>5. ~PaperMissing(mean)'
    BY <1>2, <1>c DEF PaperMissing
  <2>6. config.share > 0 => Lag(config) >= 0
    <3>1. ASSUME config.share > 0 PROVE 2 * config.share \in Nat \ {0} /\ Parts \in Nat
      BY <2>2, <3>1, DetectionAssumption
    <3> QED BY <3>1, DivisionBound DEF Lag
  <2>7. FollowsDrift(config) => Distance(background.level, LastSeen)' <= Lag(config)
    BY <1>l, <1>c, <2>4, <2>5, <2>6, DetectionAssumption DEF Distance, LastSeen, FollowsDrift, Levels
  <2>8. DetectorTypes'
    BY <1>t, <1>l, <1>c, <1>d, <2>4 DEF DetectorTypes
  <2> QED BY <1>l, <1>c, <1>d, <2>4, <2>7, <2>8 DEF DriftInv, HasBackground, FollowsDrift, Lag
<1> QED BY <1>1, <1>2

\* A frame that is compared with the background.
LEMMA ComparedKeeps ==
    ASSUME DriftInv, config # NoConfig, NEW frame \in Frames, DetectFrame(frame), UNCHANGED config,
           delivered' \in {delivered, Source(frame.level)}, HasBackground
    PROVE  DriftInv'
<1>t. DetectorTypes /\ mean \in Levels
  BY DEF DriftInv
<1>l. frame.level \in Levels /\ Nothing \notin Levels /\ background.level \in Levels
  BY <1>t, DetectionAssumption DEF Levels, Nothing, HasBackground, DetectorTypes
<1>k. Taken(frame) = background
  BY DEF Taken
<1>c. mean' = frame.level /\ calm' = (calm /\ Distance(frame.level, mean) <= 1)
  BY <1>t DEF DetectFrame, DetectorTypes
<1>d. delivered' \in TriggerSources
  BY <1>t, SourceSays DEF DetectorTypes
<1>p. /\ config.share \in 0 .. Parts /\ config.paperLevel \in Levels
      /\ config.backgroundLimit \in Int /\ config.meanLimit \in Int
  BY <1>t, DetectionAssumption DEF DetectorTypes, Parsed
<1>1. /\ background' = [level |-> background'.level, size |-> background'.size]
      /\ background'.level \in Levels
      /\ IF Learns(frame) THEN background'.level \in Learned(frame.level, background.level)
                          ELSE background' = background
  <2>1. CASE Learns(frame)
    <3>1. PICK n \in Learned(frame.level, background.level) : background' = [background EXCEPT !.level = n]
      BY <1>k, <2>1 DEF DetectFrame
    <3>2. background' = [level |-> n, size |-> background.size]
      BY <1>t, <3>1 DEF DetectorTypes
    <3> QED BY <2>1, <3>1, <3>2 DEF Learned
  <2>2. CASE ~Learns(frame)
    <3>1. background' = background
      BY <1>k, <2>2 DEF DetectFrame
    <3> QED BY <1>t, <1>l, <2>2, <3>1 DEF DetectorTypes
  <2> QED BY <2>1, <2>2
<1>2. DetectorTypes'
  BY <1>t, <1>l, <1>c, <1>d, <1>1 DEF DetectorTypes
<1>3. ASSUME calm', FollowsDrift(config)
      PROVE  delivered' # "background" /\ Distance(background.level, LastSeen)' <= Lag(config)
  <2>1. /\ calm /\ Distance(frame.level, mean) <= 1
        /\ delivered # "background" /\ Distance(background.level, LastSeen) <= Lag(config)
    BY <1>c, <1>3 DEF DriftInv
  <2>2. config.share \in 1 .. Parts /\ Lag(config) \in Nat /\ config.backgroundLimit > Lag(config) + 1
    <3>1. config.share \in 1 .. Parts /\ config.backgroundLimit > Lag(config) + 1
      BY <1>3, <1>p DEF FollowsDrift
    <3>2. 2 * config.share \in Nat \ {0} /\ Parts \in Nat
      BY <3>1, DetectionAssumption
    <3> QED BY <3>1, <3>2, DivisionBound DEF Lag
  <2>i. /\ frame.level \in Int /\ mean \in Int /\ background.level \in Int /\ config.paperLevel \in Int
    BY <1>t, <1>l, <1>p, DetectionAssumption DEF Levels
  <2>3. CASE PaperMissing(frame.level)
    <3>1. delivered' # "background"
      BY <2>1, <2>3, SourceSays
    <3>2. background' = background
      BY <1>1, <2>3, SourceSays DEF Learns
    <3>3. LastSeen = config.paperLevel
      BY <2>1, <2>3, <2>i DEF LastSeen, PaperMissing, Distance
    <3>4. LastSeen' = config.paperLevel
      BY <1>c, <2>3 DEF LastSeen, PaperMissing
    <3> QED BY <2>1, <3>1, <3>2, <3>3, <3>4
  <2>4. CASE ~PaperMissing(frame.level)
    <3>1. LastSeen \in Int /\ Distance(frame.level, LastSeen) <= 1
      BY <2>1, <2>4, <2>i DEF LastSeen, PaperMissing, Distance
    <3>2. Distance(background.level, frame.level) <= Lag(config) + 1
      BY <2>1, <2>2, <2>i, <3>1 DEF Distance
    <3>3. ~BackgroundChanged(frame.level)
      BY <1>p, <2>2, <2>i, <3>2 DEF BackgroundChanged, Distance
    <3>4. ~MeanChanged(frame.level)
      BY <1>3, <1>p, <2>1, <2>i DEF MeanChanged, FollowsDrift, Distance
    <3>5. Source(frame.level) = "none"
      BY <2>4, <3>3, <3>4, SourceSays
    <3>6. Learns(frame)
      BY <1>k, <1>l, <2>2, <3>5 DEF Learns
    <3>7. background'.level \in Learned(frame.level, background.level)
      BY <1>1, <3>6
    <3>8. Distance(background'.level, frame.level) <= Lag(config)
      BY <1>l, <2>2, <3>2, <3>7, LearnedKeepsUp DEF Learned
    <3>9. LastSeen' = frame.level
      BY <1>c, <2>4 DEF LastSeen, PaperMissing
    <3> QED BY <2>1, <3>5, <3>8, <3>9 DEF Distance
  <2> QED BY <2>3, <2>4
<1>4. HasBackground' /\ mean' \in Levels
  BY <1>l, <1>c, <1>1 DEF HasBackground
<1> QED BY <1>2, <1>3, <1>4 DEF DriftInv, FollowsDrift, Lag

LEMMA DriftInvNext == DriftInv /\ [DetectionNext]_detectionVars => DriftInv'
<1> SUFFICES ASSUME DriftInv, [DetectionNext]_detectionVars PROVE DriftInv'
  OBVIOUS
<1>1. ASSUME NEW c \in Configs, Load(c) \/ Update(c) PROVE DriftInv'
  <2>1. config' = c /\ Parsed(c) /\ Forgotten
    BY <1>1 DEF Load, Update, MaySucceed
  <2>2. config' \in Configs /\ Parsed(config')
    BY <1>1, <2>1
  <2> QED BY <2>1, <2>2, ForgottenKeeps
<1>2. ASSUME NEW frame \in Frames, Process(frame) \/ ProcessLate(frame) PROVE DriftInv'
  <2>1. /\ config # NoConfig /\ DetectFrame(frame) /\ UNCHANGED config
        /\ delivered' \in {delivered, Source(frame.level)}
    BY <1>2 DEF Process, ProcessLate
  <2> QED BY <2>1, FirstKeeps, ComparedKeeps
<1>3. CASE Reset
  <2>1. config' = config /\ Forgotten
    BY <1>3 DEF Reset
  <2>2. config' # NoConfig => config' \in Configs /\ Parsed(config')
    BY <2>1 DEF DriftInv, DetectorTypes
  <2> QED BY <2>1, <2>2, ForgottenKeeps
<1>4. CASE UNCHANGED detectionVars
  BY <1>4 DEF detectionVars, DriftInv, DetectorTypes, HasBackground, LastSeen, PaperMissing,
              FollowsDrift, Lag
<1> QED
  BY <1>1, <1>2, <1>3, <1>4 DEF DetectionNext, LoadOrUpdateFails, ProcessRefused

LEMMA DriftInvAlways == DetectionSpec => []DriftInv
BY DriftInvInit, DriftInvNext, PTL DEF DetectionSpec

\* A web that never changes faster than one grey level per frame is not taken
\* for a break by the comparison with the background, for any highest level,
\* any parts and shares of learning, any configurations and frames: the
\* background lags by no more than the rounding of its mean leaves, through
\* refused frames, missing paper, late results, resets and updates
\* (ClassicalVisionDetector::process).
THEOREM SlowDriftIsNoBreakAlways == DetectionSpec => []SlowDriftIsNoBreak
<1>1. DriftInv => SlowDriftIsNoBreak
  BY DEF DriftInv, SlowDriftIsNoBreak
<1> QED BY <1>1, DriftInvAlways, PTL

\* The detector's memory keeps its types (ClassicalVisionDetector, DetectorHost).
THEOREM DetectionTypesAlways == DetectionSpec => []DetectionTypeOK
<1>1. DriftInv => DetectionTypeOK
  BY DEF DriftInv, DetectorTypes, DetectionTypeOK
<1> QED BY <1>1, DriftInvAlways, PTL

-----------------------------------------------------------------------------
(* Event windows: least and greatest numbers *)

LEMMA LeastNatural ==
    ASSUME NEW S, S \subseteq Nat, S # {}
    PROVE  \E m \in S : \A n \in S : m <= n
<1> DEFINE less == {pair \in Nat \X Nat : pair[1] < pair[2]}
<1>1. IsWellFoundedOn(less, Nat)
  BY NatLessThanWellFounded DEF OpToRel
<1> HIDE DEF less
<1>2. \E m \in S : \A n \in S : <<n, m>> \notin less
  BY <1>1, WFMin
<1>3. ASSUME NEW m \in S, NEW n \in S, <<n, m>> \notin less
      PROVE  m <= n
  <2>1. m \in Nat /\ n \in Nat /\ <<n, m>> \in Nat \X Nat
    OBVIOUS
  <2>2. ~(n < m)
    BY <1>3, <2>1 DEF less
  <2>3. QED BY <2>1, <2>2
<1>4. QED BY <1>2, <1>3

\* A set of integers that is bounded below has its minimum.
LEMMA LeastInteger ==
    ASSUME NEW S, S \subseteq Int, S # {}, NEW bound \in Int, \A x \in S : bound <= x
    PROVE  \E m \in S : \A x \in S : m <= x
<1> DEFINE above == {x - bound : x \in S}
<1>1. above \subseteq Nat /\ above # {}
  <2>1. \A x \in S : x \in Int /\ bound <= x
    OBVIOUS
  <2>2. \A x \in S : x - bound \in Nat
    BY <2>1
  <2>3. QED BY <2>2
<1>2. PICK least \in above : \A y \in above : least <= y
  <2> HIDE DEF above
  <2>1. QED BY <1>1, LeastNatural
<1>3. PICK m \in S : least = m - bound
  OBVIOUS
<1>4. ASSUME NEW x \in S PROVE m <= x
  <2>1. x - bound \in above
    OBVIOUS
  <2>2. least <= x - bound
    BY <1>2, <2>1
  <2>3. x \in Int /\ m \in Int
    OBVIOUS
  <2>4. QED BY <1>3, <2>2, <2>3
<1>5. QED BY <1>4

LEMMA GreatestInteger ==
    ASSUME NEW S, S \subseteq Int, S # {}, NEW bound \in Int, \A x \in S : x <= bound
    PROVE  \E m \in S : \A x \in S : m >= x
<1> DEFINE below == {bound - x : x \in S}
<1>1. below \subseteq Nat /\ below # {}
  <2>1. \A x \in S : x \in Int /\ x <= bound
    OBVIOUS
  <2>2. \A x \in S : bound - x \in Nat
    BY <2>1
  <2>3. QED BY <2>2
<1>2. PICK least \in below : \A y \in below : least <= y
  <2> HIDE DEF below
  <2>1. QED BY <1>1, LeastNatural
<1>3. PICK m \in S : least = bound - m
  OBVIOUS
<1>4. ASSUME NEW x \in S PROVE m >= x
  <2>1. bound - x \in below
    OBVIOUS
  <2>2. least <= bound - x
    BY <1>2, <2>1
  <2>3. x \in Int /\ m \in Int
    OBVIOUS
  <2>4. QED BY <1>3, <2>2, <2>3
<1>5. QED BY <1>4

LEMMA MinIsLeast ==
    ASSUME NEW S, S \subseteq Int, S # {}, NEW bound \in Int, \A x \in S : bound <= x
    PROVE  Min(S) \in S /\ \A x \in S : Min(S) <= x
<1>1. \E m \in S : \A x \in S : m <= x
  BY LeastInteger
<1>2. QED BY <1>1 DEF Min

LEMMA MaxIsGreatest ==
    ASSUME NEW S, S \subseteq Int, S # {}, NEW bound \in Int, \A x \in S : x <= bound
    PROVE  Max(S) \in S /\ \A x \in S : x <= Max(S)
<1>1. \E m \in S : \A x \in S : m >= x
  BY GreatestInteger
<1>2. Max(S) \in S /\ \A x \in S : Max(S) >= x
  BY <1>1 DEF Max
<1>3. Max(S) \in Int /\ \A x \in S : x \in Int
  BY <1>2
<1>4. QED BY <1>2, <1>3

LEMMA MinOfTwo ==
    ASSUME NEW a \in Int, NEW b \in Int
    PROVE  Min({a, b}) \in {a, b} /\ Min({a, b}) <= a /\ Min({a, b}) <= b
<1>1. \E m \in {a, b} : \A x \in {a, b} : m <= x
  <2>1. CASE a <= b
    BY <2>1
  <2>2. CASE b <= a
    BY <2>2
  <2>3. QED BY <2>1, <2>2
<1>2. QED BY <1>1 DEF Min

LEMMA MaxOfTwo ==
    ASSUME NEW a \in Int, NEW b \in Int
    PROVE  Max({a, b}) \in {a, b} /\ a <= Max({a, b}) /\ b <= Max({a, b})
<1>1. \E m \in {a, b} : \A x \in {a, b} : m >= x
  <2>1. CASE a <= b
    BY <2>1
  <2>2. CASE b <= a
    BY <2>2
  <2>3. QED BY <2>1, <2>2
<1>2. Max({a, b}) \in {a, b} /\ \A x \in {a, b} : Max({a, b}) >= x
  BY <1>1 DEF Max
<1>3. QED BY <1>2

-----------------------------------------------------------------------------
(* Rings and leases *)

Leases == [frames : SUBSET Nat, from : Int, to : Int, whole : BOOLEAN]

\* A lease has every frame its ring took in the part of the request it reaches
\* over, and that part is not before the window.
SoundLeases(newest, taken, start) ==
    {lease \in Leases :
        /\ start <= lease.from /\ lease.from <= lease.to /\ lease.to <= newest
        /\ \A t \in taken : lease.from <= t /\ t <= lease.to => t \in lease.frames}

RingFields == {"frames", "newest", "leases", "references"}

\* What a ring has let go of is older than all it holds.
RingSound(r, newest, taken) ==
    /\ r = [field \in RingFields |-> r[field]]
    /\ r.newest = newest
    /\ taken \subseteq Nat /\ r.frames \subseteq taken
    /\ \A t \in taken : t <= newest
    /\ \A t \in taken \ r.frames : \A f \in r.frames : t < f

RingsSound(rings, newest, taken) ==
    /\ rings = [c \in Cameras |-> rings[c]]
    /\ newest \in [Cameras -> Nat]
    /\ \A c \in Cameras : RingSound(rings[c], newest[c], taken[c])

LEMMA LeasedIsSound ==
    ASSUME NEW r, NEW newest, NEW taken, RingSound(r, newest, taken), NEW lease
    PROVE  RingSound(Leased(r, lease), newest, taken)
<1> DEFINE leases == r.leases + 1
           references == r.references + Cardinality(lease.frames)
<1>1. Leased(r, lease) = [r EXCEPT !.leases = leases, !.references = references]
  BY DEF Leased
<1> HIDE DEF leases, references
<1>2. RingSound([r EXCEPT !.leases = leases, !.references = references], newest, taken)
  BY DEF RingSound, RingFields
<1>3. QED BY <1>1, <1>2

LEMMA ReleasedIsSound ==
    ASSUME NEW r, NEW newest, NEW taken, RingSound(r, newest, taken), NEW count, NEW some
    PROVE  RingSound(Released(r, count, some), newest, taken)
<1> DEFINE leases == r.leases - count
           references == r.references - some
<1>1. Released(r, count, some) = [r EXCEPT !.leases = leases, !.references = references]
  BY DEF Released
<1> HIDE DEF leases, references
<1>2. RingSound([r EXCEPT !.leases = leases, !.references = references], newest, taken)
  BY DEF RingSound, RingFields
<1>3. QED BY <1>1, <1>2

LEMMA LeaseOfIsSound ==
    ASSUME NEW r, NEW newest \in Nat, NEW taken, RingSound(r, newest, taken),
           NEW start \in Int, NEW end \in Int, NEW first \in Int, first <= start,
           FramesWithin(r, start, end) # {}
    PROVE  LeaseOf(r, start, end) \in SoundLeases(newest, taken, first)
<1> DEFINE oldest == Min(r.frames)
           from == Max({oldest, start})
           to == Min({newest, end})
           frames == FramesWithin(r, start, end)
           whole == oldest <= start /\ end <= newest /\ ~MissingNumber(frames)
<1>1. LeaseOf(r, start, end) = [frames |-> frames, from |-> from, to |-> to, whole |-> whole]
  BY DEF LeaseOf, RingSound
<1>2. PICK some \in r.frames : start <= some /\ some <= end
  BY DEF FramesWithin
<1>3. taken \subseteq Nat /\ r.frames \subseteq taken /\ some \in Nat /\ some <= newest
  BY DEF RingSound
<1>4. oldest \in r.frames /\ \A f \in r.frames : oldest <= f
  <2>1. \A f \in r.frames : f \in Nat
    BY <1>3
  <2>2. r.frames \subseteq Int /\ (\A f \in r.frames : 0 <= f) /\ r.frames # {} /\ 0 \in Int
    BY <2>1, <1>2
  <2>3. Min(r.frames) \in r.frames /\ \A f \in r.frames : Min(r.frames) <= f
    BY <2>2, MinIsLeast
  <2>4. QED BY <2>3
<1>5. oldest \in Int /\ oldest <= some
  BY <1>2, <1>3, <1>4
<1>6. from \in {oldest, start} /\ oldest <= from /\ start <= from
  BY <1>5, MaxOfTwo
<1>7. to \in {newest, end} /\ to <= newest /\ to <= end
  <2>1. newest \in Int
    OBVIOUS
  <2>2. QED BY <2>1, MinOfTwo
<1>8. from \in Int /\ to \in Int
  BY <1>5, <1>6, <1>7
<1>9. from <= to /\ first <= from
  BY <1>2, <1>3, <1>5, <1>6, <1>7, <1>8
<1>10. frames \in SUBSET Nat /\ whole \in BOOLEAN
  BY <1>3 DEF FramesWithin
<1>11. ASSUME NEW t \in taken, from <= t, t <= to PROVE t \in frames
  <2>1. t \in Nat
    BY <1>3
  <2>2. oldest <= t /\ start <= t /\ t <= end
    BY <2>1, <1>5, <1>6, <1>7, <1>8, <1>11
  <2>3. t \in r.frames
    <3>1. ~(t < oldest)
      BY <2>1, <2>2, <1>5
    <3>2. QED BY <1>4, <3>1 DEF RingSound
  <2>4. QED BY <2>2, <2>3 DEF FramesWithin
<1> HIDE DEF oldest, from, to, frames, whole
<1>12. [frames |-> frames, from |-> from, to |-> to, whole |-> whole] \in Leases
  BY <1>8, <1>10 DEF Leases
<1>13. [frames |-> frames, from |-> from, to |-> to, whole |-> whole] \in SoundLeases(newest, taken, first)
  BY <1>7, <1>9, <1>11, <1>12 DEF SoundLeases
<1>14. QED BY <1>1, <1>13

\* Leases stay sound when the window begins earlier ...
LEMMA EarlierStart ==
    ASSUME NEW newest, NEW taken, NEW start \in Int, NEW earlier \in Int, earlier <= start
    PROVE  SoundLeases(newest, taken, start) \subseteq SoundLeases(newest, taken, earlier)
<1> SUFFICES ASSUME NEW lease \in SoundLeases(newest, taken, start)
             PROVE  lease \in SoundLeases(newest, taken, earlier)
  OBVIOUS
<1>1. lease \in Leases /\ lease.from \in Int /\ start <= lease.from
  BY DEF SoundLeases, Leases
<1>2. earlier <= lease.from
  BY <1>1
<1>3. QED BY <1>1, <1>2 DEF SoundLeases

\* ... and while frames arrive.
LEMMA SoundLeasesStay ==
    ASSUME NEW newest \in Nat, NEW taken, NEW start \in Int, NEW t \in Nat, newest < t
    PROVE  SoundLeases(newest, taken, start) \subseteq SoundLeases(t, taken \cup {t}, start)
<1> SUFFICES ASSUME NEW lease \in SoundLeases(newest, taken, start)
             PROVE  lease \in SoundLeases(t, taken \cup {t}, start)
  OBVIOUS
<1>1. lease \in Leases /\ lease.from \in Int /\ lease.to \in Int /\ lease.to <= newest
  BY DEF SoundLeases, Leases
<1>2. lease.to < t
  BY <1>1
<1>3. ASSUME NEW x \in taken \cup {t}, lease.from <= x, x <= lease.to
      PROVE  x \in lease.frames
  <2>1. x # t
    BY <1>1, <1>2, <1>3
  <2>2. QED BY <1>3, <2>1 DEF SoundLeases
<1>4. lease.to <= t
  BY <1>1, <1>2
<1>5. QED BY <1>1, <1>3, <1>4 DEF SoundLeases

-----------------------------------------------------------------------------
(* Windows *)

EventTriggers == [camera : Cameras, time : Nat]

Protections == [leases : Seq(Leases), short : BOOLEAN]

EventTypes ==
    [first : EventTriggers, start : Int, end : Int, earliest : Int, latest : Int,
     truncated : BOOLEAN, triggers : SUBSET EventTriggers, protection : [Cameras -> Protections]]

SoundEvents(newest, taken) ==
    {event \in EventTypes :
        /\ event.start <= event.earliest
        /\ \A c \in Cameras :
            event.protection[c].leases \in Seq(SoundLeases(newest[c], taken[c], event.start))}

LEMMA LimitedIsSound ==
    ASSUME NEW newest, NEW taken, NEW event \in SoundEvents(newest, taken)
    PROVE  Limited(event) \in SoundEvents(newest, taken) /\ Limited(event).start = event.start
<1> DEFINE hardEnd == event.start + MaximumDuration
           end == Min({event.end, hardEnd})
           truncated == event.truncated \/ event.end > hardEnd
           limited == [event EXCEPT !.end = end, !.truncated = truncated]
<1>1. Limited(event) = limited
  BY DEF Limited
<1>2. event \in EventTypes /\ event.end \in Int /\ event.start \in Int /\ hardEnd \in Int
  BY WindowsAssumption DEF SoundEvents, EventTypes
<1>3. end \in Int /\ truncated \in BOOLEAN
  <2> HIDE DEF hardEnd
  <2>1. end \in {event.end, hardEnd}
    BY <1>2, MinOfTwo
  <2>2. QED BY <1>2, <2>1
<1> HIDE DEF hardEnd, end, truncated
<1>4. /\ limited \in EventTypes /\ limited.start = event.start
      /\ limited.earliest = event.earliest /\ limited.protection = event.protection
  BY <1>2, <1>3 DEF EventTypes
<1> HIDE DEF limited
<1>5. limited \in SoundEvents(newest, taken)
  BY <1>4 DEF SoundEvents
<1>6. QED BY <1>1, <1>4, <1>5

\* A lease more, or the note that none was to be had, on every ring.
LEMMA ProtectedIsSound ==
    ASSUME NEW newest, NEW taken, NEW event \in SoundEvents(newest, taken),
           NEW rings, RingsSound(rings, newest, taken),
           NEW start \in Int, NEW end \in Int, event.start <= start
    PROVE  LET state == Protected([event |-> event, rings |-> rings], start, end) IN
           state.event \in SoundEvents(newest, taken) /\ RingsSound(state.rings, newest, taken)
<1> DEFINE granted(c) == LeaseGranted(rings[c], start, end)
           lease(c) == LeaseOf(rings[c], start, end)
           held(c) == event.protection[c]
           protection == [c \in Cameras |->
               IF granted(c)
               THEN [leases |-> Append(held(c).leases, lease(c)),
                     short |-> held(c).short \/ ~lease(c).whole]
               ELSE [held(c) EXCEPT !.short = TRUE]]
           newRings == [c \in Cameras |->
               IF granted(c) THEN Leased(rings[c], lease(c)) ELSE rings[c]]
<1>1. Protected([event |-> event, rings |-> rings], start, end)
        = [event |-> [event EXCEPT !.protection = protection], rings |-> newRings]
  BY DEF Protected
<1>2. event \in EventTypes /\ event.start \in Int /\ event.protection \in [Cameras -> Protections]
  BY DEF SoundEvents, EventTypes
<1>3. ASSUME NEW c \in Cameras, granted(c)
      PROVE  lease(c) \in SoundLeases(newest[c], taken[c], event.start)
  <2>1. RingSound(rings[c], newest[c], taken[c]) /\ newest[c] \in Nat
    BY DEF RingsSound
  <2>2. FramesWithin(rings[c], start, end) # {}
    BY <1>3 DEF LeaseGranted
  <2>3. QED BY <1>2, <2>1, <2>2, LeaseOfIsSound
<1>4. ASSUME NEW c \in Cameras
      PROVE  /\ protection[c] \in Protections
             /\ protection[c].leases \in Seq(SoundLeases(newest[c], taken[c], event.start))
  <2> DEFINE sound == SoundLeases(newest[c], taken[c], event.start)
  <2>1. held(c) \in Protections /\ held(c).leases \in Seq(sound)
    BY <1>2 DEF SoundEvents
  <2>2. sound \subseteq Leases
    BY DEF SoundLeases
  <2>3. CASE granted(c)
    <3> DEFINE one == lease(c)
               all == Append(held(c).leases, one)
               short == held(c).short \/ ~one.whole
    <3>1. protection[c] = [leases |-> all, short |-> short]
      BY <2>3
    <3>2. one \in sound
      BY <1>3, <2>3
    <3>3. short \in BOOLEAN
      OBVIOUS
    <3> HIDE DEF one, sound
    <3>4. all \in Seq(sound)
      <4> HIDE DEF held
      <4>1. QED BY <2>1, <3>2, AppendProperties
    <3>5. all \in Seq(Leases)
      <4> HIDE DEF all
      <4>1. QED BY <3>4, <2>2, SeqMonotonic
    <3> HIDE DEF all, short
    <3>6. [leases |-> all, short |-> short] \in Protections
      BY <3>3, <3>5 DEF Protections
    <3> HIDE DEF protection
    <3>7. QED BY <3>1, <3>4, <3>6 DEF sound
  <2>4. CASE ~granted(c)
    <3>1. protection[c] = [held(c) EXCEPT !.short = TRUE]
      BY <2>4
    <3> HIDE DEF protection, held, sound
    <3>2. [held(c) EXCEPT !.short = TRUE] \in Protections /\ [held(c) EXCEPT !.short = TRUE].leases = held(c).leases
      BY <2>1 DEF Protections
    <3>3. protection[c] \in Protections /\ protection[c].leases = held(c).leases
      BY <3>1, <3>2
    <3>4. QED BY <2>1, <3>3 DEF sound
  <2> HIDE DEF granted
  <2>5. QED BY <2>3, <2>4
<1>5. protection \in [Cameras -> Protections]
  <2>1. protection = [c \in Cameras |-> protection[c]]
    OBVIOUS
  <2> HIDE DEF protection
  <2>2. QED BY <1>4, <2>1
<1>6. RingsSound(newRings, newest, taken)
  <2>1. ASSUME NEW c \in Cameras PROVE RingSound(newRings[c], newest[c], taken[c])
    <3>1. RingSound(rings[c], newest[c], taken[c])
      BY DEF RingsSound
    <3> HIDE DEF granted, lease
    <3>2. RingSound(Leased(rings[c], lease(c)), newest[c], taken[c])
      BY <3>1, LeasedIsSound
    <3>3. newRings[c] = IF granted(c) THEN Leased(rings[c], lease(c)) ELSE rings[c]
      OBVIOUS
    <3> HIDE DEF newRings
    <3>4. QED BY <3>1, <3>2, <3>3
  <2>2. newRings = [c \in Cameras |-> newRings[c]]
    OBVIOUS
  <2> HIDE DEF newRings
  <2>3. QED BY <2>1, <2>2 DEF RingsSound
<1> HIDE DEF protection, newRings
<1> DEFINE protected == [event EXCEPT !.protection = protection]
<1>7. /\ protected \in EventTypes /\ protected.start = event.start
      /\ protected.earliest = event.earliest /\ protected.protection = protection
  BY <1>2, <1>5 DEF EventTypes
<1>8. protected \in SoundEvents(newest, taken)
  <2> HIDE DEF protected
  <2>1. QED BY <1>4, <1>7 DEF SoundEvents
<1>9. QED BY <1>1, <1>6, <1>8

LEMMA WidenedIsSound ==
    ASSUME NEW newest, NEW taken, NEW event \in SoundEvents(newest, taken),
           NEW rings, RingsSound(rings, newest, taken), NEW oldStart \in Int
    PROVE  LET state == Widened([event |-> event, rings |-> rings], oldStart) IN
           state.event \in SoundEvents(newest, taken) /\ RingsSound(state.rings, newest, taken)
<1>1. event.start \in Int
  BY DEF SoundEvents, EventTypes
<1> DEFINE protected == Protected([event |-> event, rings |-> rings], event.start, oldStart)
<1>2. protected.event \in SoundEvents(newest, taken) /\ RingsSound(protected.rings, newest, taken)
  BY <1>1, ProtectedIsSound
<1>3. Widened([event |-> event, rings |-> rings], oldStart)
        = IF event.start < oldStart THEN protected ELSE [event |-> event, rings |-> rings]
  BY DEF Widened
<1> HIDE DEF protected
<1>4. CASE event.start < oldStart
  BY <1>2, <1>3, <1>4
<1>5. CASE ~(event.start < oldStart)
  BY <1>3, <1>5
<1>6. QED BY <1>4, <1>5

LEMMA NewEventIsSound ==
    ASSUME NEW newest, NEW taken, NEW c \in Cameras, NEW t \in Nat
    PROVE  /\ NewEvent(c, t) \in SoundEvents(newest, taken)
           /\ NewEvent(c, t).start = t - PreEvent
<1> DEFINE trigger == [camera |-> c, time |-> t]
           protection == [d \in Cameras |-> [leases |-> <<>>, short |-> FALSE]]
           event == [first |-> trigger, start |-> t - PreEvent, end |-> t + PostEvent,
                     earliest |-> t, latest |-> t, truncated |-> FALSE,
                     triggers |-> {trigger}, protection |-> protection]
<1>1. NewEvent(c, t) = Limited(event)
  BY DEF NewEvent
<1>2. trigger \in EventTriggers /\ {trigger} \in SUBSET EventTriggers
  BY DEF EventTriggers
<1>3. protection \in [Cameras -> Protections]
  BY DEF Protections
<1>4. /\ t - PreEvent \in Int /\ t + PostEvent \in Int /\ t \in Int
      /\ t - PreEvent <= t
  BY WindowsAssumption
<1>5. \A d \in Cameras : protection[d].leases = <<>>
  OBVIOUS
<1> HIDE DEF trigger, protection
<1>6. event \in EventTypes
  BY <1>2, <1>3, <1>4 DEF EventTypes
<1>7. event.start = t - PreEvent /\ event.earliest = t /\ event.protection = protection
  OBVIOUS
<1> HIDE DEF event
<1>8. event \in SoundEvents(newest, taken)
  BY <1>4, <1>5, <1>6, <1>7, EmptySeq DEF SoundEvents
<1>9. QED BY <1>1, <1>7, <1>8, LimitedIsSound

\* Joining keeps what both windows hold, as the union begins before either.
LEMMA UnionIsSound ==
    ASSUME NEW newest, NEW taken, newest \in [Cameras -> Nat],
           NEW target \in SoundEvents(newest, taken), NEW source \in SoundEvents(newest, taken)
    PROVE  Union(target, source) \in SoundEvents(newest, taken)
<1> DEFINE start == Min({target.start, source.start})
           end == Max({target.end, source.end})
           earliest == Min({target.earliest, source.earliest})
           latest == Max({target.latest, source.latest})
           truncated == target.truncated \/ source.truncated
           all == target.triggers \cup source.triggers
           both(c) == target.protection[c].leases \o source.protection[c].leases
           short(c) == target.protection[c].short \/ source.protection[c].short
           protection == [c \in Cameras |-> [leases |-> both(c), short |-> short(c)]]
           union == [target EXCEPT !.start = start, !.end = end, !.earliest = earliest,
                                   !.latest = latest, !.truncated = truncated,
                                   !.triggers = all, !.protection = protection]
<1>1. Union(target, source) = Limited(union)
  BY DEF Union
<1>2. /\ target \in EventTypes /\ source \in EventTypes
      /\ target.start <= target.earliest /\ source.start <= source.earliest
  BY DEF SoundEvents
<1>3. /\ target.start \in Int /\ target.end \in Int /\ target.earliest \in Int /\ target.latest \in Int
      /\ source.start \in Int /\ source.end \in Int /\ source.earliest \in Int /\ source.latest \in Int
      /\ target.truncated \in BOOLEAN /\ source.truncated \in BOOLEAN
      /\ target.triggers \in SUBSET EventTriggers /\ source.triggers \in SUBSET EventTriggers
      /\ target.protection \in [Cameras -> Protections] /\ source.protection \in [Cameras -> Protections]
  BY <1>2 DEF EventTypes
<1>4. start \in {target.start, source.start} /\ start <= target.start /\ start <= source.start
  BY <1>3, MinOfTwo
<1>5. earliest \in {target.earliest, source.earliest}
  BY <1>3, MinOfTwo
<1>6. end \in Int /\ latest \in Int
  BY <1>3, MaxOfTwo
<1>7. truncated \in BOOLEAN /\ all \in SUBSET EventTriggers
  BY <1>3
<1> HIDE DEF start, end, earliest, latest, truncated, all
<1>8. start \in Int /\ earliest \in Int /\ start <= earliest
  BY <1>2, <1>3, <1>4, <1>5
<1>9. ASSUME NEW c \in Cameras
      PROVE  /\ both(c) \in Seq(SoundLeases(newest[c], taken[c], start))
             /\ both(c) \in Seq(Leases) /\ short(c) \in BOOLEAN
  <2> DEFINE sound == SoundLeases(newest[c], taken[c], start)
             mine == target.protection[c].leases
             its == source.protection[c].leases
  <2>1. mine \in Seq(SoundLeases(newest[c], taken[c], target.start))
    BY DEF SoundEvents
  <2>2. its \in Seq(SoundLeases(newest[c], taken[c], source.start))
    BY DEF SoundEvents
  <2>3. ASSUME NEW s \in Int, start <= s
        PROVE  SoundLeases(newest[c], taken[c], s) \subseteq sound
    BY <1>8, <2>3, EarlierStart
  <2>4. sound \subseteq Leases
    BY DEF SoundLeases
  <2> HIDE DEF mine, its, sound
  <2>5. mine \in Seq(sound) /\ its \in Seq(sound)
    BY <1>3, <1>4, <2>1, <2>2, <2>3, SeqMonotonic
  <2>6. mine \o its \in Seq(sound)
    BY <2>5, ConcatProperties
  <2>7. mine \o its \in Seq(Leases)
    BY <2>4, <2>6, SeqMonotonic
  <2>8. short(c) \in BOOLEAN
    OBVIOUS
  <2>9. QED BY <2>6, <2>7, <2>8 DEF mine, its, sound
<1> HIDE DEF both, short
<1>10. protection \in [Cameras -> Protections] /\ \A c \in Cameras : protection[c].leases = both(c)
  BY <1>9 DEF Protections
<1> HIDE DEF protection
<1>11. /\ union \in EventTypes /\ union.start = start /\ union.earliest = earliest
       /\ union.protection = protection
  BY <1>2, <1>6, <1>7, <1>8, <1>10 DEF EventTypes
<1> HIDE DEF union
<1>12. union \in SoundEvents(newest, taken)
  BY <1>8, <1>9, <1>10, <1>11 DEF SoundEvents
<1>13. QED BY <1>1, <1>12, LimitedIsSound

LEMMA MergedIsSound ==
    ASSUME NEW newest, NEW taken, NEW target \in SoundEvents(newest, taken),
           NEW source \in SoundEvents(newest, taken), NEW rings, RingsSound(rings, newest, taken)
    PROVE  LET state == MergedInto([event |-> target, rings |-> rings], source) IN
           state.event \in SoundEvents(newest, taken) /\ RingsSound(state.rings, newest, taken)
<1>1. newest \in [Cameras -> Nat]
  BY DEF RingsSound
<1>2. Union(target, source) \in SoundEvents(newest, taken)
  BY <1>1, UnionIsSound
<1>3. target.start \in Int
  BY DEF SoundEvents, EventTypes
<1>4. MergedInto([event |-> target, rings |-> rings], source)
        = Widened([event |-> Union(target, source), rings |-> rings], target.start)
  <2>1. [[event |-> target, rings |-> rings] EXCEPT !.event = Union(@, source)]
            = [event |-> Union(target, source), rings |-> rings]
    OBVIOUS
  <2>2. QED BY <2>1 DEF MergedInto
<1>5. QED BY <1>2, <1>3, <1>4, WidenedIsSound

-----------------------------------------------------------------------------
(* Freezing *)

\* A window declared complete was covered by then, and lacks nothing.
FrozenSound(window, newest, taken) ==
    /\ window.start \in Int /\ window.end \in Int
    /\ window.complete => \A c \in Cameras :
        /\ window.end <= newest[c]
        /\ {t \in taken[c] : window.start <= t /\ t <= window.end} \subseteq window.frames[c]
        /\ ~MissingNumber(window.frames[c])

\* If segments without a hole reach from the start to the end, every time
\* between lies in one of them.
LEMMA ContinuousCovers ==
    ASSUME NEW newest \in Nat, NEW taken, taken \subseteq Nat, NEW start \in Int, NEW end \in Int,
           NEW segments, segments \subseteq SoundLeases(newest, taken, start),
           Continuous(segments, start, end)
    PROVE  /\ end <= newest
           /\ \A t \in taken : start <= t /\ t <= end => \E s \in segments : t \in s.frames
<1> DEFINE tos(before) == {start} \cup {s.to : s \in before}
           reached(before) == Max(tos(before))
<1>1. /\ \E s \in segments : s.from <= start
      /\ \A s \in segments : s.from <= reached({r \in segments : r.from < s.from})
      /\ reached(segments) >= end
  BY DEF Continuous
<1>2. \A s \in segments :
        /\ s.from \in Int /\ s.to \in Int
        /\ start <= s.from /\ s.from <= s.to /\ s.to <= newest
        /\ \A t \in taken : s.from <= t /\ t <= s.to => t \in s.frames
  BY DEF SoundLeases, Leases
<1>3. PICK first \in segments : first.from <= start
  BY <1>1
<1>4. first.from = start /\ start <= newest /\ start <= first.to
  BY <1>2, <1>3
<1>5. ASSUME NEW before \in SUBSET segments
      PROVE  reached(before) \in tos(before) /\ reached(before) \in Int
  <2>1. \A x \in tos(before) : x \in Int /\ x <= newest
    BY <1>2, <1>4
  <2>2. start \in tos(before) /\ newest \in Int
    OBVIOUS
  <2> HIDE DEF tos
  <2>3. Max(tos(before)) \in tos(before)
    BY <2>1, <2>2, MaxIsGreatest
  <2>4. QED BY <2>1, <2>3
<1>6. end <= newest
  <2>1. reached(segments) \in tos(segments) /\ reached(segments) \in Int
    BY <1>5
  <2>2. \A x \in tos(segments) : x <= newest
    BY <1>2, <1>4
  <2> HIDE DEF reached, tos
  <2>3. QED BY <1>1, <2>1, <2>2
<1>7. ASSUME NEW t \in taken, start <= t, t <= end, \A s \in segments : t \notin s.frames
      PROVE  FALSE
  <2> DEFINE later == {s \in segments : t <= s.to}
  <2>1. t \in Int
    OBVIOUS
  <2>2. \A s \in later : s \in segments /\ t < s.from
    BY <1>2, <1>7, <2>1
  <2>3. CASE later = {}
    <3>1. \A s \in segments : s.to < t
      BY <1>2, <2>1, <2>3
    <3>2. start < t
      BY <1>4, <2>1, <3>1, <1>2
    <3>3. \A x \in tos(segments) : x < t
      BY <3>1, <3>2
    <3>4. reached(segments) \in tos(segments) /\ reached(segments) \in Int
      BY <1>5
    <3> HIDE DEF reached, tos
    <3>5. reached(segments) < t
      BY <3>3, <3>4
    <3>6. QED BY <1>1, <1>7, <2>1, <3>4, <3>5
  <2>4. CASE later # {}
    <3> DEFINE froms == {s.from : s \in later}
    <3>1. \A x \in froms : x \in Int /\ start <= x
      BY <1>2, <2>2
    <3>2. froms \subseteq Int /\ froms # {}
      BY <2>4, <3>1
    <3>3. PICK low \in froms : \A x \in froms : low <= x
      <4> HIDE DEF froms
      <4>1. QED BY <3>1, <3>2, LeastInteger
    <3>4. PICK next \in later : low = next.from
      OBVIOUS
    <3>5. next \in segments /\ t < next.from /\ next.from \in Int
      BY <1>2, <2>2
    <3> DEFINE before == {r \in segments : r.from < next.from}
    <3>6. ASSUME NEW r \in before PROVE r.to < t
      <4>1. r \in segments /\ r.from < next.from /\ r.from \in Int /\ r.to \in Int
        BY <1>2
      <4>2. r \notin later
        <5>1. ASSUME r \in later PROVE FALSE
          <6>1. r.from \in froms
            BY <5>1
          <6>2. low <= r.from
            BY <3>3, <6>1
          <6>3. QED BY <3>4, <3>5, <4>1, <6>2
        <5>2. QED BY <5>1
      <4>3. QED BY <2>1, <4>1, <4>2
    <3>7. reached(before) \in tos(before) /\ reached(before) \in Int
      BY <1>5
    <3>8. \A x \in tos(before) : x <= t
      <4> HIDE DEF before
      <4>1. \A r \in before : r.to <= t
        <5>1. \A r \in before : r \in segments
          BY DEF before
        <5>2. QED BY <1>2, <2>1, <3>6, <5>1
      <4>2. QED BY <1>7, <4>1
    <3>9. next.from <= reached(before)
      <4> HIDE DEF tos
      <4>1. QED BY <1>1, <3>5
    <3> HIDE DEF reached, tos, before
    <3>10. reached(before) <= t
      BY <3>7, <3>8
    <3>11. QED BY <2>1, <3>5, <3>7, <3>9, <3>10
  <2>5. QED BY <2>3, <2>4
<1>8. QED BY <1>6, <1>7

LEMMA FrozenEventIsSound ==
    ASSUME NEW newest, NEW taken, NEW rings, RingsSound(rings, newest, taken),
           NEW event \in SoundEvents(newest, taken), NEW closed
    PROVE  FrozenSound(FrozenEvent(rings, event, closed), newest, taken)
<1> DEFINE camera == [c \in Cameras |-> FrozenCamera(rings[c], event.protection[c], event)]
           frozenEvent == [start |-> event.start, end |-> event.end, truncated |-> event.truncated,
                           triggers |-> event.triggers, closed |-> closed,
                           frames |-> [c \in Cameras |-> camera[c].frames],
                           complete |-> \A c \in Cameras : camera[c].complete]
<1>1. FrozenEvent(rings, event, closed) = frozenEvent
  BY DEF FrozenEvent
<1>2. /\ event.start \in Int /\ event.end \in Int /\ event.earliest \in Int
      /\ event.start <= event.earliest
  BY DEF SoundEvents, EventTypes
<1>3. ASSUME NEW c \in Cameras, camera[c].complete
      PROVE  /\ event.end <= newest[c]
             /\ {t \in taken[c] : event.start <= t /\ t <= event.end} \subseteq camera[c].frames
             /\ ~MissingNumber(camera[c].frames)
  <2> DEFINE r == rings[c]
             leases == event.protection[c].leases
             granted == LeaseGranted(r, event.earliest, event.end)
             last == LeaseOf(r, event.earliest, event.end)
             final == IF granted THEN {last} ELSE {}
             segments == ToSet(leases) \cup final
             frames == UNION {s.frames : s \in segments}
             complete == /\ frames # {}
                         /\ ~event.protection[c].short
                         /\ ~MissingNumber(frames)
                         /\ Continuous(segments, event.start, event.end)
             sound == SoundLeases(newest[c], taken[c], event.start)
  <2>1. camera[c] = [frames |-> frames, complete |-> complete]
    BY DEF FrozenCamera
  <2>2. RingSound(r, newest[c], taken[c]) /\ newest[c] \in Nat /\ taken[c] \subseteq Nat
    BY DEF RingsSound, RingSound
  <2>3. leases \in Seq(sound)
    BY DEF SoundEvents
  <2>4. granted => last \in sound
    <3>1. granted => FramesWithin(r, event.earliest, event.end) # {}
      BY DEF LeaseGranted
    <3> HIDE DEF r, granted
    <3>2. QED BY <1>2, <2>2, <3>1, LeaseOfIsSound
  <2>5. segments \subseteq sound
    <3>1. \A i \in DOMAIN leases : leases[i] \in sound
      <4> HIDE DEF leases, sound
      <4>1. QED BY <2>3, LenProperties, ElementOfSeq
    <3> HIDE DEF granted, last, sound, leases
    <3>2. ToSet(leases) \subseteq sound
      BY <3>1 DEF ToSet
    <3>3. QED BY <2>4, <3>2
  <2> HIDE DEF segments
  <2>6. Continuous(segments, event.start, event.end) /\ ~MissingNumber(frames)
    <3>1. camera[c].complete = complete
      <4> HIDE DEF frames, complete, camera
      <4>1. QED BY <2>1
    <3> HIDE DEF frames, camera
    <3>2. QED BY <1>3, <3>1
  <2>7. /\ event.end <= newest[c]
        /\ \A t \in taken[c] : event.start <= t /\ t <= event.end => \E s \in segments : t \in s.frames
    <3> HIDE DEF frames, camera
    <3>1. QED BY <1>2, <2>2, <2>5, <2>6, ContinuousCovers
  <2>8. {t \in taken[c] : event.start <= t /\ t <= event.end} \subseteq frames
    BY <2>7
  <2>9. camera[c].frames = frames
    <3> HIDE DEF frames, complete
    <3>1. QED BY <2>1
  <2> HIDE DEF frames, camera
  <2>10. QED BY <2>6, <2>7, <2>8, <2>9
<1> HIDE DEF camera
<1>4. FrozenSound(frozenEvent, newest, taken)
  BY <1>2, <1>3 DEF FrozenSound
<1>5. QED BY <1>1, <1>4

-----------------------------------------------------------------------------
(* The invariant of the windows *)

Newest == [c \in Cameras |-> ring[c].newest]

CallInv ==
    /\ call \in [into : Nat, positions : SUBSET Nat]
    /\ \A i \in call.positions : call.into < i /\ i <= Len(active)

WindowsInv ==
    /\ RingsSound(ring, Newest, accepted)
    /\ accepted \in [Cameras -> SUBSET Nat]
    /\ active \in Seq(SoundEvents(Newest, accepted))
    /\ CallInv
    /\ \A w \in frozen : FrozenSound(w, Newest, accepted)

THEOREM WindowsInvImplies == WindowsInv => CompleteHasEveryFrame
<1> SUFFICES ASSUME WindowsInv, NEW w \in frozen, w.complete, NEW c \in Cameras
             PROVE  /\ {t \in accepted[c] : w.start <= t /\ t <= w.end} \subseteq w.frames[c]
                    /\ ~MissingNumber(w.frames[c])
  BY DEF CompleteHasEveryFrame
<1>1. FrozenSound(w, Newest, accepted)
  BY DEF WindowsInv
<1>2. QED BY <1>1 DEF FrozenSound

THEOREM WindowsInitInv == WindowsInit => WindowsInv
<1> SUFFICES ASSUME WindowsInit PROVE WindowsInv
  OBVIOUS
<1> USE DEF WindowsInit
<1>1. Newest = [c \in Cameras |-> 0]
  BY DEF Newest, EmptyRing, NoFrame
<1>2. RingsSound(ring, Newest, accepted)
  <2>1. \A c \in Cameras : RingSound(EmptyRing, 0, {})
    BY DEF RingSound, EmptyRing, NoFrame, RingFields
  <2>2. QED BY <1>1, <2>1 DEF RingsSound
<1>3. active \in Seq(SoundEvents(Newest, accepted)) /\ Len(active) = 0
  BY EmptySeq
<1>4. CallInv
  BY <1>3 DEF CallInv, NoCall
<1>5. QED BY <1>2, <1>3, <1>4 DEF WindowsInv

LEMMA RemovedIsShorter ==
    ASSUME NEW S, NEW seq \in Seq(S), NEW i \in 1 .. Len(seq)
    PROVE  RemoveAt(seq, i) \in Seq(S) /\ Len(RemoveAt(seq, i)) = Len(seq) - 1
<1> DEFINE before == SubSeq(seq, 1, i - 1)
           after == SubSeq(seq, i + 1, Len(seq))
<1>1. Len(seq) \in Nat /\ i - 1 \in Int /\ i + 1 \in Int /\ Len(seq) \in Int /\ 1 \in Int
  BY LenProperties
<1>2. \A j \in 1 .. Len(seq) : seq[j] \in S
  BY ElementOfSeq
<1>3. before \in Seq(S) /\ Len(before) = i - 1
  <2>1. \A j \in 1 .. i - 1 : seq[j] \in S
    BY <1>1, <1>2
  <2>2. before \in Seq(S) /\ Len(before) = IF 1 <= i - 1 THEN (i - 1) - 1 + 1 ELSE 0
    BY <1>1, <2>1, SubSeqProperties
  <2>3. QED BY <1>1, <2>2
<1>4. after \in Seq(S) /\ Len(after) = Len(seq) - i
  <2>1. \A j \in i + 1 .. Len(seq) : seq[j] \in S
    BY <1>1, <1>2
  <2>2. after \in Seq(S) /\ Len(after) = IF i + 1 <= Len(seq) THEN Len(seq) - (i + 1) + 1 ELSE 0
    BY <1>1, <2>1, SubSeqProperties
  <2>3. QED BY <1>1, <2>2
<1> HIDE DEF before, after
<1>5. before \o after \in Seq(S) /\ Len(before \o after) = Len(before) + Len(after)
  BY <1>3, <1>4, ConcatProperties
<1>6. RemoveAt(seq, i) = before \o after
  BY DEF RemoveAt, before, after
<1>7. QED BY <1>1, <1>3, <1>4, <1>5, <1>6

\* A step that takes no frame leaves what was sound sound.
LEMMA SameFramesKept ==
    ASSUME WindowsInv, RingsSound(ring', Newest, accepted), accepted' = accepted
    PROVE  Newest' = Newest /\ RingsSound(ring', Newest', accepted')
<1>1. \A c \in Cameras : ring'[c].newest = ring[c].newest
  BY DEF RingsSound, RingSound, Newest
<1>2. Newest' = Newest
  BY <1>1 DEF Newest
<1>3. QED BY <1>2

LEMMA PushedIsSound ==
    ASSUME NEW r, NEW newest \in Nat, NEW taken, RingSound(r, newest, taken),
           NEW t \in Nat, newest < t
    PROVE  RingSound(WithFrame(r, t), t, taken \cup {t})
<1> DEFINE kept == IF Cardinality(r.frames) >= RingCapacity THEN r.frames \ {Min(r.frames)} ELSE r.frames
           pushed == [r EXCEPT !.frames = {t} \cup kept, !.newest = t]
<1>1. WithFrame(r, t) = pushed
  BY DEF WithFrame
<1>2. /\ r = [field \in RingFields |-> r[field]]
      /\ taken \subseteq Nat /\ r.frames \subseteq taken
      /\ (\A x \in taken : x \in Nat /\ x <= newest)
      /\ \A x \in taken \ r.frames : \A f \in r.frames : x < f
  BY DEF RingSound
<1>3. kept \subseteq r.frames /\ \A x \in r.frames \ kept : \A f \in kept : x < f
  <2>1. CASE r.frames = {}
    BY <2>1
  <2>2. CASE r.frames # {}
    <3>1. r.frames \subseteq Int /\ (\A f \in r.frames : 0 <= f) /\ 0 \in Int
      BY <1>2
    <3>2. \A f \in r.frames : Min(r.frames) <= f
      BY <2>2, <3>1, MinIsLeast
    <3>3. Min(r.frames) \in r.frames
      BY <2>2, <3>1, MinIsLeast
    <3>4. \A f \in r.frames : f # Min(r.frames) => Min(r.frames) < f
      BY <3>1, <3>2, <3>3
    <3>5. QED BY <3>4
  <2>3. QED BY <2>1, <2>2
<1> HIDE DEF kept
<1>4. /\ pushed = [field \in RingFields |-> pushed[field]]
      /\ pushed.frames = {t} \cup kept /\ pushed.newest = t
  BY <1>2 DEF RingFields
<1> HIDE DEF pushed
<1>5. \A x \in taken : x < t
  BY <1>2
<1>6. ASSUME NEW x \in (taken \cup {t}) \ pushed.frames, NEW f \in pushed.frames PROVE x < f
  <2>1. x \in taken /\ x \notin kept /\ (f = t \/ f \in kept)
    BY <1>4
  <2>2. CASE f = t
    BY <1>5, <2>1, <2>2
  <2>3. CASE f \in kept
    BY <1>2, <1>3, <2>1, <2>3
  <2>4. QED BY <2>1, <2>2, <2>3
<1>7. \A x \in taken \cup {t} : x <= t
  BY <1>2, <1>5
<1>8. pushed.frames \subseteq taken \cup {t} /\ taken \cup {t} \subseteq Nat
  BY <1>2, <1>3, <1>4
<1>9. RingSound(pushed, t, taken \cup {t})
  BY <1>4, <1>6, <1>7, <1>8 DEF RingSound
<1>10. QED BY <1>1, <1>9

\* A frame arrives: every lease and every frozen window lies before it.
LEMMA PushInv ==
    ASSUME WindowsInv, NEW c \in Cameras, NEW t \in Times, Push(c, t)
    PROVE  WindowsInv'
<1> DEFINE newest == Newest
           later == [newest EXCEPT ![c] = t]
           more == [accepted EXCEPT ![c] = @ \cup {t}]
<1>1. /\ newest \in [Cameras -> Nat] /\ accepted \in [Cameras -> SUBSET Nat]
      /\ ring = [d \in Cameras |-> ring[d]]
      /\ \A d \in Cameras : RingSound(ring[d], newest[d], accepted[d])
  BY DEF WindowsInv, RingsSound
<1>2. t \in Nat /\ newest[c] < t
  <2>1. newest[c] = ring[c].newest
    BY DEF Newest
  <2>2. ring[c].newest < t
    <3>1. ring[c].newest \in Nat /\ t \in Nat
      BY <1>1, <2>1 DEF Times
    <3>2. QED BY <3>1 DEF Push, PushAccepted
  <2>3. QED BY <2>1, <2>2 DEF Times
<1>3. ring' = [ring EXCEPT ![c] = WithFrame(@, t)] /\ accepted' = more
  BY DEF Push
<1>4. \A d \in Cameras : d # c => later[d] = newest[d] /\ more[d] = accepted[d] /\ ring'[d] = ring[d]
  <2> HIDE DEF newest
  <2>1. QED BY <1>1, <1>3
<1>5. later[c] = t /\ more[c] = accepted[c] \cup {t} /\ ring'[c] = WithFrame(ring[c], t)
  <2> HIDE DEF newest
  <2>1. QED BY <1>1, <1>3
<1>6. later \in [Cameras -> Nat] /\ more \in [Cameras -> SUBSET Nat]
  <2> HIDE DEF newest
  <2>1. QED BY <1>1, <1>2
<1>7. ring' = [d \in Cameras |-> ring'[d]]
  <2>1. ring' = [d \in Cameras |-> IF d = c THEN WithFrame(ring[c], t) ELSE ring[d]]
    BY <1>1, <1>3
  <2>2. QED BY <2>1
<1> HIDE DEF newest, later, more
<1>8. ASSUME NEW d \in Cameras PROVE RingSound(ring'[d], later[d], more[d])
  <2>1. CASE d = c
    <3>1. RingSound(WithFrame(ring[c], t), t, accepted[c] \cup {t})
      BY <1>1, <1>2, PushedIsSound
    <3>2. QED BY <1>5, <2>1, <3>1
  <2>2. CASE d # c
    BY <1>1, <1>4, <2>2
  <2>3. QED BY <2>1, <2>2
<1>9. RingsSound(ring', later, more)
  BY <1>6, <1>7, <1>8 DEF RingsSound
<1>10. Newest' = later
  <2>1. \A d \in Cameras : ring'[d].newest = later[d]
    BY <1>8 DEF RingSound
  <2>2. later = [d \in Cameras |-> later[d]]
    BY <1>6
  <2>3. Newest' = [d \in Cameras |-> ring'[d].newest]
    BY DEF Newest
  <2>4. QED BY <2>1, <2>2, <2>3
<1>11. SoundEvents(newest, accepted) \subseteq SoundEvents(later, more)
  <2> SUFFICES ASSUME NEW event \in SoundEvents(newest, accepted)
               PROVE  event \in SoundEvents(later, more)
    OBVIOUS
  <2>1. event \in EventTypes /\ event.start <= event.earliest /\ event.start \in Int
    BY DEF SoundEvents, EventTypes
  <2>2. ASSUME NEW d \in Cameras
        PROVE  event.protection[d].leases \in Seq(SoundLeases(later[d], more[d], event.start))
    <3>1. event.protection[d].leases \in Seq(SoundLeases(newest[d], accepted[d], event.start))
      BY DEF SoundEvents
    <3>2. SoundLeases(newest[d], accepted[d], event.start) \subseteq SoundLeases(later[d], more[d], event.start)
      <4>1. CASE d = c
        <5>1. SoundLeases(newest[c], accepted[c], event.start)
                 \subseteq SoundLeases(t, accepted[c] \cup {t}, event.start)
          BY <1>1, <1>2, <2>1, SoundLeasesStay
        <5>2. QED BY <1>5, <4>1, <5>1
      <4>2. CASE d # c
        BY <1>4, <4>2
      <4>3. QED BY <4>1, <4>2
    <3>3. QED BY <3>1, <3>2, SeqMonotonic
  <2>3. QED BY <2>1, <2>2 DEF SoundEvents
<1>12. active \in Seq(SoundEvents(later, more))
  <2>1. active \in Seq(SoundEvents(newest, accepted))
    BY DEF WindowsInv, newest
  <2>2. QED BY <1>11, <2>1, SeqMonotonic
<1>13. ASSUME NEW w \in frozen PROVE FrozenSound(w, later, more)
  <2>1. FrozenSound(w, newest, accepted)
    BY DEF WindowsInv, newest
  <2>2. w.start \in Int /\ w.end \in Int
    BY <2>1 DEF FrozenSound
  <2>3. ASSUME w.complete, NEW d \in Cameras
        PROVE  /\ w.end <= later[d]
               /\ {x \in more[d] : w.start <= x /\ x <= w.end} \subseteq w.frames[d]
               /\ ~MissingNumber(w.frames[d])
    <3>1. /\ w.end <= newest[d]
          /\ {x \in accepted[d] : w.start <= x /\ x <= w.end} \subseteq w.frames[d]
          /\ ~MissingNumber(w.frames[d])
      BY <2>1, <2>3 DEF FrozenSound
    <3>2. CASE d = c
      <4>1. newest[c] \in Nat
        BY <1>1
      <4>2. w.end < t
        BY <1>2, <2>2, <3>1, <3>2, <4>1
      <4>3. \A x \in more[c] : x <= w.end => x \in accepted[c]
        BY <1>2, <1>5, <2>2, <4>2
      <4>4. w.end <= later[c]
        BY <1>2, <1>5, <2>2, <4>2
      <4>5. QED BY <3>1, <3>2, <4>3, <4>4
    <3>3. CASE d # c
      BY <1>4, <3>1, <3>3
    <3>4. QED BY <3>2, <3>3
  <2>4. QED BY <2>2, <2>3 DEF FrozenSound
<1>14. CallInv' /\ frozen' = frozen /\ active' = active
  BY DEF WindowsInv, CallInv, Push
<1>15. QED
  BY <1>3, <1>6, <1>9, <1>10, <1>12, <1>13, <1>14 DEF WindowsInv

-----------------------------------------------------------------------------
(* The steps that take no frame *)

\* What such a step has to show: that rings, open windows, the call and what it
\* has frozen are sound.
LEMMA SoundStep ==
    ASSUME WindowsInv, RingsSound(ring', Newest, accepted), accepted' = accepted,
           active' \in Seq(SoundEvents(Newest, accepted)), CallInv',
           \A w \in frozen' : w \in frozen \/ FrozenSound(w, Newest, accepted)
    PROVE  WindowsInv'
<1>1. Newest' = Newest /\ RingsSound(ring', Newest', accepted')
  BY SameFramesKept
<1>2. \A w \in frozen' : FrozenSound(w, Newest, accepted)
  BY DEF WindowsInv
<1>3. accepted' \in [Cameras -> SUBSET Nat]
  BY DEF WindowsInv
<1>4. QED BY <1>1, <1>2, <1>3 DEF WindowsInv

LEMMA OneRingChanged ==
    ASSUME NEW newest, NEW taken, NEW rings, RingsSound(rings, newest, taken),
           NEW c \in Cameras, NEW r, RingSound(r, newest[c], taken[c])
    PROVE  RingsSound([rings EXCEPT ![c] = r], newest, taken)
<1> DEFINE changed == [d \in Cameras |-> IF d = c THEN r ELSE rings[d]]
<1>1. rings = [d \in Cameras |-> rings[d]]
  BY DEF RingsSound
<1>2. [rings EXCEPT ![c] = r] = changed
  BY <1>1
<1>3. \A d \in Cameras : RingSound(changed[d], newest[d], taken[d])
  BY DEF RingsSound
<1>4. changed = [d \in Cameras |-> changed[d]]
  OBVIOUS
<1> HIDE DEF changed
<1>5. RingsSound(changed, newest, taken)
  BY <1>3, <1>4 DEF RingsSound
<1>6. QED BY <1>2, <1>5

LEMMA PreBufferIsSound ==
    ASSUME WindowsInv, NEW c \in Cameras, NEW t
    PROVE  RingsSound(WithPreBuffer(c, t), Newest, accepted)
<1>1. RingsSound(ring, Newest, accepted)
  BY DEF WindowsInv
<1> DEFINE r == Leased(ring[c], LeaseOf(ring[c], t - PreEvent, t))
<1>2. RingSound(r, Newest[c], accepted[c])
  BY <1>1, LeasedIsSound DEF RingsSound
<1>3. WithPreBuffer(c, t) = IF LeaseGranted(ring[c], t - PreEvent, t) THEN [ring EXCEPT ![c] = r] ELSE ring
  <2>1. ring = [d \in Cameras |-> ring[d]]
    BY <1>1 DEF RingsSound
  <2>2. QED BY <2>1 DEF WithPreBuffer
<1> HIDE DEF r
<1>4. RingsSound([ring EXCEPT ![c] = r], Newest, accepted)
  BY <1>1, <1>2, OneRingChanged
<1>5. QED BY <1>1, <1>3, <1>4

LEMMA WithoutLeasesIsSound ==
    ASSUME NEW newest, NEW taken, NEW rings, RingsSound(rings, newest, taken), NEW events
    PROVE  RingsSound(WithoutLeases(rings, events), newest, taken)
<1> DEFINE count(c) == MapThenSumSet(LAMBDA event : Len(event.protection[c].leases), events)
           some(c) == MapThenSumSet(LAMBDA event : LeasedFrames(event.protection[c].leases), events)
           without == [c \in Cameras |-> Released(rings[c], count(c), some(c))]
<1>1. WithoutLeases(rings, events) = without
  BY DEF WithoutLeases
<1> HIDE DEF count, some
<1>2. \A c \in Cameras : RingSound(without[c], newest[c], taken[c])
  BY ReleasedIsSound DEF RingsSound
<1>3. without = [c \in Cameras |-> without[c]]
  OBVIOUS
<1> HIDE DEF without
<1>4. RingsSound(without, newest, taken)
  BY <1>2, <1>3 DEF RingsSound
<1>5. QED BY <1>1, <1>4

LEMMA StartWindowInv ==
    ASSUME WindowsInv, NEW c \in Cameras, NEW t \in Times, StartWindow(c, t)
    PROVE  WindowsInv'
<1> DEFINE event == NewEvent(c, t)
           rings == WithPreBuffer(c, t)
           state == Protected([event |-> event, rings |-> rings], event.start, t)
<1>1. t \in Nat /\ t \in Int
  BY DEF Times
<1>2. event \in SoundEvents(Newest, accepted) /\ event.start \in Int
  <2>1. event \in SoundEvents(Newest, accepted)
    BY <1>1, NewEventIsSound
  <2>2. QED BY <2>1 DEF SoundEvents, EventTypes
<1>3. RingsSound(rings, Newest, accepted)
  BY PreBufferIsSound
<1>4. state.event \in SoundEvents(Newest, accepted) /\ RingsSound(state.rings, Newest, accepted)
  <2> HIDE DEF event, rings
  <2>1. event.start <= event.start
    BY <1>2
  <2>2. QED BY <1>1, <1>2, <1>3, <2>1, ProtectedIsSound
<1>5. /\ active' = Append(active, state.event) /\ ring' = state.rings
      /\ call' = call /\ accepted' = accepted /\ frozen' = frozen
  BY DEF StartWindow, OpenCandidate
<1> HIDE DEF state
<1>6. active \in Seq(SoundEvents(Newest, accepted))
  BY DEF WindowsInv
<1>7. active' \in Seq(SoundEvents(Newest, accepted)) /\ Len(active') = Len(active) + 1 /\ Len(active) \in Nat
  BY <1>4, <1>5, <1>6, AppendProperties, LenProperties
<1>8. CallInv'
  BY <1>5, <1>7 DEF WindowsInv, CallInv
<1>9. QED BY <1>4, <1>5, <1>7, <1>8, SoundStep

LEMMA MergeWindowsInv ==
    ASSUME WindowsInv, NEW c \in Cameras, NEW t \in Times, MergeWindows(c, t)
    PROVE  WindowsInv'
<1> DEFINE matches == Matches(t)
           oldest == Min(matches)
           sound == SoundEvents(Newest, accepted)
           event == Union(active[oldest], NewEvent(c, t))
           rings == WithPreBuffer(c, t)
           joined == Widened([event |-> event, rings |-> rings], active[oldest].start)
<1>1. t \in Nat
  BY DEF Times
<1>2. active \in Seq(sound) /\ Len(active) \in Nat
  BY LenProperties DEF WindowsInv
<1>3. matches \subseteq 1 .. Len(active) /\ matches # {}
  BY DEF Matches, MergeWindows
<1>4. oldest \in matches /\ \A i \in matches : oldest <= i
  <2>1. matches \subseteq Int /\ (\A i \in matches : 1 <= i) /\ 1 \in Int
    BY <1>2, <1>3
  <2> HIDE DEF matches
  <2>2. QED BY <1>3, <2>1, MinIsLeast
<1> HIDE DEF matches, oldest, sound
<1>5. oldest \in 1 .. Len(active)
  BY <1>3, <1>4
<1>6. active[oldest] \in sound
  BY <1>2, <1>5, ElementOfSeq
<1>7. active[oldest].start \in Int
  BY <1>6 DEF sound, SoundEvents, EventTypes
<1>8. event \in sound
  <2>1. NewEvent(c, t) \in sound
    BY <1>1, NewEventIsSound DEF sound
  <2>2. Newest \in [Cameras -> Nat]
    BY DEF WindowsInv, RingsSound
  <2>3. QED BY <1>6, <2>1, <2>2, UnionIsSound DEF sound
<1>9. RingsSound(rings, Newest, accepted)
  BY PreBufferIsSound
<1>10. joined.event \in sound /\ RingsSound(joined.rings, Newest, accepted)
  <2> HIDE DEF event, rings
  <2>1. QED BY <1>7, <1>8, <1>9, WidenedIsSound DEF sound
<1>11. /\ active' = [active EXCEPT ![oldest] = joined.event] /\ ring' = joined.rings
       /\ accepted' = accepted /\ frozen' = frozen
  BY DEF MergeWindows, OpenCandidate, matches, oldest
<1>12. PICK absorbed \in SUBSET (matches \ {oldest}) : call' = [into |-> oldest, positions |-> absorbed]
  BY DEF MergeWindows, matches, oldest
<1> HIDE DEF joined
<1>13. active' \in Seq(sound) /\ Len(active') = Len(active)
  BY <1>2, <1>5, <1>10, <1>11, ExceptSeq
<1>14. \A i \in absorbed : i \in Nat /\ oldest < i /\ i <= Len(active)
  BY <1>2, <1>3, <1>4, <1>5
<1>15. CallInv'
  <2>1. absorbed \in SUBSET Nat /\ oldest \in Nat
    BY <1>5, <1>14
  <2>2. call' \in [into : Nat, positions : SUBSET Nat] /\ call'.into = oldest /\ call'.positions = absorbed
    BY <1>12, <2>1
  <2>3. QED BY <1>13, <1>14, <2>2 DEF CallInv
<1>16. QED BY <1>10, <1>11, <1>13, <1>15, SoundStep DEF sound

LEMMA RefuseTriggerInv ==
    ASSUME WindowsInv, NEW c \in Cameras, NEW t \in Times, RefuseTrigger(c, t)
    PROVE  WindowsInv'
<1>1. /\ ring' = WithPreBuffer(c, t) /\ accepted' = accepted /\ active' = active
      /\ call' = call /\ frozen' = frozen
  BY DEF RefuseTrigger, OpenCandidate
<1>2. RingsSound(ring', Newest, accepted)
  BY <1>1, PreBufferIsSound
<1>3. CallInv' /\ active' \in Seq(SoundEvents(Newest, accepted))
  BY <1>1 DEF WindowsInv, CallInv
<1>4. QED BY <1>1, <1>2, <1>3, SoundStep

LEMMA RearmInv ==
    ASSUME WindowsInv, NEW c \in Cameras, Rearm(c)
    PROVE  WindowsInv'
<1> DEFINE r == Released(ring[c], 1, preBuffer[c])
<1>1. RingsSound(ring, Newest, accepted) /\ ring = [d \in Cameras |-> ring[d]]
  BY DEF WindowsInv, RingsSound
<1>2. RingSound(r, Newest[c], accepted[c])
  BY <1>1, ReleasedIsSound DEF RingsSound
<1>3. ring' = ring \/ ring' = [ring EXCEPT ![c] = r]
  BY <1>1 DEF Rearm
<1>4. accepted' = accepted /\ active' = active /\ call' = call /\ frozen' = frozen
  BY DEF Rearm
<1> HIDE DEF r
<1>5. RingsSound([ring EXCEPT ![c] = r], Newest, accepted)
  BY <1>1, <1>2, OneRingChanged
<1>6. RingsSound(ring', Newest, accepted)
  BY <1>1, <1>3, <1>5
<1>7. CallInv' /\ active' \in Seq(SoundEvents(Newest, accepted))
  BY <1>4 DEF WindowsInv, CallInv
<1>8. QED BY <1>4, <1>6, <1>7, SoundStep

\* The youngest window of the call leaves the open ones; the others of the call
\* keep their positions.
LEMMA OneDoneInv ==
    ASSUME WindowsInv, NEW i \in 1 .. Len(active), Youngest(i), OneDone(i),
           Len(active') = Len(active) - 1
    PROVE  CallInv'
<1>1. call \in [into : Nat, positions : SUBSET Nat] /\ Len(active) \in Nat
  BY LenProperties DEF WindowsInv, CallInv
<1>2. call'.into = call.into /\ call'.positions = call.positions \ {i}
  BY <1>1 DEF OneDone
<1>3. call' \in [into : Nat, positions : SUBSET Nat]
  BY <1>1 DEF OneDone
<1>4. ASSUME NEW j \in call'.positions PROVE call'.into < j /\ j <= Len(active')
  <2>1. j \in call.positions /\ j # i /\ j \in Nat /\ j <= i
    BY <1>1, <1>2 DEF Youngest
  <2>2. call.into < j
    BY <2>1 DEF WindowsInv, CallInv
  <2>3. j <= Len(active) - 1
    BY <1>1, <2>1
  <2>4. QED BY <1>2, <2>2, <2>3
<1>5. QED BY <1>3, <1>4 DEF CallInv

LEMMA AbsorbInv ==
    ASSUME WindowsInv, NEW i \in 1 .. Len(active), Absorb(i)
    PROVE  WindowsInv'
<1> DEFINE into == call.into
           sound == SoundEvents(Newest, accepted)
           merged == MergedInto([event |-> active[into], rings |-> ring], active[i])
           grown == [active EXCEPT ![into] = merged.event]
<1>1. active \in Seq(sound) /\ Len(active) \in Nat /\ RingsSound(ring, Newest, accepted)
  BY LenProperties DEF WindowsInv
<1>2. into \in 1 .. Len(active)
  <2>1. into \in Nat /\ into # 0 /\ into < i
    BY DEF WindowsInv, CallInv, Absorb, Youngest
  <2>2. QED BY <1>1, <2>1
<1>3. /\ active' = RemoveAt(grown, i) /\ ring' = merged.rings /\ Youngest(i) /\ OneDone(i)
      /\ accepted' = accepted /\ frozen' = frozen
  BY DEF Absorb
<1> HIDE DEF sound, into
<1>4. active[into] \in sound /\ active[i] \in sound
  BY <1>1, <1>2, ElementOfSeq
<1>5. merged.event \in sound /\ RingsSound(merged.rings, Newest, accepted)
  BY <1>1, <1>4, MergedIsSound DEF sound
<1> HIDE DEF merged
<1>6. grown \in Seq(sound) /\ Len(grown) = Len(active)
  BY <1>1, <1>2, <1>5, ExceptSeq
<1> HIDE DEF grown
<1>7. active' \in Seq(sound) /\ Len(active') = Len(active) - 1
  BY <1>3, <1>6, RemovedIsShorter
<1>8. CallInv'
  BY <1>3, <1>7, OneDoneInv
<1>9. QED BY <1>3, <1>5, <1>7, <1>8, SoundStep DEF sound

LEMMA AdvanceTimeInv ==
    ASSUME WindowsInv, NEW t \in Times, AdvanceTime(t)
    PROVE  WindowsInv'
<1>1. /\ ring' = ring /\ accepted' = accepted /\ active' = active /\ frozen' = frozen
      /\ call' = [into |-> 0, positions |-> Expired(t)]
  BY DEF AdvanceTime
<1>2. active \in Seq(SoundEvents(Newest, accepted)) /\ Len(active) \in Nat
  BY LenProperties DEF WindowsInv
<1>3. CallInv'
  <2>1. \A i \in Expired(t) : i \in Nat /\ 0 < i /\ i <= Len(active)
    BY <1>2 DEF Expired
  <2>2. Expired(t) \in SUBSET Nat
    BY <2>1
  <2>3. call' \in [into : Nat, positions : SUBSET Nat] /\ call'.into = 0 /\ call'.positions = Expired(t)
    BY <1>1, <2>2
  <2>4. QED BY <1>1, <2>1, <2>3 DEF CallInv
<1>4. QED BY <1>1, <1>2, <1>3, SoundStep DEF WindowsInv

LEMMA FreezeWindowInv ==
    ASSUME WindowsInv, NEW i \in 1 .. Len(active), FreezeWindow(i)
    PROVE  WindowsInv'
<1>1. active \in Seq(SoundEvents(Newest, accepted)) /\ RingsSound(ring, Newest, accepted)
  BY DEF WindowsInv
<1>2. /\ frozen' = frozen \cup {FrozenEvent(ring, active[i], now)}
      /\ ring' = WithoutLeases(ring, {active[i]}) /\ active' = RemoveAt(active, i)
      /\ Youngest(i) /\ OneDone(i) /\ accepted' = accepted
  BY DEF FreezeWindow
<1>3. RingsSound(ring', Newest, accepted)
  BY <1>1, <1>2, WithoutLeasesIsSound
<1>4. active[i] \in SoundEvents(Newest, accepted)
  BY <1>1, ElementOfSeq
<1>5. FrozenSound(FrozenEvent(ring, active[i], now), Newest, accepted)
  BY <1>1, <1>4, FrozenEventIsSound
<1>6. active' \in Seq(SoundEvents(Newest, accepted)) /\ Len(active') = Len(active) - 1
  BY <1>1, <1>2, RemovedIsShorter
<1>7. CallInv'
  BY <1>2, <1>6, OneDoneInv
<1>8. QED BY <1>2, <1>3, <1>5, <1>6, <1>7, SoundStep

LEMMA StopInv ==
    ASSUME WindowsInv, StopWindows
    PROVE  WindowsInv'
<1>1. active \in Seq(SoundEvents(Newest, accepted)) /\ RingsSound(ring, Newest, accepted)
  BY DEF WindowsInv
<1>2. /\ frozen' = frozen \cup {FrozenEvent(ring, event, now) : event \in ToSet(active)}
      /\ ring' = WithoutLeases(ring, ToSet(active)) /\ active' = <<>>
      /\ call' = call /\ call.positions = {} /\ accepted' = accepted
  BY DEF StopWindows, CallOver
<1>3. RingsSound(ring', Newest, accepted)
  BY <1>1, <1>2, WithoutLeasesIsSound
<1>4. ASSUME NEW event \in ToSet(active)
      PROVE  FrozenSound(FrozenEvent(ring, event, now), Newest, accepted)
  <2>1. PICK i \in DOMAIN active : event = active[i]
    BY DEF ToSet
  <2>2. event \in SoundEvents(Newest, accepted)
    BY <1>1, <2>1, LenProperties, ElementOfSeq
  <2>3. QED BY <1>1, <2>2, FrozenEventIsSound
<1>5. active' \in Seq(SoundEvents(Newest, accepted))
  BY <1>2, EmptySeq
<1>6. CallInv'
  BY <1>2 DEF WindowsInv, CallInv
<1>7. QED BY <1>2, <1>3, <1>4, <1>5, <1>6, SoundStep

THEOREM WindowsStep == WindowsInv /\ [WindowsNext]_windowVars => WindowsInv'
<1> SUFFICES ASSUME WindowsInv, [WindowsNext]_windowVars PROVE WindowsInv'
  OBVIOUS
<1>1. ASSUME NEW c \in Cameras, NEW t \in Times, Push(c, t) PROVE WindowsInv'
  BY <1>1, PushInv
<1>2. ASSUME NEW c \in Cameras, NEW t \in Times, StartWindow(c, t) PROVE WindowsInv'
  BY <1>2, StartWindowInv
<1>3. ASSUME NEW c \in Cameras, NEW t \in Times, MergeWindows(c, t) PROVE WindowsInv'
  BY <1>3, MergeWindowsInv
<1>4. ASSUME NEW c \in Cameras, NEW t \in Times, RefuseTrigger(c, t) PROVE WindowsInv'
  BY <1>4, RefuseTriggerInv
<1>5. ASSUME NEW c \in Cameras, Rearm(c) PROVE WindowsInv'
  BY <1>5, RearmInv
<1>6. ASSUME NEW i \in 1 .. Len(active), Absorb(i) PROVE WindowsInv'
  BY <1>6, AbsorbInv
<1>7. ASSUME NEW i \in 1 .. Len(active), FreezeWindow(i) PROVE WindowsInv'
  BY <1>7, FreezeWindowInv
<1>8. ASSUME NEW t \in Times, AdvanceTime(t) PROVE WindowsInv'
  BY <1>8, AdvanceTimeInv
<1>9. CASE StopWindows
  BY <1>9, StopInv
<1>10. CASE UNCHANGED windowVars
  <2>1. /\ ring' = ring /\ accepted' = accepted /\ active' = active /\ call' = call
        /\ frozen' = frozen
    BY <1>10 DEF windowVars
  <2>2. CallInv' /\ Newest' = Newest
    BY <2>1 DEF WindowsInv, CallInv, Newest
  <2>3. QED BY <2>1, <2>2 DEF WindowsInv
<1>11. QED
  BY <1>1, <1>2, <1>3, <1>4, <1>5, <1>6, <1>7, <1>8, <1>9, <1>10 DEF WindowsNext

\* A window declared complete has every frame that any camera's ring took
\* between its start and its end, whatever was overwritten, lost or refused a
\* lease meanwhile and however windows were joined (event_window.cpp).
THEOREM CompleteHasEveryFrameAlways == WindowsSpec => []CompleteHasEveryFrame
<1>1. WindowsSpec => []WindowsInv
  BY WindowsInitInv, WindowsStep, PTL DEF WindowsSpec
<1>2. QED BY <1>1, WindowsInvImplies, PTL

=============================================================================
