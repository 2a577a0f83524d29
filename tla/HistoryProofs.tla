---------------------------- MODULE HistoryProofs ----------------------------
(***************************************************************************)
(* Proofs about the history of an InMemoryNode: what its archive of states *)
(* holds, how its snapshots lie within it, what its filters have queued of *)
(* it, and that the node implements the Ledger.                            *)
(***************************************************************************)
EXTENDS InMemoryNodeProofs, WellFoundedInduction

(* Archived states are filed in the order of their blocks, ... *)
Increasing(ps) == \A i, j \in DOMAIN ps : i < j => ps[i].hash[1] < ps[j].hash[1]

(* ... all of them below that of h, ... *)
Below(ps, h) == \A i \in DOMAIN ps : ps[i].hash[1] < h[1]

(* ... and of the hashes H none is missing from the oldest one on.          *)
Complete(ps, H) ==
    \A h \in H, i \in DOMAIN ps : ps[i].hash[1] <= h[1] => h \in ArchivedHashes(ps)

(* The hashes of the blocks run_l2_tx produced for transactions.            *)
TxBlockHashes(s, f) ==
    {s.block_hashes[n] : n \in {m \in First(f) .. s.current_miniblock : Holds(s, f, m)}}

ArchiveOK(s, f) ==
    /\ Increasing(s.previous_states)
    /\ Below(s.previous_states, s.current_miniblock_hash)
    /\ Complete(s.previous_states, TxBlockHashes(s, f))

(* What two archives hold under the same hash is the same. *)
SameStates(ps, qs) ==
    \A i \in DOMAIN ps, j \in DOMAIN qs :
        ps[i].hash = qs[j].hash => ps[i].slots = qs[j].slots

(* u comes after s in one history. *)
Precedes(s, u) ==
    /\ IsPrefix(s, u)
    /\ s.current_miniblock_hash[1] <= u.current_miniblock_hash[1]
    /\ SameStates(s.previous_states, u.previous_states)

(* A registry; the queues of log filters are left out of it. *)
RegistryOK(ef) ==
    /\ ef = [id_counter |-> ef.id_counter, filters |-> ef.filters]
    /\ ef.id_counter \in Nat
    /\ \A id \in Installed(ef) :
          /\ {"type", "updates"} \subseteq DOMAIN ef.filters[id]
          /\ ef.filters[id].type # "log" => IsList(ef.filters[id].updates)

StateOK(s, f) == ArchiveOK(s, f) /\ RegistryOK(s.filters)

(* The inductive invariant: the node and its snapshots are states of one    *)
(* history, in the order of the list.  It is stated of every two of them,   *)
(* because a revert puts one far down the list in the node's place.         *)
HistoryInv ==
    /\ StateOK(snapshot, fork)
    /\ \A i \in DOMAIN snapshots :
          /\ StateOK(snapshots[i], fork)
          /\ Precedes(snapshots[i], snapshot)
    /\ \A i, k \in DOMAIN snapshots : i < k => Precedes(snapshots[i], snapshots[k])

-----------------------------------------------------------------------------
(* The archive. *)

(* What an archive is made of. *)
LEMMA ArchiveType ==
    ASSUME NEW ps \in Archive
    PROVE  /\ Len(ps) \in Nat /\ DOMAIN ps = 1 .. Len(ps)
           /\ \A i \in DOMAIN ps : ps[i].hash \in Hash /\ ps[i].slots \in [Keys -> Values]
<1> DEFINE E == [hash : Hash, slots : [Keys -> Values]]
<1>1. ps \in Seq(E)
  BY DEF Archive
<1> HIDE DEF E
<1>2. Len(ps) \in Nat /\ DOMAIN ps = 1 .. Len(ps) /\ \A i \in DOMAIN ps : ps[i] \in E
  BY <1>1, LenProperties, ElementOfSeq
<1>3. \A e \in E : e.hash \in Hash /\ e.slots \in [Keys -> Values]
  BY DEF E
<1> QED BY <1>2, <1>3, Zenon

(* archive_state of a hash above all archived ones appends its entry, and   *)
(* drops at most the oldest one.                                            *)
LEMMA ArchiveShifts ==
    ASSUME NEW ps \in Archive, NEW h \in Hash, NEW slots \in [Keys -> Values], Below(ps, h),
           NEW qs, qs = archive_state(ps, h, slots)
    PROVE  \E d \in {0, 1}, k \in Nat :
              /\ DOMAIN qs = 1 .. k + 1
              /\ qs[k + 1] = [hash |-> h, slots |-> slots]
              /\ \A i \in 1 .. k : i + d \in DOMAIN ps /\ qs[i] = ps[i + d]
              /\ DOMAIN ps = 1 .. k + d
<1> DEFINE E  == [hash : Hash, slots : [Keys -> Values]]
           e  == [hash |-> h, slots |-> slots]
           rs == IF Len(ps) > MAX_PREVIOUS_STATES THEN Tail(ps) ELSE ps
           d  == IF Len(ps) > MAX_PREVIOUS_STATES THEN 1 ELSE 0
<1>1. e \in E /\ h[1] \in Nat
  BY DEF Hash
<1>2. MAX_PREVIOUS_STATES \in Nat
  BY LimitAssumption
<1>3. ps \in Seq(E) /\ Len(ps) \in Nat /\ DOMAIN ps = 1 .. Len(ps)
  BY LenProperties DEF Archive
<1> HIDE DEF E, e
<1>4. /\ d \in {0, 1} /\ rs \in Seq(E) /\ Len(ps) = Len(rs) + d
      /\ \A i \in 1 .. Len(rs) : rs[i] = ps[i + d]
  <2>1. CASE Len(ps) > MAX_PREVIOUS_STATES
    <3>1. ps # << >>
      BY <1>2, <1>3, <2>1
    <3>2. Tail(ps) \in Seq(E) /\ Len(Tail(ps)) = Len(ps) - 1
          /\ \A i \in 1 .. Len(Tail(ps)) : Tail(ps)[i] = ps[i + 1]
      BY <1>3, <3>1, HeadTailProperties
    <3>3. rs = Tail(ps) /\ d = 1
      BY <2>1
    <3> HIDE DEF rs, d
    <3> QED BY <1>3, <3>2, <3>3
  <2>2. CASE ~ (Len(ps) > MAX_PREVIOUS_STATES)
    <3>1. rs = ps /\ d = 0
      BY <2>2
    <3>2. \A i \in 1 .. Len(ps) : i + 0 = i
      OBVIOUS
    <3> HIDE DEF rs, d
    <3> QED BY <1>3, <3>1, <3>2
  <2> QED BY <2>1, <2>2
<1> HIDE DEF rs, d
<1>5. Len(rs) \in Nat /\ DOMAIN rs = 1 .. Len(rs)
  BY <1>4, LenProperties
<1>6. \A i \in DOMAIN rs : i + d \in DOMAIN ps
  BY <1>3, <1>4, <1>5
<1>7. h \notin ArchivedHashes(rs)
  <2> SUFFICES ASSUME NEW i \in DOMAIN rs, rs[i].hash = h PROVE FALSE
    BY DEF ArchivedHashes
  <2>1. ps[i + d].hash[1] < h[1]
    BY <1>6 DEF Below
  <2>2. ps[i + d] = rs[i]
    BY <1>4, <1>5
  <2> QED BY <1>1, <2>1, <2>2
<1>8. archive_state(ps, h, slots) = Append(rs, e)
  BY <1>7 DEF archive_state, ArchiveInsert, rs, e
<1>9. /\ DOMAIN Append(rs, e) = 1 .. Len(rs) + 1
      /\ \A i \in 1 .. Len(rs) : Append(rs, e)[i] = rs[i]
      /\ Append(rs, e)[Len(rs) + 1] = e
  <2>1. Append(rs, e) \in Seq(E) /\ Len(Append(rs, e)) = Len(rs) + 1
    BY <1>1, <1>4, AppendProperties
  <2> QED BY <1>1, <1>4, <2>1, AppendProperties, LenProperties
<1>10. DOMAIN ps = 1 .. Len(rs) + d
  BY <1>3, <1>4
<1> QED BY <1>4, <1>5, <1>6, <1>8, <1>9, <1>10 DEF e

(* What archiving under a hash above all archived ones preserves.           *)
LEMMA ArchivePush ==
    ASSUME NEW ps \in Archive, NEW h \in Hash, NEW slots \in [Keys -> Values],
           Increasing(ps), Below(ps, h),
           NEW H \in SUBSET Hash, Complete(ps, H), \A g \in H : h[1] <= g[1] => g = h,
           NEW qs, qs = archive_state(ps, h, slots)
    PROVE  /\ qs \in Archive
           /\ Increasing(qs)
           /\ \A i \in DOMAIN qs : qs[i].hash[1] <= h[1]
           /\ Complete(qs, H \cup {h})
           /\ \A rs : SameStates(rs, ps) /\ Below(rs, h) => SameStates(rs, qs)
<1>1. qs \in Archive
  BY ArchiveFacts
<1>2. PICK d \in {0, 1}, k \in Nat :
         /\ DOMAIN qs = 1 .. k + 1
         /\ qs[k + 1] = [hash |-> h, slots |-> slots]
         /\ \A i \in 1 .. k : i + d \in DOMAIN ps /\ qs[i] = ps[i + d]
         /\ DOMAIN ps = 1 .. k + d
  BY ArchiveShifts
<1>3. h[1] \in Nat /\ \A i \in DOMAIN ps : ps[i].hash \in Hash /\ ps[i].hash[1] \in Nat
  BY ArchiveType DEF Hash
<1>4. qs[k + 1].hash = h /\ qs[k + 1].slots = slots
  BY <1>2
<1>5. ASSUME NEW i \in DOMAIN qs
      PROVE  i = k + 1 \/ (i \in 1 .. k /\ i + d \in DOMAIN ps /\ qs[i] = ps[i + d])
  BY <1>2
<1>6. Increasing(qs)
  <2> SUFFICES ASSUME NEW i \in DOMAIN qs, NEW j \in DOMAIN qs, i < j
               PROVE  qs[i].hash[1] < qs[j].hash[1]
    BY DEF Increasing
  <2>1. i \in 1 .. k /\ i + d \in DOMAIN ps /\ qs[i] = ps[i + d]
    BY <1>2
  <2>2. CASE j = k + 1
    BY <1>4, <2>1, <2>2 DEF Below
  <2>3. CASE j \in 1 .. k /\ j + d \in DOMAIN ps /\ qs[j] = ps[j + d]
    <3>1. i + d < j + d
      BY <1>2, <2>1, <2>3
    <3> QED BY <2>1, <2>3, <3>1 DEF Increasing
  <2> QED BY <1>5, <2>2, <2>3
<1>7. \A i \in DOMAIN qs : qs[i].hash[1] <= h[1]
  <2> SUFFICES ASSUME NEW i \in DOMAIN qs PROVE qs[i].hash[1] <= h[1]
    OBVIOUS
  <2>1. CASE i = k + 1
    BY <1>3, <1>4, <2>1
  <2>2. CASE i + d \in DOMAIN ps /\ qs[i] = ps[i + d]
    BY <1>3, <2>2 DEF Below
  <2> QED BY <1>5, <2>1, <2>2
<1>8. Complete(qs, H \cup {h})
  <2> SUFFICES ASSUME NEW g \in H \cup {h}, NEW i \in DOMAIN qs, qs[i].hash[1] <= g[1]
               PROVE  g \in ArchivedHashes(qs)
    BY DEF Complete
  <2>1. h \in ArchivedHashes(qs)
    BY <1>2, <1>4 DEF ArchivedHashes
  <2>2. CASE i = k + 1 /\ g # h
    BY <1>4, <2>2
  <2>3. CASE i \in 1 .. k /\ i + d \in DOMAIN ps /\ qs[i] = ps[i + d] /\ g # h
    <3>1. g \in ArchivedHashes(ps)
      BY <2>3 DEF Complete
    <3>2. PICK j \in DOMAIN ps : ps[j].hash = g
      BY <3>1 DEF ArchivedHashes
    <3>3. ~(j < i + d)
      BY <1>3, <2>3, <3>2 DEF Increasing
    <3>4. j - d \in 1 .. k
      <4>1. j \in 1 .. k + d /\ i \in 1 .. k
        BY <1>2, <2>3
      <4>2. d = 0 \/ d = 1
        OBVIOUS
      <4> QED BY <3>3, <4>1, <4>2
    <3>5. qs[j - d] = ps[j - d + d] /\ j - d + d = j /\ j - d \in DOMAIN qs
      BY <1>2, <3>4
    <3> QED BY <3>2, <3>5 DEF ArchivedHashes
  <2> QED BY <1>5, <2>1, <2>2, <2>3
<1>9. ASSUME NEW rs, SameStates(rs, ps), Below(rs, h)
      PROVE  SameStates(rs, qs)
  <2> SUFFICES ASSUME NEW i \in DOMAIN rs, NEW j \in DOMAIN qs, rs[i].hash = qs[j].hash
               PROVE  rs[i].slots = qs[j].slots
    BY DEF SameStates
  <2>1. rs[i].hash[1] < h[1]
    BY <1>9 DEF Below
  <2>2. j # k + 1
    BY <1>3, <1>4, <2>1
  <2> QED BY <1>5, <1>9, <2>2 DEF SameStates
<1> QED BY <1>1, <1>6, <1>7, <1>8, <1>9

-----------------------------------------------------------------------------
(* The registry of filters. *)

(* eg is ef with h queued on every filter of one type. *)
Told(ef, eg, type, h) ==
    /\ RegistryOK(eg)
    /\ eg.id_counter = ef.id_counter /\ Installed(eg) = Installed(ef)
    /\ \A id \in Installed(ef) :
          /\ eg.filters[id].type = ef.filters[id].type
          /\ eg.filters[id].updates =
                IF ef.filters[id].type = type THEN Append(ef.filters[id].updates, h)
                ELSE ef.filters[id].updates

(* Queueing h on one filter. *)
LEMMA QueueOne ==
    ASSUME NEW ups, IsList(ups), NEW h
    PROVE  ups \o << h >> = Append(ups, h) /\ IsList(Append(ups, h))
<1> DEFINE R == {ups[i] : i \in DOMAIN ups} \cup {h}
<1>1. ups \in Seq(R) /\ h \in R
  <2>1. ups \in Seq({ups[i] : i \in DOMAIN ups})
    BY DEF IsList
  <2> QED BY <2>1, SeqMonotonic
<1> HIDE DEF R
<1>2. ups \o << h >> = Append(ups, h)
  BY <1>1, AppendIsConcat
<1> QED BY <1>2, ListAppend

(* notify_new_block queues the hash on the block filters. *)
LEMMA TellBlock ==
    ASSUME NEW ef, RegistryOK(ef), NEW h, NEW eg, eg = notify_new_block(ef, h)
    PROVE  Told(ef, eg, "block", h)
<1>1. eg = [id_counter |-> ef.id_counter,
            filters |-> [i \in Installed(ef) |->
               IF ef.filters[i].type = "block"
                 THEN [ef.filters[i] EXCEPT !.updates = @ \o << h >>] ELSE ef.filters[i]]]
  BY DEF RegistryOK, notify_new_block, Queue
<1>2. /\ eg = [id_counter |-> eg.id_counter, filters |-> eg.filters]
      /\ eg.id_counter = ef.id_counter /\ Installed(eg) = Installed(ef)
  BY <1>1 DEF Installed
<1>3. \A id \in Installed(ef) : eg.filters[id] =
         IF ef.filters[id].type = "block"
           THEN [ef.filters[id] EXCEPT !.updates = @ \o << h >>] ELSE ef.filters[id]
  BY <1>1
<1>4. ASSUME NEW id \in Installed(ef)
      PROVE  /\ {"type", "updates"} \subseteq DOMAIN eg.filters[id]
             /\ eg.filters[id].type = ef.filters[id].type
             /\ eg.filters[id].updates =
                   IF ef.filters[id].type = "block" THEN Append(ef.filters[id].updates, h)
                   ELSE ef.filters[id].updates
             /\ eg.filters[id].type # "log" => IsList(eg.filters[id].updates)
  <2>1. /\ {"type", "updates"} \subseteq DOMAIN ef.filters[id]
        /\ ef.filters[id].type # "log" => IsList(ef.filters[id].updates)
    BY DEF RegistryOK
  <2>2. CASE ef.filters[id].type = "block"
    <3> DEFINE q == ef.filters[id]
               r == eg.filters[id]
    <3>1. r = [q EXCEPT !.updates = q.updates \o << h >>]
      BY <1>3, <2>2
    <3>2. {"type", "updates"} \subseteq DOMAIN q /\ IsList(q.updates) /\ q.type = "block"
      BY <2>1, <2>2
    <3> HIDE DEF q, r
    <3>3. /\ {"type", "updates"} \subseteq DOMAIN r
          /\ r.type = q.type /\ r.updates = q.updates \o << h >>
      BY <3>1, <3>2
    <3>4. q.updates \o << h >> = Append(q.updates, h) /\ IsList(Append(q.updates, h))
      BY <3>2, QueueOne
    <3> QED BY <3>2, <3>3, <3>4 DEF q, r
  <2>3. CASE ef.filters[id].type # "block"
    BY <1>3, <2>1, <2>3
  <2> QED BY <2>2, <2>3
<1> QED BY <1>2, <1>4 DEF Told, RegistryOK

(* notify_new_pending_transaction does so on the pending filters. *)
LEMMA TellPending ==
    ASSUME NEW ef, RegistryOK(ef), NEW h, NEW eg,
           eg = notify_new_pending_transaction(ef, h)
    PROVE  Told(ef, eg, "pending", h)
<1>1. eg = [id_counter |-> ef.id_counter,
            filters |-> [i \in Installed(ef) |->
               IF ef.filters[i].type = "pending"
                 THEN [ef.filters[i] EXCEPT !.updates = @ \o << h >>] ELSE ef.filters[i]]]
  BY DEF RegistryOK, notify_new_pending_transaction, Queue
<1>2. /\ eg = [id_counter |-> eg.id_counter, filters |-> eg.filters]
      /\ eg.id_counter = ef.id_counter /\ Installed(eg) = Installed(ef)
  BY <1>1 DEF Installed
<1>3. \A id \in Installed(ef) : eg.filters[id] =
         IF ef.filters[id].type = "pending"
           THEN [ef.filters[id] EXCEPT !.updates = @ \o << h >>] ELSE ef.filters[id]
  BY <1>1
<1>4. ASSUME NEW id \in Installed(ef)
      PROVE  /\ {"type", "updates"} \subseteq DOMAIN eg.filters[id]
             /\ eg.filters[id].type = ef.filters[id].type
             /\ eg.filters[id].updates =
                   IF ef.filters[id].type = "pending" THEN Append(ef.filters[id].updates, h)
                   ELSE ef.filters[id].updates
             /\ eg.filters[id].type # "log" => IsList(eg.filters[id].updates)
  <2>1. /\ {"type", "updates"} \subseteq DOMAIN ef.filters[id]
        /\ ef.filters[id].type # "log" => IsList(ef.filters[id].updates)
    BY DEF RegistryOK
  <2>2. CASE ef.filters[id].type = "pending"
    <3> DEFINE q == ef.filters[id]
               r == eg.filters[id]
    <3>1. r = [q EXCEPT !.updates = q.updates \o << h >>]
      BY <1>3, <2>2
    <3>2. {"type", "updates"} \subseteq DOMAIN q /\ IsList(q.updates) /\ q.type = "pending"
      BY <2>1, <2>2
    <3> HIDE DEF q, r
    <3>3. /\ {"type", "updates"} \subseteq DOMAIN r
          /\ r.type = q.type /\ r.updates = q.updates \o << h >>
      BY <3>1, <3>2
    <3>4. q.updates \o << h >> = Append(q.updates, h) /\ IsList(Append(q.updates, h))
      BY <3>2, QueueOne
    <3> QED BY <3>2, <3>3, <3>4 DEF q, r
  <2>3. CASE ef.filters[id].type # "pending"
    BY <1>3, <2>1, <2>3
  <2> QED BY <2>2, <2>3
<1> QED BY <1>2, <1>4 DEF Told, RegistryOK

(* notify_new_logs touches the queues of log filters only. *)
LEMMA TellLogs ==
    ASSUME NEW ef, RegistryOK(ef), NEW logs, NEW latest, NEW eg,
           eg = notify_new_logs(ef, logs, latest)
    PROVE  /\ RegistryOK(eg)
           /\ eg.id_counter = ef.id_counter /\ Installed(eg) = Installed(ef)
           /\ \A id \in Installed(ef) :
                 /\ eg.filters[id].type = ef.filters[id].type
                 /\ ef.filters[id].type # "log" =>
                       eg.filters[id].updates = ef.filters[id].updates
<1>1. \E S : eg = [id_counter |-> ef.id_counter,
                   filters |-> [i \in Installed(ef) |->
                      IF ef.filters[i].type = "log"
                        THEN [ef.filters[i] EXCEPT !.updates = S[i]] ELSE ef.filters[i]]]
  <2> DEFINE S == [i \in Installed(ef) |-> ef.filters[i].updates \o
                      MatchingLogs(ef.filters[i], logs, latest)]
  <2>1. eg = [id_counter |-> ef.id_counter,
              filters |-> [i \in Installed(ef) |->
                 IF ef.filters[i].type = "log"
                   THEN [ef.filters[i] EXCEPT !.updates = S[i]] ELSE ef.filters[i]]]
    BY Zenon DEF RegistryOK, notify_new_logs, Queue
  <2> HIDE DEF S
  <2> QED BY <2>1
<1>2. PICK S : eg = [id_counter |-> ef.id_counter,
                     filters |-> [i \in Installed(ef) |->
                        IF ef.filters[i].type = "log"
                          THEN [ef.filters[i] EXCEPT !.updates = S[i]] ELSE ef.filters[i]]]
  BY <1>1
<1>3. /\ eg = [id_counter |-> eg.id_counter, filters |-> eg.filters]
      /\ eg.id_counter = ef.id_counter /\ Installed(eg) = Installed(ef)
  BY <1>2 DEF Installed
<1>4. \A id \in Installed(ef) : eg.filters[id] =
         IF ef.filters[id].type = "log"
           THEN [ef.filters[id] EXCEPT !.updates = S[id]] ELSE ef.filters[id]
  BY <1>2
<1>5. \A id \in Installed(ef) :
         /\ {"type", "updates"} \subseteq DOMAIN eg.filters[id]
         /\ eg.filters[id].type = ef.filters[id].type
         /\ ef.filters[id].type # "log" => eg.filters[id] = ef.filters[id]
  BY <1>4 DEF RegistryOK
<1> QED BY <1>3, <1>5 DEF RegistryOK

(* The registry stays well formed, and hands out no id twice. *)
Grown(ef, eg) == RegistryOK(eg) /\ ef.id_counter <= eg.id_counter

(* Installing a filter. *)
LEMMA AddGrows ==
    ASSUME NEW ef, RegistryOK(ef), NEW q, {"type", "updates"} \subseteq DOMAIN q,
           IsList(q.updates)
    PROVE  Grown(ef, AddFilter(ef, q))
<1> DEFINE id == ef.id_counter + 1
           eg == [id_counter |-> id,
                  filters |-> [i \in Installed(ef) \cup {id} |->
                                 IF i = id THEN q ELSE ef.filters[i]]]
<1>1. CASE ef.id_counter = MAX_FILTER_ID
  BY <1>1 DEF Grown, AddFilter, RegistryOK
<1>2. CASE ef.id_counter # MAX_FILTER_ID
  <2>1. AddFilter(ef, q) = eg
    BY <1>2 DEF AddFilter
  <2>2. /\ eg = [id_counter |-> eg.id_counter, filters |-> eg.filters]
        /\ eg.id_counter \in Nat /\ ef.id_counter <= eg.id_counter
        /\ Installed(eg) = Installed(ef) \cup {id}
        /\ \A i \in Installed(eg) : eg.filters[i] = IF i = id THEN q ELSE ef.filters[i]
    BY DEF RegistryOK, Installed
  <2> HIDE DEF eg, id
  <2>3. \A i \in Installed(ef) :
          /\ {"type", "updates"} \subseteq DOMAIN ef.filters[i]
          /\ ef.filters[i].type # "log" => IsList(ef.filters[i].updates)
    BY DEF RegistryOK
  <2>4. ASSUME NEW i \in Installed(eg)
        PROVE  /\ {"type", "updates"} \subseteq DOMAIN eg.filters[i]
               /\ eg.filters[i].type # "log" => IsList(eg.filters[i].updates)
    <3>1. CASE i = id
      BY <2>2, <3>1
    <3>2. CASE i # id
      BY <2>2, <2>3, <3>2
    <3> QED BY <3>1, <3>2
  <2> QED BY <2>1, <2>2, <2>4 DEF Grown, RegistryOK
<1> QED BY <1>1, <1>2

(* Removing a filter, and polling one. *)
LEMMA RemovePollGrow ==
    ASSUME NEW ef, RegistryOK(ef), NEW id
    PROVE  /\ Grown(ef, remove_filter(ef, id))
           /\ id \in Installed(ef) => Grown(ef, get_new_changes(ef, id))
<1>1. ef = [id_counter |-> ef.id_counter, filters |-> ef.filters] /\ ef.id_counter \in Nat
      /\ \A i \in Installed(ef) :
          /\ {"type", "updates"} \subseteq DOMAIN ef.filters[i]
          /\ ef.filters[i].type # "log" => IsList(ef.filters[i].updates)
  BY DEF RegistryOK
<1>2. Grown(ef, remove_filter(ef, id))
  <2> DEFINE eg == [id_counter |-> ef.id_counter,
                    filters |-> [i \in Installed(ef) \ {id} |-> ef.filters[i]]]
  <2>1. remove_filter(ef, id) = eg
    BY <1>1 DEF remove_filter
  <2>2. RegistryOK(eg) /\ eg.id_counter = ef.id_counter
    BY <1>1 DEF RegistryOK, Installed
  <2> HIDE DEF eg
  <2> QED BY <1>1, <2>1, <2>2 DEF Grown
<1>3. ASSUME id \in Installed(ef)
      PROVE  Grown(ef, get_new_changes(ef, id))
  <2> DEFINE m  == [ef.filters EXCEPT ![id].updates = << >>]
             eg == [id_counter |-> ef.id_counter, filters |-> m]
  <2>1. get_new_changes(ef, id) = eg
    BY <1>1 DEF get_new_changes
  <2>2. IsList(<< >>)
    BY DEF IsList
  <2>3. /\ DOMAIN m = Installed(ef)
        /\ \A i \in Installed(ef) : i # id => m[i] = ef.filters[i]
        /\ DOMAIN m[id] = DOMAIN ef.filters[id]
        /\ m[id].type = ef.filters[id].type
        /\ m[id].updates = << >>
    BY <1>1, <1>3 DEF Installed
  <2> HIDE DEF m
  <2>4. \A i \in DOMAIN m :
          /\ {"type", "updates"} \subseteq DOMAIN m[i]
          /\ m[i].type # "log" => IsList(m[i].updates)
    BY <1>1, <2>2, <2>3
  <2>5. eg.id_counter = ef.id_counter /\ eg.filters = m /\ Installed(eg) = DOMAIN m
        /\ eg = [id_counter |-> eg.id_counter, filters |-> eg.filters]
    BY DEF Installed
  <2> HIDE DEF eg
  <2>6. RegistryOK(eg)
    BY <1>1, <2>4, <2>5 DEF RegistryOK
  <2> QED BY <1>1, <2>1, <2>5, <2>6 DEF Grown
<1> QED BY <1>2, <1>3

(* What committing a transaction tells the filters. *)
LEMMA CommitTells ==
    ASSUME TypeOK, ChainOK(snapshot, fork), RegistryOK(filters),
           NEW t \in Txs, NEW w \in Writes, RunL2Tx(t, w)
    PROVE  \E e1, e2, e3 :
             /\ Told(filters, e1, "pending", t)
             /\ RegistryOK(e2) /\ e2.id_counter = e1.id_counter
             /\ Installed(e2) = Installed(e1)
             /\ \A id \in Installed(e1) :
                   /\ e2.filters[id].type = e1.filters[id].type
                   /\ e1.filters[id].type # "log" =>
                         e2.filters[id].updates = e1.filters[id].updates
             /\ Told(e2, e3, "block", compute_hash(current_miniblock + 1, t))
             /\ Told(e3, filters', "block", compute_hash(current_miniblock + 2, NoTx))
<1> DEFINE ctx == create_l1_batch_env
           b   == TxBlock(t, ctx)
           e   == EmptyBlock(new_block(ctx), b.hash)
           e1  == notify_new_pending_transaction(filters, t)
           e2  == notify_new_logs(e1, TxLogEntries(t, b), b.number)
           e3  == notify_new_block(e2, b.hash)
<1>1. filters' = notify_new_block(e3, e.hash)
  BY Zenon DEF RunL2Tx, CommitTx
<1>2. ctx.miniblock = current_miniblock + 1 /\ current_miniblock \in Nat
  BY EnvNumbers, TypeSplit DEF ChainOK, NodeTypeOK
<1>3. /\ b.hash = compute_hash(current_miniblock + 1, t)
      /\ e.hash = compute_hash(current_miniblock + 2, NoTx)
  BY <1>2 DEF TxBlock, EmptyBlock, new_block
<1> HIDE DEF b, e
<1>4. Told(filters, e1, "pending", t)
  BY TellPending
<1>5. RegistryOK(e1)
  BY <1>4 DEF Told
<1> HIDE DEF e1
<1>6. /\ RegistryOK(e2)
      /\ e2.id_counter = e1.id_counter /\ Installed(e2) = Installed(e1)
      /\ \A id \in Installed(e1) :
            /\ e2.filters[id].type = e1.filters[id].type
            /\ e1.filters[id].type # "log" =>
                  e2.filters[id].updates = e1.filters[id].updates
  BY <1>5, TellLogs
<1> HIDE DEF e2
<1>7. Told(e2, e3, "block", compute_hash(current_miniblock + 1, t))
  BY <1>3, <1>6, TellBlock
<1>8. RegistryOK(e3)
  BY <1>7 DEF Told
<1> HIDE DEF e3
<1>9. Told(e3, filters', "block", compute_hash(current_miniblock + 2, NoTx))
  BY <1>1, <1>3, <1>8, TellBlock
<1> QED BY <1>4, <1>6, <1>7, <1>9

(* What a step does to the registry. *)
LEMMA RegistryKinds ==
    ASSUME TypeOK, ChainInv, RegistryOK(filters), [Next]_vars
    PROVE  \/ Grown(filters, filters')
           \/ \E j \in DOMAIN snapshots : RevertsTo(j)
           \/ \E f \in Forks \cup {NoFork} : reset(f)
<1> USE DEF counters, chain
<1>1. ASSUME UNCHANGED filters
      PROVE  Grown(filters, filters')
  BY <1>1 DEF Grown, RegistryOK
<1>2. CASE UNCHANGED vars \/ TxRejected \/ MineNone \/ ServePoisoned
  BY <1>1, <1>2 DEF TxRejected, MineNone, ServePoisoned, vars
<1>3. ASSUME NEW t \in Txs, TxHalted(t)
      PROVE  Grown(filters, filters')
  <2>1. filters' = notify_new_pending_transaction(filters, t)
    BY <1>3 DEF TxHalted
  <2>2. Told(filters, filters', "pending", t)
    BY <2>1, TellPending
  <2> QED BY <2>2 DEF Told, Grown, RegistryOK
<1>4. ASSUME NEW t \in Txs, NEW w \in Writes, RunL2Tx(t, w)
      PROVE  Grown(filters, filters')
  <2>1. ChainOK(snapshot, fork)
    BY DEF ChainInv
  <2> QED BY <1>4, <2>1, CommitTells DEF Told, Grown, RegistryOK
<1>5. CASE FilterMethods
  <2>1. CASE new_block_filter \/ new_pending_transaction_filter
    <3>1. IsList(<< >>)
      BY DEF IsList
    <3> QED BY <2>1, <3>1, AddGrows
            DEF new_block_filter, new_pending_transaction_filter, add_block_filter,
                add_pending_transaction_filter, WithFilters
  <2>2. ASSUME NEW c \in LogCriteria, new_filter(c)
        PROVE  Grown(filters, filters')
    <3>1. IsList(<< >>)
      BY DEF IsList
    <3> QED BY <2>2, <3>1, AddGrows DEF new_filter, add_log_filter, WithFilters
  <2>3. ASSUME NEW id \in 1 .. MAX_FILTER_ID, uninstall_filter(id) \/ get_filter_changes(id)
        PROVE  Grown(filters, filters')
    BY <2>3, RemovePollGrow DEF uninstall_filter, get_filter_changes, WithFilters
  <2> QED BY <1>5, <2>1, <2>2, <2>3 DEF FilterMethods
<1>6. ASSUME NEW t \in Txs, RunL2TxPanics(t)
      PROVE  UNCHANGED filters
  BY <1>6 DEF RunL2TxPanics
<1>7. CASE MineNext \/ \E n \in NumBlocks, i \in Intervals : MineBlocks(n, i)
  BY <1>1, <1>7 DEF MineNext, MineBlocks, MineOne
<1>8. CASE Clock
  BY <1>1, <1>8 DEF Clock, increase_time, set_next_block_timestamp, set_time, ClockTo, vars
<1>9. ASSUME NEW k \in Keys, NEW v \in Values, set_storage_at(k, v)
      PROVE  UNCHANGED filters
  BY <1>9 DEF set_storage_at
<1>10. CASE TakeSnapshot
  BY <1>1, <1>10 DEF TakeSnapshot
<1>11. ASSUME NEW id \in 0 .. MAX_SNAPSHOTS, revert_snapshot(id)
       PROVE  UNCHANGED filters \/ \E j \in DOMAIN snapshots : RevertsTo(j)
  BY <1>11, RevertKinds DEF vars
<1>12. ASSUME NEW f \in Forks \cup {NoFork}, reset_network(f)
       PROVE  UNCHANGED filters \/ reset(f)
  BY <1>12 DEF reset_network, vars
<1>13. CASE RemoteReadFails \/ SetNonceOverflows
  BY <1>1, <1>13 DEF RemoteReadFails, SetNonceOverflows
<1>14. ASSUME NEW info \in ContextWords, set_context_word(info)
       PROVE  UNCHANGED filters
  BY <1>14 DEF set_context_word
<1> QED
  BY <1>1, <1>2, <1>3, <1>4, <1>5, <1>6, <1>7, <1>8, <1>9, <1>10, <1>11, <1>12, <1>13, <1>14
     DEF Next, SendTransaction, Mine, Snapshots

-----------------------------------------------------------------------------
(* One history. *)

(* u is s, or what a transaction, a mined block or a request that leaves    *)
(* the chain alone makes of it.                                             *)
Continues(s, u, f) ==
    /\ StateOK(u, f)
    /\ IsPrefix(s, u)
    /\ s.current_miniblock_hash[1] <= u.current_miniblock_hash[1]
    /\ \A rs \in Archive :
          SameStates(rs, s.previous_states) /\ Below(rs, s.current_miniblock_hash)
            => SameStates(rs, u.previous_states)

(* What comes before a state comes before its continuations. *)
LEMMA PrecedesContinues ==
    ASSUME NEW f, NEW r, NEW s, NEW u, StateOK(r, f), StateOK(s, f), Continues(s, u, f),
           Precedes(r, s),
           StateTypeOK(r), StateTypeOK(s), StateTypeOK(u)
    PROVE  Precedes(r, u)
<1>1. /\ r.current_miniblock_hash[1] \in Nat /\ s.current_miniblock_hash[1] \in Nat
      /\ u.current_miniblock_hash[1] \in Nat
  BY DEF StateTypeOK, Hash
<1>2. /\ r.filters.id_counter \in Nat /\ s.filters.id_counter \in Nat
      /\ u.filters.id_counter \in Nat
  BY DEF Continues, StateOK, RegistryOK
<1>3. IsPrefix(r, u)
  BY <1>2 DEF Precedes, Continues, IsPrefix
<1>4. r.current_miniblock_hash[1] <= u.current_miniblock_hash[1]
  BY <1>1 DEF Precedes, Continues
<1>5. \A i \in DOMAIN r.previous_states : r.previous_states[i].hash[1] \in Nat
  BY ArchiveType DEF StateTypeOK, Hash
<1>6. Below(r.previous_states, s.current_miniblock_hash)
  BY <1>1, <1>5 DEF StateOK, ArchiveOK, Below, Precedes
<1>7. SameStates(r.previous_states, u.previous_states)
  BY <1>6 DEF Precedes, Continues, StateTypeOK
<1> QED BY <1>3, <1>4, <1>7 DEF Precedes

(* A state precedes itself: no hash is archived twice. *)
LEMMA PrecedesItself ==
    ASSUME NEW f, NEW s, StateOK(s, f), StateTypeOK(s)
    PROVE  Precedes(s, s)
<1>1. s.current_miniblock_hash[1] \in Nat
  BY DEF StateTypeOK, Hash
<1>2. IsPrefix(s, s)
  BY DEF StateOK, RegistryOK, IsPrefix
<1>3. SameStates(s.previous_states, s.previous_states)
  <2> DEFINE ps == s.previous_states
  <2>1. /\ \A i \in DOMAIN ps : i \in Nat /\ ps[i].hash[1] \in Nat
        /\ Increasing(ps)
    BY ArchiveType DEF StateTypeOK, Hash, StateOK, ArchiveOK
  <2> HIDE DEF ps
  <2>2. ASSUME NEW i \in DOMAIN ps, NEW j \in DOMAIN ps, ps[i].hash = ps[j].hash
        PROVE  i = j
    BY <2>1, <2>2 DEF Increasing
  <2> QED BY <2>2 DEF SameStates, ps
<1> QED BY <1>1, <1>2, <1>3 DEF Precedes

(* A state continues itself under a grown registry. *)
LEMMA ContinuesIdle ==
    ASSUME NEW f, NEW s, NEW u, StateOK(s, f), StateTypeOK(s),
           u.current_miniblock = s.current_miniblock,
           u.current_miniblock_hash = s.current_miniblock_hash,
           u.tx_results = s.tx_results, u.blocks = s.blocks,
           u.block_hashes = s.block_hashes,
           u.previous_states = s.previous_states,
           Grown(s.filters, u.filters)
    PROVE  Continues(s, u, f)
<1>1. s.current_miniblock_hash[1] \in Nat
  BY DEF StateTypeOK, Hash
<1>2. \A n : Holds(u, f, n) <=> Holds(s, f, n)
  BY DEF Holds, At
<1>3. TxBlockHashes(u, f) = TxBlockHashes(s, f)
  BY <1>2 DEF TxBlockHashes
<1>4. StateOK(u, f)
  BY <1>3 DEF StateOK, ArchiveOK, Grown
<1>5. IsPrefix(s, u)
  BY DEF IsPrefix, Grown
<1> QED BY <1>1, <1>4, <1>5 DEF Continues

(* A block on top adds to the transactions' blocks at most itself.          *)
LEMMA PutTxHash ==
    ASSUME NEW f, NEW s, NEW u, NEW b, MapsOK(s, f), Puts(s, u, b)
    PROVE  /\ TxBlockHashes(u, f) \subseteq TxBlockHashes(s, f) \cup {b.hash}
           /\ b.transactions = << >> => TxBlockHashes(u, f) \subseteq TxBlockHashes(s, f)
<1>1. /\ First(f) \in Nat /\ s.current_miniblock \in Nat
      /\ b.number = s.current_miniblock + 1 /\ u.current_miniblock = b.number
  BY DEF MapsOK, Puts
<1>2. /\ u.block_hashes[b.number] = b.hash /\ At(u, b.number) = b
      /\ \A n \in First(f) .. s.current_miniblock :
            u.block_hashes[n] = s.block_hashes[n] /\ At(u, n) = At(s, n)
  BY PutBlock
<1>3. ASSUME NEW n \in First(f) .. u.current_miniblock, Holds(u, f, n)
      PROVE  \/ u.block_hashes[n] \in TxBlockHashes(s, f)
             \/ u.block_hashes[n] = b.hash /\ b.transactions # << >>
  <2>1. CASE n = b.number
    BY <1>2, <1>3, <2>1 DEF Holds
  <2>2. CASE n # b.number
    <3>1. n \in First(f) .. s.current_miniblock
      BY <1>1, <2>2
    <3>2. Holds(s, f, n) /\ u.block_hashes[n] = s.block_hashes[n]
      BY <1>2, <1>3, <3>1 DEF Holds
    <3> QED BY <3>1, <3>2 DEF TxBlockHashes
  <2> QED BY <2>1, <2>2
<1>4. \A g \in TxBlockHashes(u, f) :
         \E n \in First(f) .. u.current_miniblock : Holds(u, f, n) /\ g = u.block_hashes[n]
  BY DEF TxBlockHashes
<1> QED BY <1>3, <1>4

(* ... and keeps every entry of block_hashes. *)
LEMMA PutKeeps ==
    ASSUME NEW f, NEW s, NEW u, NEW b, MapsOK(s, f), Puts(s, u, b)
    PROVE  \A n \in DOMAIN s.block_hashes :
              n \in DOMAIN u.block_hashes /\ u.block_hashes[n] = s.block_hashes[n]
<1>1. /\ First(f) \in Nat /\ s.current_miniblock \in Nat
      /\ u.current_miniblock = s.current_miniblock + 1
      /\ DOMAIN s.block_hashes = First(f) .. s.current_miniblock
  BY DEF MapsOK, Puts
<1>2. /\ MapsOK(u, f)
      /\ \A n \in First(f) .. s.current_miniblock : u.block_hashes[n] = s.block_hashes[n]
  BY PutBlock
<1>3. DOMAIN u.block_hashes = First(f) .. u.current_miniblock
  BY <1>2 DEF MapsOK
<1> QED BY <1>1, <1>2, <1>3

(* A mined block continues the history. *)
LEMMA ContinuesMine ==
    ASSUME TypeOK, ChainOK(snapshot, fork), StateOK(snapshot, fork), Mines
    PROVE  Continues(snapshot, snapshot', fork)
<1> DEFINE s == snapshot
           u == snapshot'
<1>1. PICK timestamp \in Nat : MineOne(create_l1_batch_env, timestamp)
  BY DEF Mines
<1>2. PICK b : /\ Puts(s, u, b)
               /\ b.transactions = << >>
               /\ UNCHANGED << current_miniblock_hash, tx_results, filters, previous_states >>
  BY <1>1, MinePuts
<1>3. /\ u.current_miniblock_hash = s.current_miniblock_hash
      /\ u.tx_results = s.tx_results /\ u.filters = s.filters
      /\ u.previous_states = s.previous_states
  BY <1>2 DEF snapshot
<1>4. MapsOK(s, fork) /\ StateOK(s, fork) /\ StateTypeOK(s)
  BY DEF ChainOK, TypeOK
<1> HIDE DEF s, u
<1>5. s.current_miniblock_hash[1] \in Nat
  BY <1>4 DEF StateTypeOK, Hash
<1>6. TxBlockHashes(u, fork) \subseteq TxBlockHashes(s, fork)
  BY <1>2, <1>4, PutTxHash
<1>7. StateOK(u, fork)
  BY <1>3, <1>4, <1>6 DEF StateOK, ArchiveOK, Complete
<1>8. IsPrefix(s, u)
  <2>1. \A n \in DOMAIN s.block_hashes :
           n \in DOMAIN u.block_hashes /\ u.block_hashes[n] = s.block_hashes[n]
    BY <1>2, <1>4, PutKeeps
  <2>2. s.filters.id_counter \in Nat
    BY <1>4 DEF StateOK, RegistryOK
  <2> QED BY <1>3, <2>1, <2>2 DEF IsPrefix
<1>9. Continues(s, u, fork)
  BY <1>3, <1>5, <1>7, <1>8 DEF Continues
<1> QED BY <1>9 DEF s, u

(* Where the next state is archived: above everything archived, and not     *)
(* below a transaction's block other than itself.                           *)
LEMMA NextArchived ==
    ASSUME NEW f, NEW s, StateTypeOK(s), ChainOK(s, f)
    PROVE  /\ s.current_miniblock_hash[1] <= s.current_miniblock
           /\ TxBlockHashes(s, f) \subseteq Hash
           /\ \A g \in TxBlockHashes(s, f) :
                 /\ s.current_miniblock_hash[1] <= g[1] => g = s.current_miniblock_hash
                 /\ g[1] <= s.current_miniblock
<1> DEFINE h == s.current_miniblock_hash
<1>1. /\ MapsOK(s, f) /\ TipHashOK(s, f)
      /\ \A n \in DOMAIN s.block_hashes : s.block_hashes[n] \in Hash
  BY DEF ChainOK, StateTypeOK
<1>2. /\ First(f) \in Nat /\ s.current_miniblock \in Nat
      /\ DOMAIN s.block_hashes = First(f) .. s.current_miniblock
      /\ DOMAIN s.blocks = {s.block_hashes[n] : n \in First(f) .. s.current_miniblock}
      /\ \A n \in First(f) .. s.current_miniblock :
            s.block_hashes[n][1] = n /\ s.blocks[s.block_hashes[n]].number = n
  BY <1>1 DEF MapsOK, At
<1>3. /\ h \in DOMAIN s.blocks
      /\ \A n \in First(f) .. s.current_miniblock : n > s.blocks[h].number => ~Holds(s, f, n)
  BY <1>1 DEF TipHashOK
<1> HIDE DEF h
<1>4. PICK n0 \in First(f) .. s.current_miniblock : h = s.block_hashes[n0]
  BY <1>2, <1>3
<1>5. h[1] = n0 /\ s.blocks[h].number = n0
  BY <1>2, <1>4
<1>6. ASSUME NEW g \in TxBlockHashes(s, f)
      PROVE  /\ g \in Hash /\ g[1] <= s.current_miniblock
             /\ h[1] <= g[1] => g = h
  <2>1. PICK n \in First(f) .. s.current_miniblock : Holds(s, f, n) /\ g = s.block_hashes[n]
    BY DEF TxBlockHashes
  <2>2. g[1] = n /\ ~(n > n0) /\ g \in Hash
    BY <1>1, <1>2, <1>3, <1>5, <2>1
  <2> QED BY <1>2, <1>4, <1>5, <2>1, <2>2
<1> QED BY <1>2, <1>5, <1>6 DEF h

(* A transaction continues the history. *)
LEMMA ContinuesCommit ==
    ASSUME TypeOK, ChainInv, StateOK(snapshot, fork), Commits
    PROVE  Continues(snapshot, snapshot', fork)
<1>1. PICK t \in Txs, w \in Writes : RunL2Tx(t, w)
  BY DEF Commits
<1> DEFINE s   == snapshot
           u   == snapshot'
           tip == current_miniblock
           h   == current_miniblock_hash
           g   == compute_hash(tip + 1, t)
           ps  == previous_states
           slots == Apply(raw_storage.slots, w)
           qs  == archive_state(ps, h, slots)
           rs  == previous_states'
           H   == TxBlockHashes(s, fork)
<1>2. ChainOK(s, fork) /\ MapsOK(s, fork) /\ StateTypeOK(s) /\ NumbersAgree(s, fork)
  BY DEF ChainInv, ChainOK, TypeOK
<1>3. rs = archive_state(qs, g, slots)
  <2>1. rs = archive_state(qs, TxBlock(t, create_l1_batch_env).hash, slots)
    BY <1>1, Zenon DEF RunL2Tx, CommitTx
  <2>2. TxBlock(t, create_l1_batch_env).hash = g
    BY <1>2, EnvNumbers DEF TxBlock
  <2> QED BY <2>1, <2>2
<1>4. PICK m, b, e, r :
        /\ Puts(s, m, b) /\ Puts(m, u, e)
        /\ b.hash = compute_hash(b.number, t)
        /\ e.hash = compute_hash(e.number, NoTx)
        /\ e.transactions = << >>
        /\ tx_results' = Insert(tx_results, t, r)
        /\ current_miniblock_hash' = e.hash
        /\ t \notin DOMAIN tx_results
  BY <1>1, <1>2, CommitPuts
<1>5. /\ s.current_miniblock = tip /\ s.current_miniblock_hash = h
      /\ s.previous_states = ps /\ s.tx_results = tx_results /\ s.filters = filters
      /\ u.previous_states = rs /\ u.current_miniblock_hash = current_miniblock_hash'
      /\ u.tx_results = tx_results' /\ u.filters = filters'
  BY DEF snapshot
<1>6. /\ tip \in Nat /\ h \in Hash /\ h[1] \in Nat /\ ps \in Archive
      /\ raw_storage \in RawStorage
  BY TypeSplit DEF NodeTypeOK, Hash
<1>7. slots \in [Keys -> Values]
  BY <1>6, ApplyType DEF RawStorage
<1>8. g \in Hash /\ g[1] = tip + 1
  BY <1>6, HashType DEF compute_hash
<1>9. /\ b.number = tip + 1 /\ b.hash = g
      /\ e.number = tip + 2 /\ e.hash[1] = tip + 2
  BY <1>4, <1>5, <1>6 DEF Puts, compute_hash
<1>10. Increasing(ps) /\ Below(ps, h) /\ Complete(ps, H)
  BY <1>5 DEF StateOK, ArchiveOK
<1>11. /\ h[1] <= tip /\ H \subseteq Hash
       /\ \A x \in H : (h[1] <= x[1] => x = h) /\ x[1] <= tip
  BY <1>2, <1>5, NextArchived
<1>12. RegistryOK(filters') /\ filters.id_counter <= filters'.id_counter
  <2>1. RegistryOK(filters)
    BY <1>5 DEF StateOK
  <2> QED BY <1>1, <1>2, <2>1, CommitTells DEF Told, RegistryOK
<1> HIDE DEF s, u, tip, h, g, ps, slots, qs, rs, H
<1>13. /\ qs \in Archive /\ Increasing(qs)
       /\ \A i \in DOMAIN qs : qs[i].hash[1] <= h[1]
       /\ Complete(qs, H \cup {h})
       /\ \A x : SameStates(x, ps) /\ Below(x, h) => SameStates(x, qs)
  BY <1>6, <1>7, <1>10, <1>11, ArchivePush DEF qs
<1>14. Below(qs, g)
  BY <1>6, <1>8, <1>11, <1>13, ArchiveType DEF Below, Hash
<1>15. /\ rs \in Archive /\ Increasing(rs)
       /\ \A i \in DOMAIN rs : rs[i].hash[1] <= g[1]
       /\ Complete(rs, H \cup {h} \cup {g})
       /\ \A x : SameStates(x, qs) /\ Below(x, g) => SameStates(x, rs)
  <2>1. H \cup {h} \in SUBSET Hash
    BY <1>6, <1>11
  <2>2. \A x \in H \cup {h} : g[1] <= x[1] => x = g
    <3>1. \A x \in H \cup {h} : x[1] \in Nat /\ x[1] <= tip
      BY <1>6, <1>11 DEF Hash
    <3> QED BY <1>6, <1>8, <3>1
  <2> QED BY <1>3, <1>7, <1>8, <1>13, <1>14, <2>1, <2>2, ArchivePush
<1>16. ArchiveOK(u, fork)
  <2>1. MapsOK(m, fork)
    BY <1>2, <1>4, PutBlock
  <2>2. TxBlockHashes(u, fork) \subseteq H \cup {g}
    BY <1>2, <1>4, <1>9, <2>1, PutTxHash DEF H
  <2>3. Complete(rs, TxBlockHashes(u, fork))
    BY <1>15, <2>2 DEF Complete
  <2>4. Below(rs, e.hash)
    BY <1>6, <1>8, <1>9, <1>15, ArchiveType DEF Below, Hash
  <2> QED BY <1>4, <1>5, <1>15, <2>3, <2>4 DEF ArchiveOK
<1>17. StateOK(u, fork)
  BY <1>5, <1>12, <1>16 DEF StateOK
<1>18. IsPrefix(s, u)
  <2>1. MapsOK(m, fork)
    BY <1>2, <1>4, PutBlock
  <2>2. \A n \in DOMAIN s.block_hashes :
           n \in DOMAIN m.block_hashes /\ m.block_hashes[n] = s.block_hashes[n]
    BY <1>2, <1>4, PutKeeps
  <2>3. \A n \in DOMAIN m.block_hashes :
           n \in DOMAIN u.block_hashes /\ u.block_hashes[n] = m.block_hashes[n]
    BY <1>4, <2>1, PutKeeps
  <2>4. \A x \in DOMAIN tx_results :
           x \in DOMAIN tx_results' /\ tx_results'[x] = tx_results[x]
    BY <1>4 DEF Insert
  <2> QED BY <1>5, <1>12, <2>2, <2>3, <2>4 DEF IsPrefix
<1>19. h[1] <= e.hash[1]
  BY <1>6, <1>9, <1>11
<1>20. ASSUME NEW x \in Archive, SameStates(x, ps), Below(x, h)
       PROVE  SameStates(x, rs)
  <2>1. SameStates(x, qs)
    BY <1>13, <1>20
  <2>2. Below(x, g)
    BY <1>6, <1>8, <1>11, <1>20, ArchiveType DEF Below, Hash
  <2> QED BY <1>15, <2>1, <2>2
<1>21. Continues(s, u, fork)
  BY <1>4, <1>5, <1>17, <1>18, <1>19, <1>20 DEF Continues
<1> QED BY <1>21 DEF s, u

(* A new node has no history. *)
LEMMA NewStateOK ==
    ASSUME NEW f
    PROVE  StateOK(new(f), f)
<1>1. /\ new(f).previous_states = << >>
      /\ new(f).filters = [id_counter |-> 0, filters |-> << >>]
  BY DEF new, NewLocal, NewForked, EmptyRegistry
<1>2. DOMAIN << >> = {}
  OBVIOUS
<1>3. ArchiveOK(new(f), f)
  BY <1>1, <1>2 DEF ArchiveOK, Increasing, Below, Complete
<1>4. RegistryOK([id_counter |-> 0, filters |-> << >>])
  BY <1>2 DEF RegistryOK, Installed
<1> QED BY <1>1, <1>3, <1>4 DEF StateOK

(* A state that has taken the node's place stands where it stood.           *)
LEMMA StateFrame ==
    ASSUME NEW f, NEW s, NEW u, StateOK(s, f),
           u.current_miniblock = s.current_miniblock,
           u.current_miniblock_hash = s.current_miniblock_hash,
           u.tx_results = s.tx_results, u.blocks = s.blocks,
           u.block_hashes = s.block_hashes, u.filters = s.filters,
           u.previous_states = s.previous_states
    PROVE  /\ StateOK(u, f)
           /\ \A r : Precedes(r, s) => Precedes(r, u)
<1>1. \A n : Holds(u, f, n) <=> Holds(s, f, n)
  BY DEF Holds, At
<1>2. TxBlockHashes(u, f) = TxBlockHashes(s, f)
  BY <1>1 DEF TxBlockHashes
<1>3. StateOK(u, f)
  BY <1>2 DEF StateOK, ArchiveOK
<1>4. \A r : Precedes(r, s) => Precedes(r, u)
  BY DEF Precedes, IsPrefix
<1> QED BY <1>3, <1>4

(* Every step that keeps the snapshots, or adds to them, continues the node. *)
LEMMA StepContinues ==
    ASSUME TypeOK, ChainInv, HistoryInv, [Next]_vars
    PROVE  \/ UNCHANGED << fork, snapshots >> /\ Continues(snapshot, snapshot', fork)
           \/ Saves
           \/ \E j \in DOMAIN snapshots : RevertsTo(j)
           \/ \E f \in Forks \cup {NoFork} : reset(f)
<1>1. /\ StateOK(snapshot, fork) /\ StateTypeOK(snapshot)
      /\ ChainOK(snapshot, fork) /\ RegistryOK(filters)
  <2>1. snapshot.filters = filters
    BY DEF snapshot
  <2> QED BY <2>1 DEF HistoryInv, TypeOK, ChainInv, StateOK
<1>2. CASE Idle /\ Grown(filters, filters')
  <2>1. /\ snapshot'.current_miniblock = snapshot.current_miniblock
        /\ snapshot'.current_miniblock_hash = snapshot.current_miniblock_hash
        /\ snapshot'.tx_results = snapshot.tx_results
        /\ snapshot'.blocks = snapshot.blocks
        /\ snapshot'.block_hashes = snapshot.block_hashes
        /\ snapshot'.previous_states = snapshot.previous_states
        /\ Grown(snapshot.filters, snapshot'.filters)
    BY <1>2 DEF Idle, chain, snapshot
  <2>2. Continues(snapshot, snapshot', fork)
    BY <1>1, <2>1, ContinuesIdle
  <2> QED BY <1>2, <2>2 DEF Idle
<1>3. CASE Mines
  BY <1>1, <1>3, ContinuesMine, ChainMine
<1>4. CASE Commits
  BY <1>1, <1>4, ContinuesCommit, ChainCommit
<1> QED BY <1>1, <1>2, <1>3, <1>4, StepKinds, RegistryKinds

(* Every step preserves the history. *)
LEMMA HistoryStep ==
    ASSUME TypeOK, TypeOK', ChainInv, HistoryInv, [Next]_vars
    PROVE  HistoryInv'
<1>1. /\ StateOK(snapshot, fork) /\ StateTypeOK(snapshot) /\ StateTypeOK(snapshot')
      /\ \A i \in DOMAIN snapshots :
            /\ StateOK(snapshots[i], fork) /\ StateTypeOK(snapshots[i])
            /\ Precedes(snapshots[i], snapshot)
      /\ \A i, k \in DOMAIN snapshots : i < k => Precedes(snapshots[i], snapshots[k])
  BY DEF HistoryInv, TypeOK
<1>2. SUFFICES /\ StateOK(snapshot', fork')
               /\ \A i \in DOMAIN snapshots' :
                     /\ StateOK(snapshots'[i], fork')
                     /\ Precedes(snapshots'[i], snapshot')
               /\ \A i, k \in DOMAIN snapshots' :
                     i < k => Precedes(snapshots'[i], snapshots'[k])
  BY DEF HistoryInv
<1>3. CASE UNCHANGED << fork, snapshots >> /\ Continues(snapshot, snapshot', fork)
  <2>1. StateOK(snapshot', fork)
    BY <1>3 DEF Continues
  <2>2. \A i \in DOMAIN snapshots : Precedes(snapshots[i], snapshot')
    BY <1>1, <1>3, PrecedesContinues
  <2> QED BY <1>1, <1>3, <2>1, <2>2
<1>4. CASE Saves
  <2>1. snapshot' = snapshot /\ fork' = fork
    BY <1>4 DEF Saves, snapshot, counters, chain
  <2>2. /\ DOMAIN snapshots' = 1 .. Len(snapshots) + 1 /\ Len(snapshots) \in Nat
        /\ DOMAIN snapshots = 1 .. Len(snapshots)
        /\ \A i \in DOMAIN snapshots : snapshots'[i] = snapshots[i]
        /\ snapshots'[Len(snapshots) + 1] = snapshot
    BY <1>4, AfterSave
  <2>3. ASSUME NEW i \in DOMAIN snapshots'
        PROVE  \/ i = Len(snapshots) + 1 /\ snapshots'[i] = snapshot
               \/ i \in DOMAIN snapshots /\ snapshots'[i] = snapshots[i]
    <3>1. i \in DOMAIN snapshots \/ i = Len(snapshots) + 1
      BY <2>2
    <3> QED BY <2>2, <3>1, Zenon
  <2>4. Precedes(snapshot, snapshot)
    BY <1>1, PrecedesItself
  <2>5. \A i \in DOMAIN snapshots' :
           StateOK(snapshots'[i], fork) /\ Precedes(snapshots'[i], snapshot)
    BY <1>1, <2>3, <2>4, Zenon
  <2>6. ASSUME NEW i \in DOMAIN snapshots', NEW k \in DOMAIN snapshots', i < k
        PROVE  Precedes(snapshots'[i], snapshots'[k])
    <3>1. i \in DOMAIN snapshots /\ snapshots'[i] = snapshots[i]
      <4>1. i \in DOMAIN snapshots
        BY <2>2, <2>6
      <4> QED BY <2>2, <4>1, Zenon
    <3> QED BY <1>1, <2>3, <2>6, <3>1, Zenon
  <2> QED BY <1>1, <2>1, <2>5, <2>6, Zenon
<1>5. ASSUME NEW j \in DOMAIN snapshots, RevertsTo(j)
      PROVE  /\ StateOK(snapshot', fork')
             /\ \A i \in DOMAIN snapshots' :
                   /\ StateOK(snapshots'[i], fork')
                   /\ Precedes(snapshots'[i], snapshot')
             /\ \A i, k \in DOMAIN snapshots' :
                   i < k => Precedes(snapshots'[i], snapshots'[k])
  <2>1. fork' = fork /\ Become(snapshots[j])
    BY <1>5 DEF RevertsTo
  <2>2. /\ StateOK(snapshot', fork)
        /\ \A r : Precedes(r, snapshots[j]) => Precedes(r, snapshot')
    BY <1>1, <2>1, AfterBecome, StateFrame
  <2>3. \A i \in DOMAIN snapshots' :
           i \in DOMAIN snapshots /\ i < j /\ snapshots'[i] = snapshots[i]
    BY <1>5, AfterRevert
  <2> QED BY <1>1, <2>1, <2>2, <2>3, Zenon
<1>6. ASSUME NEW f \in Forks \cup {NoFork}, reset(f)
      PROVE  /\ StateOK(snapshot', fork')
             /\ \A i \in DOMAIN snapshots' :
                   /\ StateOK(snapshots'[i], fork')
                   /\ Precedes(snapshots'[i], snapshot')
             /\ \A i, k \in DOMAIN snapshots' :
                   i < k => Precedes(snapshots'[i], snapshots'[k])
  <2>1. fork' = f /\ Become(new(f)) /\ snapshots' = << >>
    BY <1>6 DEF reset
  <2>2. StateOK(snapshot', f)
    BY <2>1, NewStateOK, AfterBecome, StateFrame
  <2> QED BY <2>1, <2>2
<1> QED BY <1>3, <1>4, <1>5, <1>6, StepContinues

(* The history holds throughout. *)
LEMMA HistoryAlways ==
    ASSUME ContextKept
    PROVE  Spec => []HistoryInv
<1>1. Init => HistoryInv
  BY StartsNew, NewStateOK DEF HistoryInv
<1>2. TypeOK /\ TypeOK' /\ ChainInv /\ HistoryInv /\ [Next]_vars => HistoryInv'
  BY HistoryStep
<1>3. Spec => []ChainInv
  BY ChainAlways
<1> QED BY <1>1, <1>2, <1>3, TypeCorrect, PTL DEF Spec

(* Each snapshot that can still be reverted to is an earlier state of the   *)
(* next one, and the last of the node: what a revert or a reset discards    *)
(* takes the snapshots taken since with it.                                 *)
THEOREM SnapshotsLieInHistory ==
    ASSUME ContextKept
    PROVE  Spec => []SnapshotsArePrefixes
<1>1. TypeOK /\ HistoryInv => SnapshotsArePrefixes
  <2> SUFFICES ASSUME TypeOK, HistoryInv, NEW i \in DOMAIN snapshots
               PROVE  IsPrefix(snapshots[i], IF i < Len(snapshots) THEN snapshots[i + 1]
                                             ELSE snapshot)
    BY DEF SnapshotsArePrefixes
  <2>1. Len(snapshots) \in Nat /\ DOMAIN snapshots = 1 .. Len(snapshots)
    BY TypeSplit, LenProperties DEF RestTypeOK, IsList
  <2>2. CASE i < Len(snapshots)
    <3>1. i + 1 \in DOMAIN snapshots /\ i < i + 1
      BY <2>1, <2>2
    <3> QED BY <2>2, <3>1 DEF HistoryInv, Precedes
  <2>3. CASE ~ (i < Len(snapshots))
    BY <2>3 DEF HistoryInv, Precedes
  <2> QED BY <2>2, <2>3
<1>2. Spec => []HistoryInv
  BY HistoryAlways
<1> QED BY <1>1, <1>2, TypeCorrect, PTL

(* Eviction is oldest first for every limit, also after a revert has put an *)
(* older archive back: no later transaction's state is missing.             *)
THEOREM NewestStaysArchived ==
    ASSUME ContextKept
    PROVE  Spec => []ArchiveKeepsNewest
<1>1. ChainInv /\ HistoryInv => ArchiveKeepsNewest
  <2> SUFFICES ASSUME ChainInv, HistoryInv,
                      NEW n \in DOMAIN block_hashes, NEW m \in DOMAIN block_hashes,
                      n < m, HoldsTx(m), block_hashes[n] \in ArchivedHashes(previous_states)
               PROVE  block_hashes[m] \in ArchivedHashes(previous_states)
    BY DEF ArchiveKeepsNewest
  <2> DEFINE s == snapshot
  <2>1. /\ s.current_miniblock = current_miniblock /\ s.blocks = blocks
        /\ s.block_hashes = block_hashes /\ s.previous_states = previous_states
    BY DEF snapshot
  <2>2. MapsOK(s, fork) /\ Complete(s.previous_states, TxBlockHashes(s, fork))
    BY DEF ChainInv, ChainOK, HistoryInv, StateOK, ArchiveOK
  <2> HIDE DEF s
  <2>3. /\ DOMAIN block_hashes = First(fork) .. s.current_miniblock
        /\ block_hashes[n][1] = n /\ block_hashes[m][1] = m
        /\ First(fork) \in Nat /\ s.current_miniblock \in Nat
    BY <2>1, <2>2 DEF MapsOK
  <2>4. Holds(s, fork, m)
    BY <2>1 DEF HoldsTx, BlockAt, Holds, At
  <2>5. block_hashes[m] \in TxBlockHashes(s, fork)
    BY <2>1, <2>3, <2>4 DEF TxBlockHashes
  <2>6. PICK i \in DOMAIN previous_states : previous_states[i].hash = block_hashes[n]
    BY DEF ArchivedHashes
  <2>7. previous_states[i].hash[1] <= block_hashes[m][1]
    BY <2>3, <2>6
  <2> QED BY <2>1, <2>2, <2>5, <2>7 DEF Complete
<1>2. Spec => []ChainInv /\ []HistoryInv
  BY ChainAlways, HistoryAlways
<1> QED BY <1>1, <1>2, PTL

(* A state filed under a block's hash is the state of that block for as     *)
(* long as it is kept: neither a later batch, which may archive the tip     *)
(* again, nor a revert ever files another one under it.                     *)
THEOREM ArchivedStatesAreFinal ==
    ASSUME ContextKept
    PROVE  Spec => ArchiveStable
<1>1. TypeOK /\ ChainInv /\ HistoryInv /\ [Next]_vars
        => [\A i \in DOMAIN previous_states, j \in DOMAIN previous_states' :
               previous_states[i].hash = previous_states'[j].hash
                 => previous_states[i].slots = previous_states'[j].slots]_vars
  <2> SUFFICES ASSUME TypeOK, ChainInv, HistoryInv, [Next]_vars
               PROVE  SameStates(previous_states, previous_states')
    BY DEF SameStates
  <2>1. /\ StateOK(snapshot, fork) /\ StateTypeOK(snapshot)
        /\ snapshot.previous_states = previous_states
        /\ snapshot'.previous_states = previous_states'
    BY DEF HistoryInv, TypeOK, snapshot
  <2>2. SameStates(previous_states, previous_states)
    BY <2>1, PrecedesItself DEF Precedes
  <2>3. CASE Continues(snapshot, snapshot', fork)
    BY <2>1, <2>2, <2>3 DEF Continues, StateOK, ArchiveOK, StateTypeOK
  <2>4. CASE Saves
    BY <2>2, <2>4 DEF Saves
  <2>5. ASSUME NEW k \in DOMAIN snapshots, RevertsTo(k)
        PROVE  SameStates(previous_states, previous_states')
    <3>1. SameStates(snapshots[k].previous_states, previous_states)
      BY <2>1 DEF HistoryInv, Precedes
    <3>2. previous_states' = snapshots[k].previous_states
      BY <2>5 DEF RevertsTo, Become
    <3> QED BY <3>1, <3>2 DEF SameStates
  <2>6. ASSUME NEW f \in Forks \cup {NoFork}, reset(f)
        PROVE  SameStates(previous_states, previous_states')
    <3>1. DOMAIN previous_states' = {}
      BY <2>6 DEF reset, Become, new, NewLocal, NewForked
    <3> QED BY <3>1 DEF SameStates
  <2> QED BY <2>3, <2>4, <2>5, <2>6, StepContinues
<1>2. Spec => []ChainInv /\ []HistoryInv
  BY ChainAlways, HistoryAlways
<1> QED BY <1>1, <1>2, TypeCorrect, PTL DEF Spec, ArchiveStable

(* Every block filter gets a transaction's two blocks in chain order and    *)
(* every pending filter its hash, once, behind what they already hold, for  *)
(* any number of filters installed, polled and restored by reverts.         *)
THEOREM FiltersAreTold ==
    ASSUME ContextKept
    PROVE  Spec => TxBlocksTold
<1> DEFINE Tells ==
      \A t \in Txs, w \in Writes : RunL2Tx(t, w) =>
          \A id \in Installed(filters) :
              LET before == filters.filters[id]
                  after  == filters'.filters[id].updates
              IN  /\ before.type = "block" =>
                        after = before.updates
                                  \o << block_hashes'[current_miniblock + 1],
                                        block_hashes'[current_miniblock + 2] >>
                  /\ before.type = "pending" => after = Append(before.updates, t)
<1>1. TypeOK /\ ChainInv /\ HistoryInv => Tells
  <2> SUFFICES ASSUME TypeOK, ChainInv, HistoryInv,
                      NEW t \in Txs, NEW w \in Writes, RunL2Tx(t, w),
                      NEW id \in Installed(filters)
               PROVE  LET before == filters.filters[id]
                          after  == filters'.filters[id].updates
                      IN  /\ before.type = "block" =>
                                after = before.updates
                                          \o << block_hashes'[current_miniblock + 1],
                                                block_hashes'[current_miniblock + 2] >>
                          /\ before.type = "pending" => after = Append(before.updates, t)
    OBVIOUS
  <2> DEFINE g  == compute_hash(current_miniblock + 1, t)
             h  == compute_hash(current_miniblock + 2, NoTx)
             ups == filters.filters[id].updates
  <2>1. RegistryOK(filters) /\ ChainOK(snapshot, fork)
    BY DEF HistoryInv, StateOK, ChainInv, snapshot
  <2>2. PICK e1, e2, e3 :
             /\ Told(filters, e1, "pending", t)
             /\ RegistryOK(e2) /\ e2.id_counter = e1.id_counter
             /\ Installed(e2) = Installed(e1)
             /\ \A x \in Installed(e1) :
                   /\ e2.filters[x].type = e1.filters[x].type
                   /\ e1.filters[x].type # "log" =>
                         e2.filters[x].updates = e1.filters[x].updates
             /\ Told(e2, e3, "block", g)
             /\ Told(e3, filters', "block", h)
    BY <2>1, CommitTells
  <2>3. block_hashes'[current_miniblock + 1] = g /\ block_hashes'[current_miniblock + 2] = h
    <3>1. PICK m, b, e : /\ Puts(snapshot, m, b) /\ Puts(m, snapshot', e)
                         /\ b.hash = compute_hash(b.number, t)
                         /\ e.hash = compute_hash(e.number, NoTx)
      BY <2>1, CommitPuts
    <3>2. /\ snapshot.current_miniblock = current_miniblock /\ current_miniblock \in Nat
          /\ snapshot'.block_hashes = block_hashes'
      BY TypeSplit DEF snapshot, NodeTypeOK
    <3>3. MapsOK(snapshot, fork) /\ MapsOK(m, fork)
      BY <2>1, <3>1, PutBlock DEF ChainOK
    <3>4. b.number = current_miniblock + 1 /\ e.number = current_miniblock + 2
          /\ m.current_miniblock = current_miniblock + 1
      BY <3>1, <3>2 DEF Puts
    <3>5. m.block_hashes[b.number] = b.hash /\ snapshot'.block_hashes[e.number] = e.hash
      BY <3>1, <3>3, PutBlock
    <3>6. snapshot'.block_hashes[b.number] = m.block_hashes[b.number]
      <4>1. \A n \in First(fork) .. m.current_miniblock :
               snapshot'.block_hashes[n] = m.block_hashes[n]
        BY <3>1, <3>3, PutBlock
      <4>2. b.number \in First(fork) .. m.current_miniblock
        BY <3>2, <3>3, <3>4 DEF MapsOK
      <4> QED BY <4>1, <4>2
    <3> QED BY <3>1, <3>2, <3>4, <3>5, <3>6
  <2>4. IsList(ups) \/ filters.filters[id].type = "log"
    BY <2>1 DEF RegistryOK
  <2> HIDE DEF g, h
  <2>5. ASSUME filters.filters[id].type = "block"
        PROVE  filters'.filters[id].updates = ups \o << g, h >>
    <3>1. filters'.filters[id].updates = Append(Append(ups, g), h)
      <4>1. /\ id \in Installed(e1) /\ e1.filters[id].type = "block"
            /\ e1.filters[id].updates = ups
        BY <2>2, <2>5 DEF Told
      <4>2. /\ id \in Installed(e2) /\ e2.filters[id].type = "block"
            /\ e2.filters[id].updates = ups
        BY <2>2, <4>1
      <4>3. /\ id \in Installed(e3) /\ e3.filters[id].type = "block"
            /\ e3.filters[id].updates = Append(ups, g)
        BY <2>2, <4>2 DEF Told
      <4> QED BY <2>2, <4>3 DEF Told
    <3>2. IsList(ups)
      BY <2>4, <2>5
    <3> HIDE DEF ups
    <3> DEFINE R == {ups[i] : i \in DOMAIN ups} \cup {g, h}
    <3>3. ups \in Seq(R) /\ g \in R /\ h \in R
      <4>1. ups \in Seq({ups[i] : i \in DOMAIN ups})
        BY <3>2 DEF IsList
      <4> QED BY <4>1, SeqMonotonic
    <3> HIDE DEF R
    <3>4. Append(Append(ups, g), h) = ups \o << g, h >>
      BY <3>3
    <3> QED BY <3>1, <3>4
  <2>6. ASSUME filters.filters[id].type = "pending"
        PROVE  filters'.filters[id].updates = Append(ups, t)
    BY ZenonT(60), <2>2, <2>6 DEF Told
  <2> QED BY <2>3, <2>5, <2>6
<1>2. Spec => []ChainInv /\ []HistoryInv
  BY ChainAlways, HistoryAlways
<1> QED BY <1>1, <1>2, TypeCorrect, PTL DEF TxBlocksTold

-----------------------------------------------------------------------------
(* The queues of the filters. *)

(* The log l, queued for the criteria c, is one of a transaction of s. *)
LogOK(s, c, l) ==
    /\ l.transaction_hash \in DOMAIN s.tx_results
    /\ s.tx_results[l.transaction_hash].block_hash = l.block_hash
    /\ Matches(c, l, l.block_number)
    /\ LET logs == s.tx_results[l.transaction_hash].logs
       IN  \E i \in DOMAIN logs : logs[i] = l

(* A log filter has the criteria it was installed with. *)
HasCriteria(q) == "criteria" \in DOMAIN q /\ q.criteria \in LogCriteria

(* What the filter q has queued belongs to s; the number of a block is what *)
(* its hash is computed from.                                               *)
QueueOK(s, q) ==
    /\ q.type = "block" =>
          /\ \A i \in DOMAIN q.updates : q.updates[i] \in DOMAIN s.blocks
          /\ \A i, j \in DOMAIN q.updates : i < j => q.updates[i][1] < q.updates[j][1]
    /\ q.type = "log" =>
          /\ IsList(q.updates) /\ HasCriteria(q)
          /\ \A i \in DOMAIN q.updates : LogOK(s, q.criteria, q.updates[i])

QueuesOK(s) == \A id \in Installed(s.filters) : QueueOK(s, s.filters.filters[id])

(* The inductive invariant: also of every snapshot, which a revert restores *)
(* together with its queues.                                                *)
QueueInv ==
    /\ QueuesOK(snapshot)
    /\ \A i \in DOMAIN snapshots : QueuesOK(snapshots[i])

(* Selecting the logs of a sequence that match: by induction over its       *)
(* length, as the absence of a least counterexample.                        *)
(* A set of numbers has a least one. *)
LEMMA LeastNatural ==
    ASSUME NEW T, T \subseteq Nat, T # {}
    PROVE  \E n \in T : \A m \in T : n <= m
<1>1. PICK R : R = OpToRel(<, Nat)
  OBVIOUS
<1>2. IsWellFoundedOn(R, Nat)
  BY <1>1, NatLessThanWellFounded
<1>3. PICK n \in T : \A m \in T : ~(<< m, n >> \in R)
  BY <1>2, WFMin
<1>4. \A m \in Nat, k \in Nat : m < k => << m, k >> \in R
  BY <1>1 DEF OpToRel
<1>5. ASSUME NEW m \in T PROVE n <= m
  <2>1. n \in Nat /\ m \in Nat /\ ~(m < n)
    BY <1>3, <1>4
  <2> QED BY <2>1
<1> QED BY <1>5

(* Induction, over a set of numbers. *)
LEMMA AllNumbers ==
    ASSUME NEW G, 0 \in G, \A n \in Nat : n \in G => n + 1 \in G
    PROVE  \A n \in Nat : n \in G
<1> SUFFICES ASSUME Nat \ G # {} PROVE FALSE
  OBVIOUS
<1>1. PICK n \in Nat \ G : \A m \in Nat \ G : n <= m
  BY LeastNatural
<1>2. n # 0
  OBVIOUS
<1>3. n - 1 \in Nat /\ ~(n <= n - 1) /\ n - 1 + 1 = n
  BY <1>2
<1>4. n - 1 \in G
  BY <1>1, <1>3
<1> QED BY <1>3, <1>4

(* What a prefix of a sequence has in M, one element at a time. *)
Grows(s, M, g, m) ==
    g = [n \in 0 .. m |-> IF n = 0 THEN << >>
                          ELSE IF s[n] \in M THEN Append(g[n - 1], s[n])
                          ELSE g[n - 1]]

LEMMA GrowsExists ==
    ASSUME NEW s, NEW M
    PROVE  \A m \in Nat : \E g : Grows(s, M, g, m)
<1> DEFINE G == {m \in Nat : \E g : Grows(s, M, g, m)}
<1>1. 0 \in G
  <2>1. PICK g : g = [n \in 0 .. 0 |-> << >>]
    OBVIOUS
  <2>2. Grows(s, M, g, 0)
    BY <2>1 DEF Grows
  <2> QED BY <2>2
<1>2. ASSUME NEW m \in Nat, m \in G PROVE m + 1 \in G
  <2>1. PICK g : Grows(s, M, g, m)
    BY <1>2
  <2>2. PICK last : last = IF s[m + 1] \in M THEN Append(g[m], s[m + 1]) ELSE g[m]
    OBVIOUS
  <2>3. PICK h : h = [n \in 0 .. m + 1 |-> IF n = m + 1 THEN last ELSE g[n]]
    OBVIOUS
  <2>4. \A n \in 0 .. m : g[n] = IF n = 0 THEN << >>
                                 ELSE IF s[n] \in M THEN Append(g[n - 1], s[n])
                                 ELSE g[n - 1]
    BY <2>1 DEF Grows
  <2>5. \A n \in 0 .. m + 1 : h[n] = IF n = 0 THEN << >>
                                     ELSE IF s[n] \in M THEN Append(h[n - 1], s[n])
                                     ELSE h[n - 1]
    <3> SUFFICES ASSUME NEW n \in 0 .. m + 1
                 PROVE  h[n] = IF n = 0 THEN << >>
                               ELSE IF s[n] \in M THEN Append(h[n - 1], s[n])
                               ELSE h[n - 1]
      OBVIOUS
    <3>1. CASE n = m + 1
      <4>1. n # 0 /\ n - 1 = m /\ h[n] = last /\ h[m] = g[m]
        BY <2>3, <3>1
      <4> QED BY <2>2, <3>1, <4>1
    <3>2. CASE n # m + 1
      <4>1. n \in 0 .. m /\ h[n] = g[n] /\ (n # 0 => h[n - 1] = g[n - 1])
        BY <2>3, <3>2
      <4> QED BY <2>4, <4>1
    <3> QED BY <3>1, <3>2
  <2>6. Grows(s, M, h, m + 1)
    BY <2>3, <2>5 DEF Grows
  <2> QED BY <2>6
<1> HIDE DEF G
<1>3. \A m \in Nat : m \in G
  BY <1>1, <1>2, AllNumbers
<1> QED BY <1>3 DEF G

(* It is a sequence of elements of s that are in M. *)
LEMMA GrowsWithin ==
    ASSUME NEW s, NEW M, NEW m \in Nat, NEW g, Grows(s, M, g, m)
    PROVE  g[m] \in Seq({s[i] : i \in 1 .. m} \cap M)
<1> DEFINE R == {s[i] : i \in 1 .. m} \cap M
           G == {n \in Nat : n <= m => g[n] \in Seq(R)}
<1>1. \A n \in 0 .. m : g[n] = IF n = 0 THEN << >>
                               ELSE IF s[n] \in M THEN Append(g[n - 1], s[n])
                               ELSE g[n - 1]
  BY DEF Grows
<1>2. 0 \in G
  <2>1. 0 \in 0 .. m
    OBVIOUS
  <2>2. g[0] = << >>
    BY <1>1, <2>1
  <2> HIDE DEF R
  <2> QED BY <2>2, EmptySeq
<1>3. ASSUME NEW n \in Nat, n \in G PROVE n + 1 \in G
  <2> SUFFICES ASSUME n + 1 <= m PROVE g[n + 1] \in Seq(R)
    OBVIOUS
  <2>1. g[n] \in Seq(R)
    BY <1>3
  <2>2. n + 1 \in 0 .. m /\ n + 1 # 0 /\ n + 1 - 1 = n /\ n + 1 \in 1 .. m
    OBVIOUS
  <2>3. g[n + 1] = IF s[n + 1] \in M THEN Append(g[n], s[n + 1]) ELSE g[n]
    BY <1>1, <2>2
  <2>4. s[n + 1] \in M => s[n + 1] \in R
    BY <2>2
  <2> HIDE DEF R, G
  <2>5. s[n + 1] \in M => Append(g[n], s[n + 1]) \in Seq(R)
    BY <2>1, <2>4, AppendProperties
  <2> QED BY <2>1, <2>3, <2>5
<1> HIDE DEF G, R
<1>4. \A n \in Nat : n \in G
  BY <1>2, <1>3, AllNumbers
<1>5. m \in G
  BY <1>4
<1> QED BY <1>5 DEF G, R

(* A log filter is given logs of the transaction that match its criteria. *)
LEMMA MatchingLogsMatch ==
    ASSUME NEW f, NEW logs, Len(logs) \in Nat, NEW latest
    PROVE  MatchingLogs(f, logs, latest) \in
              Seq({l \in {logs[i] : i \in 1 .. Len(logs)} : Matches(f.criteria, l, latest)})
<1>1. PICK m \in Nat : m = Len(logs)
  OBVIOUS
<1> DEFINE R == {logs[i] : i \in 1 .. m}
           M == {l \in R : Matches(f.criteria, l, latest)}
           Step(g) == [n \in 0 .. m |->
                         IF n = 0 THEN << >>
                         ELSE IF Matches(f.criteria, logs[n], latest)
                              THEN Append(g[n - 1], logs[n])
                         ELSE g[n - 1]]
           x == CHOOSE g : g = Step(g)
<1>2. \A n \in 0 .. m : n # 0 => (Matches(f.criteria, logs[n], latest) <=> logs[n] \in M)
  OBVIOUS
<1> HIDE DEF M
<1>3. \A g : Step(g) = [n \in 0 .. m |-> IF n = 0 THEN << >>
                          ELSE IF logs[n] \in M THEN Append(g[n - 1], logs[n])
                          ELSE g[n - 1]]
  BY <1>2
<1>4. \A g : g = Step(g) <=> Grows(logs, M, g, m)
  BY <1>3 DEF Grows
<1>5. \E g : g = Step(g)
  BY <1>4, GrowsExists
<1>6. x = Step(x)
  BY <1>5
<1>7. Grows(logs, M, x, m)
  BY <1>4, <1>6
<1>8. MatchingLogs(f, logs, latest) = x[m]
  BY <1>1 DEF MatchingLogs
<1> HIDE DEF x
<1>9. x[m] \in Seq({logs[i] : i \in 1 .. m} \cap M)
  BY <1>7, GrowsWithin
<1>10. {logs[i] : i \in 1 .. m} \cap M = M
  BY DEF M
<1> QED BY <1>1, <1>8, <1>9, <1>10 DEF M

(* One list behind another. *)
LEMMA ListConcat ==
    ASSUME NEW p, IsList(p), NEW S, NEW q \in Seq(S)
    PROVE  /\ IsList(p \o q)
           /\ \A i \in DOMAIN (p \o q) :
                 \/ i \in DOMAIN p /\ (p \o q)[i] = p[i]
                 \/ (p \o q)[i] \in S
<1> DEFINE R == {p[i] : i \in DOMAIN p}
<1>1. p \in Seq(R)
  BY DEF IsList
<1> HIDE DEF R
<1>2. p \in Seq(R \cup S) /\ q \in Seq(R \cup S)
  BY <1>1, SeqMonotonic
<1>3. /\ p \o q \in Seq(R \cup S) /\ Len(p \o q) = Len(p) + Len(q)
      /\ \A i \in 1 .. Len(p) + Len(q) :
            (p \o q)[i] = IF i <= Len(p) THEN p[i] ELSE q[i - Len(p)]
  BY <1>2, ConcatProperties
<1>4. /\ Len(p) \in Nat /\ DOMAIN p = 1 .. Len(p)
      /\ Len(q) \in Nat /\ \A i \in 1 .. Len(q) : q[i] \in S
      /\ DOMAIN (p \o q) = 1 .. Len(p) + Len(q)
  <2>1. DOMAIN (p \o q) = 1 .. Len(p \o q)
    BY <1>3, LenProperties
  <2> QED BY <1>1, <1>3, <2>1, LenProperties
<1>5. ASSUME NEW i \in DOMAIN (p \o q)
      PROVE  \/ i \in DOMAIN p /\ (p \o q)[i] = p[i]
             \/ (p \o q)[i] \in S
  <2>1. CASE i <= Len(p)
    BY <1>3, <1>4, <2>1
  <2>2. CASE ~(i <= Len(p))
    <3>1. i - Len(p) \in 1 .. Len(q) /\ i \in 1 .. Len(p) + Len(q)
      BY <1>4, <2>2
    <3> QED BY <1>3, <1>4, <2>2, <3>1
  <2> QED BY <2>1, <2>2
<1> QED BY <1>3, <1>5, SeqIsList

(* r is p with g and h behind it. *)
BehindTwo(p, r, g, h) ==
    \E n \in Nat :
        /\ DOMAIN p = 1 .. n
        /\ DOMAIN r = 1 .. n + 2
        /\ \A i \in 1 .. n : r[i] = p[i]
        /\ r[n + 1] = g
        /\ r[n + 2] = h

LEMMA ListTwo ==
    ASSUME NEW p, IsList(p), NEW g, NEW h
    PROVE  BehindTwo(p, Append(Append(p, g), h), g, h)
<1> DEFINE R == {p[i] : i \in DOMAIN p} \cup {g, h}
<1>1. p \in Seq(R) /\ g \in R /\ h \in R
  <2>1. p \in Seq({p[i] : i \in DOMAIN p})
    BY DEF IsList
  <2> QED BY <2>1, SeqMonotonic
<1> HIDE DEF R
<1>2. Len(p) \in Nat /\ DOMAIN p = 1 .. Len(p)
  BY <1>1, LenProperties
<1>3. PICK q : q = Append(p, g)
  OBVIOUS
<1>4. /\ q \in Seq(R) /\ Len(q) = Len(p) + 1
      /\ \A i \in 1 .. Len(p) : q[i] = p[i]
      /\ q[Len(p) + 1] = g
  BY <1>1, <1>3, AppendProperties
<1>5. PICK r : r = Append(q, h)
  OBVIOUS
<1>6. /\ r \in Seq(R) /\ Len(r) = Len(p) + 2
      /\ \A i \in 1 .. Len(p) + 1 : r[i] = q[i]
      /\ r[Len(p) + 2] = h
  BY <1>1, <1>2, <1>4, <1>5, AppendProperties
<1>7. DOMAIN r = 1 .. Len(p) + 2
  BY <1>6, LenProperties
<1>8. \A i \in 1 .. Len(p) : r[i] = p[i]
  BY <1>2, <1>4, <1>6
<1>9. r[Len(p) + 1] = g
  BY <1>2, <1>4, <1>6
<1>10. BehindTwo(p, r, g, h)
  BY <1>2, <1>6, <1>7, <1>8, <1>9 DEF BehindTwo
<1> QED BY <1>3, <1>5, <1>10

LogsHaveCriteria(ef) ==
    \A id \in Installed(ef) :
        ef.filters[id].type = "log" => HasCriteria(ef.filters[id])

(* The filters a registry has are unchanged, polled, newly installed, or    *)
(* told of a pending transaction.                                           *)
Kept(ef, eg) ==
    \A id \in Installed(eg) :
        \/ id \in Installed(ef) /\ eg.filters[id] = ef.filters[id]
        \/ eg.filters[id].updates = << >>
           /\ (eg.filters[id].type = "log" => HasCriteria(eg.filters[id]))
        \/ eg.filters[id].type = "pending"

(* Installing, removing and polling filters, and a transaction that halts. *)
LEMMA AddKeeps ==
    ASSUME NEW ef, RegistryOK(ef), NEW q, q.updates = << >>,
           q.type = "log" => HasCriteria(q)
    PROVE  Kept(ef, AddFilter(ef, q))
<1> DEFINE id == ef.id_counter + 1
           eg == [id_counter |-> id,
                  filters |-> [i \in Installed(ef) \cup {id} |->
                                 IF i = id THEN q ELSE ef.filters[i]]]
<1>1. CASE ef.id_counter = MAX_FILTER_ID
  BY <1>1 DEF Kept, AddFilter
<1>2. CASE ef.id_counter # MAX_FILTER_ID
  <2>1. AddFilter(ef, q) = eg
    BY <1>2 DEF AddFilter
  <2>2. /\ Installed(eg) = Installed(ef) \cup {id}
        /\ \A i \in Installed(eg) : eg.filters[i] = IF i = id THEN q ELSE ef.filters[i]
    BY DEF Installed
  <2> HIDE DEF eg, id
  <2> QED BY <2>1, <2>2 DEF Kept
<1> QED BY <1>1, <1>2

LEMMA RemovePollKeep ==
    ASSUME NEW ef, RegistryOK(ef), LogsHaveCriteria(ef), NEW id
    PROVE  /\ Kept(ef, remove_filter(ef, id))
           /\ id \in Installed(ef) => Kept(ef, get_new_changes(ef, id))
<1>1. ef = [id_counter |-> ef.id_counter, filters |-> ef.filters]
      /\ \A i \in Installed(ef) : {"type", "updates"} \subseteq DOMAIN ef.filters[i]
  BY DEF RegistryOK
<1>2. Kept(ef, remove_filter(ef, id))
  <2> DEFINE eg == [id_counter |-> ef.id_counter,
                    filters |-> [i \in Installed(ef) \ {id} |-> ef.filters[i]]]
  <2>1. remove_filter(ef, id) = eg
    BY <1>1 DEF remove_filter
  <2>2. Installed(eg) = Installed(ef) \ {id}
        /\ \A i \in Installed(eg) : eg.filters[i] = ef.filters[i]
    BY DEF Installed
  <2> HIDE DEF eg
  <2> QED BY <2>1, <2>2 DEF Kept
<1>3. ASSUME id \in Installed(ef)
      PROVE  Kept(ef, get_new_changes(ef, id))
  <2> DEFINE m  == [ef.filters EXCEPT ![id].updates = << >>]
             eg == [id_counter |-> ef.id_counter, filters |-> m]
  <2>1. get_new_changes(ef, id) = eg
    BY <1>1 DEF get_new_changes
  <2>2. /\ DOMAIN m = Installed(ef)
        /\ \A i \in Installed(ef) : i # id => m[i] = ef.filters[i]
        /\ DOMAIN m[id] = DOMAIN ef.filters[id]
        /\ m[id].type = ef.filters[id].type
        /\ m[id].updates = << >>
        /\ HasCriteria(ef.filters[id]) => HasCriteria(m[id])
    BY <1>1, <1>3 DEF Installed, HasCriteria
  <2>3. ef.filters[id].type = "log" => HasCriteria(ef.filters[id])
    BY <1>3 DEF LogsHaveCriteria
  <2> HIDE DEF m
  <2>4. eg.filters = m /\ Installed(eg) = DOMAIN m
    BY DEF Installed
  <2> HIDE DEF eg
  <2> QED BY <2>1, <2>2, <2>3, <2>4 DEF Kept
<1> QED BY <1>2, <1>3

(* Such filters keep what they have queued on the chain, as long as the     *)
(* chain itself keeps its blocks and results.                               *)
LEMMA QueuesKept ==
    ASSUME NEW s, NEW u, QueuesOK(s), Kept(s.filters, u.filters),
           DOMAIN s.blocks \subseteq DOMAIN u.blocks,
           \A t \in DOMAIN s.tx_results :
              t \in DOMAIN u.tx_results /\ u.tx_results[t] = s.tx_results[t]
    PROVE  QueuesOK(u)
<1> SUFFICES ASSUME NEW id \in Installed(u.filters)
             PROVE  QueueOK(u, u.filters.filters[id])
  BY DEF QueuesOK
<1>1. PICK q : q = u.filters.filters[id]
  OBVIOUS
<1>2. CASE id \in Installed(s.filters) /\ q = s.filters.filters[id]
  <2>1. QueueOK(s, q)
    BY <1>2 DEF QueuesOK
  <2>2. \A c, l : LogOK(s, c, l) => LogOK(u, c, l)
    BY DEF LogOK
  <2> QED BY <1>1, <2>1, <2>2 DEF QueueOK
<1>3. CASE q.updates = << >> /\ (q.type = "log" => HasCriteria(q))
  <2>1. IsList(<< >>) /\ DOMAIN << >> = {}
    BY DEF IsList
  <2> QED BY <1>1, <1>3, <2>1 DEF QueueOK
<1>4. CASE q.type = "pending"
  BY <1>1, <1>4 DEF QueueOK
<1> QED BY <1>1, <1>2, <1>3, <1>4 DEF Kept

(* What a step does to the filters, but for a commit. *)
LEMMA QueueKinds ==
    ASSUME TypeOK, RegistryOK(filters), QueuesOK(snapshot), [Next]_vars
    PROVE  \/ Kept(filters, filters')
           \/ Commits
           \/ \E j \in DOMAIN snapshots : RevertsTo(j)
           \/ \E f \in Forks \cup {NoFork} : reset(f)
<1> USE DEF counters, chain
<1>1. ASSUME UNCHANGED filters
      PROVE  Kept(filters, filters')
  BY <1>1 DEF Kept
<1>2. LogsHaveCriteria(filters)
  <2>1. snapshot.filters = filters
    BY DEF snapshot
  <2> QED BY <2>1 DEF QueuesOK, QueueOK, LogsHaveCriteria
<1>3. CASE UNCHANGED vars \/ TxRejected \/ MineNone \/ ServePoisoned
  BY <1>1, <1>3 DEF TxRejected, MineNone, ServePoisoned, vars
<1>4. ASSUME NEW t \in Txs, TxHalted(t)
      PROVE  Kept(filters, filters')
  <2>1. filters' = [id_counter |-> filters.id_counter,
                    filters |-> [i \in Installed(filters) |->
                       IF filters.filters[i].type = "pending"
                         THEN [filters.filters[i] EXCEPT !.updates = @ \o << t >>]
                         ELSE filters.filters[i]]]
    BY <1>4 DEF TxHalted, RegistryOK, notify_new_pending_transaction, Queue
  <2>2. /\ Installed(filters') = Installed(filters)
        /\ \A i \in Installed(filters) : filters'.filters[i] =
              IF filters.filters[i].type = "pending"
                THEN [filters.filters[i] EXCEPT !.updates = @ \o << t >>]
                ELSE filters.filters[i]
    BY <2>1 DEF Installed
  <2> QED BY <2>2 DEF Kept, RegistryOK
<1>5. CASE FilterMethods
  <2>1. CASE new_block_filter \/ new_pending_transaction_filter
    BY <2>1, AddKeeps
       DEF new_block_filter, new_pending_transaction_filter, add_block_filter,
           add_pending_transaction_filter, WithFilters
  <2>2. ASSUME NEW c \in LogCriteria, new_filter(c)
        PROVE  Kept(filters, filters')
    <3> DEFINE q == [type |-> "log", updates |-> << >>, criteria |-> c]
    <3>1. q.updates = << >> /\ HasCriteria(q)
      BY DEF HasCriteria
    <3>2. filters' = AddFilter(filters, q)
      BY <2>2 DEF new_filter, add_log_filter, WithFilters
    <3> HIDE DEF q
    <3> QED BY <3>1, <3>2, AddKeeps
  <2>3. ASSUME NEW id \in 1 .. MAX_FILTER_ID, uninstall_filter(id) \/ get_filter_changes(id)
        PROVE  Kept(filters, filters')
    BY <1>2, <2>3, RemovePollKeep DEF uninstall_filter, get_filter_changes, WithFilters
  <2> QED BY <1>5, <2>1, <2>2, <2>3 DEF FilterMethods
<1>6. ASSUME NEW t \in Txs, RunL2TxPanics(t)
      PROVE  UNCHANGED filters
  BY <1>6 DEF RunL2TxPanics
<1>7. CASE MineNext \/ \E n \in NumBlocks, i \in Intervals : MineBlocks(n, i)
  BY <1>1, <1>7 DEF MineNext, MineBlocks, MineOne
<1>8. CASE Clock
  BY <1>1, <1>8 DEF Clock, increase_time, set_next_block_timestamp, set_time, ClockTo, vars
<1>9. ASSUME NEW k \in Keys, NEW v \in Values, set_storage_at(k, v)
      PROVE  UNCHANGED filters
  BY <1>9 DEF set_storage_at
<1>10. CASE TakeSnapshot
  BY <1>1, <1>10 DEF TakeSnapshot
<1>11. ASSUME NEW id \in 0 .. MAX_SNAPSHOTS, revert_snapshot(id)
       PROVE  UNCHANGED filters \/ \E j \in DOMAIN snapshots : RevertsTo(j)
  BY <1>11, RevertKinds DEF vars
<1>12. ASSUME NEW f \in Forks \cup {NoFork}, reset_network(f)
       PROVE  UNCHANGED filters \/ reset(f)
  BY <1>12 DEF reset_network, vars
<1>13. CASE RemoteReadFails \/ SetNonceOverflows
  BY <1>1, <1>13 DEF RemoteReadFails, SetNonceOverflows
<1>14. ASSUME NEW info \in ContextWords, set_context_word(info)
       PROVE  UNCHANGED filters
  BY <1>14 DEF set_context_word
<1> QED
  BY <1>1, <1>3, <1>4, <1>5, <1>6, <1>7, <1>8, <1>9, <1>10, <1>11, <1>12, <1>13, <1>14
     DEF Next, SendTransaction, Commits, Mine, Snapshots

(* A filter of another type is not told. *)
LEMMA NotTold ==
    ASSUME NEW ef, RegistryOK(ef), NEW h, NEW id \in Installed(ef)
    PROVE  /\ ef.filters[id].type # "block" =>
                 notify_new_block(ef, h).filters[id] = ef.filters[id]
           /\ ef.filters[id].type # "pending" =>
                 notify_new_pending_transaction(ef, h).filters[id] = ef.filters[id]
  BY DEF RegistryOK, Installed, notify_new_block, notify_new_pending_transaction, Queue

(* A log filter is told of the logs it matches. *)
ToldLogs(q, r, logs, latest) ==
    /\ DOMAIN r = DOMAIN q /\ r.type = q.type
    /\ "criteria" \in DOMAIN q => r.criteria = q.criteria
    /\ r.updates = q.updates \o MatchingLogs(q, logs, latest)

LEMMA LogsTold ==
    ASSUME NEW ef, RegistryOK(ef), NEW logs, NEW latest,
           NEW id \in Installed(ef), ef.filters[id].type = "log"
    PROVE  ToldLogs(ef.filters[id], notify_new_logs(ef, logs, latest).filters[id],
                    logs, latest)
<1>1. notify_new_logs(ef, logs, latest).filters[id] =
         [ef.filters[id] EXCEPT !.updates = @ \o MatchingLogs(ef.filters[id], logs, latest)]
  BY DEF RegistryOK, Installed, notify_new_logs, Queue
<1>2. {"type", "updates"} \subseteq DOMAIN ef.filters[id]
  BY DEF RegistryOK
<1> QED BY <1>1, <1>2 DEF ToldLogs

(* Committing a transaction, as a log filter is told of it. *)
LEMMA CommitTellsLogs ==
    ASSUME TypeOK, ChainOK(snapshot, fork), RegistryOK(filters),
           NEW t \in Txs, NEW w \in Writes, RunL2Tx(t, w),
           NEW id \in Installed(filters), filters.filters[id].type = "log"
    PROVE  \E block :
             /\ tx_results' = Insert(tx_results, t, Receipt(t, block))
             /\ ToldLogs(filters.filters[id], filters'.filters[id],
                         TxLogEntries(t, block), block.number)
<1> DEFINE b  == TxBlock(t, create_l1_batch_env)
           g  == EmptyBlock(new_block(create_l1_batch_env), b.hash).hash
           q  == filters.filters[id]
           e1 == notify_new_pending_transaction(filters, t)
           e2 == notify_new_logs(e1, TxLogEntries(t, b), b.number)
           e3 == notify_new_block(e2, b.hash)
<1>1. filters' = notify_new_block(e3, g) /\ tx_results' = Insert(tx_results, t, Receipt(t, b))
  BY Zenon DEF RunL2Tx, CommitTx
<1> HIDE DEF b, g
<1>2. RegistryOK(e1) /\ id \in Installed(e1) /\ e1.filters[id] = q
  <2>1. Told(filters, e1, "pending", t)
    BY TellPending
  <2> QED BY <2>1, NotTold DEF Told
<1> HIDE DEF e1
<1>3. /\ RegistryOK(e2) /\ id \in Installed(e2) /\ e2.filters[id].type = "log"
      /\ ToldLogs(e1.filters[id], e2.filters[id], TxLogEntries(t, b), b.number)
  <2>1. RegistryOK(e2) /\ id \in Installed(e2) /\ e2.filters[id].type = "log"
    BY <1>2, TellLogs
  <2>2. RegistryOK(e1) /\ id \in Installed(e1) /\ e1.filters[id].type = "log"
    BY <1>2
  <2>3. ToldLogs(e1.filters[id], e2.filters[id], TxLogEntries(t, b), b.number)
    BY <2>2, LogsTold
  <2> QED BY <2>1, <2>3
<1> HIDE DEF e2
<1>4. RegistryOK(e3) /\ id \in Installed(e3) /\ e3.filters[id] = e2.filters[id]
  <2>1. Told(e2, e3, "block", b.hash)
    BY <1>3, TellBlock
  <2>2. RegistryOK(e2) /\ id \in Installed(e2) /\ e2.filters[id].type # "block"
    BY <1>3
  <2>3. e3.filters[id] = e2.filters[id]
    BY <2>2, NotTold
  <2> QED BY <1>3, <2>1, <2>3 DEF Told
<1> HIDE DEF e3
<1>5. filters'.filters[id] = e2.filters[id]
  <2>1. RegistryOK(e3) /\ id \in Installed(e3) /\ e3.filters[id].type # "block"
    BY <1>3, <1>4
  <2>2. notify_new_block(e3, g).filters[id] = e3.filters[id]
    BY <2>1, NotTold
  <2> QED BY <1>1, <1>4, <2>2
<1>6. ToldLogs(q, filters'.filters[id], TxLogEntries(t, b), b.number)
  BY <1>2, <1>3, <1>5
<1> QED BY <1>1, <1>6

(* What the logs of a transaction say of it. *)
LEMMA EntriesOfTx ==
    ASSUME NEW t \in Txs, NEW block
    PROVE  /\ Len(TxLogEntries(t, block)) \in Nat
           /\ DOMAIN TxLogEntries(t, block) = 1 .. Len(TxLogEntries(t, block))
           /\ \A i \in 1 .. Len(TxLogEntries(t, block)) :
                 /\ TxLogEntries(t, block)[i].transaction_hash = t
                 /\ TxLogEntries(t, block)[i].block_hash = block.hash
                 /\ TxLogEntries(t, block)[i].block_number = block.number
<1> DEFINE es == TxLogEntries(t, block)
           S  == {es[i] : i \in DOMAIN es}
<1>1. PICK n \in Nat : DOMAIN TxLogs[t] = 1 .. n
  BY EventAssumption, LenProperties
<1>2. DOMAIN es = 1 .. n
      /\ \A i \in 1 .. n : /\ es[i].transaction_hash = t
                           /\ es[i].block_hash = block.hash
                           /\ es[i].block_number = block.number
  BY <1>1 DEF TxLogEntries
<1>3. es = [i \in 1 .. n |-> es[i]]
  BY <1>1 DEF TxLogEntries
<1> HIDE DEF es
<1>4. es \in Seq(S) /\ Len(es) = n
  BY <1>2, <1>3
<1> QED BY <1>2, <1>4 DEF es

(* What committing a transaction adds to the maps. *)
LEMMA CommitAdds ==
    ASSUME TypeOK, ChainOK(snapshot, fork), NEW t \in Txs, NEW w \in Writes, RunL2Tx(t, w)
    PROVE  /\ DOMAIN blocks \subseteq DOMAIN blocks'
           /\ compute_hash(current_miniblock + 1, t) \in DOMAIN blocks'
           /\ compute_hash(current_miniblock + 2, NoTx) \in DOMAIN blocks'
           /\ t \notin DOMAIN tx_results
           /\ \A h \in DOMAIN blocks : h[1] \in Nat /\ h[1] <= current_miniblock
<1>1. PICK m, b, e : /\ Puts(snapshot, m, b) /\ Puts(m, snapshot', e)
                     /\ b.hash = compute_hash(b.number, t)
                     /\ e.hash = compute_hash(e.number, NoTx)
                     /\ t \notin DOMAIN tx_results
  BY CommitPuts
<1>2. /\ snapshot.current_miniblock = current_miniblock /\ current_miniblock \in Nat
      /\ snapshot.blocks = blocks /\ snapshot'.blocks = blocks'
  BY TypeSplit DEF snapshot, NodeTypeOK
<1>3. /\ b.number = current_miniblock + 1 /\ e.number = current_miniblock + 2
      /\ m.blocks = Insert(blocks, b.hash, b) /\ blocks' = Insert(m.blocks, e.hash, e)
  BY <1>1, <1>2 DEF Puts
<1>4. /\ DOMAIN m.blocks = DOMAIN blocks \cup {b.hash}
      /\ DOMAIN blocks' = DOMAIN m.blocks \cup {e.hash}
  BY <1>3 DEF Insert
<1>5. \A h \in DOMAIN blocks : h[1] \in Nat /\ h[1] <= current_miniblock
  <2>1. MapsOK(snapshot, fork)
    BY DEF ChainOK
  <2> QED BY <1>2, <2>1 DEF MapsOK
<1> QED BY <1>1, <1>3, <1>4, <1>5

(* A block filter: the two new blocks go behind those it has queued. *)
LEMMA QueueTwo ==
    ASSUME NEW s, NEW u, NEW q, NEW r, NEW tip \in Nat, NEW g, NEW h,
           q.type = "block", QueueOK(s, q), r.type = "block",
           BehindTwo(q.updates, r.updates, g, h),
           DOMAIN s.blocks \subseteq DOMAIN u.blocks,
           \A x \in DOMAIN s.blocks : x[1] \in Nat /\ x[1] <= tip,
           g \in DOMAIN u.blocks, h \in DOMAIN u.blocks, g[1] = tip + 1, h[1] = tip + 2
    PROVE  QueueOK(u, r)
<1>1. PICK n \in Nat :
         /\ DOMAIN q.updates = 1 .. n
         /\ DOMAIN r.updates = 1 .. n + 2
         /\ \A i \in 1 .. n : r.updates[i] = q.updates[i]
         /\ r.updates[n + 1] = g
         /\ r.updates[n + 2] = h
  BY DEF BehindTwo
<1>2. /\ \A i \in 1 .. n : q.updates[i] \in DOMAIN s.blocks
      /\ \A i, j \in 1 .. n : i < j => q.updates[i][1] < q.updates[j][1]
  BY <1>1 DEF QueueOK
<1>3. \A i \in 1 .. n + 2 : i \in 1 .. n \/ i = n + 1 \/ i = n + 2
  OBVIOUS
<1>4. \A i \in 1 .. n + 2 : r.updates[i] \in DOMAIN u.blocks
  BY <1>1, <1>2, <1>3
<1>5. ASSUME NEW i \in 1 .. n + 2, NEW j \in 1 .. n + 2, i < j
      PROVE  r.updates[i][1] < r.updates[j][1]
  <2>1. CASE i \in 1 .. n /\ j \in 1 .. n
    BY <1>1, <1>2, <1>5, <2>1
  <2>2. CASE i \in 1 .. n /\ ~(j \in 1 .. n)
    <3>1. r.updates[i][1] \in Nat /\ r.updates[i][1] <= tip
      BY <1>1, <1>2, <2>2
    <3>2. r.updates[j][1] = tip + 1 \/ r.updates[j][1] = tip + 2
      BY <1>1, <1>3, <2>2
    <3>3. PICK x, y : x = r.updates[i][1] /\ y = r.updates[j][1]
      OBVIOUS
    <3>4. x \in Nat /\ x <= tip /\ (y = tip + 1 \/ y = tip + 2)
      BY <3>1, <3>2, <3>3
    <3>5. x < y
      BY <3>4
    <3> QED BY <3>3, <3>5
  <2>3. CASE ~(i \in 1 .. n)
    <3>1. i = n + 1 /\ j = n + 2
      BY <1>5, <2>3
    <3> QED BY <1>1, <3>1
  <2> QED BY <2>1, <2>2, <2>3
<1> QED BY <1>1, <1>4, <1>5 DEF QueueOK

(* A log filter: so do the logs it matches. *)
LEMMA QueueLogs ==
    ASSUME NEW s, NEW u, NEW q, NEW r, NEW t \in Txs, NEW block,
           q.type = "log", QueueOK(s, q), t \notin DOMAIN s.tx_results,
           u.tx_results = Insert(s.tx_results, t, Receipt(t, block)),
           ToldLogs(q, r, TxLogEntries(t, block), block.number)
    PROVE  QueueOK(u, r)
<1>1. /\ IsList(q.updates) /\ HasCriteria(q)
      /\ \A i \in DOMAIN q.updates : LogOK(s, q.criteria, q.updates[i])
  BY DEF QueueOK
<1>2. PICK logs : logs = TxLogEntries(t, block)
  OBVIOUS
<1> DEFINE M == {l \in {logs[i] : i \in 1 .. Len(logs)} :
                    Matches(q.criteria, l, block.number)}
<1>3. /\ DOMAIN logs = 1 .. Len(logs)
      /\ \A i \in 1 .. Len(logs) : /\ logs[i].transaction_hash = t
                                   /\ logs[i].block_hash = block.hash
                                   /\ logs[i].block_number = block.number
  BY <1>2, EntriesOfTx
<1>4. MatchingLogs(q, logs, block.number) \in Seq(M)
  <2>1. Len(logs) \in Nat
    BY <1>2, EntriesOfTx
  <2> QED BY <2>1, MatchingLogsMatch
<1>5. /\ t \in DOMAIN u.tx_results /\ u.tx_results[t].block_hash = block.hash
      /\ u.tx_results[t].logs = logs
      /\ \A x \in DOMAIN s.tx_results :
            x \in DOMAIN u.tx_results /\ u.tx_results[x] = s.tx_results[x]
  <2>1. Receipt(t, block).block_hash = block.hash /\ Receipt(t, block).logs = logs
    BY <1>2 DEF Receipt
  <2> QED BY <2>1 DEF Insert
<1>6. \A l \in M : LogOK(u, q.criteria, l)
  BY <1>3, <1>5 DEF LogOK
<1>7. \A i \in DOMAIN q.updates : LogOK(u, q.criteria, q.updates[i])
  BY <1>1, <1>5 DEF LogOK
<1> HIDE DEF M
<1>8. /\ IsList(q.updates \o MatchingLogs(q, logs, block.number))
      /\ \A i \in DOMAIN (q.updates \o MatchingLogs(q, logs, block.number)) :
            LogOK(u, q.criteria, (q.updates \o MatchingLogs(q, logs, block.number))[i])
  <2>1. PICK p : p = MatchingLogs(q, logs, block.number)
    OBVIOUS
  <2>2. p \in Seq(M)
    BY <1>4, <2>1
  <2>3. /\ IsList(q.updates \o p)
        /\ \A i \in DOMAIN (q.updates \o p) :
              \/ i \in DOMAIN q.updates /\ (q.updates \o p)[i] = q.updates[i]
              \/ (q.updates \o p)[i] \in M
    BY <1>1, <2>2, ListConcat
  <2>4. PICK z : z = q.updates \o p
    OBVIOUS
  <2>5. \A i \in DOMAIN z : LogOK(u, q.criteria, z[i])
    <3>1. \A i \in DOMAIN z : (i \in DOMAIN q.updates /\ z[i] = q.updates[i]) \/ z[i] \in M
      BY <2>3, <2>4
    <3> QED BY <1>6, <1>7, <3>1, Zenon
  <2> QED BY <2>1, <2>3, <2>4, <2>5
<1>9. /\ r.updates = q.updates \o MatchingLogs(q, logs, block.number)
      /\ DOMAIN r = DOMAIN q /\ r.criteria = q.criteria /\ r.type = "log"
  BY <1>1, <1>2 DEF ToldLogs, HasCriteria
<1>10. HasCriteria(r)
  BY <1>1, <1>9 DEF HasCriteria
<1> QED BY <1>8, <1>9, <1>10 DEF QueueOK

(* A commit queues what belongs to the chain it makes. *)
LEMMA QueuesCommit ==
    ASSUME TypeOK, ChainOK(snapshot, fork), RegistryOK(filters), QueuesOK(snapshot), Commits
    PROVE  QueuesOK(snapshot')
<1>1. PICK t \in Txs, w \in Writes : RunL2Tx(t, w)
  BY DEF Commits
<1>2. PICK g, h : /\ g = compute_hash(current_miniblock + 1, t)
                  /\ h = compute_hash(current_miniblock + 2, NoTx)
  OBVIOUS
<1>3. /\ DOMAIN blocks \subseteq DOMAIN blocks'
      /\ g \in DOMAIN blocks' /\ h \in DOMAIN blocks'
      /\ t \notin DOMAIN tx_results
      /\ \A x \in DOMAIN blocks : x[1] \in Nat /\ x[1] <= current_miniblock
  BY <1>1, <1>2, CommitAdds
<1>4. PICK e1, e2, e3 :
           /\ Told(filters, e1, "pending", t)
           /\ RegistryOK(e2) /\ e2.id_counter = e1.id_counter
           /\ Installed(e2) = Installed(e1)
           /\ \A id \in Installed(e1) :
                 /\ e2.filters[id].type = e1.filters[id].type
                 /\ e1.filters[id].type # "log" =>
                       e2.filters[id].updates = e1.filters[id].updates
           /\ Told(e2, e3, "block", g)
           /\ Told(e3, filters', "block", h)
  BY <1>1, <1>2, CommitTells
<1>5. /\ snapshot.filters = filters /\ snapshot'.filters = filters'
      /\ snapshot.blocks = blocks /\ snapshot'.blocks = blocks'
      /\ snapshot.tx_results = tx_results /\ snapshot'.tx_results = tx_results'
      /\ current_miniblock \in Nat
  BY TypeSplit DEF snapshot, NodeTypeOK
<1>6. g[1] = current_miniblock + 1 /\ h[1] = current_miniblock + 2
  BY <1>2, <1>5 DEF compute_hash
<1> SUFFICES ASSUME NEW id \in Installed(filters')
             PROVE  QueueOK(snapshot', filters'.filters[id])
  BY <1>5 DEF QueuesOK
<1>7. id \in Installed(filters) /\ id \in Installed(e1) /\ id \in Installed(e2)
      /\ id \in Installed(e3)
  BY <1>4 DEF Told
<1>8. PICK q, r : q = filters.filters[id] /\ r = filters'.filters[id]
  OBVIOUS
<1>9. r.type = q.type /\ QueueOK(snapshot, q)
  <2>1. QueueOK(snapshot, q)
    BY <1>5, <1>7, <1>8 DEF QueuesOK
  <2>2. r.type = q.type
    BY <1>4, <1>7, <1>8 DEF Told
  <2> QED BY <2>1, <2>2
<1>10. CASE q.type = "block"
  <2>1. r.updates = Append(Append(q.updates, g), h)
    <3>1. e1.filters[id].type = "block" /\ e1.filters[id].updates = q.updates
      BY <1>4, <1>7, <1>8, <1>10 DEF Told
    <3>2. e2.filters[id].type = "block" /\ e2.filters[id].updates = q.updates
      BY <1>4, <1>7, <3>1
    <3>3. e3.filters[id].type = "block" /\ e3.filters[id].updates = Append(q.updates, g)
      BY <1>4, <1>7, <3>2 DEF Told
    <3> QED BY <1>4, <1>7, <1>8, <3>3 DEF Told
  <2>2. IsList(q.updates)
    BY <1>7, <1>8, <1>10 DEF RegistryOK
  <2>3. BehindTwo(q.updates, r.updates, g, h)
    BY <2>1, <2>2, ListTwo
  <2>4. QueueOK(snapshot', r)
    BY <1>3, <1>5, <1>6, <1>9, <1>10, <2>3, QueueTwo
  <2> QED BY <1>8, <2>4
<1>11. CASE q.type = "log"
  <2>1. PICK block : /\ tx_results' = Insert(tx_results, t, Receipt(t, block))
                     /\ ToldLogs(q, r, TxLogEntries(t, block), block.number)
    BY <1>1, <1>7, <1>8, <1>11, CommitTellsLogs
  <2>2. QueueOK(snapshot', r)
    BY <1>3, <1>5, <1>9, <1>11, <2>1, QueueLogs
  <2> QED BY <1>8, <2>2
<1>12. CASE q.type # "block" /\ q.type # "log"
  BY <1>8, <1>9, <1>12 DEF QueueOK
<1> QED BY <1>10, <1>11, <1>12

(* A new node has no filters; a restored state has those of the snapshot. *)
LEMMA QueuesFrame ==
    ASSUME NEW s, NEW u, QueuesOK(s), u.filters = s.filters, u.blocks = s.blocks,
           u.tx_results = s.tx_results
    PROVE  QueuesOK(u)
<1>1. \A q : QueueOK(s, q) => QueueOK(u, q)
  <2> SUFFICES ASSUME NEW q, QueueOK(s, q) PROVE QueueOK(u, q)
    OBVIOUS
  <2> QED BY DEF QueueOK, LogOK
<1> QED BY <1>1 DEF QueuesOK

LEMMA NewQueuesOK ==
    ASSUME NEW f
    PROVE  QueuesOK(new(f))
<1>1. new(f).filters = [id_counter |-> 0, filters |-> << >>]
  BY DEF new, NewLocal, NewForked, EmptyRegistry
<1>2. DOMAIN << >> = {}
  OBVIOUS
<1> QED BY <1>1, <1>2 DEF QueuesOK, Installed

(* Every step preserves the queues. *)
LEMMA QueueStep ==
    ASSUME TypeOK, ChainInv, HistoryInv, QueueInv, [Next]_vars
    PROVE  QueueInv'
<1>1. /\ QueuesOK(snapshot) /\ \A i \in DOMAIN snapshots : QueuesOK(snapshots[i])
      /\ ChainOK(snapshot, fork) /\ RegistryOK(filters) /\ snapshot.filters = filters
  <2>1. snapshot.filters = filters
    BY DEF snapshot
  <2> QED BY <2>1 DEF HistoryInv, QueueInv, ChainInv, StateOK
<1>2. SUFFICES QueuesOK(snapshot') /\ \A i \in DOMAIN snapshots' : QueuesOK(snapshots'[i])
  BY DEF QueueInv
<1>3. CASE Commits
  <2>1. QueuesOK(snapshot')
    BY <1>1, <1>3, QueuesCommit
  <2>2. UNCHANGED snapshots
    BY <1>1, <1>3, ChainCommit
  <2> QED BY <1>1, <2>1, <2>2
<1>4. CASE Kept(filters, filters') /\ (Idle \/ Mines)
  <2>1. /\ DOMAIN blocks \subseteq DOMAIN blocks'
        /\ UNCHANGED << tx_results, snapshots >>
    <3>1. CASE Idle
      BY <3>1 DEF Idle, chain
    <3>2. CASE Mines
      BY <3>2 DEF Mines, MineOne, Insert
    <3> QED BY <1>4, <3>1, <3>2
  <2>2. /\ snapshot'.filters = filters'
        /\ snapshot.blocks = blocks /\ snapshot'.blocks = blocks'
        /\ snapshot.tx_results = tx_results /\ snapshot'.tx_results = tx_results'
    BY DEF snapshot
  <2>3. QueuesOK(snapshot')
    BY <1>1, <1>4, <2>1, <2>2, QueuesKept
  <2> QED BY <1>1, <2>1, <2>3
<1>5. CASE Saves
  <2>1. snapshot' = snapshot
    BY <1>5 DEF Saves, snapshot, counters, chain
  <2>2. /\ DOMAIN snapshots' = 1 .. Len(snapshots) + 1 /\ Len(snapshots) \in Nat
        /\ DOMAIN snapshots = 1 .. Len(snapshots)
        /\ \A i \in DOMAIN snapshots : snapshots'[i] = snapshots[i]
        /\ snapshots'[Len(snapshots) + 1] = snapshot
    BY <1>5, AfterSave
  <2>3. ASSUME NEW i \in DOMAIN snapshots'
        PROVE  \/ snapshots'[i] = snapshot
               \/ i \in DOMAIN snapshots /\ snapshots'[i] = snapshots[i]
    <3>1. i \in DOMAIN snapshots \/ i = Len(snapshots) + 1
      BY <2>2
    <3> QED BY <2>2, <3>1, Zenon
  <2> QED BY <1>1, <2>1, <2>3, Zenon
<1>6. ASSUME NEW j \in DOMAIN snapshots, RevertsTo(j)
      PROVE  QueuesOK(snapshot') /\ \A i \in DOMAIN snapshots' : QueuesOK(snapshots'[i])
  <2>1. Become(snapshots[j])
    BY <1>6 DEF RevertsTo
  <2>2. QueuesOK(snapshot')
    BY <1>1, <2>1, AfterBecome, QueuesFrame
  <2>3. \A i \in DOMAIN snapshots' : i \in DOMAIN snapshots /\ snapshots'[i] = snapshots[i]
    BY <1>6, AfterRevert
  <2> QED BY <1>1, <2>2, <2>3, Zenon
<1>7. ASSUME NEW f \in Forks \cup {NoFork}, reset(f)
      PROVE  QueuesOK(snapshot') /\ \A i \in DOMAIN snapshots' : QueuesOK(snapshots'[i])
  <2>1. Become(new(f)) /\ snapshots' = << >>
    BY <1>7 DEF reset
  <2>2. QueuesOK(snapshot')
    BY <2>1, NewQueuesOK, AfterBecome, QueuesFrame
  <2> QED BY <2>1, <2>2
<1> QED BY <1>1, <1>3, <1>4, <1>5, <1>6, <1>7, StepKinds, QueueKinds

(* The queues stay on the chain throughout. *)
LEMMA QueueAlways ==
    ASSUME ContextKept
    PROVE  Spec => []QueueInv
<1>1. Init => QueueInv
  BY StartsNew, NewQueuesOK DEF QueueInv
<1>2. TypeOK /\ ChainInv /\ HistoryInv /\ QueueInv /\ [Next]_vars => QueueInv'
  BY QueueStep
<1>3. Spec => []ChainInv /\ []HistoryInv
  BY ChainAlways, HistoryAlways
<1> QED BY <1>1, <1>2, <1>3, TypeCorrect, PTL DEF Spec

(* Whatever filters are installed, polled and restored, what they hold is   *)
(* on the chain: the blocks in chain order, the logs of transactions whose  *)
(* receipts are still there, each log matching the criteria it is held for. *)
THEOREM QueuesStayOnChain ==
    ASSUME ContextKept
    PROVE  Spec => []QueuesOnChain
<1>1. ChainInv /\ QueueInv => QueuesOnChain
  <2> SUFFICES ASSUME ChainInv, QueueInv, NEW id \in Installed(filters)
               PROVE  LET f == filters.filters[id]
                      IN  CASE f.type = "block" ->
                                 /\ \A i \in DOMAIN f.updates : f.updates[i] \in DOMAIN blocks
                                 /\ \A i, j \in DOMAIN f.updates : i < j =>
                                      blocks[f.updates[i]].number < blocks[f.updates[j]].number
                            [] f.type = "log" ->
                                 \A i \in DOMAIN f.updates :
                                     LET l == f.updates[i]
                                     IN  /\ l.transaction_hash \in DOMAIN tx_results
                                         /\ tx_results[l.transaction_hash].block_hash
                                               = l.block_hash
                                         /\ Matches(f.criteria, l, l.block_number)
                            [] OTHER -> TRUE
    BY DEF QueuesOnChain
  <2>1. PICK q : q = filters.filters[id]
    OBVIOUS
  <2>2. snapshot.filters = filters /\ snapshot.blocks = blocks
        /\ snapshot.tx_results = tx_results
    BY DEF snapshot
  <2>3. QueueOK(snapshot, q)
    BY <2>1, <2>2 DEF QueueInv, QueuesOK
  <2>4. \A h \in DOMAIN blocks : blocks[h].number = h[1]
    <3>1. MapsOK(snapshot, fork)
      BY DEF ChainInv, ChainOK
    <3> QED BY <2>2, <3>1 DEF MapsOK, At
  <2>5. CASE q.type = "block"
    <3>1. /\ \A i \in DOMAIN q.updates : q.updates[i] \in DOMAIN blocks
          /\ \A i, j \in DOMAIN q.updates : i < j => q.updates[i][1] < q.updates[j][1]
      BY <2>2, <2>3, <2>5 DEF QueueOK
    <3>2. \A i, j \in DOMAIN q.updates : i < j =>
             blocks[q.updates[i]].number < blocks[q.updates[j]].number
      BY <2>4, <3>1
    <3> QED BY <2>1, <2>5, <3>1, <3>2
  <2>6. CASE q.type = "log"
    BY <2>1, <2>2, <2>3, <2>6 DEF QueueOK, LogOK
  <2>7. CASE q.type # "block" /\ q.type # "log"
    BY <2>1, <2>7
  <2> QED BY <2>5, <2>6, <2>7
<1>2. Spec => []ChainInv /\ []QueueInv
  BY ChainAlways, QueueAlways
<1> QED BY <1>1, <1>2, PTL

-----------------------------------------------------------------------------
(* The node implements the Ledger. *)

(* The ledger of a state, and those of the snapshots.                       *)
LedgerOf(s, f) == ChainOf(s, First(f))
Savepoint(s, f) == [chain |-> LedgerOf(s, f), results |-> DOMAIN s.tx_results]
Savepoints(ss, f) == [i \in DOMAIN ss |-> Savepoint(ss[i], f)]

Hashes(transactions) == [j \in DOMAIN transactions |-> transactions[j].hash]

(* The ledger of a state, block by block. *)
LEMMA LedgerOfFacts ==
    ASSUME NEW s, NEW f, MapsOK(s, f)
    PROVE  /\ IsList(LedgerOf(s, f))
           /\ Len(LedgerOf(s, f)) = s.current_miniblock + 1 - First(f)
           /\ DOMAIN LedgerOf(s, f) = 1 .. s.current_miniblock + 1 - First(f)
           /\ \A i \in DOMAIN LedgerOf(s, f) :
                 LedgerOf(s, f)[i] = [hash |-> s.block_hashes[First(f) + i - 1],
                                   transactions |-> Hashes(At(s, First(f) + i - 1).transactions)]
<1> DEFINE n0 == First(f)
           k  == s.current_miniblock + 1 - n0
           q  == [i \in 1 .. k |-> [hash |-> At(s, n0 + i - 1).hash,
                                    transactions |-> Hashes(At(s, n0 + i - 1).transactions)]]
           R  == {q[i] : i \in 1 .. k}
<1>1. /\ n0 \in Nat /\ k \in Nat
      /\ \A n \in n0 .. s.current_miniblock : At(s, n).hash = s.block_hashes[n]
  BY DEF MapsOK
<1>2. LedgerOf(s, f) = q
  BY DEF LedgerOf, ChainOf, At, Hashes
<1>3. q \in [1 .. k -> R] /\ DOMAIN q = 1 .. k
  OBVIOUS
<1>4. \A i \in 1 .. k :
         q[i] = [hash |-> At(s, n0 + i - 1).hash,
                 transactions |-> Hashes(At(s, n0 + i - 1).transactions)]
  OBVIOUS
<1>5. \A i \in 1 .. k : At(s, n0 + i - 1).hash = s.block_hashes[n0 + i - 1]
  <2>1. \A i \in 1 .. k : n0 + i - 1 \in n0 .. s.current_miniblock
    BY <1>1 DEF MapsOK
  <2> QED BY <1>1, <2>1
<1> HIDE DEF q, R, k
<1>6. q \in Seq(R) /\ Len(q) = k
  BY <1>1, <1>3
<1>7. IsList(q)
  BY <1>6, SeqIsList
<1> QED BY <1>2, <1>3, <1>4, <1>5, <1>6, <1>7 DEF k

(* A state that keeps the blocks of another and has more shows its ledger,  *)
(* extended.                                                                *)
LEMMA LedgerOfGrows ==
    ASSUME NEW s, NEW u, NEW f, MapsOK(s, f), MapsOK(u, f),
           s.current_miniblock < u.current_miniblock,
           \A n \in First(f) .. s.current_miniblock :
              u.block_hashes[n] = s.block_hashes[n] /\ At(u, n) = At(s, n)
    PROVE  LET prev == LedgerOf(s, f)
               next == LedgerOf(u, f)
           IN  /\ Len(next) > Len(prev)
               /\ SubSeq(next, 1, Len(prev)) = prev
               /\ \A i, j \in DOMAIN next : next[i].hash = next[j].hash => i = j
               /\ Abstract!Transactions(SubSeq(next, Len(prev) + 1, Len(next)))
                    = UNION {{At(u, n).transactions[j].hash :
                                 j \in DOMAIN At(u, n).transactions} :
                                n \in s.current_miniblock + 1 .. u.current_miniblock}
<1> DEFINE prev == LedgerOf(s, f)
           next == LedgerOf(u, f)
           n0  == First(f)
           k   == s.current_miniblock + 1 - n0
           m   == u.current_miniblock + 1 - n0
           R   == {next[i] : i \in DOMAIN next} \cup {prev[i] : i \in DOMAIN prev}
<1>1. /\ n0 \in Nat /\ k \in Nat /\ m \in Nat /\ k >= 1 /\ k < m
      /\ s.current_miniblock = n0 + k - 1 /\ u.current_miniblock = n0 + m - 1
      /\ \A n \in n0 .. u.current_miniblock : u.block_hashes[n][1] = n
  BY DEF MapsOK
<1>2. /\ Len(prev) = k /\ DOMAIN prev = 1 .. k
      /\ \A i \in 1 .. k : prev[i] = [hash |-> s.block_hashes[n0 + i - 1],
                                     transactions |-> Hashes(At(s, n0 + i - 1).transactions)]
      /\ Len(next) = m /\ DOMAIN next = 1 .. m
      /\ \A i \in 1 .. m : next[i] = [hash |-> u.block_hashes[n0 + i - 1],
                                     transactions |-> Hashes(At(u, n0 + i - 1).transactions)]
  <2>1. DOMAIN prev = 1 .. k /\ DOMAIN next = 1 .. m
    BY LedgerOfFacts
  <2> QED BY <2>1, LedgerOfFacts
<1>3. prev \in Seq(R) /\ next \in Seq(R)
  <2>1. IsList(prev) /\ IsList(next)
    BY LedgerOfFacts
  <2> QED BY <2>1, SeqMonotonic DEF IsList
<1> HIDE DEF R, prev, next, n0, k, m
<1>4. SubSeq(next, 1, k) = prev
  <2>1. \A i \in 1 .. k : next[i] \in R
    BY <1>1, <1>2, <1>3
  <2>2. /\ SubSeq(next, 1, k) \in Seq(R)
        /\ Len(SubSeq(next, 1, k)) = k
        /\ \A i \in 1 .. k : SubSeq(next, 1, k)[i] = next[i]
    BY <1>1, <2>1, SubSeqProperties
  <2>3. \A i \in 1 .. k : next[i] = prev[i]
    <3>1. \A i \in 1 .. k : n0 + i - 1 \in n0 .. s.current_miniblock /\ i \in 1 .. m
      BY <1>1
    <3> QED BY <1>2, <3>1 DEF n0
  <2> QED BY <1>2, <1>3, <2>2, <2>3, SeqEqual
<1>5. ASSUME NEW i \in 1 .. m, NEW j \in 1 .. m, next[i].hash = next[j].hash
      PROVE  i = j
  <2>1. u.block_hashes[n0 + i - 1] = u.block_hashes[n0 + j - 1]
    BY <1>2, <1>5
  <2>2. n0 + i - 1 \in n0 .. u.current_miniblock /\ n0 + j - 1 \in n0 .. u.current_miniblock
    BY <1>1
  <2>3. n0 + i - 1 = n0 + j - 1
    BY <1>1, <2>1, <2>2
  <2> QED BY <1>1, <2>3
<1>6. Abstract!Transactions(SubSeq(next, k + 1, m))
        = UNION {{At(u, n).transactions[j].hash : j \in DOMAIN At(u, n).transactions} :
                    n \in s.current_miniblock + 1 .. u.current_miniblock}
  <2> DEFINE top == SubSeq(next, k + 1, m)
             T(n) == {At(u, n).transactions[j].hash : j \in DOMAIN At(u, n).transactions}
  <2>1. \A i \in k + 1 .. m : next[i] \in R
    BY <1>1, <1>2, <1>3
  <2>2. /\ top \in Seq(R) /\ Len(top) = m - k
        /\ \A i \in 1 .. m - k : top[i] = next[k + i]
    BY <1>1, <2>1, SubSeqProperties
  <2>3. DOMAIN top = 1 .. m - k
    BY <1>1, <2>2, LenProperties
  <2> HIDE DEF top
  <2>4. \A i \in 1 .. m - k :
           {top[i].transactions[j] : j \in DOMAIN top[i].transactions}
             = T(s.current_miniblock + i)
    <3> SUFFICES ASSUME NEW i \in 1 .. m - k
                 PROVE  {top[i].transactions[j] : j \in DOMAIN top[i].transactions}
                          = T(s.current_miniblock + i)
      OBVIOUS
    <3>1. k + i \in 1 .. m /\ n0 + (k + i) - 1 = s.current_miniblock + i
      BY <1>1
    <3>2. top[i].transactions = Hashes(At(u, s.current_miniblock + i).transactions)
      BY <1>2, <2>2, <3>1
    <3> QED BY <3>2 DEF Hashes
  <2>5. {{top[i].transactions[j] : j \in DOMAIN top[i].transactions} : i \in 1 .. m - k}
          = {T(n) : n \in s.current_miniblock + 1 .. u.current_miniblock}
    <3> DEFINE G(i) == {top[i].transactions[j] : j \in DOMAIN top[i].transactions}
    <3>6. \A i \in 1 .. m - k : G(i) = T(s.current_miniblock + i)
      BY <2>4
    <3> HIDE DEF T, G
    <3>1. \A i \in 1 .. m - k :
             s.current_miniblock + i \in s.current_miniblock + 1 .. u.current_miniblock
      BY <1>1
    <3>2. \A n \in s.current_miniblock + 1 .. u.current_miniblock :
             n - s.current_miniblock \in 1 .. m - k
               /\ s.current_miniblock + (n - s.current_miniblock) = n
      BY <1>1
    <3>3. ASSUME NEW x \in {G(i) : i \in 1 .. m - k}
          PROVE  x \in {T(n) : n \in s.current_miniblock + 1 .. u.current_miniblock}
      BY <3>6, <3>1
    <3>4. ASSUME NEW n \in s.current_miniblock + 1 .. u.current_miniblock
          PROVE  T(n) \in {G(i) : i \in 1 .. m - k}
      <4>1. T(n) = G(n - s.current_miniblock)
        BY <3>6, <3>2
      <4> QED BY <3>2, <4>1
    <3>5. {G(i) : i \in 1 .. m - k}
            = {T(n) : n \in s.current_miniblock + 1 .. u.current_miniblock}
      BY <3>3, <3>4
    <3> QED BY <3>5 DEF G
  <2> QED BY <2>3, <2>5 DEF Abstract!Transactions, top
<1> QED BY <1>1, <1>2, <1>4, <1>5, <1>6 DEF prev, next

(* The savepoints are a list as long as that of the snapshots.              *)
LEMMA SavepointsList ==
    ASSUME NEW ss, IsList(ss), NEW f
    PROVE  IsList(Savepoints(ss, f)) /\ Len(Savepoints(ss, f)) = Len(ss)
<1> DEFINE n == Len(ss)
           q == Savepoints(ss, f)
           R == {q[i] : i \in 1 .. n}
<1>1. n \in Nat /\ DOMAIN ss = 1 .. n
  BY LenProperties DEF IsList
<1>2. q \in [1 .. n -> R]
  BY <1>1 DEF Savepoints
<1> HIDE DEF q, R, n
<1>3. q \in Seq(R) /\ Len(q) = n
  BY <1>1, <1>2
<1> QED BY <1>3, SeqIsList DEF q, n

(* Taking a snapshot adds a savepoint. *)
LEMMA SavepointTaken ==
    ASSUME TypeOK, Saves, NEW f
    PROVE  Savepoints(snapshots', f) = Append(Savepoints(snapshots, f), Savepoint(snapshot, f))
<1> DEFINE n  == Len(snapshots)
           q  == Savepoints(snapshots, f)
           e  == Savepoint(snapshot, f)
           qq == Savepoints(snapshots', f)
           R  == {q[i] : i \in DOMAIN q} \cup {e}
<1>1. /\ n \in Nat /\ DOMAIN snapshots = 1 .. n
      /\ DOMAIN snapshots' = 1 .. n + 1
      /\ \A i \in 1 .. n : snapshots'[i] = snapshots[i]
      /\ snapshots'[n + 1] = snapshot
  BY AfterSave
<1>2. IsList(snapshots)
  BY TypeSplit DEF RestTypeOK
<1>3. q \in Seq(R) /\ e \in R /\ Len(q) = n /\ DOMAIN q = 1 .. n
  <2>1. IsList(q) /\ Len(q) = n
    BY <1>2, SavepointsList
  <2>2. q \in Seq(R)
    BY <2>1, SeqMonotonic DEF IsList
  <2> QED BY <2>1, <2>2, LenProperties
<1>4. /\ DOMAIN qq = 1 .. n + 1 /\ qq[n + 1] = e
      /\ \A i \in 1 .. n : qq[i] = q[i]
  <2>1. /\ DOMAIN qq = DOMAIN snapshots'
        /\ \A i \in DOMAIN snapshots' : qq[i] = Savepoint(snapshots'[i], f)
        /\ \A i \in DOMAIN snapshots : q[i] = Savepoint(snapshots[i], f)
    BY DEF Savepoints
  <2>2. \A i \in 1 .. n : i \in DOMAIN snapshots'
    BY <1>1
  <2>3. n + 1 \in DOMAIN snapshots'
    BY <1>1
  <2> HIDE DEF q, qq, n
  <2>4. qq[n + 1] = e
    BY <1>1, <2>1, <2>3, Zenon
  <2>5. \A i \in 1 .. n : qq[i] = q[i]
    BY <1>1, <2>1, <2>2, Zenon
  <2> QED BY <1>1, <2>1, <2>4, <2>5
<1>5. qq \in [1 .. n + 1 -> R]
  <2>1. qq = [i \in DOMAIN qq |-> qq[i]]
    BY DEF Savepoints
  <2> HIDE DEF qq, q, n, e
  <2>2. \A i \in 1 .. n + 1 : qq[i] \in R
    BY <1>1, <1>3, <1>4
  <2> HIDE DEF R
  <2> QED BY <1>4, <2>1, <2>2
<1> HIDE DEF q, qq, R, n, e
<1>6. qq \in Seq(R) /\ Len(qq) = n + 1
  BY <1>1, <1>5
<1>7. /\ Append(q, e) \in Seq(R) /\ Len(Append(q, e)) = n + 1
      /\ \A i \in 1 .. n : Append(q, e)[i] = q[i]
      /\ Append(q, e)[n + 1] = e
  BY <1>3, AppendProperties
<1>8. \A i \in 1 .. n + 1 : qq[i] = Append(q, e)[i]
  BY <1>1, <1>4, <1>7
<1>9. qq = Append(q, e)
  BY <1>6, <1>7, <1>8, SeqEqual
<1> QED BY <1>9 DEF q, qq, e

(* Going back to a snapshot uses up its savepoint and the later ones.       *)
LEMMA SavepointsUsed ==
    ASSUME TypeOK, NEW j \in DOMAIN snapshots, RevertsTo(j), NEW f
    PROVE  Savepoints(snapshots', f) = SubSeq(Savepoints(snapshots, f), 1, j - 1)
<1> DEFINE q  == Savepoints(snapshots, f)
           qq == Savepoints(snapshots', f)
           R  == {q[i] : i \in DOMAIN q}
<1>1. /\ j \in Nat /\ j >= 1 /\ DOMAIN snapshots' = 1 .. j - 1
      /\ \A i \in 1 .. j - 1 : i \in DOMAIN snapshots /\ snapshots'[i] = snapshots[i]
  BY AfterRevert
<1>2. /\ DOMAIN qq = 1 .. j - 1
      /\ \A i \in 1 .. j - 1 : i \in DOMAIN q /\ qq[i] = q[i]
  <2>1. /\ DOMAIN qq = DOMAIN snapshots' /\ DOMAIN q = DOMAIN snapshots
        /\ \A i \in DOMAIN snapshots' : qq[i] = Savepoint(snapshots'[i], f)
        /\ \A i \in DOMAIN snapshots : q[i] = Savepoint(snapshots[i], f)
    BY DEF Savepoints
  <2> HIDE DEF q, qq
  <2> QED BY <1>1, <2>1, Zenon
<1>3. qq \in [1 .. j - 1 -> R]
  <2>1. qq = [i \in DOMAIN qq |-> qq[i]]
    BY DEF Savepoints
  <2> HIDE DEF qq, q
  <2>2. \A i \in 1 .. j - 1 : qq[i] \in R
    BY <1>2
  <2> HIDE DEF R
  <2> QED BY <1>2, <2>1, <2>2
<1> HIDE DEF qq
<1>4. qq \in Seq(R) /\ Len(qq) = j - 1
  <2> HIDE DEF R
  <2> QED BY <1>1, <1>3
<1>5. /\ SubSeq(q, 1, j - 1) \in Seq(R)
      /\ Len(SubSeq(q, 1, j - 1)) = j - 1
      /\ \A i \in 1 .. j - 1 : SubSeq(q, 1, j - 1)[i] = q[i]
  <2>1. \A i \in 1 .. j - 1 : q[i] \in R
    BY <1>2
  <2> HIDE DEF q, R
  <2> QED BY <1>1, <2>1, SubSeqProperties
<1> HIDE DEF q, R
<1>6. qq = SubSeq(q, 1, j - 1)
  BY <1>2, <1>4, <1>5, SeqEqual
<1> QED BY <1>6 DEF q, qq

(* The variables of the ledger. *)
LEMMA LedgerVariables ==
    /\ ChainOf(snapshot, FirstBlock) = LedgerOf(snapshot, fork)
    /\ [i \in DOMAIN snapshots |->
          [chain |-> ChainOf(snapshots[i], FirstBlock),
           results |-> DOMAIN snapshots[i].tx_results]] = Savepoints(snapshots, fork)
<1>1. FirstBlock = First(fork)
  BY DEF FirstBlock, First
<1>2. ChainOf(snapshot, FirstBlock) = LedgerOf(snapshot, fork)
  BY <1>1 DEF LedgerOf
<1>3. [i \in DOMAIN snapshots |->
         [chain |-> ChainOf(snapshots[i], FirstBlock),
          results |-> DOMAIN snapshots[i].tx_results]] = Savepoints(snapshots, fork)
  BY <1>1, Zenon DEF Savepoints, Savepoint, LedgerOf
<1> QED BY <1>2, <1>3

(* A state shows its blocks: nothing but these counts.                      *)
LEMMA LedgerOfFrame ==
    ASSUME NEW s, NEW u, NEW f, u.current_miniblock = s.current_miniblock,
           u.blocks = s.blocks, u.block_hashes = s.block_hashes
    PROVE  LedgerOf(u, f) = LedgerOf(s, f)
  BY Zenon DEF LedgerOf, ChainOf

(* What transactions and mining add to the ledger. *)
LEMMA LedgerExtends ==
    ASSUME TypeOK, ChainInv, Commits \/ Mines,
           NEW prev, prev = LedgerOf(snapshot, fork),
           NEW next, next = LedgerOf(snapshot', fork)
    PROVE  /\ Len(next) > Len(prev)
           /\ SubSeq(next, 1, Len(prev)) = prev
           /\ \A i, j \in DOMAIN next : next[i].hash = next[j].hash => i = j
           /\ LET added == Abstract!Transactions(SubSeq(next, Len(prev) + 1, Len(next)))
              IN  /\ added \cap DOMAIN tx_results = {}
                  /\ DOMAIN tx_results' = DOMAIN tx_results \cup added
<1> DEFINE s   == snapshot
           u   == snapshot'
           tip == current_miniblock
           T(n) == {At(u, n).transactions[j].hash : j \in DOMAIN At(u, n).transactions}
<1>1. ChainOK(s, fork) /\ MapsOK(s, fork)
  BY DEF ChainInv, ChainOK
<1>2. s.current_miniblock = tip /\ tip \in Nat
  BY TypeSplit DEF snapshot, NodeTypeOK
<1>3. CASE Commits
  <2>1. PICK t \in Txs, w \in Writes : RunL2Tx(t, w)
    BY <1>3 DEF Commits
  <2>2. PICK m, b, e, r :
          /\ Puts(s, m, b) /\ Puts(m, u, e)
          /\ DOMAIN b.transactions = {1} /\ b.transactions[1].hash = t
          /\ e.transactions = << >>
          /\ tx_results' = Insert(tx_results, t, r)
          /\ t \notin DOMAIN tx_results
    BY <1>1, <2>1, CommitPuts
  <2> HIDE DEF s, u, tip
  <2>3. /\ m.current_miniblock = tip + 1 /\ b.number = tip + 1
        /\ u.current_miniblock = tip + 2 /\ e.number = tip + 2
    BY <1>2, <2>2 DEF Puts
  <2>4. /\ MapsOK(m, fork) /\ At(m, tip + 1) = b
        /\ \A n \in First(fork) .. tip :
              m.block_hashes[n] = s.block_hashes[n] /\ At(m, n) = At(s, n)
    BY <1>1, <1>2, <2>2, <2>3, PutBlock
  <2>5. /\ MapsOK(u, fork) /\ At(u, tip + 2) = e
        /\ \A n \in First(fork) .. tip + 1 :
              u.block_hashes[n] = m.block_hashes[n] /\ At(u, n) = At(m, n)
    BY <2>2, <2>3, <2>4, PutBlock
  <2>6. First(fork) \in Nat /\ First(fork) <= tip
    BY <1>1, <1>2 DEF MapsOK
  <2>7. /\ At(u, tip + 1) = b
        /\ \A n \in First(fork) .. tip :
              u.block_hashes[n] = s.block_hashes[n] /\ At(u, n) = At(s, n)
    <3>1. \A n \in First(fork) .. tip : n \in First(fork) .. tip + 1
      BY <1>2, <2>6
    <3>2. tip + 1 \in First(fork) .. tip + 1
      BY <1>2, <2>6
    <3> QED BY <2>4, <2>5, <3>1, <3>2
  <2>8. prev = LedgerOf(s, fork) /\ next = LedgerOf(u, fork)
    BY DEF s, u
  <2>9. s.current_miniblock < u.current_miniblock
    BY <1>2, <2>3
  <2> HIDE DEF T
  <2>10. /\ Len(next) > Len(prev)
         /\ SubSeq(next, 1, Len(prev)) = prev
         /\ \A i, j \in DOMAIN next : next[i].hash = next[j].hash => i = j
         /\ Abstract!Transactions(SubSeq(next, Len(prev) + 1, Len(next)))
              = UNION {T(n) : n \in tip + 1 .. tip + 2}
    <3>1. \A n \in First(fork) .. s.current_miniblock :
             u.block_hashes[n] = s.block_hashes[n] /\ At(u, n) = At(s, n)
      BY <1>2, <2>7
    <3>2. /\ Len(next) > Len(prev)
          /\ SubSeq(next, 1, Len(prev)) = prev
          /\ \A i, j \in DOMAIN next : next[i].hash = next[j].hash => i = j
          /\ Abstract!Transactions(SubSeq(next, Len(prev) + 1, Len(next)))
               = UNION {T(n) : n \in s.current_miniblock + 1 .. u.current_miniblock}
      BY <1>1, <2>5, <2>8, <2>9, <3>1, LedgerOfGrows DEF T
    <3> QED BY <1>2, <2>3, <3>2
  <2>11. T(tip + 1) = {t} /\ T(tip + 2) = {}
    BY <2>2, <2>5, <2>7 DEF T
  <2>12. UNION {T(n) : n \in tip + 1 .. tip + 2} = {t}
    <3>1. tip + 1 .. tip + 2 = {tip + 1, tip + 2}
      BY <1>2
    <3> QED BY <2>11, <3>1
  <2>13. DOMAIN tx_results' = DOMAIN tx_results \cup {t}
    BY <2>2 DEF Insert
  <2> QED BY <2>2, <2>10, <2>12, <2>13
<1>4. CASE Mines
  <2>1. PICK b : /\ Puts(s, u, b) /\ b.transactions = << >> /\ tx_results' = tx_results
    BY <1>1, <1>4, MinePuts DEF Mines
  <2> HIDE DEF s, u, tip
  <2>2. u.current_miniblock = tip + 1 /\ b.number = tip + 1
    BY <1>2, <2>1 DEF Puts
  <2>3. /\ MapsOK(u, fork) /\ At(u, tip + 1) = b
        /\ \A n \in First(fork) .. tip :
              u.block_hashes[n] = s.block_hashes[n] /\ At(u, n) = At(s, n)
    BY <1>1, <1>2, <2>1, <2>2, PutBlock
  <2>4. prev = LedgerOf(s, fork) /\ next = LedgerOf(u, fork)
    BY DEF s, u
  <2>5. s.current_miniblock < u.current_miniblock
    BY <1>2, <2>2
  <2> HIDE DEF T
  <2>6. /\ Len(next) > Len(prev)
        /\ SubSeq(next, 1, Len(prev)) = prev
        /\ \A i, j \in DOMAIN next : next[i].hash = next[j].hash => i = j
        /\ Abstract!Transactions(SubSeq(next, Len(prev) + 1, Len(next)))
             = UNION {T(n) : n \in tip + 1 .. tip + 1}
    BY <1>1, <1>2, <2>2, <2>3, <2>4, <2>5, LedgerOfGrows DEF T
  <2>7. T(tip + 1) = {}
    BY <2>1, <2>3 DEF T
  <2>8. UNION {T(n) : n \in tip + 1 .. tip + 1} = {}
    <3>1. tip + 1 .. tip + 1 = {tip + 1}
      BY <1>2
    <3> QED BY <2>7, <3>1
  <2> QED BY <2>1, <2>6, <2>8
<1> QED BY <1>3, <1>4

(* Every step of the node is a step of the ledger, or leaves it as it is.   *)
LEMMA LedgerStep ==
    ASSUME TypeOK, ChainInv, ChainInv', [Next]_vars
    PROVE  \/ Abstract!Next
           \/ UNCHANGED << ChainOf(snapshot, FirstBlock), DOMAIN tx_results,
                           [i \in DOMAIN snapshots |->
                              [chain |-> ChainOf(snapshots[i], FirstBlock),
                               results |-> DOMAIN snapshots[i].tx_results]] >>
<1> DEFINE prev   == LedgerOf(snapshot, fork)
           next   == LedgerOf(snapshot', fork')
           saved  == Savepoints(snapshots, fork)
           saved1 == Savepoints(snapshots', fork')
<1>1. /\ ChainOf(snapshot, FirstBlock) = prev
      /\ ChainOf(snapshot, FirstBlock)' = next
      /\ [i \in DOMAIN snapshots |->
            [chain |-> ChainOf(snapshots[i], FirstBlock),
             results |-> DOMAIN snapshots[i].tx_results]] = saved
      /\ [i \in DOMAIN snapshots |->
            [chain |-> ChainOf(snapshots[i], FirstBlock),
             results |-> DOMAIN snapshots[i].tx_results]]' = saved1
  <2>1. FirstBlock' = First(fork')
    BY DEF FirstBlock, First
  <2>2. ChainOf(snapshot, FirstBlock)' = next
    BY <2>1 DEF LedgerOf
  <2>3. [i \in DOMAIN snapshots |->
           [chain |-> ChainOf(snapshots[i], FirstBlock),
            results |-> DOMAIN snapshots[i].tx_results]]' = saved1
    BY <2>1, Zenon DEF Savepoints, Savepoint, LedgerOf
  <2> QED BY <2>2, <2>3, LedgerVariables
<1>2. CASE Idle
  <2>1. /\ snapshot'.current_miniblock = snapshot.current_miniblock
        /\ snapshot'.blocks = snapshot.blocks
        /\ snapshot'.block_hashes = snapshot.block_hashes
        /\ tx_results' = tx_results /\ fork' = fork /\ snapshots' = snapshots
    BY <1>2 DEF Idle, chain, snapshot
  <2>2. next = prev /\ saved1 = saved
    BY <2>1, LedgerOfFrame
  <2> QED BY <1>1, <2>1, <2>2
<1>3. CASE Commits \/ Mines
  <2>1. fork' = fork /\ snapshots' = snapshots
    BY <1>3, ChainCommit, ChainMine DEF ChainInv
  <2> HIDE DEF prev, next, saved, saved1
  <2>2. prev = LedgerOf(snapshot, fork) /\ next = LedgerOf(snapshot', fork) /\ saved1 = saved
    BY <2>1 DEF prev, next, saved, saved1
  <2>3. /\ Len(next) > Len(prev)
        /\ SubSeq(next, 1, Len(prev)) = prev
        /\ \A i, j \in DOMAIN next : next[i].hash = next[j].hash => i = j
        /\ LET added == Abstract!Transactions(SubSeq(next, Len(prev) + 1, Len(next)))
           IN  /\ added \cap DOMAIN tx_results = {}
               /\ DOMAIN tx_results' = DOMAIN tx_results \cup added
    BY <1>3, <2>2, LedgerExtends
  <2>4. Abstract!Extend
    BY <1>1, <2>2, <2>3 DEF Abstract!Extend
  <2> QED BY <2>4 DEF Abstract!Next
<1>4. CASE Saves
  <2>1. /\ snapshot' = snapshot /\ fork' = fork /\ tx_results' = tx_results
        /\ snapshot.tx_results = tx_results
    BY <1>4 DEF Saves, snapshot, counters, chain
  <2>2. saved1 = Append(saved, Savepoint(snapshot, fork))
    BY <1>4, <2>1, SavepointTaken
  <2>3. Savepoint(snapshot, fork) = [chain |-> prev, results |-> DOMAIN tx_results]
    BY <2>1 DEF Savepoint
  <2>4. next = prev
    BY <2>1
  <2> HIDE DEF prev, next, saved, saved1
  <2>5. Abstract!Save
    BY <1>1, <2>1, <2>2, <2>3, <2>4 DEF Abstract!Save
  <2> QED BY <2>5 DEF Abstract!Next
<1>5. ASSUME NEW j \in DOMAIN snapshots, RevertsTo(j)
      PROVE  Abstract!Next
  <2>1. fork' = fork /\ Become(snapshots[j])
    BY <1>5 DEF RevertsTo
  <2>2. next = LedgerOf(snapshots[j], fork) /\ tx_results' = snapshots[j].tx_results
    BY <2>1, AfterBecome, LedgerOfFrame DEF Become
  <2>3. saved1 = SubSeq(saved, 1, j - 1)
    BY <1>5, <2>1, SavepointsUsed
  <2>4. j \in DOMAIN saved /\ saved[j] = Savepoint(snapshots[j], fork)
    BY DEF Savepoints
  <2>5. saved[j].chain = LedgerOf(snapshots[j], fork)
        /\ saved[j].results = DOMAIN snapshots[j].tx_results
    BY <2>4 DEF Savepoint
  <2> HIDE DEF prev, next, saved, saved1
  <2>6. Abstract!GoBack(j)
    BY <1>1, <2>2, <2>3, <2>5 DEF Abstract!GoBack
  <2> QED BY <1>1, <2>4, <2>6 DEF Abstract!Next
<1>6. ASSUME NEW f \in Forks \cup {NoFork}, reset(f)
      PROVE  Abstract!Next
  <2>1. fork' = f /\ Become(new(f)) /\ snapshots' = << >>
    BY <1>6 DEF reset
  <2>2. tx_results' = << >>
    BY <2>1 DEF Become, new, NewLocal, NewForked
  <2>3. Len(next) = 1
    <3>1. new(f).current_miniblock = First(f)
      BY DEF new, NewLocal, NewForked, First
    <3>2. MapsOK(snapshot', fork')
      BY DEF ChainInv, ChainOK
    <3>3. snapshot'.current_miniblock = First(fork')
      BY <2>1, <3>1, AfterBecome
    <3>4. Len(next) = snapshot'.current_miniblock + 1 - First(fork')
      BY <3>2, LedgerOfFacts
    <3> QED BY <3>2, <3>3, <3>4 DEF MapsOK
  <2>4. saved1 = << >>
    BY <2>1 DEF Savepoints
  <2> HIDE DEF prev, next, saved, saved1
  <2>5. Abstract!Restart
    BY <1>1, <2>2, <2>3, <2>4 DEF Abstract!Restart
  <2> QED BY <2>5 DEF Abstract!Next
<1> QED BY <1>2, <1>3, <1>4, <1>5, <1>6, StepKinds

(* The node starts as a ledger does: one block, no results, no savepoints.  *)
LEMMA LedgerInit ==
    ASSUME Init, ChainInv
    PROVE  Abstract!Init
<1>1. PICK f \in InitialForks : /\ tx_results = new(f).tx_results /\ fork = f
                                /\ current_miniblock = new(f).current_miniblock
                                /\ snapshots = << >>
  BY DEF Init
<1>2. tx_results = << >>
  BY <1>1 DEF new, NewLocal, NewForked
<1>3. Len(LedgerOf(snapshot, fork)) = 1
  <2>1. snapshot.current_miniblock = First(fork)
    BY <1>1 DEF snapshot, new, NewLocal, NewForked, First
  <2>2. MapsOK(snapshot, fork)
    BY DEF ChainInv, ChainOK
  <2>3. Len(LedgerOf(snapshot, fork)) = snapshot.current_miniblock + 1 - First(fork)
    BY <2>2, LedgerOfFacts
  <2> QED BY <2>1, <2>2, <2>3 DEF MapsOK
<1>4. Savepoints(snapshots, fork) = << >>
  BY <1>1 DEF Savepoints
<1> QED BY <1>2, <1>3, <1>4, LedgerVariables DEF Abstract!Init

(* The node is a ledger: whatever a client sends that leaves the system     *)
(* context's words alone, blocks and results are only added, each           *)
(* transaction once and under hashes no block has, and they are taken back  *)
(* together, to what a snapshot showed or to a new node's single block.     *)
THEOREM NodeIsLedger ==
    ASSUME ContextKept
    PROVE  Spec => IsLedger
<1>1. Init /\ ChainInv => Abstract!Init
  BY LedgerInit
<1>2. TypeOK /\ ChainInv /\ ChainInv' /\ [Next]_vars
        => [Abstract!Next]_<< ChainOf(snapshot, FirstBlock), DOMAIN tx_results,
                              [i \in DOMAIN snapshots |->
                                 [chain |-> ChainOf(snapshots[i], FirstBlock),
                                  results |-> DOMAIN snapshots[i].tx_results]] >>
  BY LedgerStep
<1>3. Spec => []ChainInv
  BY ChainAlways
<1> QED BY <1>1, <1>2, <1>3, TypeCorrect, PTL DEF Spec, IsLedger, Abstract!Spec

=============================================================================
