-------------------------- MODULE PersistenceProofs --------------------------
(* Proofs about Persistence, for any records and any bounds. *)
EXTENDS Persistence, TLAPS

LEMMA HeadAndTail ==
    ASSUME NEW S, NEW s \in Seq(S), s # <<>>
    PROVE  /\ Head(s) \in S /\ Head(s) = s[1] /\ Len(s) \in Nat /\ 1 \in 1..Len(s)
           /\ Tail(s) \in Seq(S)
           /\ Len(Tail(s)) = Len(s) - 1
           /\ \A i \in 1..Len(Tail(s)) : Tail(s)[i] = s[i + 1] /\ i + 1 \in 1..Len(s)
  OBVIOUS

LEMMA Appended ==
    ASSUME NEW S, NEW s \in Seq(S), NEW x \in S
    PROVE  /\ Append(s, x) \in Seq(S) /\ Append(s, x) # <<>>
           /\ Head(Append(s, x)) = IF s = <<>> THEN x ELSE Head(s)
           /\ Len(Append(s, x)) = Len(s) + 1 /\ Len(s) \in Nat
           /\ \A i \in 1..Len(s) : Append(s, x)[i] = s[i]
           /\ Append(s, x)[Len(s) + 1] = x
  OBVIOUS

\* The records done are some, but not all, of the first snapshot.
Copying ==
    IF queue = <<>> THEN done = {} ELSE done \in (SUBSET present(Head(queue))) \ {present(Head(queue))}

\* A write of a collection with a record in it keeps the types.
LEMMA WriteTypes ==
    ASSUME TypeOK, NEW f \in Snapshot, writeCollection(f), UNCHANGED done
    PROVE  file' \in Collection /\ queue' \in Seq(Snapshot) /\ Copying'
<1>1. file' = f /\ queue' = Append(queue, f) /\ queue \in Seq(Snapshot) /\ Copying
  BY DEF writeCollection, queuePersist, TypeOK, Copying
<1>2. /\ queue' \in Seq(Snapshot) /\ queue' # <<>>
      /\ Head(queue') = IF queue = <<>> THEN f ELSE Head(queue)
  BY ONLY <1>1, f \in Snapshot, Appended
<1>3. CASE queue = <<>>
  BY <1>1, <1>2, <1>3 DEF Copying, Snapshot
<1>4. CASE queue # <<>>
  BY <1>1, <1>2, <1>4 DEF Copying, Snapshot, present
<1> QED BY <1>3, <1>4

\* A collection in which a profile was made or stamped has a record.
LEMMA EnsuredTypes ==
    ASSUME TypeOK, clock > 0, NEW who \in SUBSET Profile, who # {}
    PROVE  ensured(file, who) \in Snapshot
<1>1. ensured(file, who) \in Collection
  BY DEF TypeOK, ensured, Collection, Version
<1>2. PICK r \in who : r \in Record
  BY PersistenceAssumption
<1>3. ensured(file, who)[r].at = clock
  BY <1>2 DEF ensured
<1> QED BY <1>1, <1>2, <1>3 DEF Snapshot, present

\* The loop over the accounts keeps the types.
LEMMA LoopTypes ==
    ASSUME TypeOK, clock > 0, ensureEmployeeProfilesForUsers, UNCHANGED done
    PROVE  file' \in Collection /\ queue' \in Seq(Snapshot) /\ Copying'
<1>1. PICK found \in SUBSET (Profile \cap present(file)) :
        LET who == accounts \cup found
        IN  IF who = {} THEN UNCHANGED <<file, queue>> ELSE writeCollection(ensured(file, who))
  BY DEF ensureEmployeeProfilesForUsers
<1> DEFINE who == accounts \cup found
<1>2. who \in SUBSET Profile
  BY DEF TypeOK
<1>3. CASE who = {}
  <2>1. UNCHANGED <<file, queue, done>>
    BY <1>1, <1>3
  <2> QED BY <2>1 DEF TypeOK, Copying, present
<1>4. CASE who # {}
  <2>1. writeCollection(ensured(file, who))
    BY <1>1, <1>4
  <2> HIDE DEF who
  <2>2. ensured(file, who) \in Snapshot
    BY <1>2, <1>4, EnsuredTypes
  <2> QED BY <2>1, <2>2, WriteTypes
<1> QED BY <1>3, <1>4

Started == TypeOK /\ clock > 0

\* Every step keeps the types, and the clock runs from 1.
LEMMA StartedHolds == Spec => []Started
<1>1. Init => Started
  <2>1. Nothing \in Collection /\ <<>> \in Seq(Snapshot) /\ {} \subseteq Profile
    BY DEF Nothing, Collection, Version
  <2> SUFFICES ASSUME Init  PROVE Started
    OBVIOUS
  <2>2. Copying
    BY DEF Init, Copying
  <2>3. queue \in Seq(Snapshot) /\ file \in Collection /\ table \in Collection /\ rows \in Collection
    BY <2>1 DEF Init
  <2>4. clock \in Nat /\ edits \in Nat /\ faults \in Nat /\ stops \in Nat /\ clock > 0
    BY DEF Init
  <2>5. torn \in BOOLEAN /\ phase \in Phase /\ accounts \subseteq Profile
    BY Zenon DEF Init, Phase
  <2> QED BY <2>2, <2>3, <2>4, <2>5 DEF Started, TypeOK, Copying
<1>2. Started /\ [Next]_vars => Started'
  <2> SUFFICES ASSUME Started, [Next]_vars  PROVE Started'
    OBVIOUS
  <2> USE DEF Started, Phase
  <2>0. Nothing \in Collection /\ <<>> \in Seq(Snapshot)
    BY DEF Nothing, Collection, Version
  <2>1. ASSUME NEW r \in Record, save(r)  PROVE Started'
    <3>1. PICK at \in stamps(r) :
            writeCollection([file EXCEPT ![r] = [edit |-> edits + 1, at |-> at]])
      BY <2>1 DEF save
    <3> DEFINE f == [file EXCEPT ![r] = [edit |-> edits + 1, at |-> at]]
    <3>2. at \in Nat /\ at > 0
      BY DEF stamps, TypeOK, Collection, Version
    <3>3. f \in Collection /\ f[r].at = at
      BY <3>2 DEF TypeOK, Collection, Version
    <3>4. f \in Snapshot
      BY <3>2, <3>3 DEF Snapshot, present
    <3>5. file' \in Collection /\ queue' \in Seq(Snapshot) /\ Copying'
      BY <2>1, <3>1, <3>4, WriteTypes DEF save
    <3> QED BY <2>1, <3>5 DEF save, TypeOK, Copying
  <2>2. ASSUME NEW r \in Profile, ensureEmployeeProfile(r)  PROVE Started'
    <3>1. ensured(file, {r}) \in Snapshot /\ writeCollection(ensured(file, {r}))
      BY <2>2, EnsuredTypes DEF ensureEmployeeProfile
    <3>2. file' \in Collection /\ queue' \in Seq(Snapshot) /\ Copying'
      BY <2>2, <3>1, WriteTypes DEF ensureEmployeeProfile
    <3> QED BY <2>2, <3>2 DEF ensureEmployeeProfile, TypeOK, Copying
  <2>3. ASSUME NEW r \in Profile, linkUserToEmployeeProfile(r)  PROVE Started'
    BY <2>3 DEF linkUserToEmployeeProfile, TypeOK, present
  <2>4. ASSUME NEW r \in Record, persistRecord(r)  PROVE Started'
    <3>1. /\ queue \in Seq(Snapshot) /\ queue # <<>>
          /\ Head(queue) \in Snapshot /\ Tail(queue) \in Seq(Snapshot)
      BY <2>4, HeadAndTail DEF persistRecord, TypeOK
    <3>2. table' \in Collection /\ faults' \in Nat
        BY <2>4, <3>1 DEF persistRecord, TypeOK, Snapshot, Collection
    <3>3. queue' \in Seq(Snapshot) /\ Copying'
      <4>1. CASE done \cup {r} = present(Head(queue))
        <5>1. queue' = Tail(queue) /\ done' = {}
          BY <2>4, <4>1 DEF persistRecord, copied
        <5>2. queue' # <<>> => Head(queue') \in Snapshot
          BY <3>1, <5>1, HeadAndTail
        <5> QED BY <3>1, <5>1, <5>2 DEF Copying, Snapshot
      <4>2. CASE done \cup {r} # present(Head(queue))
        BY <2>4, <3>1, <4>2 DEF persistRecord, copied, Copying, TypeOK, present
      <4> QED BY <4>1, <4>2
    <3> QED BY <2>4, <3>2, <3>3 DEF persistRecord, TypeOK, Copying
  <2>5. ASSUME syncAllUsersToSupabase  PROVE Started'
    BY <2>5, LoopTypes DEF syncAllUsersToSupabase, TypeOK, Copying, present
  <2>6. ASSUME loadCollectionsFromPostgres  PROVE Started'
    BY <2>6 DEF loadCollectionsFromPostgres, TypeOK, present
  <2>7. ASSUME hydrate  PROVE Started'
    <3>1. merge(file, rows) \in Collection
      BY DEF TypeOK, merge, Collection
    <3> QED BY <2>0, <2>7, <3>1 DEF hydrate, exit, TypeOK, present
  <2>8. ASSUME listen  PROVE Started'
    BY <2>0, <2>8, LoopTypes DEF listen, exit, TypeOK, Copying, present
  <2>9. ASSUME stop  PROVE Started'
    BY <2>0, <2>9 DEF stop, exit, TypeOK, present
  <2>10. ASSUME loseDisk  PROVE Started'
    BY <2>0, <2>10 DEF loseDisk, TypeOK, present
  <2>11. ASSUME tick  PROVE Started'
    BY <2>11 DEF tick, TypeOK, present
  <2>12. CASE UNCHANGED vars
    BY <2>12 DEF vars, TypeOK, present
  <2> QED BY <2>1, <2>2, <2>3, <2>4, <2>5, <2>6, <2>7, <2>8, <2>9, <2>10, <2>11, <2>12 DEF Next, Copy
<1> QED BY <1>1, <1>2, PTL DEF Spec

---------------------------------------------------------------------------

\* No stamp is later than now.
Stamped ==
    /\ \A r \in Record : file[r].at <= clock /\ table[r].at <= clock /\ rows[r].at <= clock

\* Stamps grow from the table through the queue to the file, in the records each
\* of them has.
Ordered ==
    /\ \A r \in present(file) : table[r].at <= file[r].at
    /\ \A i \in 1..Len(queue), r \in Record :
          /\ queue[i][r].at > 0 => table[r].at <= queue[i][r].at
          /\ queue[i][r].at <= file[r].at
    /\ \A i, j \in 1..Len(queue), r \in Record : i <= j => queue[i][r].at <= queue[j][r].at

\* What a start has read, or else the file, is as new as the table; once the two
\* are merged, the file is. Nothing is queued before a start.
Hydrating ==
    /\ phase = "down" => queue = <<>>
    /\ phase = "loaded" =>
          \A r \in Record : table[r].at <= rows[r].at \/ table[r].at <= file[r].at
    /\ phase \in {"merged", "up"} /\ ~torn => \A r \in Record : table[r].at <= file[r].at

ChainInv == Stamped /\ Ordered /\ Hydrating

\* A write that renews stamps, or keeps them, and is no older than the table
\* keeps the order.
LEMMA WriteOrdered ==
    ASSUME Started, Stamped, Ordered, NEW f \in Snapshot, writeCollection(f),
           UNCHANGED table,
           \A r \in Record : file[r].at <= f[r].at,
           \A r \in Record : f[r].at > 0 => table[r].at <= f[r].at
    PROVE  Ordered'
<1>1. file' = f /\ queue' = Append(queue, f) /\ queue \in Seq(Snapshot)
  BY DEF writeCollection, queuePersist, Started, TypeOK
<1>2. /\ Len(queue') = Len(queue) + 1 /\ Len(queue) \in Nat
      /\ \A i \in 1..Len(queue) : queue'[i] = queue[i]
      /\ queue'[Len(queue) + 1] = f
  BY ONLY <1>1, f \in Snapshot, Appended
<1>3. \A i \in 1..Len(queue) : queue[i] \in Snapshot
  BY <1>1
<1>4. /\ \A r \in Record : /\ f[r].at \in Nat /\ file[r].at \in Nat /\ table[r].at \in Nat
                            /\ \A i \in 1..Len(queue) : queue[i][r].at \in Nat
  BY <1>3 DEF Started, TypeOK, Snapshot, Collection, Version
<1>5. \A i \in 1..Len(queue), r \in Record : queue[i][r].at <= f[r].at
  BY <1>4 DEF Ordered
<1>6. \A i \in 1..Len(queue') : i \in 1..Len(queue) \/ i = Len(queue) + 1
  BY <1>2
<1>7. \A r \in present(file') : table'[r].at <= file'[r].at
  BY <1>1 DEF present
<1>8. \A i \in 1..Len(queue'), r \in Record :
         /\ queue'[i][r].at > 0 => table'[r].at <= queue'[i][r].at
         /\ queue'[i][r].at <= file'[r].at
  BY <1>1, <1>2, <1>4, <1>5, <1>6 DEF Ordered
<1>9. \A i, j \in 1..Len(queue'), r \in Record : i <= j => queue'[i][r].at <= queue'[j][r].at
  <2> SUFFICES ASSUME NEW i \in 1..Len(queue'), NEW j \in 1..Len(queue'), NEW r \in Record, i <= j
               PROVE  queue'[i][r].at <= queue'[j][r].at
    OBVIOUS
  <2>1. CASE j \in 1..Len(queue)
    BY <1>2, <2>1 DEF Ordered
  <2>2. CASE j = Len(queue) + 1
    BY <1>2, <1>4, <1>5, <1>6, <2>2
  <2> QED BY <1>6, <2>1, <2>2
<1> QED BY <1>7, <1>8, <1>9 DEF Ordered

\* So does the loop over the accounts.
LEMMA LoopOrdered ==
    ASSUME Started, Stamped, Ordered, ensureEmployeeProfilesForUsers, UNCHANGED <<clock, table, rows>>
    PROVE  /\ Stamped' /\ Ordered'
           /\ \A r \in Record : file[r].at <= file'[r].at
<1>1. PICK found \in SUBSET (Profile \cap present(file)) :
        LET who == accounts \cup found
        IN  IF who = {} THEN UNCHANGED <<file, queue>> ELSE writeCollection(ensured(file, who))
  BY DEF ensureEmployeeProfilesForUsers
<1> DEFINE who == accounts \cup found
<1>2. \A r \in Record : file[r].at \in Nat /\ table[r].at \in Nat /\ clock \in Nat
  BY DEF Started, TypeOK, Collection, Version
<1>3. CASE who = {}
  <2>1. UNCHANGED <<file, queue, clock, table, rows>>
    BY <1>1, <1>3
  <2> QED BY <1>2, <2>1 DEF Stamped, Ordered, present
<1>4. CASE who # {}
  <2>1. writeCollection(ensured(file, who)) /\ who \in SUBSET Profile
    BY <1>1, <1>4 DEF Started, TypeOK
  <2> HIDE DEF who
  <2>2. ensured(file, who) \in Snapshot
    BY <1>4, <2>1, EnsuredTypes DEF Started
  <2>3. \A r \in Record : /\ file[r].at <= ensured(file, who)[r].at
                          /\ ensured(file, who)[r].at <= clock
                          /\ ensured(file, who)[r].at > 0 => table[r].at <= ensured(file, who)[r].at
    BY <1>2 DEF ensured, Stamped, Ordered, present
  <2>4. Ordered'
    BY <2>1, <2>2, <2>3, WriteOrdered
  <2> QED BY <2>1, <2>3, <2>4 DEF writeCollection, Stamped
<1> QED BY <1>3, <1>4
\* The copies of one record: the table takes the first snapshot's version.
LEMMA CopyOrdered ==
    ASSUME Started, Stamped, Ordered, NEW r \in Record, persistRecord(r)
    PROVE  /\ Ordered' /\ Stamped'
           /\ table'[r].at <= file[r].at \/ table' = table
           /\ \A x \in Record \ {r} : table'[x] = table[x]
           /\ \A x \in Record : table[x].at <= table'[x].at
<1>1. /\ queue \in Seq(Snapshot) /\ queue # <<>> /\ r \in present(Head(queue))
      /\ table \in Collection
      /\ table' = [table EXCEPT ![r] = Head(queue)[r]] \/ table' = table
      /\ queue' = Tail(queue) \/ queue' = queue
      /\ UNCHANGED <<file, rows, clock>>
  BY DEF persistRecord, copied, Started, TypeOK
<1>2. /\ Head(queue) = queue[1] /\ 1 \in 1..Len(queue) /\ Len(queue) \in Nat
      /\ Len(Tail(queue)) = Len(queue) - 1
      /\ \A i \in 1..Len(Tail(queue)) : Tail(queue)[i] = queue[i + 1] /\ i + 1 \in 1..Len(queue)
  BY ONLY <1>1, HeadAndTail
<1>3. \A x \in Record : /\ file[x].at \in Nat /\ table[x].at \in Nat /\ clock \in Nat
                        /\ \A i \in 1..Len(queue) : queue[i][x].at \in Nat
  <2>1. \A i \in 1..Len(queue) : queue[i] \in Snapshot
    BY <1>1
  <2> QED BY <2>1 DEF Started, TypeOK, Snapshot, Collection, Version
<1>4. queue[1][r].at > 0
  BY <1>1, <1>2 DEF present
<1>5. \A x \in Record : table'[x] = table[x] \/ (x = r /\ table'[x] = queue[1][x])
  BY <1>1, <1>2 DEF Collection
<1>6. /\ \A x \in Record \ {r} : table'[x] = table[x]
      /\ table'[r].at <= file[r].at \/ table' = table
      /\ \A x \in Record : table[x].at <= table'[x].at
  BY <1>1, <1>2, <1>3, <1>4, <1>5 DEF Ordered, Collection
<1>7. Stamped'
  BY <1>1, <1>2, <1>3, <1>5 DEF Stamped, Ordered
<1>8. \A x \in present(file') : table'[x].at <= file'[x].at
  BY <1>1, <1>2, <1>3, <1>5 DEF Ordered, present
<1>9. \A i \in 1..Len(queue), x \in Record :
         queue[i][x].at > 0 => table'[x].at <= queue[i][x].at
  <2> SUFFICES ASSUME NEW i \in 1..Len(queue), NEW x \in Record, queue[i][x].at > 0
               PROVE  table'[x].at <= queue[i][x].at
    OBVIOUS
  <2>1. CASE table'[x] = table[x]
    BY <2>1 DEF Ordered
  <2>2. CASE table'[x] = queue[1][x]
    BY <1>2, <2>2 DEF Ordered
  <2> QED BY <1>5, <2>1, <2>2
<1>10. ASSUME queue' = queue  PROVE Ordered'
  <2>1. \A i, j \in 1..Len(queue'), x \in Record : i <= j => queue'[i][x].at <= queue'[j][x].at
    BY <1>10 DEF Ordered
  <2>2. \A i \in 1..Len(queue'), x \in Record :
           /\ queue'[i][x].at > 0 => table'[x].at <= queue'[i][x].at
           /\ queue'[i][x].at <= file'[x].at
    BY <1>1, <1>9, <1>10 DEF Ordered
  <2> QED BY ONLY <1>8, <2>1, <2>2 DEF Ordered, present
<1>11. ASSUME queue' = Tail(queue)  PROVE Ordered'
  <2>1. \A i \in 1..Len(queue') : i \in Nat /\ i + 1 \in 1..Len(queue) /\ queue'[i] = queue[i + 1]
    BY <1>2, <1>11
  <2>2. \A i, j \in 1..Len(queue'), x \in Record : i <= j => queue'[i][x].at <= queue'[j][x].at
    BY <2>1 DEF Ordered
  <2>3. \A i \in 1..Len(queue'), x \in Record :
           /\ queue'[i][x].at > 0 => table'[x].at <= queue'[i][x].at
           /\ queue'[i][x].at <= file'[x].at
    BY <1>1, <1>9, <2>1 DEF Ordered
  <2> QED BY ONLY <1>8, <2>2, <2>3 DEF Ordered, present
<1> QED BY <1>6, <1>7, <1>1, <1>10, <1>11

\* Every step keeps the chain.
LEMMA ChainHolds == Spec => []ChainInv
<1>1. Init => ChainInv
  BY DEF Init, ChainInv, Stamped, Ordered, Hydrating, Nothing, present
<1>2. Started /\ ChainInv /\ [Next]_vars => ChainInv'
  <2> SUFFICES ASSUME Started, ChainInv, [Next]_vars  PROVE ChainInv'
    OBVIOUS
  <2> USE DEF ChainInv
  <2>0. \A r \in Record : /\ file[r].at \in Nat /\ table[r].at \in Nat
                          /\ rows[r].at \in Nat /\ clock \in Nat
    BY DEF Started, TypeOK, Collection, Version
  <2>1. ASSUME NEW r \in Record, save(r)  PROVE ChainInv'
    <3>1. PICK at \in stamps(r) :
            writeCollection([file EXCEPT ![r] = [edit |-> edits + 1, at |-> at]])
      BY <2>1 DEF save
    <3> DEFINE f == [file EXCEPT ![r] = [edit |-> edits + 1, at |-> at]]
    <3>2. at \in Nat /\ at > 0 /\ file[r].at <= at /\ at <= clock
      BY <2>0 DEF stamps, Started, Stamped
    <3>3. \A x \in Record : f[x] = IF x = r THEN [edit |-> edits + 1, at |-> at] ELSE file[x]
      BY DEF Started, TypeOK, Collection
    <3>4. f \in Collection
      BY <3>2 DEF Started, TypeOK, Collection, Version
    <3>5. f \in Snapshot
      <4>1. f[r].at > 0
        BY <3>2, <3>3
      <4> HIDE DEF f
      <4> QED BY <3>4, <4>1 DEF Snapshot, present
    <3>6. \A x \in Record : file[x].at <= f[x].at /\ f[x].at <= clock /\ table[x].at <= f[x].at
      BY <2>0, <2>1, <3>2, <3>3 DEF save, Stamped, Hydrating
    <3> HIDE DEF f
    <3>7. Ordered' /\ file' = f /\ UNCHANGED <<table, rows, clock, phase, torn>>
      BY <2>1, <3>1, <3>5, <3>6, WriteOrdered DEF f, save, writeCollection
    <3> QED BY <3>6, <3>7, <2>0, <2>1 DEF Stamped, Hydrating, save
  <2>2. ASSUME NEW r \in Profile, ensureEmployeeProfile(r)  PROVE ChainInv'
    <3> DEFINE f == ensured(file, {r})
    <3>1. f \in Snapshot
      BY EnsuredTypes DEF Started
    <3>2. \A x \in Record : file[x].at <= f[x].at /\ f[x].at <= clock /\ table[x].at <= f[x].at
      BY <2>0, <2>2 DEF ensureEmployeeProfile, ensured, Stamped, Hydrating
    <3> HIDE DEF f
    <3>3. Ordered' /\ file' = f /\ UNCHANGED <<table, rows, clock, phase, torn>>
      BY <2>2, <3>1, <3>2, WriteOrdered DEF f, ensureEmployeeProfile, writeCollection
    <3> QED BY <3>2, <3>3, <2>0, <2>2 DEF Stamped, Hydrating, ensureEmployeeProfile
  <2>3. ASSUME NEW r \in Record, persistRecord(r)  PROVE ChainInv'
    <3>1. UNCHANGED <<file, rows, phase, torn>> /\ phase # "down"
      BY <2>3 DEF persistRecord
    <3>2. /\ Ordered' /\ Stamped'
          /\ table'[r].at <= file[r].at \/ table' = table
          /\ \A x \in Record \ {r} : table'[x] = table[x]
      BY <2>3, CopyOrdered
    <3>3. \A x \in Record : table'[x] = table[x] \/ table'[x].at <= file[x].at
      BY <3>2
    <3> QED BY <3>1, <3>2, <3>3 DEF Hydrating
  <2>4. ASSUME syncAllUsersToSupabase  PROVE ChainInv'
    <3>1. phase' = "starting" /\ UNCHANGED <<clock, table, rows>>
      BY <2>4 DEF syncAllUsersToSupabase
    <3>2. CASE torn
      BY <2>4, <3>1, <3>2 DEF syncAllUsersToSupabase, Stamped, Ordered, Hydrating, present
    <3>3. CASE ~torn
      BY <2>4, <3>1, <3>3, LoopOrdered DEF syncAllUsersToSupabase, Hydrating
    <3> QED BY <3>2, <3>3
  <2>5. ASSUME loadCollectionsFromPostgres  PROVE ChainInv'
    BY <2>0, <2>5 DEF loadCollectionsFromPostgres, Stamped, Ordered, Hydrating, present
  <2>6. ASSUME exit, file' = file \/ file' = Nothing  PROVE ChainInv'
    <3>1. /\ phase' = "down" /\ queue' = <<>> /\ rows' = Nothing /\ UNCHANGED <<clock, table>>
          /\ Len(queue') = 0
      BY <2>6 DEF exit
    <3>2. Stamped'
      BY <2>0, <2>6, <3>1 DEF Stamped, Nothing
    <3>3. Ordered'
      BY <2>6, <3>1 DEF Ordered, Nothing, present
    <3> QED BY <3>1, <3>2, <3>3 DEF Hydrating
  <2>7. ASSUME hydrate  PROVE ChainInv'
    <3>1. CASE torn /\ present(rows) # {}
      BY <2>6, <2>7, <3>1 DEF hydrate
    <3>2. CASE ~torn
      <4>1. /\ phase = "loaded" /\ phase' = "merged" /\ file' = merge(file, rows) /\ rows' = Nothing
            /\ UNCHANGED <<clock, table, queue, torn>>
        BY <2>7, <3>2 DEF hydrate
      <4>2. \A r \in Record : file'[r] = IF rows[r].at >= file[r].at THEN rows[r] ELSE file[r]
        BY <4>1 DEF merge
      <4>3. \A r \in Record : table[r].at <= file'[r].at /\ file[r].at <= file'[r].at /\ file'[r].at <= clock
        BY <2>0, <4>1, <4>2 DEF Hydrating, Stamped
      <4>4. Stamped'
        BY <2>0, <4>1, <4>3 DEF Stamped, Nothing
      <4>5. \A i \in 1..Len(queue), r \in Record : queue[i][r].at \in Nat
        <5>1. \A i \in 1..Len(queue) : queue[i] \in Snapshot
          BY DEF Started, TypeOK
        <5> QED BY <5>1 DEF Snapshot, Collection, Version
      <4>6. \A i \in 1..Len(queue), r \in Record :
               /\ queue[i][r].at > 0 => table[r].at <= queue[i][r].at
               /\ queue[i][r].at <= file'[r].at
        <5> SUFFICES ASSUME NEW i \in 1..Len(queue), NEW r \in Record
                     PROVE  /\ queue[i][r].at > 0 => table[r].at <= queue[i][r].at
                            /\ queue[i][r].at <= file'[r].at
          OBVIOUS
        <5>1. /\ queue[i][r].at > 0 => table[r].at <= queue[i][r].at
              /\ queue[i][r].at <= file[r].at
          BY DEF Ordered
        <5>2. file'[r].at \in Nat
          BY <2>0, <4>2
        <5> QED BY <2>0, <4>3, <4>5, <5>1, <5>2
      <4>7. Ordered'
        BY <4>1, <4>3, <4>6 DEF Ordered, present
      <4> QED BY <4>1, <4>3, <4>4, <4>7 DEF Hydrating
    <3>3. CASE torn /\ present(rows) = {}
      <4>1. /\ phase' = "merged" /\ rows' = Nothing /\ UNCHANGED <<file, clock, table, queue, torn>>
        BY <2>7, <3>3 DEF hydrate
      <4> QED BY <2>0, <3>3, <4>1 DEF Stamped, Ordered, Hydrating, Nothing, present
    <3> QED BY <3>1, <3>2, <3>3
  <2>8. ASSUME listen  PROVE ChainInv'
    <3>1. CASE torn /\ accounts # {}
      BY <2>6, <2>8, <3>1 DEF listen
    <3>2. CASE ~(torn /\ accounts # {})
      <4>1. /\ phase = "merged" /\ phase' = "up" /\ ensureEmployeeProfilesForUsers
            /\ UNCHANGED <<clock, torn, table, rows>>
        BY <2>8, <3>2 DEF listen
      <4>2. Stamped' /\ Ordered' /\ \A r \in Record : file[r].at <= file'[r].at
        BY <4>1, LoopOrdered
      <4>3. file' \in Collection
        BY <2>8, <4>1, <3>2, LoopTypes DEF Started, listen
      <4>4. ~torn => \A r \in Record : table[r].at <= file'[r].at
        BY <2>0, <4>1, <4>2, <4>3 DEF Hydrating, Collection, Version
      <4> QED BY <4>1, <4>2, <4>4 DEF Hydrating
    <3> QED BY <3>1, <3>2
  <2>9. ASSUME stop  PROVE ChainInv'
    BY <2>6, <2>9 DEF stop
  <2>10. ASSUME loseDisk  PROVE ChainInv'
    <3>1. /\ phase' = "down" /\ file' = Nothing /\ UNCHANGED <<clock, table, rows, queue>>
          /\ phase = "down"
      BY <2>10 DEF loseDisk
    <3> QED BY <2>0, <3>1 DEF Stamped, Ordered, Hydrating, Nothing, present
  <2>11. ASSUME tick  PROVE ChainInv'
    <3>1. clock' = clock + 1 /\ UNCHANGED <<file, table, rows, queue, phase, torn>>
      BY <2>11 DEF tick
    <3> QED BY <2>0, <3>1 DEF Stamped, Ordered, Hydrating, present
  <2>12. ASSUME NEW r \in Profile, linkUserToEmployeeProfile(r)  PROVE ChainInv'
    BY <2>12 DEF linkUserToEmployeeProfile, Stamped, Ordered, Hydrating, present
  <2>13. CASE UNCHANGED vars
    BY <2>13 DEF vars, Stamped, Ordered, Hydrating, present
  <2> QED BY <2>1, <2>2, <2>3, <2>4, <2>5, <2>7, <2>8, <2>9, <2>10, <2>11, <2>12, <2>13 DEF Next, Copy
<1> QED BY <1>1, <1>2, StartedHolds, PTL DEF Spec

\* The types of Persistence hold.
THEOREM TypeCorrect == Spec => []TypeOK
BY StartedHolds, PTL DEF Started

\* While requests are served the file is as new as the table, in every record.
THEOREM CopyStaysBehind == Spec => []CopyIsBehind
<1>1. ChainInv => CopyIsBehind
  BY DEF ChainInv, Hydrating, CopyIsBehind
<1> QED BY <1>1, ChainHolds, PTL

\* No row is ever overwritten by a version stamped earlier.
THEOREM CopyAdvances == Spec => CopyNeverGoesBack
<1>1. Started /\ ChainInv /\ [Next]_vars => [\A r \in Record : table[r].at <= table'[r].at]_vars
  <2> SUFFICES ASSUME Started, ChainInv, [Next]_vars
               PROVE  \A r \in Record : table[r].at <= table'[r].at
    OBVIOUS
  <2>1. \A r \in Record : table[r].at \in Nat
    BY DEF Started, TypeOK, Collection, Version
  <2>2. CASE \E r \in Record : persistRecord(r)
    BY <2>2, CopyOrdered DEF ChainInv
  <2>3. CASE ~\E r \in Record : persistRecord(r)
    <3>1. UNCHANGED table
      BY <2>3 DEF Next, Copy, save, ensureEmployeeProfile, linkUserToEmployeeProfile,
         syncAllUsersToSupabase, loadCollectionsFromPostgres, hydrate, listen, stop, loseDisk,
         tick, exit, vars
    <3> QED BY <2>1, <3>1
  <2> QED BY <2>2, <2>3
<1> QED BY <1>1, StartedHolds, ChainHolds, PTL DEF Spec, CopyNeverGoesBack

---------------------------------------------------------------------------

\* The versions of a record that are around.
Around(r) == {file[r], table[r], rows[r]} \cup {queue[i][r] : i \in 1..Len(queue)}

InOrder(V) == \A v, w \in V : 0 < v.at /\ v.at < w.at => v.edit < w.edit

\* The order of a record's versions rests on two facts: no version has an edit
\* that was not made yet, and what a start has read is gone when it ends.
OrderInv ==
    /\ \A r \in Record \ Profile : InOrder(Around(r))
    /\ \A r \in Record \ Profile : \A v \in Around(r) : v.edit <= edits
    /\ phase # "loaded" => rows = Nothing

\* A step that makes no version, but the one that stands for none, keeps it.
LEMMA NoNewVersion ==
    ASSUME Started, OrderInv, edits' = edits,
           \A r \in Record \ Profile : Around(r)' \subseteq Around(r) \cup {Nothing[r]},
           phase' # "loaded" => rows' = Nothing
    PROVE  OrderInv'
<1>1. \A r \in Record : Nothing[r].at = 0 /\ Nothing[r].edit = 0
  BY DEF Nothing
<1>2. edits \in Nat
  BY DEF Started, TypeOK
<1>3. \A r \in Record \ Profile : \A v \in Around(r) : v.at \in Nat /\ v.edit \in Nat
  <2> SUFFICES ASSUME NEW r \in Record  PROVE \A v \in Around(r) : v \in Version
    BY DEF Version
  <2>1. file[r] \in Version /\ table[r] \in Version /\ rows[r] \in Version
    BY DEF Started, TypeOK, Collection
  <2>2. \A i \in 1..Len(queue) : queue[i] \in Snapshot
    BY DEF Started, TypeOK
  <2>3. \A i \in 1..Len(queue) : queue[i][r] \in Version
    BY <2>2 DEF Snapshot, Collection
  <2> QED BY <2>1, <2>3 DEF Around
<1>4. \A r \in Record \ Profile : \A v \in Around(r)' : v.edit <= edits
  BY <1>1, <1>2 DEF OrderInv
<1>5. \A r \in Record \ Profile : InOrder(Around(r)')
  <2> SUFFICES ASSUME NEW r \in Record \ Profile, NEW v \in Around(r)', NEW w \in Around(r)',
                      0 < v.at, v.at < w.at
               PROVE  v.edit < w.edit
    BY DEF InOrder
  <2>1. v # Nothing[r] /\ v \in Around(r)
    BY <1>1
  <2>2. w # Nothing[r] /\ w \in Around(r)
    BY <1>1, <1>3, <2>1
  <2> QED BY <2>1, <2>2 DEF OrderInv, InOrder
<1> QED BY <1>4, <1>5 DEF OrderInv, InOrder

\* A write adds one version of each record, the one in the file.
LEMMA WriteAround ==
    ASSUME Started, NEW f \in Snapshot, writeCollection(f), UNCHANGED <<table, rows>>,
           NEW r \in Record
    PROVE  Around(r)' \subseteq Around(r) \cup {f[r]}
<1>1. file' = f /\ queue' = Append(queue, f) /\ queue \in Seq(Snapshot)
  BY DEF writeCollection, queuePersist, Started, TypeOK
<1>2. /\ Len(queue') = Len(queue) + 1 /\ Len(queue) \in Nat
      /\ \A i \in 1..Len(queue) : queue'[i] = queue[i]
      /\ queue'[Len(queue) + 1] = f
  BY ONLY <1>1, f \in Snapshot, Appended
<1>3. \A i \in 1..Len(queue') : i \in 1..Len(queue) \/ i = Len(queue) + 1
  BY <1>2
<1>4. \A i \in 1..Len(queue') : queue'[i][r] = f[r] \/ queue'[i][r] \in Around(r)
  BY <1>2, <1>3 DEF Around
<1> QED BY <1>1, <1>4 DEF Around

\* The loop over the accounts makes no version of a record that is no profile.
LEMMA LoopAround ==
    ASSUME Started, ensureEmployeeProfilesForUsers, UNCHANGED <<table, rows>>,
           NEW r \in Record \ Profile
    PROVE  Around(r)' \subseteq Around(r)
<1>1. PICK found \in SUBSET (Profile \cap present(file)) :
        LET who == accounts \cup found
        IN  IF who = {} THEN UNCHANGED <<file, queue>> ELSE writeCollection(ensured(file, who))
  BY DEF ensureEmployeeProfilesForUsers
<1> DEFINE who == accounts \cup found
<1>2. CASE who = {}
  BY <1>1, <1>2 DEF Around
<1>3. CASE who # {}
  <2>1. writeCollection(ensured(file, who)) /\ who \in SUBSET Profile
    BY <1>1, <1>3 DEF Started, TypeOK
  <2> HIDE DEF who
  <2>2. ensured(file, who) \in Snapshot
    BY <1>3, <2>1, EnsuredTypes DEF Started
  <2>3. ensured(file, who)[r] = file[r]
    BY <2>1 DEF ensured
  <2>4. file[r] \in Around(r)
    BY DEF Around
  <2> QED BY <2>1, <2>2, <2>3, <2>4, WriteAround
<1> QED BY <1>2, <1>3

\* A save is the newest edit, and no version around is stamped later than it.
LEMMA SaveOrders ==
    ASSUME Started, ChainInv, OrderInv, NEW r \in Record, save(r)
    PROVE  OrderInv'
<1>1. PICK at \in stamps(r) :
        writeCollection([file EXCEPT ![r] = [edit |-> edits + 1, at |-> at]])
  BY DEF save
<1> DEFINE n == [edit |-> edits + 1, at |-> at]
<1> DEFINE f == [file EXCEPT ![r] = n]
<1>2. /\ \A x \in Record : /\ file[x] \in Version /\ table[x] \in Version
                           /\ \A i \in 1..Len(queue) : queue[i][x] \in Version
      /\ clock \in Nat /\ edits \in Nat
  <2>1. \A i \in 1..Len(queue) : queue[i] \in Snapshot
    BY DEF Started, TypeOK
  <2> QED BY <2>1 DEF Started, TypeOK, Snapshot, Collection
<1>3. phase = "up" /\ ~torn /\ rows = Nothing
  BY DEF save, OrderInv
<1>4. at \in Nat /\ at > 0 /\ file[r].at <= at /\ n \in Version
  BY <1>2 DEF stamps, Started, ChainInv, Stamped, Version
<1>5. f \in Snapshot /\ f[r] = n /\ \A x \in Record \ {r} : f[x] = file[x]
  <2>1. f \in Collection /\ f[r] = n /\ \A x \in Record \ {r} : f[x] = file[x]
    BY <1>4 DEF Started, TypeOK, Collection
  <2>2. f[r].at > 0
    BY <1>4, <2>1
  <2> HIDE DEF f
  <2> QED BY <2>1, <2>2 DEF Snapshot, present
<1> HIDE DEF f
<1>6. writeCollection(f) /\ UNCHANGED <<table, rows, phase>> /\ edits' = edits + 1
  BY <1>1 DEF f, save
<1>7. \A v \in Around(r) : v.at <= file[r].at /\ v.at \in Nat /\ v.edit \in Nat
  <2>1. table[r].at <= file[r].at /\ rows[r].at <= file[r].at /\ rows[r] \in Version
    BY <1>2, <1>3 DEF ChainInv, Hydrating, Nothing, Version
  <2>2. \A i \in 1..Len(queue) : queue[i][r].at <= file[r].at
    BY DEF ChainInv, Ordered
  <2>3. file[r].at <= file[r].at
    BY <1>2 DEF Version
  <2> QED BY <1>2, <2>1, <2>2, <2>3 DEF Around, Version
<1>8. \A x \in Record : Around(x)' \subseteq Around(x) \cup {f[x]}
  BY <1>5, <1>6, WriteAround
<1>9. \A x \in Record \ {r} : Around(x)' \subseteq Around(x)
  BY <1>5, <1>8 DEF Around
<1>10. ASSUME NEW x \in Record \ Profile
       PROVE  InOrder(Around(x)') /\ \A v \in Around(x)' : v.edit <= edits'
  <2>1. CASE x # r
    <3>1. \A v \in Around(x) : v.edit \in Nat
      <4>1. rows[x] \in Version
        BY <1>3 DEF Nothing, Version
      <4> QED BY <1>2, <4>1 DEF Around, Version
    <3>2. \A v \in Around(x) : v.edit <= edits
      BY DEF OrderInv
    <3>3. \A v \in Around(x)' : v.edit <= edits'
      BY <1>2, <1>6, <1>9, <2>1, <3>1, <3>2
    <3> QED BY <1>9, <2>1, <3>3 DEF OrderInv, InOrder
  <2>2. CASE x = r
    <3>1. \A v \in Around(r)' : v = n \/ (v \in Around(r) /\ v.edit <= edits)
      BY <1>5, <1>8, <2>2 DEF OrderInv
    <3>2. n.edit = edits + 1 /\ n.at = at
      OBVIOUS
    <3> HIDE DEF n
    <3>3. \A v \in Around(r)' : v.edit <= edits'
      BY <1>2, <1>6, <1>7, <3>1, <3>2
    <3>4. InOrder(Around(r)')
      <4> SUFFICES ASSUME NEW v \in Around(r)', NEW w \in Around(r)', 0 < v.at, v.at < w.at
                   PROVE  v.edit < w.edit
        BY DEF InOrder
      <4>1. v # n
        BY <1>2, <1>4, <1>7, <3>1, <3>2 DEF Version
      <4>2. CASE w = n
        BY <1>2, <1>7, <3>1, <3>2, <4>1, <4>2
      <4>3. CASE w # n
        BY <2>2, <3>1, <4>1, <4>3 DEF OrderInv, InOrder
      <4> QED BY <4>2, <4>3
    <3> QED BY <2>2, <3>3, <3>4
  <2> QED BY <2>1, <2>2
<1> QED BY <1>3, <1>6, <1>10 DEF OrderInv, InOrder

\* Of two versions of a record that are around, in the file, the table, a snapshot
\* or a half-done start, the one stamped later has the newer content: so the
\* merge of a start, which looks at stamps alone, restores no older content over
\* a newer one unless their stamps are equal, across stops and lost disks.
THEOREM LaterStampNewerEdit == Spec => []StampsOrderEdits
<1>1. Init => OrderInv
  <2> SUFFICES ASSUME Init  PROVE OrderInv
    OBVIOUS
  <2>1. Len(queue) = 0 /\ edits = 0
    BY DEF Init
  <2>2. \A r \in Record : \A v \in Around(r) : v.at = 0 /\ v.edit = 0
    BY <2>1 DEF Init, Around, Nothing
  <2> QED BY <2>1, <2>2 DEF Init, OrderInv, InOrder
<1>2. Started /\ ChainInv /\ OrderInv /\ [Next]_vars => OrderInv'
  <2> SUFFICES ASSUME Started, ChainInv, OrderInv, [Next]_vars  PROVE OrderInv'
    OBVIOUS
  <2>1. ASSUME NEW r \in Profile, ensureEmployeeProfile(r)  PROVE OrderInv'
    <3> DEFINE f == ensured(file, {r})
    <3>1. f \in Snapshot
      BY EnsuredTypes DEF Started
    <3>2. \A x \in Record \ Profile : f[x] = file[x]
      <4>1. \A x \in Record \ {r} : f[x] = file[x]
        BY DEF ensured
      <4> QED BY <4>1
    <3> HIDE DEF f
    <3>3. writeCollection(f) /\ UNCHANGED <<table, rows, edits, phase>> /\ phase = "up"
      BY <2>1 DEF f, ensureEmployeeProfile
    <3>4. \A x \in Record \ Profile : Around(x)' \subseteq Around(x)
      <4> SUFFICES ASSUME NEW x \in Record \ Profile  PROVE Around(x)' \subseteq Around(x)
        OBVIOUS
      <4>1. file[x] \in Around(x)
        BY DEF Around
      <4>2. UNCHANGED <<table, rows>>
        BY <3>3
      <4>3. Around(x)' \subseteq Around(x) \cup {f[x]}
        BY <3>1, <3>3, <4>2, WriteAround
      <4> QED BY <3>2, <4>1, <4>3
    <3> QED BY <3>3, <3>4, NoNewVersion DEF OrderInv
  <2>2. ASSUME NEW r \in Record, persistRecord(r)  PROVE OrderInv'
    <3>1. /\ queue \in Seq(Snapshot) /\ queue # <<>> /\ table \in Collection
          /\ table' = [table EXCEPT ![r] = Head(queue)[r]] \/ table' = table
          /\ queue' = Tail(queue) \/ queue' = queue
          /\ UNCHANGED <<file, rows, edits, phase>>
      BY <2>2 DEF persistRecord, copied, Started, TypeOK
    <3>2. /\ Head(queue) = queue[1] /\ 1 \in 1..Len(queue)
          /\ \A i \in 1..Len(Tail(queue)) : Tail(queue)[i] = queue[i + 1] /\ i + 1 \in 1..Len(queue)
      BY ONLY <3>1, HeadAndTail
    <3>3. \A x \in Record : table'[x] = table[x] \/ table'[x] = queue[1][x]
      BY <3>1, <3>2 DEF Collection
    <3>4. \A x \in Record : \A i \in 1..Len(queue') : queue'[i][x] \in Around(x)
      BY <3>1, <3>2 DEF Around
    <3>5. \A x \in Record : Around(x)' \subseteq Around(x)
      BY <3>1, <3>2, <3>3, <3>4 DEF Around
    <3> QED BY <3>1, <3>5, NoNewVersion DEF OrderInv
  <2>3. ASSUME syncAllUsersToSupabase  PROVE OrderInv'
    <3>1. UNCHANGED <<table, rows, edits>> /\ phase = "down" /\ phase' = "starting"
      BY <2>3 DEF syncAllUsersToSupabase
    <3>2. \A x \in Record \ Profile : Around(x)' \subseteq Around(x)
      BY <2>3, <3>1, LoopAround DEF syncAllUsersToSupabase, Around
    <3> QED BY <3>1, <3>2, NoNewVersion DEF OrderInv
  <2>4. ASSUME loadCollectionsFromPostgres  PROVE OrderInv'
    BY <2>4, NoNewVersion DEF loadCollectionsFromPostgres, Around
  <2>5. ASSUME exit, file' = file \/ file' = Nothing  PROVE OrderInv'
    <3>1. /\ queue' = <<>> /\ Len(queue') = 0 /\ rows' = Nothing /\ UNCHANGED <<edits, table>>
      BY <2>5 DEF exit
    <3>2. \A x \in Record : Around(x)' \subseteq Around(x) \cup {Nothing[x]}
      BY <2>5, <3>1 DEF Around
    <3> QED BY <3>1, <3>2, NoNewVersion
  <2>6. ASSUME hydrate  PROVE OrderInv'
    <3>1. CASE torn /\ present(rows) # {}
      BY <2>5, <2>6, <3>1 DEF hydrate
    <3>2. CASE ~(torn /\ present(rows) # {})
      <4>1. /\ rows' = Nothing /\ UNCHANGED <<edits, table, queue>>
            /\ file' = IF torn THEN file ELSE merge(file, rows)
        BY <2>6, <3>2 DEF hydrate
      <4>2. \A x \in Record : file'[x] \in {file[x], rows[x]}
        BY <4>1 DEF merge
      <4>3. \A x \in Record : Around(x)' \subseteq Around(x) \cup {Nothing[x]}
        BY <4>1, <4>2 DEF Around
      <4> QED BY <4>1, <4>3, NoNewVersion
    <3> QED BY <3>1, <3>2
  <2>7. ASSUME listen  PROVE OrderInv'
    <3>1. CASE torn /\ accounts # {}
      BY <2>5, <2>7, <3>1 DEF listen
    <3>2. CASE ~(torn /\ accounts # {})
      <4>1. /\ phase = "merged" /\ phase' = "up" /\ ensureEmployeeProfilesForUsers
            /\ UNCHANGED <<edits, table, rows>>
        BY <2>7, <3>2 DEF listen
      <4> QED BY <4>1, LoopAround, NoNewVersion DEF OrderInv
    <3> QED BY <3>1, <3>2
  <2>8. ASSUME stop  PROVE OrderInv'
    BY <2>5, <2>8 DEF stop
  <2>9. ASSUME loseDisk  PROVE OrderInv'
    BY <2>9, NoNewVersion DEF loseDisk, Around, OrderInv
  <2>10. ASSUME tick \/ (\E r \in Profile : linkUserToEmployeeProfile(r)) \/ UNCHANGED vars
         PROVE  OrderInv'
    <3>1. UNCHANGED <<edits, file, table, queue, rows, phase>>
      BY <2>10 DEF tick, linkUserToEmployeeProfile, vars
    <3>2. \A r \in Record : Around(r)' = Around(r)
      BY <3>1 DEF Around
    <3> QED BY <3>1, <3>2, NoNewVersion DEF OrderInv
  <2> QED BY <2>1, <2>2, <2>3, <2>4, <2>6, <2>7, <2>8, <2>9, <2>10, SaveOrders DEF Next, Copy
<1>3. OrderInv => StampsOrderEdits
  BY DEF OrderInv, InOrder, Around, StampsOrderEdits
<1> QED BY <1>1, <1>2, <1>3, StartedHolds, ChainHolds, PTL DEF Spec
=============================================================================
