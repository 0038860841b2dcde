--------------------------- MODULE StateFileProofs ---------------------------
(***************************************************************************)
(* Proofs about StateFile, for every number of handles, keys and puts: the *)
(* state keeps its type whatever the processes do to each other; and if    *)
(* flushes do not overlap and no compaction runs on an outdated memory, an *)
(* acknowledged put survives and the file implements the table of module   *)
(* KeyTable.                                                               *)
(*                                                                         *)
(* The second part needs what is in flight: while a process flushes, its   *)
(* memory is at least as recent as the file it will replace, and the       *)
(* temporary file is its own.                                              *)
(***************************************************************************)
EXTENDS StateFile, FiniteSetTheorems, TLAPS

-----------------------------------------------------------------------------
(***************************************************************************)
(* Type correctness                                                        *)
(***************************************************************************)

LEMMA EmptyType == Empty \in Map /\ NoJob \in Jobs
BY StateFileAssumption DEF Empty, Map, NoJob, Jobs

\* A new inode is always left: every process writes at most one, and
\* state.json names at most one.
LEMMA FreshInode ==
    ASSUME TypeOK
    PROVE  \E i \in Inodes : i # stateAt /\ \A g \in Handles : fd[g] # i
<1> DEFINE written == {fd[g] : g \in Handles}
           used == written \union {stateAt}
<1>1. IsFiniteSet(Handles) /\ Cardinality(Handles) \in Nat
    BY StateFileAssumption, FS_CardinalityType
<1>2. fd \in Surjection(Handles, written)
    BY DEF TypeOK, Surjection
<1>3. IsFiniteSet(written) /\ Cardinality(written) <= Cardinality(Handles)
    BY <1>1, <1>2, FS_Surjection
<1>4. IsFiniteSet(used) /\ Cardinality(used) <= Cardinality(Handles) + 1
    <2>1. Cardinality(written) \in Nat
        BY <1>3, FS_CardinalityType
    <2>2. IsFiniteSet(used) /\ Cardinality(used) = IF stateAt \in written THEN Cardinality(written)
                                                   ELSE Cardinality(written) + 1
        BY <1>3, FS_AddElement
    <2> HIDE DEF used, written
    <2>3. QED
        BY <1>1, <1>3, <2>1, <2>2
<1>5. Cardinality(Inodes) = Cardinality(Handles) + 2
    BY <1>1, FS_Interval DEF Inodes
<1>6. Cardinality(used) \in Nat
    BY <1>4, FS_CardinalityType
<1>7. ~(Inodes \subseteq used)
    <2> SUFFICES ASSUME Inodes \subseteq used PROVE FALSE
        OBVIOUS
    <2> HIDE DEF used
    <2>1. Cardinality(Inodes) <= Cardinality(used)
        BY <1>4, FS_Subset
    <2>2. QED
        BY <1>1, <1>4, <1>5, <1>6, <2>1
<1>8. QED
    BY <1>7

\* The inode a flush opens.
LEMMA TruncatedInode ==
    ASSUME TypeOK, NEW i,
           i = IF tmpAt # None THEN tmpAt
               ELSE CHOOSE j \in Inodes : j # stateAt /\ \A g \in Handles : fd[g] # j
    PROVE  i \in Inodes /\ i # stateAt
<1>1. CASE tmpAt # None
    BY <1>1 DEF TypeOK
<1>2. CASE tmpAt = None
    BY <1>2, FreshInode
<1>3. QED
    BY <1>1, <1>2

LEMMA AdoptedType ==
    ASSUME TypeOK, NEW h \in Handles
    PROVE  Adopted(h) \in Map
<1>1. mem[h] \in Map
    BY DEF TypeOK
<1>2. CASE Content \in {Blank, Garbled}
    BY <1>1, <1>2 DEF Adopted
<1>3. CASE Content \notin {Blank, Garbled}
    <2>1. Content \in Map
        BY <1>3 DEF Content, TypeOK
    <2>2. QED
        BY <1>1, <1>3, <2>1 DEF Adopted, Map
<1>4. QED
    BY <1>2, <1>3

LEMMA TypeInit == Init => TypeOK
BY EmptyType, StateFileAssumption DEF Init, TypeOK, Places

LEMMA TypeStep == TypeOK /\ [Next]_vars => TypeOK'
<1> SUFFICES ASSUME TypeOK, [Next]_vars PROVE TypeOK'
    OBVIOUS
<1> USE DEF TypeOK, Places, Goto
<1>1. ASSUME NEW h \in Handles, Open(h) PROVE TypeOK'
    <2>1. Loaded \in Map
        BY <1>1, EmptyType DEF Open, Loaded, Content
    <2>2. QED
        BY <1>1, <2>1 DEF Open, directory
<1>2. ASSUME NEW h \in Handles, Stop(h) PROVE TypeOK'
    BY <1>2, EmptyType DEF Stop, directory
<1>3. ASSUME NEW h \in Handles, NEW k \in Keys, Put(h, k) PROVE TypeOK'
    <2>1. writes' \in 0..MaxWrites /\ writes + 1 \in 0..MaxWrites
        BY <1>3, StateFileAssumption DEF Put
    <2>2. [Adopted(h) EXCEPT ![k] = writes + 1] \in Map
        BY <2>1, AdoptedType DEF Map
    <2>3. [puts |-> {k}, drops |-> {}] \in Jobs
        BY DEF Jobs
    <2>4. pc[h] = "idle"
        BY <1>3 DEF Put, MayFlush
    <2>5. QED
        BY <1>3, <2>1, <2>2, <2>3, <2>4 DEF Put, directory
<1>4. ASSUME NEW h \in Handles, NEW S \in SUBSET Prunable, Sweep(h, S) PROVE TypeOK'
    <2>1. sweeps' \in 0..MaxSweeps
        BY <1>4, StateFileAssumption DEF Sweep
    <2>2. [k \in Keys |-> IF k \in S THEN 0 ELSE mem[h][k]] \in Map
        BY StateFileAssumption DEF Map
    <2>3. [puts |-> {}, drops |-> S] \in Jobs
        BY DEF Jobs
    <2>4. pc[h] = "idle"
        BY <1>4 DEF Sweep, MayFlush
    <2>5. mem' \in [Handles -> Map]
        BY <1>4, <2>2 DEF Sweep
    <2>6. QED
        BY <1>4, <2>1, <2>3, <2>4, <2>5 DEF Sweep, directory
<1>5. ASSUME NEW h \in Handles, Truncate(h) PROVE TypeOK'
    <2> DEFINE i == IF tmpAt # None THEN tmpAt
                    ELSE CHOOSE j \in Inodes : j # stateAt /\ \A g \in Handles : fd[g] # j
    <2>1. i \in Inodes /\ i # stateAt
        BY TruncatedInode
    <2>2. /\ tmpAt' = i /\ file' = [file EXCEPT ![i] = Blank] /\ fd' = [fd EXCEPT ![h] = i]
          /\ pc[h] = "truncate" /\ pc' = [pc EXCEPT ![h] = "write"]
          /\ UNCHANGED <<stateAt, mem, job, durable, writes, sweeps, faults>>
        BY <1>5 DEF Truncate
    <2> HIDE DEF i
    <2>3. i # None
        BY <2>1, MarkerAssumption
    <2>4. QED
        BY <2>1, <2>2, <2>3
<1>6. ASSUME NEW h \in Handles, Write(h) PROVE TypeOK'
    <2>1. PICK c \in Overlaid(h) : file' = [file EXCEPT ![fd[h]] = c]
        BY <1>6 DEF Write
    <2>2. c \in Map \union {Blank, Garbled}
        BY <2>1 DEF Overlaid
    <2>3. QED
        BY <1>6, <2>1, <2>2 DEF Write
<1>7. ASSUME NEW h \in Handles, FlushFails(h) PROVE TypeOK'
    <2>1. faults' \in 0..MaxFaults
        BY <1>7, StateFileAssumption DEF FlushFails, Fault
    <2>2. file' \in [Inodes -> Map \union {Blank, Garbled}] /\ tmpAt' \in {tmpAt, None}
        BY <1>7 DEF FlushFails
    <2>3. QED
        BY <1>7, <2>1, <2>2, EmptyType DEF FlushFails, Done
<1>8. ASSUME NEW h \in Handles, Rename(h) PROVE TypeOK'
    <2>1. faults' \in 0..MaxFaults
        BY <1>8, StateFileAssumption DEF Rename, Fault
    <2>2. durable' \in Map
        <3>1. [k \in Keys |-> CASE k \in job[h].puts -> mem[h][k]
                                [] k \in job[h].drops -> 0
                                [] OTHER -> durable[k]] \in Map
            BY StateFileAssumption DEF Map
        <3>2. QED
            BY <1>8, <3>1 DEF Rename
    <2>3. stateAt' \in {stateAt, tmpAt} /\ tmpAt' \in {tmpAt, None} /\ (stateAt' = tmpAt' => stateAt' = None)
        BY <1>8 DEF Rename
    <2>4. QED
        BY <1>8, <2>1, <2>2, <2>3, EmptyType DEF Rename, Done
<1>9. CASE UNCHANGED vars
    BY <1>9 DEF vars, directory, handles
<1>10. QED
    BY <1>1, <1>2, <1>3, <1>4, <1>5, <1>6, <1>7, <1>8, <1>9 DEF Next

\* Whatever the processes do to each other's temporary file, every inode holds a
\* table, nothing, or a table that does not decode, and the two names never share
\* an inode.
THEOREM TypeCorrect == Spec => []TypeOK
BY TypeInit, TypeStep, PTL DEF Spec
-----------------------------------------------------------------------------
(***************************************************************************)
(* What is in flight                                                       *)
(***************************************************************************)

\* Flushes do not overlap, and a compaction runs where memory is up to date.
Serial == ~Overlap /\ ~StaleSweep

FlightInv ==
    /\ Serial
    /\ \A g, h \in Handles : Flushing(g) /\ Flushing(h) => g = h
    /\ \A h \in Handles : pc[h] \in {"write", "rename"} => fd[h] = tmpAt /\ tmpAt # None
    /\ \A h \in Handles : pc[h] = "write" => file[fd[h]] = Blank
    /\ \A h \in Handles : pc[h] = "rename" => file[fd[h]] = mem[h]
    /\ Content # Garbled
    \* a value is the number of a put that was made
    /\ \A k \in Keys : Loaded[k] <= writes
    /\ \A h \in Handles, k \in Keys : mem[h][k] <= writes
    \* what replaces the file is at least as recent, but for what is pruned
    /\ \A h \in Handles : Flushing(h) =>
          \A k \in Keys : IF k \in job[h].drops THEN mem[h][k] = 0 ELSE mem[h][k] >= Loaded[k]
    /\ \A k \in Keys : Loaded[k] >= durable[k]

LEMMA LoadedType ==
    ASSUME TypeOK, Content # Garbled
    PROVE  Loaded \in Map
BY EmptyType DEF TypeOK, Loaded, Content

LEMMA MapValues ==
    ASSUME NEW m \in Map, NEW k \in Keys
    PROVE  m[k] \in Nat
BY StateFileAssumption DEF Map

LEMMA FlightInit == Serial /\ Init => FlightInv
<1> SUFFICES ASSUME Serial, Init PROVE FlightInv
    OBVIOUS
<1>1. Content = Blank /\ Blank # Garbled
    BY MarkerAssumption DEF Init, Content
<1>2. \A k \in Keys : Loaded[k] = 0 /\ durable[k] = 0
    BY <1>1 DEF Init, Loaded, Empty
<1>3. \A h \in Handles, k \in Keys : mem[h][k] = 0
    BY DEF Init, Empty
<1>4. \A h \in Handles : ~Flushing(h) /\ pc[h] \notin {"write", "rename"}
    BY DEF Init, Flushing
<1>5. writes = 0
    BY DEF Init
<1>6. QED
    BY <1>1, <1>2, <1>3, <1>4, <1>5 DEF FlightInv

\* Adopting brings memory up to date.
LEMMA AdoptedIsRecent ==
    ASSUME TypeOK, FlightInv, NEW h \in Handles, NEW k \in Keys
    PROVE  Adopted(h)[k] >= Loaded[k] /\ Adopted(h)[k] <= writes /\ Adopted(h)[k] \in Nat
<1>1. /\ mem[h] \in Map /\ Loaded \in Map /\ Content # Garbled
      /\ mem[h][k] <= writes /\ Loaded[k] <= writes
    BY LoadedType DEF TypeOK, FlightInv
<1>2. mem[h][k] \in Nat /\ Loaded[k] \in Nat
    BY <1>1, MapValues
<1>3. CASE Content = Blank
    <2>1. Adopted(h) = mem[h] /\ Loaded[k] = 0
        BY <1>3 DEF Adopted, Loaded, Empty
    <2>2. QED
        BY <1>1, <1>2, <2>1
<1>4. CASE Content # Blank
    <2>1. Loaded = Content /\ Adopted(h)[k] = IF Content[k] = 0 THEN mem[h][k] ELSE Content[k]
        BY <1>1, <1>4 DEF Adopted, Loaded
    <2>2. QED
        BY <1>1, <1>2, <2>1
<1>5. QED
    BY <1>3, <1>4

LEMMA FlightStep == TypeOK /\ FlightInv /\ [Next]_vars => FlightInv'
<1> SUFFICES ASSUME TypeOK, FlightInv, [Next]_vars PROVE FlightInv'
    OBVIOUS
<1> USE DEF Goto
<1>t. /\ pc = [g \in Handles |-> pc[g]] /\ mem = [g \in Handles |-> mem[g]]
      /\ fd = [g \in Handles |-> fd[g]] /\ job = [g \in Handles |-> job[g]]
      /\ file = [i \in Inodes |-> file[i]]
      /\ stateAt \in Inodes \union {None} /\ tmpAt \in Inodes \union {None}
      /\ stateAt = tmpAt => stateAt = None
    BY DEF TypeOK
<1>n. /\ \A k \in Keys : Loaded[k] \in Nat /\ durable[k] \in Nat
      /\ \A h \in Handles, k \in Keys : mem[h][k] \in Nat
      /\ writes \in Nat
    <2>1. Loaded \in Map /\ durable \in Map /\ \A h \in Handles : mem[h] \in Map
        BY LoadedType DEF TypeOK, FlightInv
    <2>2. QED
        BY <2>1, MapValues, StateFileAssumption DEF TypeOK
\* Steps of h that leave what a reader gets alone.
<1>f. ASSUME NEW h \in Handles,
             Content' = Content, UNCHANGED durable, writes' \in Nat, writes <= writes',
             \A k \in Keys : mem'[h][k] <= writes',
             \A g \in Handles \ {h} : pc'[g] = pc[g] /\ fd'[g] = fd[g] /\ mem'[g] = mem[g] /\ job'[g] = job[g],
             (\A g \in Handles \ {h} : ~Flushing(g)) \/ (pc'[h] \in {"down", "idle"} /\ file' = file /\ tmpAt' = tmpAt),
             pc'[h] \in {"write", "rename"} => fd'[h] = tmpAt' /\ tmpAt' # None,
             pc'[h] = "write" => file'[fd'[h]] = Blank,
             pc'[h] = "rename" => file'[fd'[h]] = mem'[h],
             pc'[h] \in {"truncate", "write", "rename"} =>
                \A k \in Keys : IF k \in job'[h].drops THEN mem'[h][k] = 0 ELSE mem'[h][k] >= Loaded[k]
      PROVE  FlightInv'
    <2>1. Loaded' = Loaded /\ Content' # Garbled
        BY <1>f DEF Loaded, FlightInv
    <2>2. \A k \in Keys : Loaded'[k] <= writes' /\ Loaded'[k] >= durable'[k]
        BY <1>n, <1>f, <2>1 DEF FlightInv
    <2>3. \A g \in Handles, k \in Keys : mem'[g][k] <= writes'
        BY <1>n, <1>f DEF FlightInv
    <2>4. \A g \in Handles \ {h} : Flushing(g)' = Flushing(g)
        BY <1>f DEF Flushing
    <2>5. \A g, e \in Handles : Flushing(g)' /\ Flushing(e)' => g = e
        <3> SUFFICES ASSUME NEW g \in Handles, NEW e \in Handles, Flushing(g)', Flushing(e)' PROVE g = e
            OBVIOUS
        <3>1. CASE \A x \in Handles \ {h} : ~Flushing(x)
            BY <2>4, <3>1
        <3>2. CASE pc'[h] \in {"down", "idle"}
            <4>1. g # h /\ e # h
                BY <3>2 DEF Flushing
            <4>2. QED
                BY <2>4, <4>1 DEF FlightInv
        <3>3. QED
            BY <1>f, <3>1, <3>2
    <2>6. \A g \in Handles :
             /\ pc'[g] \in {"write", "rename"} => fd'[g] = tmpAt' /\ tmpAt' # None
             /\ pc'[g] = "write" => file'[fd'[g]] = Blank
             /\ pc'[g] = "rename" => file'[fd'[g]] = mem'[g]
        BY <1>f DEF FlightInv, Flushing
    <2>7. \A g \in Handles : Flushing(g)' =>
             \A k \in Keys : IF k \in job'[g].drops THEN mem'[g][k] = 0 ELSE mem'[g][k] >= Loaded'[k]
        BY <1>f, <2>1, <2>4 DEF FlightInv, Flushing
    <2>8. QED
        BY <2>1, <2>2, <2>3, <2>5, <2>6, <2>7 DEF FlightInv, Serial
\* Whoever flushes, flushes alone.
<1>a. ASSUME NEW h \in Handles, Flushing(h) \/ MayFlush(h)
      PROVE  \A g \in Handles \ {h} : ~Flushing(g)
    BY <1>a DEF FlightInv, Serial, MayFlush
<1>1. ASSUME NEW h \in Handles, Open(h) PROVE FlightInv'
    <2>1. /\ UNCHANGED <<file, stateAt, tmpAt, fd, job, durable, writes>>
          /\ pc' = [pc EXCEPT ![h] = "idle"] /\ mem' = [mem EXCEPT ![h] = Loaded]
        BY <1>1 DEF Open, directory
    <2>2. Content' = Content
        BY <2>1 DEF Content
    <2>3. \A k \in Keys : mem'[h][k] <= writes'
        BY <1>t, <2>1 DEF FlightInv
    <2>4. QED
        BY <1>f, <1>n, <1>t, <2>1, <2>2, <2>3
<1>2. ASSUME NEW h \in Handles, Stop(h) PROVE FlightInv'
    <2>1. /\ UNCHANGED <<file, stateAt, tmpAt, durable, writes>>
          /\ pc' = [pc EXCEPT ![h] = "down"] /\ mem' = [mem EXCEPT ![h] = Empty]
          /\ fd' = [fd EXCEPT ![h] = None] /\ job' = [job EXCEPT ![h] = NoJob]
        BY <1>2 DEF Stop, directory
    <2>2. Content' = Content
        BY <2>1 DEF Content
    <2>3. \A k \in Keys : mem'[h][k] <= writes'
        BY <1>n, <1>t, <2>1 DEF Empty
    <2>4. QED
        BY <1>f, <1>n, <1>t, <2>1, <2>2, <2>3
<1>3. ASSUME NEW h \in Handles, NEW k \in Keys, Put(h, k) PROVE FlightInv'
    <2>1. /\ UNCHANGED <<file, stateAt, tmpAt, fd, durable>> /\ writes' = writes + 1
          /\ pc' = [pc EXCEPT ![h] = "truncate"] /\ MayFlush(h)
          /\ mem' = [mem EXCEPT ![h] = [Adopted(h) EXCEPT ![k] = writes + 1]]
          /\ job' = [job EXCEPT ![h] = [puts |-> {k}, drops |-> {}]]
        BY <1>3 DEF Put, directory
    <2>2. Content' = Content
        BY <2>1 DEF Content
    <2>3. \A j \in Keys : mem'[h][j] = IF j = k THEN writes + 1 ELSE Adopted(h)[j]
        BY <1>t, <2>1, AdoptedType DEF Map
    <2>4. \A j \in Keys : mem'[h][j] <= writes' /\ mem'[h][j] >= Loaded[j]
        <3> SUFFICES ASSUME NEW j \in Keys PROVE mem'[h][j] <= writes' /\ mem'[h][j] >= Loaded[j]
            OBVIOUS
        <3>1. Adopted(h)[j] >= Loaded[j] /\ Adopted(h)[j] <= writes /\ Adopted(h)[j] \in Nat
            BY AdoptedIsRecent
        <3>2. Loaded[j] <= writes
            BY DEF FlightInv
        <3>3. QED
            BY <1>n, <2>1, <2>3, <3>1, <3>2
    <2>5. job'[h].drops = {} /\ pc'[h] = "truncate"
        BY <1>t, <2>1
    <2>6. \A g \in Handles \ {h} : ~Flushing(g)
        BY <1>a, <2>1
    <2>7. \A g \in Handles \ {h} : pc'[g] = pc[g] /\ fd'[g] = fd[g] /\ mem'[g] = mem[g] /\ job'[g] = job[g]
        BY <1>t, <2>1
    <2>8. writes' \in Nat /\ writes <= writes'
        BY <1>n, <2>1
    <2>9. \A j \in Keys : IF j \in job'[h].drops THEN mem'[h][j] = 0 ELSE mem'[h][j] >= Loaded[j]
        BY <2>4, <2>5
    <2>10. UNCHANGED durable
        BY <2>1
    <2>11. QED
        BY <1>f, <2>2, <2>4, <2>5, <2>6, <2>7, <2>8, <2>9, <2>10
<1>4. ASSUME NEW h \in Handles, NEW S \in SUBSET Prunable, Sweep(h, S) PROVE FlightInv'
    <2>1. /\ UNCHANGED <<file, stateAt, tmpAt, fd, durable, writes>>
          /\ pc' = [pc EXCEPT ![h] = "truncate"] /\ MayFlush(h)
          /\ mem' = [mem EXCEPT ![h] = [k \in Keys |-> IF k \in S THEN 0 ELSE mem[h][k]]]
          /\ job' = [job EXCEPT ![h] = [puts |-> {}, drops |-> S]]
          /\ \A k \in Keys : mem[h][k] >= Adopted(h)[k]
        BY <1>4 DEF Sweep, directory, FlightInv, Serial
    <2>2. Content' = Content
        BY <2>1 DEF Content
    <2>3. \A k \in Keys : mem'[h][k] = IF k \in S THEN 0 ELSE mem[h][k]
        BY <1>t, <2>1
    <2>4. \A k \in Keys : mem[h][k] >= Loaded[k]
        <3> SUFFICES ASSUME NEW k \in Keys PROVE mem[h][k] >= Loaded[k]
            OBVIOUS
        <3>1. Adopted(h)[k] >= Loaded[k] /\ Adopted(h)[k] \in Nat
            BY AdoptedIsRecent
        <3>2. QED
            BY <1>n, <2>1, <3>1
    <2>5. \A k \in Keys : mem'[h][k] <= writes'
        BY <1>n, <2>1, <2>3 DEF FlightInv
    <2>6. job'[h].drops = S /\ pc'[h] = "truncate"
        BY <1>t, <2>1
    <2>7. \A g \in Handles \ {h} : ~Flushing(g)
        BY <1>a, <2>1
    <2>8. \A g \in Handles \ {h} : pc'[g] = pc[g] /\ fd'[g] = fd[g] /\ mem'[g] = mem[g] /\ job'[g] = job[g]
        BY <1>t, <2>1
    <2>9. writes' \in Nat /\ writes <= writes' /\ UNCHANGED durable
        BY <1>n, <2>1
    <2>10. \A k \in Keys : IF k \in job'[h].drops THEN mem'[h][k] = 0 ELSE mem'[h][k] >= Loaded[k]
        BY <2>3, <2>4, <2>6
    <2>11. QED
        BY <1>f, <2>2, <2>5, <2>6, <2>7, <2>8, <2>9, <2>10
<1>5. ASSUME NEW h \in Handles, Truncate(h) PROVE FlightInv'
    <2> DEFINE i == IF tmpAt # None THEN tmpAt
                    ELSE CHOOSE j \in Inodes : j # stateAt /\ \A g \in Handles : fd[g] # j
    <2>1. i \in Inodes /\ i # stateAt
        BY TruncatedInode
    <2>2. /\ tmpAt' = i /\ file' = [file EXCEPT ![i] = Blank] /\ fd' = [fd EXCEPT ![h] = i]
          /\ pc[h] = "truncate" /\ pc' = [pc EXCEPT ![h] = "write"]
          /\ UNCHANGED <<stateAt, mem, job, durable, writes, sweeps, faults>>
        BY <1>5 DEF Truncate
    <2> HIDE DEF i
    <2>3. i # None
        BY <2>1, MarkerAssumption
    <2>4. Content' = Content
        BY <1>t, <2>1, <2>2 DEF Content
    <2>5. Flushing(h) /\ \A g \in Handles \ {h} : ~Flushing(g)
        BY <1>a, <2>2 DEF Flushing
    <2>6. \A k \in Keys : /\ mem[h][k] <= writes
                          /\ IF k \in job[h].drops THEN mem[h][k] = 0 ELSE mem[h][k] >= Loaded[k]
        BY <2>5 DEF FlightInv
    <2>7. fd'[h] = i /\ file'[i] = Blank /\ pc'[h] = "write"
        BY <1>t, <2>1, <2>2
    <2>8. \A g \in Handles \ {h} : pc'[g] = pc[g] /\ fd'[g] = fd[g] /\ mem'[g] = mem[g] /\ job'[g] = job[g]
        BY <1>t, <2>2
    <2>9. writes' \in Nat /\ writes <= writes' /\ UNCHANGED <<durable, mem, job>> /\ tmpAt' = i
        BY <1>n, <2>2
    <2>10. fd'[h] = tmpAt' /\ tmpAt' # None /\ file'[fd'[h]] = Blank
        BY <2>3, <2>7, <2>9
    <2>11. \A k \in Keys : mem'[h][k] <= writes'
        BY <2>2, <2>6
    <2>12. \A k \in Keys : IF k \in job'[h].drops THEN mem'[h][k] = 0 ELSE mem'[h][k] >= Loaded[k]
        BY <2>2, <2>6
    <2>13. UNCHANGED durable /\ pc'[h] = "write"
        BY <2>2, <2>7
    <2>14. QED
        BY <1>f, <2>4, <2>5, <2>8, <2>9, <2>10, <2>11, <2>12, <2>13
<1>6. ASSUME NEW h \in Handles, Write(h) PROVE FlightInv'
    <2>1. /\ pc[h] = "write" /\ pc' = [pc EXCEPT ![h] = "rename"]
          /\ UNCHANGED <<stateAt, tmpAt, mem, fd, job, durable, writes, sweeps, faults>>
        BY <1>6 DEF Write
    <2>2. fd[h] = tmpAt /\ tmpAt # None /\ file[fd[h]] = Blank
        BY <2>1 DEF FlightInv
    <2>3. file' = [file EXCEPT ![fd[h]] = mem[h]]
        BY <1>6, <2>2 DEF Write, Overlaid
    <2>4. Content' = Content
        BY <1>t, <2>1, <2>2, <2>3 DEF Content
    <2>5. Flushing(h) /\ \A g \in Handles \ {h} : ~Flushing(g)
        BY <1>a, <2>1 DEF Flushing
    <2>6. \A k \in Keys : /\ mem[h][k] <= writes
                          /\ IF k \in job[h].drops THEN mem[h][k] = 0 ELSE mem[h][k] >= Loaded[k]
        BY <2>5 DEF FlightInv
    <2>7. file'[fd[h]] = mem[h] /\ pc'[h] = "rename"
        BY <1>t, <2>1, <2>2, <2>3
    <2>8. QED
        BY <1>f, <1>n, <1>t, <2>1, <2>2, <2>4, <2>5, <2>6, <2>7
<1>7. ASSUME NEW h \in Handles, FlushFails(h) PROVE FlightInv'
    <2>1. /\ pc[h] \in {"truncate", "write"} /\ pc' = [pc EXCEPT ![h] = "idle"]
          /\ fd' = [fd EXCEPT ![h] = None] /\ job' = [job EXCEPT ![h] = NoJob]
          /\ UNCHANGED <<stateAt, mem, durable, writes>>
        BY <1>7 DEF FlushFails, Done
    <2>2. Flushing(h) /\ \A g \in Handles \ {h} : ~Flushing(g)
        BY <1>a, <2>1 DEF Flushing
    <2>3. file' = file \/ (fd[h] = tmpAt /\ tmpAt # None /\ \E c : file' = [file EXCEPT ![fd[h]] = c])
        BY <1>7 DEF FlushFails, FlightInv
    <2>4. Content' = Content
        BY <1>t, <2>1, <2>3 DEF Content
    <2>5. \A k \in Keys : mem'[h][k] <= writes'
        BY <2>1 DEF FlightInv
    <2>6. QED
        BY <1>f, <1>n, <1>t, <2>1, <2>2, <2>4, <2>5
<1>8. ASSUME NEW h \in Handles, Rename(h) PROVE FlightInv'
    <2>1. /\ pc[h] = "rename" /\ pc' = [pc EXCEPT ![h] = "idle"]
          /\ fd' = [fd EXCEPT ![h] = None] /\ job' = [job EXCEPT ![h] = NoJob]
          /\ UNCHANGED <<file, mem, writes>>
        BY <1>8 DEF Rename, Done
    <2>2. Flushing(h) /\ \A g \in Handles \ {h} : ~Flushing(g)
        BY <1>a, <2>1 DEF Flushing
    <2>3. fd[h] = tmpAt /\ tmpAt # None /\ file[tmpAt] = mem[h]
        BY <2>1 DEF FlightInv
    <2>4. \A k \in Keys : mem'[h][k] <= writes'
        BY <2>1 DEF FlightInv
    <2>5. CASE UNCHANGED <<stateAt, tmpAt, durable>>
        <3>1. Content' = Content
            BY <2>1, <2>5 DEF Content
        <3>2. \A g \in Handles \ {h} : pc'[g] = pc[g] /\ fd'[g] = fd[g] /\ mem'[g] = mem[g] /\ job'[g] = job[g]
            BY <1>t, <2>1
        <3>3. writes' \in Nat /\ writes <= writes' /\ pc'[h] = "idle"
            BY <1>n, <1>t, <2>1
        <3>4. QED
            BY <1>f, <2>2, <2>4, <2>5, <3>1, <3>2, <3>3
    <2>6. CASE /\ stateAt' = tmpAt
               /\ durable' = [k \in Keys |-> CASE k \in job[h].puts -> mem[h][k]
                                               [] k \in job[h].drops -> 0
                                               [] OTHER -> durable[k]]
        <3>1. mem[h] \in Map
            BY DEF TypeOK
        <3>2. Content' = mem[h] /\ Loaded' = mem[h] /\ Content' # Garbled
            BY <2>1, <2>3, <2>6, <3>1, MarkerAssumption DEF Content, Loaded
        <3>3. \A k \in Keys : durable'[k] <= mem[h][k]
            <4> SUFFICES ASSUME NEW k \in Keys PROVE durable'[k] <= mem[h][k]
                OBVIOUS
            <4>1. k \notin job[h].drops => mem[h][k] >= Loaded[k]
                BY <2>2 DEF FlightInv
            <4>2. Loaded[k] >= durable[k]
                BY DEF FlightInv
            <4>3. durable'[k] \in {mem[h][k], 0}
                  \/ (k \notin job[h].drops /\ durable'[k] = durable[k])
                BY <2>6
            <4>4. QED
                BY <1>n, <4>1, <4>2, <4>3
        <3>4. \A g \in Handles : pc'[g] \notin {"truncate", "write", "rename"}
            BY <1>t, <2>1, <2>2 DEF Flushing
        <3>5. \A k \in Keys : Loaded'[k] <= writes' /\ Loaded'[k] >= durable'[k]
            BY <1>n, <2>1, <2>4, <3>2, <3>3
        <3>6. QED
            BY <2>1, <3>2, <3>4, <3>5 DEF FlightInv, Serial, Flushing
    <2>7. QED
        BY <1>8, <2>3, <2>5, <2>6 DEF Rename
<1>9. CASE UNCHANGED vars
    BY <1>9 DEF vars, directory, handles, FlightInv, Serial, Flushing, Content, Loaded
<1>10. QED
    BY <1>1, <1>2, <1>3, <1>4, <1>5, <1>6, <1>7, <1>8, <1>9 DEF Next

\* Where flushes do not overlap, an acknowledged PutState is not rolled back by
\* another process, whatever that one remembers.
THEOREM AckedPutsSurvive == Serial /\ Spec => []LatestWriteSurvives
<1>1. FlightInv => LatestWriteSurvives
    BY DEF FlightInv, LatestWriteSurvives
<1>2. QED
    BY <1>1, TypeInit, TypeStep, FlightInit, FlightStep, PTL DEF Spec
-----------------------------------------------------------------------------
(***************************************************************************)
(* The file implements the table                                           *)
(***************************************************************************)

LEMMA TableInit == Init => Table!Init
BY MarkerAssumption DEF Init, Table!Init, Loaded, Content, Empty

\* Only a rename changes what readers get: it shows them the memory of the
\* process that flushed.
LEMMA RenamePublishes ==
    ASSUME TypeOK, FlightInv, [Next]_vars, Content' # Content
    PROVE  \E h \in Handles : Flushing(h) /\ Content' = mem[h]
<1>t. /\ file = [i \in Inodes |-> file[i]]
      /\ stateAt \in Inodes \union {None}
      /\ stateAt = tmpAt => stateAt = None
    BY DEF TypeOK
<1>k. ~(UNCHANGED directory) /\ ~(UNCHANGED <<file, stateAt>>)
    BY DEF directory, Content
<1>1. ASSUME NEW h \in Handles, Truncate(h) PROVE FALSE
    <2> DEFINE i == IF tmpAt # None THEN tmpAt
                    ELSE CHOOSE j \in Inodes : j # stateAt /\ \A g \in Handles : fd[g] # j
    <2>1. i # stateAt
        BY TruncatedInode
    <2>2. file' = [file EXCEPT ![i] = Blank] /\ stateAt' = stateAt
        BY <1>1 DEF Truncate
    <2> HIDE DEF i
    <2>3. Content' = Content
        BY <1>t, <2>1, <2>2 DEF Content
    <2>4. QED
        BY <2>3
<1>2. ASSUME NEW h \in Handles, Write(h) PROVE FALSE
    <2>1. fd[h] = tmpAt /\ tmpAt # None /\ stateAt' = stateAt
        BY <1>2 DEF Write, FlightInv
    <2>2. PICK c : file' = [file EXCEPT ![fd[h]] = c]
        BY <1>2 DEF Write
    <2>3. Content' = Content
        BY <1>t, <2>1, <2>2 DEF Content
    <2>4. QED
        BY <2>3
<1>3. ASSUME NEW h \in Handles, FlushFails(h) PROVE FALSE
    <2>1. stateAt' = stateAt /\ pc[h] = "write" /\ \E c : file' = [file EXCEPT ![fd[h]] = c]
        BY <1>3, <1>k DEF FlushFails
    <2>2. fd[h] = tmpAt /\ tmpAt # None
        BY <2>1 DEF FlightInv
    <2>3. Content' = Content
        BY <1>t, <2>1, <2>2 DEF Content
    <2>4. QED
        BY <2>3
<1>4. ASSUME NEW h \in Handles, Rename(h) PROVE Flushing(h) /\ Content' = mem[h]
    <2>1. pc[h] = "rename" /\ file' = file /\ stateAt' = tmpAt /\ tmpAt # None
        BY <1>4, <1>k DEF Rename
    <2>2. file[tmpAt] = mem[h]
        BY <2>1 DEF FlightInv
    <2>3. QED
        BY <2>1, <2>2 DEF Flushing, Content
<1>5. QED
    BY <1>k, <1>1, <1>2, <1>3, <1>4 DEF Next, Open, Stop, Put, Sweep, vars

LEMMA TableStep ==
    TypeOK /\ FlightInv /\ FlightInv' /\ [Next]_vars => [Table!Next]_Loaded
<1> SUFFICES ASSUME TypeOK, FlightInv, FlightInv', [Next]_vars, Loaded' # Loaded
             PROVE  Table!Next
    OBVIOUS
<1>1. PICK h \in Handles : Flushing(h) /\ Content' = mem[h]
    BY RenamePublishes DEF Loaded
<1>2. mem[h] \in Map /\ mem[h] # Blank
    BY MarkerAssumption DEF TypeOK
<1>3. Loaded' = mem[h]
    BY <1>1, <1>2 DEF Loaded
<1>4. Loaded' \in [Keys -> Nat]
    BY <1>2, <1>3, StateFileAssumption DEF Map
<1>5. job[h].drops \in SUBSET Prunable
    BY DEF TypeOK, Jobs
<1>6. \A k \in Keys : IF k \in job[h].drops THEN Loaded'[k] = 0 ELSE Loaded'[k] >= Loaded[k]
    BY <1>1, <1>3 DEF FlightInv
<1>7. Table!Step(job[h].drops)
    BY <1>4, <1>6 DEF Table!Step
<1>8. QED
    BY <1>5, <1>7 DEF Table!Next

\* Where flushes do not overlap, state.json is at every instant a whole table in
\* which each key moves forward or is pruned, through crashes and failed calls.
THEOREM FileImplementsTable == Serial /\ Spec => ImplementsKeyTable
<1>1. ImplementsKeyTable <=> Table!Init /\ [][Table!Next]_Loaded
    BY DEF ImplementsKeyTable, Table!Spec
<1>2. QED
    BY <1>1, TypeInit, TypeStep, FlightInit, FlightStep, TableInit, TableStep, PTL DEF Spec
=============================================================================
