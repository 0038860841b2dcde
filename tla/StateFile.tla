----------------------------- MODULE StateFile ------------------------------
(***************************************************************************)
(* internal/store/store.go: state.json, the one file that holds every      *)
(* cursor, verdict and reminder mark.  A handle loads it whole at Open and *)
(* rewrites it whole at every PutState: take the file as the base, set the *)
(* key, write state.json.tmp, rename it over state.json.  Compact rewrites *)
(* it too, from memory alone.                                              *)
(*                                                                         *)
(* Two processes can hold handles on one directory, and nothing orders     *)
(* their system calls, so every one of them is a step here, and a file     *)
(* name is a reference to an inode: opening a temporary file that another  *)
(* process is writing truncates that same inode.                           *)
(*                                                                         *)
(* A value is the sequence number of the put that wrote it; 0 is an absent *)
(* key.  The retired digest: namespace is left out.                        *)
(***************************************************************************)
EXTENDS Integers, FiniteSets

CONSTANTS
    Handles,    \* processes with the data directory open
    Keys,       \* state keys
    Prunable,   \* those Compact drops with their row (official:deal:)
    Overlap,    \* may two processes be writing at the same instant?
    StaleSweep, \* may Compact run in a process whose memory is behind the file?
    None, Blank, Garbled,
    MaxWrites,  \* BOUND on puts
    MaxSweeps,  \* BOUND on compactions
    MaxFaults   \* BOUND on failed system calls

ASSUME StateFileAssumption ==
    /\ IsFiniteSet(Handles) /\ Prunable \subseteq Keys
    /\ Overlap \in BOOLEAN /\ StaleSweep \in BOOLEAN
    /\ MaxWrites \in Nat /\ MaxSweeps \in Nat /\ MaxFaults \in Nat

VARIABLES
    \* ---- the directory
    file,       \* the content of every inode
    stateAt,    \* the inode named state.json, if any
    tmpAt,      \* the inode named state.json.tmp, if any
    \* ---- one per handle
    pc,         \* between which system calls the process is
    mem,        \* Store.state
    fd,         \* the inode it is writing
    job,        \* what the flush is for: a key to put, or the keys to prune
    \* ---- history
    durable,    \* by key, the last put whose PutState returned no error
    writes, sweeps, faults

directory == <<file, stateAt, tmpAt>>
handles == <<pc, mem, fd, job>>
vars == <<directory, handles, durable, writes, sweeps, faults>>

Inodes == 1..(Cardinality(Handles) + 2)
Map == [Keys -> 0..MaxWrites]

ASSUME MarkerAssumption ==
    /\ None \notin Inodes /\ Blank # Garbled
    /\ Blank \notin Map /\ Garbled \notin Map

Empty == [k \in Keys |-> 0]
Places == {"down", "idle", "truncate", "write", "rename"}
Jobs == [puts : SUBSET Keys, drops : SUBSET Prunable]
NoJob == [puts |-> {}, drops |-> {}]

\* Every variable in its range; the two names never share an inode, and a
\* descriptor is open exactly while a process writes.
TypeOK ==
    /\ file \in [Inodes -> Map \union {Blank, Garbled}]
    /\ stateAt \in Inodes \union {None} /\ tmpAt \in Inodes \union {None}
    /\ stateAt = tmpAt => stateAt = None
    /\ pc \in [Handles -> Places] /\ mem \in [Handles -> Map]
    /\ fd \in [Handles -> Inodes \union {None}]
    /\ \A h \in Handles : fd[h] # None <=> pc[h] \in {"write", "rename"}
    /\ job \in [Handles -> Jobs]
    /\ durable \in Map
    /\ writes \in 0..MaxWrites /\ sweeps \in 0..MaxSweeps /\ faults \in 0..MaxFaults
-----------------------------------------------------------------------------
\* What a reader of state.json gets.
Content == IF stateAt = None THEN Blank ELSE file[stateAt]

\* loadState: an absent or blank file is an empty table.
Loaded == IF Content = Blank THEN Empty ELSE Content

\* Mutant: only keys this process lacks are taken from the file.
AdoptedMissing(h) ==
    IF Content \in {Blank, Garbled} THEN mem[h]
    ELSE [k \in Keys |-> IF mem[h][k] = 0 THEN Content[k] ELSE mem[h][k]]

\* adoptDiskStateLocked: a key on disk beats memory; an unreadable file is
\* passed over.
Adopted(h) ==
    IF Content \in {Blank, Garbled} THEN mem[h]
    ELSE [k \in Keys |-> IF Content[k] = 0 THEN mem[h][k] ELSE Content[k]]

Flushing(h) == pc[h] \in {"truncate", "write", "rename"}
MayFlush(h) == pc[h] = "idle" /\ (Overlap \/ \A g \in Handles : ~Flushing(g))

Fault == faults < MaxFaults /\ faults' = faults + 1

Goto(h, place) == pc' = [pc EXCEPT ![h] = place]
-----------------------------------------------------------------------------
Init ==
    /\ file = [i \in Inodes |-> Blank] /\ stateAt = None /\ tmpAt = None
    /\ pc = [h \in Handles |-> "down"] /\ mem = [h \in Handles |-> Empty]
    /\ fd = [h \in Handles |-> None] /\ job = [h \in Handles |-> NoJob]
    /\ durable = Empty /\ writes = 0 /\ sweeps = 0 /\ faults = 0

\* Open fails, and the process does not start, on a file that does not decode.
Open(h) ==
    /\ pc[h] = "down" /\ Content # Garbled
    /\ Goto(h, "idle") /\ mem' = [mem EXCEPT ![h] = Loaded]
    /\ UNCHANGED <<directory, fd, job, durable, writes, sweeps, faults>>

\* Exit or kill, between any two system calls.
Stop(h) ==
    /\ pc[h] # "down"
    /\ Goto(h, "down") /\ mem' = [mem EXCEPT ![h] = Empty]
    /\ fd' = [fd EXCEPT ![h] = None] /\ job' = [job EXCEPT ![h] = NoJob]
    /\ UNCHANGED <<directory, durable, writes, sweeps, faults>>

\* PutState up to the flush: adopt, then set the key.
Put(h, k) ==
    /\ MayFlush(h)
    /\ writes < MaxWrites /\ writes' = writes + 1
    /\ mem' = [mem EXCEPT ![h] = [Adopted(h) EXCEPT ![k] = writes + 1]]
    /\ job' = [job EXCEPT ![h] = [puts |-> {k}, drops |-> {}]]
    /\ Goto(h, "truncate")
    /\ UNCHANGED <<directory, fd, durable, sweeps, faults>>

\* The end of Compact: drop the verdicts whose row left the log, from memory,
\* and flush memory.
Sweep(h, S) ==
    /\ MayFlush(h)
    /\ sweeps < MaxSweeps /\ sweeps' = sweeps + 1
    /\ StaleSweep \/ \A k \in Keys : mem[h][k] >= Adopted(h)[k]
    /\ mem' = [mem EXCEPT ![h] = [k \in Keys |-> IF k \in S THEN 0 ELSE @[k]]]
    /\ job' = [job EXCEPT ![h] = [puts |-> {}, drops |-> S]]
    /\ Goto(h, "truncate")
    /\ UNCHANGED <<directory, fd, durable, writes, faults>>

\* Mutant: the flush opens state.json itself.
TruncateInPlace(h) ==
    /\ pc[h] = "truncate"
    /\ LET i == CHOOSE i \in Inodes : IF stateAt = None THEN i # tmpAt ELSE i = stateAt IN
         /\ stateAt' = i /\ file' = [file EXCEPT ![i] = Blank]
         /\ fd' = [fd EXCEPT ![h] = i]
    /\ Goto(h, "write")
    /\ UNCHANGED <<tmpAt, mem, job, durable, writes, sweeps, faults>>

\* flushStateLocked, call by call.  O_CREATE|O_TRUNC on the temporary name: the
\* inode already there, whoever is writing it, or a new one.
Truncate(h) ==
    /\ pc[h] = "truncate"
    /\ LET i == IF tmpAt # None THEN tmpAt
                ELSE CHOOSE i \in Inodes : i # stateAt /\ \A g \in Handles : fd[g] # i IN
         /\ tmpAt' = i /\ file' = [file EXCEPT ![i] = Blank]
         /\ fd' = [fd EXCEPT ![h] = i]
    /\ Goto(h, "write")
    /\ UNCHANGED <<stateAt, mem, job, durable, writes, sweeps, faults>>

\* Two tables written over each other from offset 0 leave the longer one's tail.
Overlaid(h) ==
    IF file[fd[h]] \in {Blank, mem[h]} THEN {mem[h]} ELSE {mem[h], Garbled}

\* Encode and Sync.
Write(h) ==
    /\ pc[h] = "write"
    /\ \E c \in Overlaid(h) : file' = [file EXCEPT ![fd[h]] = c]
    /\ Goto(h, "rename")
    /\ UNCHANGED <<stateAt, tmpAt, mem, fd, job, durable, writes, sweeps, faults>>

\* Mutant: the flush returns with the temporary file still open.
DoneLeavesOpen(h) == /\ Goto(h, "idle") /\ job' = [job EXCEPT ![h] = NoJob]
                     /\ UNCHANGED <<fd, mem, writes, sweeps>>

Done(h) == /\ Goto(h, "idle")
           /\ fd' = [fd EXCEPT ![h] = None] /\ job' = [job EXCEPT ![h] = NoJob]
           /\ UNCHANGED <<mem, writes, sweeps>>

\* The open failed, or the write did and the temporary name was removed: memory
\* keeps what the file never got.
FlushFails(h) ==
    /\ pc[h] \in {"truncate", "write"} /\ Fault
    /\ IF pc[h] = "write"
       THEN tmpAt' = None /\ \E c \in {file[fd[h]], Garbled} : file' = [file EXCEPT ![fd[h]] = c]
       ELSE UNCHANGED <<tmpAt, file>>
    /\ Done(h)
    /\ UNCHANGED <<stateAt, durable>>

\* Rename moves whatever the temporary name refers to.
Rename(h) ==
    /\ pc[h] = "rename"
    /\ \/ /\ tmpAt # None
          /\ stateAt' = tmpAt /\ tmpAt' = None
          /\ durable' = [k \in Keys |-> CASE k \in job[h].puts -> mem[h][k]
                                          [] k \in job[h].drops -> 0
                                          [] OTHER -> durable[k]]
          /\ UNCHANGED faults
       \/ /\ tmpAt = None
          /\ UNCHANGED <<stateAt, tmpAt, durable, faults>>
       \/ Fault /\ UNCHANGED <<stateAt, tmpAt, durable>>
    /\ Done(h)
    /\ UNCHANGED file

Next ==
    \E h \in Handles :
        \/ Open(h) \/ Stop(h) \/ Truncate(h) \/ Write(h) \/ FlushFails(h) \/ Rename(h)
        \/ \E k \in Keys : Put(h, k)
        \/ \E S \in SUBSET Prunable : Sweep(h, S)

Spec == Init /\ [][Next]_vars
-----------------------------------------------------------------------------
(***************************************************************************)
(* Properties                                                              *)
(***************************************************************************)

\* An acknowledged PutState is not rolled back: whichever process wrote the key
\* and whichever writes next, with whatever it remembers, state.json holds the
\* acknowledged value or a later one.
LatestWriteSurvives ==
    Content # Garbled => \A k \in Keys : Loaded[k] >= durable[k]

\* Through crashes and failed calls state.json implements the table of module
\* KeyTable: whole at every instant, each key moving forward or pruned.
Table == INSTANCE KeyTable WITH table <- Loaded
ImplementsKeyTable == Table!Spec
=============================================================================
