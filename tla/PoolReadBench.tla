--------------------------- MODULE PoolReadBench ---------------------------
(***************************************************************************)
(* attach/cephBuild/compress_read_bench.py: the same files are written to  *)
(* a compressed and to a plain pool and read back, round after round.      *)
(*                                                                         *)
(* The program trusts nothing it waits for: a command that fails is        *)
(* reported and ignored (sh), a wait that times out is followed by the     *)
(* next command, a pool is found by name and then used by the id it had    *)
(* when the context was opened.  The files are somebody else's, and may    *)
(* change at any time.  Sizes are in units, ChunkUnits to an object.       *)
(***************************************************************************)
EXTENDS Integers, Sequences, FiniteSets

CONSTANTS
  Files,      \* number of files found by the scan
  MaxSize,    \* bound: units of a file
  ChunkUnits, \* CHUNK_SIZE
  ReadRounds, \* --rounds; 0 for 0 and less
  MaxRuns,    \* bound: how often the program is run
  MaxFaults   \* bound: commands that fail, files that change, deletions and
              \* new pools that are late

ASSUME BoundsAssumption == Files \in Nat \ {0} /\ MaxSize \in Nat \ {0}
ASSUME ChunkAssumption == ChunkUnits \in Nat \ {0}
ASSUME ReadRoundsAssumption == ReadRounds \in Nat

VARIABLES
  size,      \* file -> its size now
  prefix,    \* file -> the prefix of its object names
  pools,     \* pool -> its id (0: none), objects, setting, deletion pending
  lastId,    \* id of the newest pool
  ready,     \* pools whose placement groups are all active+clean
  at,        \* where the program is
  readOnly,  \* --read-only
  todo,      \* pools still to do, the first is the current one
  io,        \* pool id of the open io context, 0 if there is none
  f, chunk, offset,  \* write_files: file, chunk_i, file position
  list,      \* read_all: oid_list, as places <<file, chunk>>
  left,      \* read_all: the places the current round has still to read
  got,       \* read_all: rd_bytes of the current round
  round,     \* read_all: rounds finished
  total,     \* read_all: total_bytes, of the last round
  results,   \* results of this run
  runs, faults,
  intact,    \* pools that hold one whole write of the files as they are (history)
  blame,     \* a pool or a file this run depends on has changed (history)
  late       \* a pool of this run was used before it was ready (history)

cluster == <<pools, lastId, ready>>
writing == <<f, chunk, offset>>
reading == <<list, left, got, round, total>>
poolVars == <<size, prefix, cluster, at, readOnly, todo, io, writing, reading,
              results, runs, faults, intact, blame, late>>

Pools  == {"po1", "po1_raw"}
NoPool == [id |-> 0, objects |-> [oid \in {} |-> 0], mode |-> "unset", dying |-> FALSE]
pool   == Head(todo)
Oid(file, c) == <<prefix[file], c>>

\* (fsize + CHUNK_SIZE - 1) // CHUNK_SIZE
Chunks(n) == (n + ChunkUnits - 1) \div ChunkUnits

\* rel.replace("/", "_").replace(".", "_"): two files may have one prefix.
PoolInit ==
  /\ size \in [1 .. Files -> 0 .. MaxSize]
  /\ prefix \in [1 .. Files -> 1 .. Files]
  /\ pools = [p \in Pools |-> NoPool] /\ lastId = 0 /\ ready = {}
  /\ at = "idle" /\ readOnly = FALSE /\ todo = <<>> /\ io = 0
  /\ f = 1 /\ chunk = 0 /\ offset = 0
  /\ list = {} /\ left = {} /\ got = 0 /\ round = 0 /\ total = 0
  /\ results = {} /\ runs = 0 /\ faults = 0
  /\ intact = {} /\ blame = FALSE /\ late = FALSE

Fault   == faults < MaxFaults /\ faults' = faults + 1
NoFault == UNCHANGED <<faults, blame, late>>

-----------------------------------------------------------------------------
(* main and bench_pool.                                                     *)

\* What a read-only run finds may have been spoilt by an earlier run, or may
\* not be ready yet.
Begin(ro, skipRaw) ==
  /\ at = "idle"
  /\ runs < MaxRuns
  /\ runs' = runs + 1
  /\ readOnly' = ro
  /\ todo' = IF skipRaw THEN <<"po1">> ELSE <<"po1", "po1_raw">>
  /\ results' = {}
  /\ blame' = (ro /\ \E k \in DOMAIN todo' : todo'[k] \notin intact)
  /\ late' = (ro /\ \E k \in DOMAIN todo' : todo'[k] \notin ready)
  /\ at' = IF ro THEN "connect" ELSE "exists"
  /\ UNCHANGED <<size, prefix, cluster, io, writing, reading, faults, intact>>

\* create_pool: an existing pool is deleted first.
FindPool ==
  /\ at = "exists"
  /\ at' = IF pools[pool].id # 0 THEN "delete" ELSE "create"
  /\ NoFault
  /\ UNCHANGED <<size, prefix, cluster, readOnly, todo, io, writing, reading,
                 results, runs, intact>>

DeletePool ==
  /\ at = "delete"
  /\ pools' = [pools EXCEPT ![pool] = NoPool]
  /\ ready' = ready \ {pool}
  /\ intact' = intact \ {pool}
  /\ at' = "create"
  /\ NoFault
  /\ UNCHANGED <<size, prefix, lastId, readOnly, todo, io, writing, reading,
                 results, runs>>

\* The command fails, or the pool outlives the 120 seconds of the two loops.
DeleteFails(slow) ==
  /\ at = "delete"
  /\ Fault
  /\ pools' = [pools EXCEPT ![pool].dying = slow]
  /\ at' = "create"
  /\ UNCHANGED <<blame, late, size, prefix, lastId, ready, readOnly, todo, io,
                 writing, reading, results, runs, intact>>

PoolVanishes(p) ==
  /\ pools[p].dying
  /\ pools' = [pools EXCEPT ![p] = NoPool]
  /\ ready' = ready \ {p}
  /\ intact' = intact \ {p}
  /\ blame' = TRUE
  /\ UNCHANGED <<late, size, prefix, lastId, at, readOnly, todo, io, writing,
                 reading, results, runs, faults>>

\* "osd pool create" of a pool that is still there changes nothing.  The
\* placement groups of a new pool are not active yet.
CreatePool ==
  /\ at = "create"
  /\ IF pools[pool].id = 0
     THEN /\ lastId' = lastId + 1
          /\ pools' = [pools EXCEPT ![pool] = [NoPool EXCEPT !.id = lastId']]
     ELSE UNCHANGED <<pools, lastId>>
  /\ at' = "wait"
  /\ NoFault
  /\ UNCHANGED <<size, prefix, ready, readOnly, todo, io, writing, reading,
                 results, runs, intact>>

CreateFails ==
  /\ at = "create"
  /\ Fault
  /\ blame' = (blame \/ pools[pool].id = 0)
  /\ at' = "wait"
  /\ UNCHANGED <<late, size, prefix, cluster, readOnly, todo, io, writing,
                 reading, results, runs, intact>>

PoolBecomesReady(p) ==
  /\ pools[p].id # 0 /\ p \notin ready
  /\ ready' = ready \union {p}
  /\ NoFault
  /\ UNCHANGED <<size, prefix, pools, lastId, at, readOnly, todo, io, writing,
                 reading, results, runs, intact>>

\* mutant: any(...) for all(...), of PGs the first of which is soon ready
WaitReady_Any ==
  /\ at = "wait"
  /\ at' = "set"
  /\ NoFault
  /\ UNCHANGED <<size, prefix, cluster, readOnly, todo, io, writing, reading,
                 results, runs, intact>>

\* wait_pool_ready sees every placement group active+clean.
WaitReady ==
  /\ at = "wait"
  /\ pool \in ready
  /\ at' = "set"
  /\ NoFault
  /\ UNCHANGED <<size, prefix, cluster, readOnly, todo, io, writing, reading,
                 results, runs, intact>>

\* After 180 seconds it gives up, and its caller does not look at what it
\* returns.  Where there is no pool there is nothing to wait for.
WaitTimesOut ==
  /\ at = "wait"
  /\ pool \notin ready
  /\ IF pools[pool].id = 0 THEN NoFault
     ELSE Fault /\ late' = TRUE /\ blame' = blame
  /\ at' = "set"
  /\ UNCHANGED <<size, prefix, cluster, readOnly, todo, io, writing, reading,
                 results, runs, intact>>

SetMode ==
  /\ at = "set"
  /\ pools' = IF pools[pool].id = 0 THEN pools
              ELSE [pools EXCEPT ![pool].mode = IF pool = "po1" THEN "zlib" ELSE "none"]
  /\ at' = "connect"
  /\ NoFault
  /\ UNCHANGED <<size, prefix, lastId, ready, readOnly, todo, io, writing, reading,
                 results, runs, intact>>

\* connect and open_ioctx: the name is looked up now, and never again.
Connect ==
  /\ at = "connect"
  /\ pools[pool].id # 0
  /\ io' = pools[pool].id
  /\ f' = 1 /\ chunk' = 0 /\ offset' = 0
  /\ IF readOnly THEN at' = "list" /\ intact' = intact
                 ELSE at' = "write" /\ intact' = intact \ {pool}
  /\ NoFault
  /\ UNCHANGED <<size, prefix, cluster, readOnly, todo, reading, results, runs>>

ConnectRaises ==
  /\ at = "connect"
  /\ pools[pool].id = 0
  /\ at' = "raised"
  /\ NoFault
  /\ UNCHANGED <<size, prefix, cluster, readOnly, todo, io, writing, reading,
                 results, runs, intact>>

-----------------------------------------------------------------------------
(* write_files.                                                             *)

Usable == pools[pool].id = io
Left   == size[f] - offset
\* What a read returns where n units of the file are left.
Piece(n) == IF n < ChunkUnits THEN n ELSE ChunkUnits

Put(p, oid, n) ==
  [pools EXCEPT ![p].objects =
     [o \in DOMAIN @ \union {oid} |-> IF o = oid THEN n ELSE @[o]]]

\* mutant: the empty read at the end of a file is written too
WriteChunk_Empty ==
  /\ at = "write"
  /\ f <= Files /\ Left >= 0
  /\ Usable
  /\ pools' = Put(pool, Oid(f, chunk), Piece(Left))
  /\ chunk' = chunk + 1
  /\ offset' = offset + Piece(Left)
  /\ NoFault
  /\ UNCHANGED <<size, prefix, lastId, ready, at, readOnly, todo, io, f, reading,
                 results, runs, intact>>

WriteChunk ==
  /\ at = "write"
  /\ f <= Files /\ Left > 0
  /\ Usable
  /\ pools' = Put(pool, Oid(f, chunk), Piece(Left))
  /\ chunk' = chunk + 1
  /\ offset' = offset + Piece(Left)
  /\ NoFault
  /\ UNCHANGED <<size, prefix, lastId, ready, at, readOnly, todo, io, f, reading,
                 results, runs, intact>>

NextFile ==
  /\ at = "write"
  /\ f <= Files /\ Left <= 0
  /\ f' = f + 1 /\ chunk' = 0 /\ offset' = 0
  /\ NoFault
  /\ UNCHANGED <<size, prefix, cluster, at, readOnly, todo, io, reading,
                 results, runs, intact>>

\* The files were read one after the other: whole only if none has changed.
EndWrite ==
  /\ at = "write"
  /\ f > Files
  /\ at' = "list"
  /\ intact' = IF blame THEN intact ELSE intact \union {pool}
  /\ NoFault
  /\ UNCHANGED <<size, prefix, cluster, readOnly, todo, io, writing, reading,
                 results, runs>>

-----------------------------------------------------------------------------
(* read_all.                                                                *)

Places == UNION {{x} \X (0 .. Chunks(size[x]) - 1) : x \in 1 .. Files}

\* The list is built from the sizes the files have now.
BuildList ==
  /\ at = "list"
  /\ list' = Places /\ left' = list'
  /\ got' = 0 /\ round' = 0 /\ total' = 0
  /\ at' = IF ReadRounds = 0 THEN "result" ELSE "read"
  /\ NoFault
  /\ UNCHANGED <<size, prefix, cluster, readOnly, todo, io, writing, results,
                 runs, intact>>

Before(a, b) == a[1] < b[1] \/ (a[1] = b[1] /\ a[2] < b[2])
IsNext(o)    == o \in left /\ \A q \in left : ~Before(q, o)
Held(o)      == Oid(o[1], o[2]) \in DOMAIN pools[pool].objects

ReadObject ==
  /\ at = "read"
  /\ Usable
  /\ \E o \in left :
       /\ IsNext(o)
       /\ Held(o)
       /\ got' = got + pools[pool].objects[Oid(o[1], o[2])]
       /\ left' = left \ {o}
  /\ NoFault
  /\ UNCHANGED <<size, prefix, cluster, at, readOnly, todo, io, writing, list,
                 round, total, results, runs, intact>>

\* mutant: rd_bytes is set to zero before the first round only
EndRound_KeepsBytes ==
  /\ at = "read"
  /\ left = {}
  /\ round' = round + 1
  /\ total' = got
  /\ left' = list
  /\ at' = IF round' = ReadRounds THEN "result" ELSE "read"
  /\ NoFault
  /\ UNCHANGED <<size, prefix, cluster, readOnly, todo, io, writing, list, got,
                 results, runs, intact>>

EndRound ==
  /\ at = "read"
  /\ left = {}
  /\ round' = round + 1
  /\ total' = got
  /\ left' = list /\ got' = 0
  /\ at' = IF round' = ReadRounds THEN "result" ELSE "read"
  /\ NoFault
  /\ UNCHANGED <<size, prefix, cluster, readOnly, todo, io, writing, list,
                 results, runs, intact>>

\* The bytes of the last round stand for all of them.
Result ==
  /\ at = "result"
  /\ results' = results \union
       {[pool |-> pool, bytes |-> total, clean |-> ~blame]}
  /\ io' = 0
  /\ todo' = Tail(todo)
  /\ at' = IF Len(todo) = 1 THEN "idle" ELSE IF readOnly THEN "connect" ELSE "exists"
  /\ NoFault
  /\ UNCHANGED <<size, prefix, cluster, readOnly, writing, reading, runs, intact>>

\* The context's pool is gone, the object is not there, or the pool is not ready
\* and refuses what it might also have done (ObjectNotFound): finally closes
\* both handles.
OperationRaises ==
  /\ \/ at = "write" /\ f <= Files /\ Left > 0 /\ ~(Usable /\ pool \in ready)
     \/ at = "read" /\ \E o \in left : IsNext(o) /\ ~(Usable /\ pool \in ready /\ Held(o))
  /\ at' = "raised"
  /\ io' = 0
  /\ NoFault
  /\ UNCHANGED <<size, prefix, cluster, readOnly, todo, writing, reading,
                 results, runs, intact>>

\* The exception ends this run; the operator may start another.
Exit ==
  /\ at = "raised"
  /\ at' = "idle" /\ todo' = <<>>
  /\ NoFault
  /\ UNCHANGED <<size, prefix, cluster, readOnly, io, writing, reading, results,
                 runs, intact>>

\* A file grows or shrinks; no pool holds the files as they are any more.
FileChanges(x, n) ==
  /\ Fault
  /\ blame' = TRUE
  /\ n # size[x]
  /\ size' = [size EXCEPT ![x] = n]
  /\ intact' = {}
  /\ UNCHANGED <<late, prefix, cluster, at, readOnly, todo, io, writing, reading,
                 results, runs>>

Ended == at = "idle" /\ runs = MaxRuns /\ UNCHANGED poolVars

Create == FindPool \/ DeletePool \/ CreatePool \/ CreateFails
Await  == WaitReady \/ WaitTimesOut \/ SetMode
Write  == WriteChunk \/ NextFile \/ EndWrite
Read   == BuildList \/ ReadObject \/ EndRound \/ Result

PoolNext ==
  \/ \E ro, skipRaw \in BOOLEAN : Begin(ro, skipRaw)
  \/ Create \/ Await \/ Connect \/ ConnectRaises \/ Write \/ Read
  \/ \E slow \in BOOLEAN : DeleteFails(slow)
  \/ \E p \in Pools : PoolVanishes(p) \/ PoolBecomesReady(p)
  \/ OperationRaises \/ Exit
  \/ \E x \in 1 .. Files, n \in 0 .. MaxSize : FileChanges(x, n)
  \/ Ended

PoolSpec == PoolInit /\ [][PoolNext]_poolVars

-----------------------------------------------------------------------------
(* Properties.                                                              *)

PoolTypeOK ==
  /\ size \in [1 .. Files -> 0 .. MaxSize]
  /\ \A p \in Pools :
       /\ pools[p].id \in 0 .. lastId
       /\ pools[p].mode \in {"unset", "zlib", "none"}
       /\ \A oid \in DOMAIN pools[p].objects : pools[p].objects[oid] \in 1 .. ChunkUnits
  /\ io \in 0 .. lastId
  /\ ready \subseteq {p \in Pools : pools[p].id # 0}
  /\ f \in 1 .. Files + 1
  /\ left \subseteq list
  /\ round \in 0 .. ReadRounds
  /\ intact \subseteq Pools

Distinct == \A x, y \in 1 .. Files : prefix[x] = prefix[y] => x = y
Bytes    == Cardinality(UNION {{x} \X (1 .. size[x]) : x \in 1 .. Files})

\* A result obtained while nothing failed or changed counts every unit of
\* every file once, in a run that wrote the pool and in a read-only run over a
\* pool an earlier run has written, provided no two files share a prefix (with
\* --rounds 0 nothing is read, and it counts nothing).  A pool that could not be
\* deleted, with an earlier run's objects, does no harm, nor does a pool that
\* was used before it was ready, if it refuses nothing.
ReadsEveryFile ==
  Distinct /\ ~blame =>
    \A r \in results : r.clean => r.bytes = IF ReadRounds = 0 THEN 0 ELSE Bytes

\* An exception leaves the program only if a pool could not be created or was
\* late to go, a file changed, a read-only run was given less than a whole
\* write, or a pool was not ready when wait_pool_ready gave up on it (or when a
\* read-only run began).  Two files with one prefix raise nothing: what the
\* first has written is overwritten, never missing.
RaisesForAReason == at = "raised" => blame \/ late
=============================================================================
