----------------------------- MODULE RadosDataset -----------------------------
(***************************************************************************)
(* attach/test/ceph_doca_read_bench.c: the read benchmark's data in RADOS  *)
(* and the processes that work on it.                                      *)
(*                                                                         *)
(* "write" and "write-raw" store a directory of logs as numbered objects,  *)
(* compressed or plain, under a prefix, and the manifest of the prefix     *)
(* last.  "bench" reads both manifests, and reads every object of the two  *)
(* prefixes, raw and through DOCA in turn.  These are separate commands:   *)
(* a write may be interrupted between two objects, run again over what is  *)
(* there, and run while a benchmark reads (two writes under one prefix at  *)
(* the same time are left out: nothing in the code provides for them).     *)
(* rados_write_full() replaces an object atomically.                       *)
(*                                                                         *)
(* A version is what the directory contains when it is written; sizes are  *)
(* counted in units, of which an object holds ObjectUnits (4 MiB).         *)
(***************************************************************************)
EXTENDS Integers, FiniteSets

CONSTANTS
  Versions,      \* what the dataset directory may contain
  ObjectUnits,   \* OBJECT_BYTES, in units
  MaxUnits,      \* bound on the size of a version
  Rounds         \* rounds of the benchmark

ASSUME VersionsAssumption == 0 \notin Versions
ASSUME UnitsAssumption  == ObjectUnits \in Nat \ {0} /\ MaxUnits \in Nat
ASSUME RoundsAssumption == Rounds \in Nat \ {0}

VARIABLES
  units,      \* version -> its size
  object,     \* prefix -> object number -> the object
  manifest,   \* prefix -> its manifest
  writer,     \* prefix -> the write command at work on it
  dirty,      \* prefix -> a write began after the last manifest    (history)
  pc,         \* where the benchmark is
  read,       \* prefix -> the manifest the benchmark has read
  step,       \* how many passes over a dataset it has made
  index,      \* the next object of the current pass
  bytes,      \* prefix -> units read by the current or last pass
  seen,       \* prefix -> versions of the objects read             (history)
  clean       \* no write has begun, nor was any unfinished, since
              \* the benchmark read the manifests                   (history)

store   == <<object, manifest, writer, dirty>>
bench   == <<pc, read, step, index, bytes, seen>>
vars    == <<units, store, bench, clean>>

Prefixes   == {"compressed", "raw"}
None       == [ver |-> 0, units |-> 0]
Count(n)   == (n + ObjectUnits - 1) \div ObjectUnits
MaxCount   == Count(MaxUnits)
Numbers    == 0 .. MaxCount - 1
\* The size of object i of a dataset of n units.
Chunk(n, i) == IF i + 1 = Count(n) THEN n - i * ObjectUnits ELSE ObjectUnits

NoWriter == [ver |-> 0, next |-> 0]

Init ==
  /\ units \in [Versions -> 0 .. MaxUnits]
  /\ object = [p \in Prefixes |-> [i \in Numbers |-> None]]
  /\ manifest = [p \in Prefixes |-> None]
  /\ writer = [p \in Prefixes |-> NoWriter]
  /\ dirty = [p \in Prefixes |-> FALSE]
  /\ pc = "idle"
  /\ read = [p \in Prefixes |-> None]
  /\ step = 0
  /\ index = 0
  /\ bytes = [p \in Prefixes |-> 0]
  /\ seen = [p \in Prefixes |-> {}]
  /\ clean = FALSE

-----------------------------------------------------------------------------
(* write_compressed_dataset(), write_raw_dataset()                          *)

Writing(p) == writer[p] # NoWriter

BeginWrite(p, v) ==
  /\ ~Writing(p)
  /\ writer' = [writer EXCEPT ![p] = [ver |-> v, next |-> 0]]
  /\ dirty' = [dirty EXCEPT ![p] = TRUE]
  /\ clean' = FALSE
  /\ UNCHANGED <<units, object, manifest, bench>>

\* mutant: the object after the last one is written too
WriteObject_OneMore(p) ==
  LET w == writer[p]
  IN  /\ Writing(p)
      /\ w.next <= Count(units[w.ver])
      /\ object' = [object EXCEPT ![p][w.next] =
                      [ver |-> w.ver, units |-> Chunk(units[w.ver], w.next)]]
      /\ writer' = [writer EXCEPT ![p].next = @ + 1]
      /\ UNCHANGED <<units, manifest, dirty, bench, clean>>

\* The next full object, or what is left at the end of the last file.
WriteObject(p) ==
  LET w == writer[p]
  IN  /\ Writing(p)
      /\ w.next < Count(units[w.ver])
      /\ object' = [object EXCEPT ![p][w.next] =
                      [ver |-> w.ver, units |-> Chunk(units[w.ver], w.next)]]
      /\ writer' = [writer EXCEPT ![p].next = @ + 1]
      /\ UNCHANGED <<units, manifest, dirty, bench, clean>>

\* mutant: the end of the last file is not written
AllWritten_FullOnly(w) == w.next >= units[w.ver] \div ObjectUnits

AllWritten(w) == w.next = Count(units[w.ver])

\* The manifest: object_count and total_raw_size.
WriteManifest(p) ==
  /\ Writing(p)
  /\ AllWritten(writer[p])
  /\ manifest' = [manifest EXCEPT ![p] =
                    [ver |-> writer[p].ver, units |-> units[writer[p].ver]]]
  /\ writer' = [writer EXCEPT ![p] = NoWriter]
  /\ dirty' = [dirty EXCEPT ![p] = FALSE]
  /\ UNCHANGED <<units, object, bench, clean>>

\* A read or write fails, or the command is killed.
WriteStops(p) ==
  /\ Writing(p)
  /\ writer' = [writer EXCEPT ![p] = NoWriter]
  /\ UNCHANGED <<units, object, manifest, dirty, bench, clean>>

-----------------------------------------------------------------------------
(* benchmark_reads()                                                        *)

\* mutant: only the object counts are compared
SameSize_CountOnly(a, b) == Count(a.units) = Count(b.units)

SameSize(a, b) == a.units = b.units        \* hence as many objects

\* The manifest of the compressed objects.
BeginBench ==
  /\ pc \in {"idle", "done", "failed"}
  /\ manifest["compressed"] # None
  /\ read' = [read EXCEPT !["compressed"] = manifest["compressed"]]
  /\ pc' = "manifest"
  /\ clean' = \A p \in Prefixes : ~dirty[p]
  /\ UNCHANGED <<units, store, step, index, bytes, seen>>

\* The manifest of the raw objects, and the comparison of the two.
ReadRawManifest ==
  /\ pc = "manifest"
  /\ read' = [read EXCEPT !["raw"] = manifest["raw"]]
  /\ pc' = IF manifest["raw"] # None /\ SameSize(read["compressed"], manifest["raw"])
           THEN "pass" ELSE "failed"
  /\ step' = 0
  /\ index' = 0
  /\ bytes' = [p \in Prefixes |-> 0]
  /\ seen' = [p \in Prefixes |-> {}]
  /\ UNCHANGED <<units, store, clean>>

\* A warm-up of each method, then the rounds, the odd ones raw first.
Order(s)  == IF s % 4 \in {0, 3} THEN "raw" ELSE "compressed"
Method(s) == IF s < 2 THEN Order(s) ELSE Order(s - 2)
Passes    == 2 + 2 * Rounds

InPass(p) == pc = "pass" /\ Method(step) = p /\ index < Count(read[p].units)

\* expected_size, from the manifest.
Expected(i) == Chunk(read["raw"].units, i)

Keep(p) ==
  /\ index' = index + 1
  /\ bytes' = [bytes EXCEPT ![p] = @ + object[p][index].units]
  /\ seen' = [seen EXCEPT ![p] = @ \union {object[p][index].ver}]
  /\ UNCHANGED <<units, store, pc, read, step, clean>>

\* mutant: the size of the object is not checked
ReadRaw_Unchecked ==
  /\ InPass("raw")
  /\ object["raw"][index] # None
  /\ Keep("raw")

\* run_raw_read_method(): the object must have the expected size.
ReadRaw ==
  /\ InPass("raw")
  /\ object["raw"][index] # None
  /\ object["raw"][index].units = Expected(index)
  /\ Keep("raw")

\* run_read_method(): the object must agree with its own header (length and
\* CRC32), which a completely written object does.
ReadCompressed ==
  /\ InPass("compressed")
  /\ object["compressed"][index] # None
  /\ Keep("compressed")

\* rados_read(), a check, the decompression or setting up DOCA fails.
ReadFails ==
  /\ pc = "pass"
  /\ pc' = "failed"
  /\ UNCHANGED <<units, store, read, step, index, bytes, seen, clean>>

\* The end of a pass; after the last one the summary is printed.
EndPass ==
  /\ pc = "pass"
  /\ index = Count(read[Method(step)].units)
  /\ index' = 0
  /\ step' = step + 1
  /\ IF step' < Passes
     THEN pc' = "pass" /\ bytes' = [bytes EXCEPT ![Method(step')] = 0]
     ELSE pc' = "done" /\ UNCHANGED bytes
  /\ UNCHANGED <<units, store, read, seen, clean>>

Writer(p) == WriteObject(p) \/ WriteManifest(p) \/ WriteStops(p)
Bench     == BeginBench \/ ReadRawManifest \/ ReadRaw \/ ReadCompressed \/ ReadFails \/ EndPass

Next ==
  \/ \E p \in Prefixes, v \in Versions : BeginWrite(p, v)
  \/ \E p \in Prefixes : Writer(p)
  \/ Bench

Spec == Init /\ [][Next]_vars

-----------------------------------------------------------------------------
(* Properties.                                                              *)

Stored == [ver : {0} \union Versions, units : 0 .. MaxUnits]
TypeOK ==
  /\ units \in [Versions -> 0 .. MaxUnits]
  /\ object \in [Prefixes -> [Numbers -> Stored]]
  /\ manifest \in [Prefixes -> Stored]
  /\ writer \in [Prefixes -> [ver : {0} \union Versions, next : 0 .. MaxCount]]
  /\ dirty \in [Prefixes -> BOOLEAN]
  /\ pc \in {"idle", "manifest", "pass", "done", "failed"}
  /\ read \in [Prefixes -> Stored]
  /\ step \in 0 .. Passes
  /\ index \in 0 .. MaxCount
  /\ bytes \in [Prefixes -> 0 .. MaxCount * ObjectUnits]
  /\ seen \in [Prefixes -> SUBSET Versions]
  /\ clean \in BOOLEAN

\* Whatever write is interrupted, and wherever: the objects a manifest counts
\* exist.  (They may belong to an unfinished later write.)
ManifestCovered ==
  \A p \in Prefixes, i \in Numbers :
    manifest[p] # None /\ i < Count(manifest[p].units) => object[p][i] # None

\* A raw pass that ends without an error has read exactly total_raw_size, even
\* while the objects are being written again under it.
RawPassIsComplete ==
  pc = "pass" /\ Method(step) = "raw" /\ index = Count(read["raw"].units) =>
    bytes["raw"] = read["raw"].units

\* The summary compares like with like: when nothing was being written, both
\* methods have read the same amount, each from the one version its manifest
\* is of.
SummaryIsFair ==
  pc = "done" /\ clean =>
    /\ bytes["compressed"] = bytes["raw"]
    /\ \A p \in Prefixes : seen[p] \subseteq {read[p].ver}
=============================================================================
