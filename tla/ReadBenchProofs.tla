------------------------- MODULE ReadBenchProofs -------------------------
(***************************************************************************)
(* Proofs about the two read benchmarks.                                   *)
(*                                                                         *)
(* RadosDataset, for any versions of any sizes, any object size and any    *)
(* number of rounds: a manifest counts only objects that exist, a raw pass *)
(* reads exactly what its manifest says, and the summary of a benchmark    *)
(* during which nothing was written is fair.  The argument goes from the   *)
(* writer to the reader: the objects a writer has passed are those of its  *)
(* version (Written), so the objects under a manifest are, until the next  *)
(* write begins (Faithful); the benchmark reads them one by one (Passing), *)
(* and what it has read of the other prefix stays as the last pass over it *)
(* left it (Others).                                                       *)
(*                                                                         *)
(* PoolReadBench, for any files of any sizes, any chunk size, any rounds,  *)
(* runs and faults: results are complete, and exceptions have reasons.     *)
(* What write_files has passed is in the pool (Copied), so a pool it has   *)
(* finished is whole, and stays whole until something spoils it (Kept);    *)
(* a run works only on such a pool, through a context that is still the    *)
(* pool's (Prepared, Counted), and each round gets what its places hold    *)
(* (Counted).  The places of the list hold every unit once (PlacesCover).  *)
(* A pool is used before it is ready only where `late' says so (PoolReady).*)
(***************************************************************************)
EXTENDS RadosDataset, PoolReadBench, FiniteSetTheorems, TLAPS

\* Object i of a dataset of n units, of version v.
Sized(v, n, i) == [ver |-> v, units |-> Chunk(n, i)]

\* What the first i objects of a dataset of n units come to.
Prefix(n, i) == IF i = Count(n) THEN n ELSE i * ObjectUnits

Types ==
  /\ units \in [Versions -> 0 .. MaxUnits]
  /\ object = [p \in Prefixes |-> [i \in Numbers |-> object[p][i]]]
  /\ manifest \in [Prefixes -> [ver : {0} \union Versions, units : 0 .. MaxUnits]]
  /\ writer \in [Prefixes -> [ver : {0} \union Versions, next : Nat]]
  /\ dirty \in [Prefixes -> BOOLEAN]
  /\ pc \in {"idle", "manifest", "pass", "done", "failed"}
  /\ read \in [Prefixes -> [ver : {0} \union Versions, units : 0 .. MaxUnits]]
  /\ step \in Nat /\ index \in Nat
  /\ bytes = [p \in Prefixes |-> bytes[p]]
  /\ seen = [p \in Prefixes |-> seen[p]]

Written ==
  \A p \in Prefixes : Writing(p) =>
    /\ writer[p].ver \in Versions
    /\ dirty[p]
    /\ \A i \in Numbers : i < writer[p].next =>
         object[p][i] = Sized(writer[p].ver, units[writer[p].ver], i)

Faithful ==
  \A p \in Prefixes : ~dirty[p] /\ manifest[p] # None =>
    \A i \in Numbers : i < Count(manifest[p].units) =>
      object[p][i] = Sized(manifest[p].ver, manifest[p].units, i)

\* While clean, the manifests the benchmark has read are those of the store.
Stable ==
  clean =>
    /\ pc \in {"manifest", "pass", "done"} =>
         /\ \A p \in Prefixes : ~dirty[p]
         /\ read["compressed"] = manifest["compressed"] /\ manifest["compressed"] # None
    /\ pc \in {"pass", "done"} => read["raw"] = manifest["raw"] /\ manifest["raw"] # None

Same == pc \in {"pass", "done"} => read["compressed"].units = read["raw"].units

Had(p) == \E s \in 0 .. step - 1 : Method(s) = p

\* The amount of a method is known if nothing is written, of the raw one always.
Known(p) == p = "raw" \/ clean

Passing ==
  pc = "pass" =>
    /\ index <= Count(read[Method(step)].units)
    /\ Known(Method(step)) => bytes[Method(step)] = Prefix(read[Method(step)].units, index)

Others ==
  /\ pc = "pass" =>
       \A p \in Prefixes : Had(p) /\ p # Method(step) /\ Known(p) => bytes[p] = read[p].units
  /\ pc = "done" => \A p \in Prefixes : Known(p) => bytes[p] = read[p].units

Seen == clean /\ pc \in {"pass", "done"} => \A p \in Prefixes : seen[p] \subseteq {read[p].ver}

Store == Written /\ Faithful /\ ManifestCovered
Reads == Stable /\ Same /\ Passing /\ Others /\ Seen
IInv  == Types /\ Store /\ Reads

-----------------------------------------------------------------------------
(* The arithmetic of objects.                                               *)

LEMMA Division ==
  ASSUME NEW u \in Nat \ {0}, NEW n \in Nat
  PROVE  /\ (n + u - 1) \div u \in Nat
         /\ (n + u - 1) \div u = 0 => n = 0
  <1> DEFINE q == (n + u - 1) \div u
             r == (n + u - 1) % u
  <1>1. n + u - 1 \in Nat
    OBVIOUS
  <1>2. q \in Int /\ r \in 0 .. u - 1 /\ n + u - 1 = u * q + r
    BY <1>1
  <1>3. q >= 0
    BY <1>1
  <1> HIDE DEF q, r
  <1>4. q = 0 => n = 0
    BY <1>2
  <1> QED
    BY <1>2, <1>3, <1>4 DEF q

LEMMA DivisionGrows ==
  ASSUME NEW u \in Nat \ {0}, NEW m \in Nat, NEW n \in Nat, m <= n
  PROVE  (m + u - 1) \div u <= (n + u - 1) \div u
  OBVIOUS

LEMMA CountOf ==
  /\ \A n \in Nat : Count(n) \in Nat /\ (Count(n) = 0 => n = 0)
  /\ \A n \in 0 .. MaxUnits : \A i \in Nat : i < Count(n) => i \in Numbers
  <1>1. \A n \in Nat : Count(n) \in Nat /\ (Count(n) = 0 => n = 0)
    BY Division, UnitsAssumption DEF Count
  <1>2. \A n \in 0 .. MaxUnits : Count(n) <= MaxCount
    BY DivisionGrows, UnitsAssumption DEF Count, MaxCount
  <1>3. MaxCount \in Nat
    BY <1>1, UnitsAssumption DEF MaxCount
  <1> QED
    BY <1>1, <1>2, <1>3, UnitsAssumption DEF Numbers

\* Reading one object more.
LEMMA PrefixGrows ==
  ASSUME NEW n \in 0 .. MaxUnits, NEW i \in Nat
  PROVE  /\ Prefix(n, 0) = 0
         /\ i < Count(n) => Prefix(n, i) + Chunk(n, i) = Prefix(n, i + 1)
  <1>1. n \in Nat /\ Count(n) \in Nat /\ (Count(n) = 0 => n = 0) /\ ObjectUnits \in Nat
    BY CountOf, UnitsAssumption
  <1>2. Prefix(n, 0) = 0
    BY <1>1 DEF Prefix
  <1>3. i * ObjectUnits + ObjectUnits = (i + 1) * ObjectUnits
    BY <1>1
  <1>4. i * ObjectUnits \in Int
    BY <1>1
  <1>5. ASSUME i < Count(n) PROVE Prefix(n, i) + Chunk(n, i) = Prefix(n, i + 1)
    <2>1. Prefix(n, i) = i * ObjectUnits
      BY <1>1, <1>5 DEF Prefix
    <2>2. CASE i + 1 = Count(n)
      BY <1>1, <1>4, <2>1, <2>2 DEF Prefix, Chunk
    <2>3. CASE i + 1 # Count(n)
      BY <1>3, <2>1, <2>3 DEF Prefix, Chunk
    <2> QED
      BY <2>2, <2>3
  <1> QED
    BY <1>2, <1>5

LEMMA SizedIsSome == \A v, n, i : v # 0 => Sized(v, n, i) # None
  BY DEF Sized, None

\* The first two passes are the warm-ups of the two methods.
LEMMA WarmUps ==
  Method(0) = "raw" /\ Method(1) = "compressed" /\ \A s \in Nat : Method(s) \in Prefixes
  BY DEF Method, Order, Prefixes

-----------------------------------------------------------------------------
(* The writers.                                                             *)

LEMMA InitIInv == Init => IInv
  <1> SUFFICES ASSUME Init PROVE IInv
    OBVIOUS
  <1>1. 0 \in 0 .. MaxUnits /\ None \in [ver : {0} \union Versions, units : 0 .. MaxUnits]
    BY UnitsAssumption DEF None
  <1>2. Types
    BY <1>1 DEF Init, Types, NoWriter
  <1>3. Store
    BY DEF Init, Store, Written, Faithful, ManifestCovered, Writing, NoWriter
  <1>4. Reads
    BY DEF Init, Reads, Stable, Same, Passing, Others, Seen
  <1> QED
    BY <1>2, <1>3, <1>4 DEF IInv

\* A writer at work has a version.
LEMMA WriterHasVersion ==
  ASSUME Types, Written, NEW p \in Prefixes, Writing(p)
  PROVE  /\ writer[p].ver \in Versions /\ writer[p].ver # 0
         /\ units[writer[p].ver] \in 0 .. MaxUnits
         /\ writer[p].next \in Nat /\ dirty[p]
  BY VersionsAssumption DEF Types, Written

LEMMA BeginWriteStep ==
  ASSUME IInv, NEW p \in Prefixes, NEW v \in Versions, BeginWrite(p, v) PROVE IInv'
  <1> USE DEF IInv, Types
  <1>1. /\ writer' = [writer EXCEPT ![p] = [ver |-> v, next |-> 0]]
        /\ dirty' = [dirty EXCEPT ![p] = TRUE] /\ clean' = FALSE
        /\ UNCHANGED <<units, object, manifest, pc, read, step, index, bytes, seen>>
    BY DEF BeginWrite, bench
  <1>2. Types'
    BY <1>1
  <1>3. Written'
    <2>1. \A q \in Prefixes : q # p => (Writing(q)' <=> Writing(q)) /\ writer'[q] = writer[q]
      BY <1>1 DEF Writing
    <2>2. writer'[p] = [ver |-> v, next |-> 0] /\ dirty'[p]
      BY <1>1
    <2>3. \A i \in Numbers : ~(i < 0)
      BY CountOf, UnitsAssumption DEF Numbers, MaxCount
    <2> QED
      BY <1>1, <2>1, <2>2, <2>3 DEF Store, Written
  <1>4. Faithful' /\ ManifestCovered'
    BY <1>1 DEF Store, Faithful, ManifestCovered
  <1>5. Reads'
    <2>1. \A q : Known(q)' => Known(q)
      BY <1>1 DEF Known
    <2>2. \A q : Had(q)' => Had(q)
      BY <1>1 DEF Had
    <2> QED
      BY <1>1, <2>1, <2>2 DEF Reads, Stable, Same, Passing, Others, Seen, Prefix
  <1> QED
    BY <1>2, <1>3, <1>4, <1>5 DEF Store

\* While a write is at work the benchmark is not clean: its claims that depend
\* on the store are void.
LEMMA WriterKeepsReads ==
  ASSUME IInv, NEW p \in Prefixes, Writing(p),
         UNCHANGED <<units, bench, clean>>,
         \A q \in Prefixes : q # p => dirty'[q] = dirty[q] /\ manifest'[q] = manifest[q]
  PROVE  Reads'
  <1>1. dirty[p]
    BY WriterHasVersion DEF IInv, Store
  <1>2. clean => pc \notin {"manifest", "pass", "done"}
    BY <1>1 DEF IInv, Reads, Stable
  <1>3. UNCHANGED <<units, pc, read, step, index, bytes, seen, clean>>
    BY DEF bench
  <1>4. Stable'
    BY <1>2, <1>3 DEF Stable
  <1>5. Same' /\ Seen'
    BY <1>3 DEF IInv, Reads, Same, Seen
  <1>6. Passing' /\ Others'
    BY <1>3 DEF IInv, Reads, Passing, Others, Known, Had, Prefix
  <1> QED
    BY <1>4, <1>5, <1>6 DEF Reads

LEMMA WriteObjectStep == ASSUME IInv, NEW p \in Prefixes, WriteObject(p) PROVE IInv'
  <1> USE DEF IInv, Types
  <1> DEFINE w == writer[p]
  <1>1. /\ Writing(p)
        /\ object' = [object EXCEPT ![p][w.next] = Sized(w.ver, units[w.ver], w.next)]
        /\ writer' = [writer EXCEPT ![p].next = @ + 1]
        /\ UNCHANGED <<units, manifest, dirty, bench, clean>>
    BY DEF WriteObject, Sized
  <1>2. w.ver \in Versions /\ w.ver # 0 /\ w.next \in Nat /\ dirty[p]
    BY <1>1, WriterHasVersion DEF Store
  <1>3. \A q \in Prefixes, i \in Numbers :
          object'[q][i] = IF q = p /\ i = w.next THEN Sized(w.ver, units[w.ver], i) ELSE object[q][i]
    BY <1>1
  <1>4. /\ \A q \in Prefixes : q # p => writer'[q] = writer[q]
        /\ writer'[p].ver = w.ver /\ writer'[p].next = w.next + 1
        /\ writer' \in [Prefixes -> [ver : {0} \union Versions, next : Nat]]
    BY <1>1, <1>2
  <1>5. Types'
    <2>1. object' = [q \in Prefixes |-> [i \in Numbers |-> object'[q][i]]]
      BY <1>1
    <2> QED
      BY <1>1, <1>4, <2>1 DEF bench
  <1>6. Written'
    <2> SUFFICES ASSUME NEW q \in Prefixes, Writing(q)'
                 PROVE  /\ writer'[q].ver \in Versions
                        /\ dirty'[q]
                        /\ \A i \in Numbers : i < writer'[q].next =>
                             object'[q][i] = Sized(writer'[q].ver, units'[writer'[q].ver], i)
      BY DEF Written
    <2>2. CASE q = p
      <3>1. \A i \in Numbers : i < w.next => object[p][i] = Sized(w.ver, units[w.ver], i)
        BY <1>1 DEF Store, Written
      <3>2. \A i \in Numbers : i < w.next + 1 => i < w.next \/ i = w.next
        BY <1>2, CountOf, UnitsAssumption DEF Numbers, MaxCount
      <3> QED
        BY <1>1, <1>2, <1>3, <1>4, <2>2, <3>1, <3>2
    <2>3. CASE q # p
      <3>1. Writing(q) /\ writer'[q] = writer[q]
        BY <1>4, <2>3 DEF Writing
      <3> QED
        BY <1>1, <1>3, <2>3, <3>1 DEF Store, Written
    <2> QED
      BY <2>2, <2>3
  <1>7. Faithful'
    BY <1>1, <1>2, <1>3 DEF Store, Faithful
  <1>8. ManifestCovered'
    BY <1>1, <1>2, <1>3, SizedIsSome DEF Store, ManifestCovered
  <1>9. Reads'
    BY <1>1, WriterKeepsReads
  <1> QED
    BY <1>5, <1>6, <1>7, <1>8, <1>9 DEF Store

LEMMA WriteManifestStep == ASSUME IInv, NEW p \in Prefixes, WriteManifest(p) PROVE IInv'
  <1> USE DEF IInv, Types
  <1> DEFINE w == writer[p]
             m == [ver |-> w.ver, units |-> units[w.ver]]
  <1>1. /\ Writing(p) /\ w.next = Count(units[w.ver])
        /\ manifest' = [manifest EXCEPT ![p] = m]
        /\ writer' = [writer EXCEPT ![p] = NoWriter]
        /\ dirty' = [dirty EXCEPT ![p] = FALSE]
        /\ UNCHANGED <<units, object, bench, clean>>
    BY DEF WriteManifest, AllWritten
  <1>2. w.ver \in Versions /\ w.ver # 0 /\ units[w.ver] \in 0 .. MaxUnits
    BY <1>1, WriterHasVersion DEF Store
  <1>3. \A i \in Numbers : i < Count(m.units) =>
          object[p][i] = Sized(m.ver, m.units, i)
    BY <1>1 DEF Store, Written
  <1>4. Types'
    BY <1>1, <1>2 DEF bench, NoWriter
  <1>5. Written'
    BY <1>1 DEF Store, Written, Writing, NoWriter
  <1>6. Faithful'
    BY <1>1, <1>3 DEF Store, Faithful
  <1>7. ManifestCovered'
    <2>1. \A i \in Numbers : i < Count(m.units) => object[p][i] # None
      BY <1>2, <1>3, SizedIsSome
    <2> QED
      BY <1>1, <2>1 DEF Store, ManifestCovered
  <1>8. Reads'
    BY <1>1, WriterKeepsReads
  <1> QED
    BY <1>4, <1>5, <1>6, <1>7, <1>8 DEF Store

LEMMA WriteStopsStep == ASSUME IInv, NEW p \in Prefixes, WriteStops(p) PROVE IInv'
  <1> USE DEF IInv, Types
  <1>1. /\ Writing(p)
        /\ writer' = [writer EXCEPT ![p] = NoWriter]
        /\ UNCHANGED <<units, object, manifest, dirty, bench, clean>>
    BY DEF WriteStops
  <1>2. Types'
    BY <1>1 DEF bench, NoWriter
  <1>3. Written' /\ Faithful' /\ ManifestCovered'
    BY <1>1 DEF Store, Written, Writing, NoWriter, Faithful, ManifestCovered
  <1>4. Reads'
    BY <1>1, WriterKeepsReads
  <1> QED
    BY <1>2, <1>3, <1>4 DEF Store

-----------------------------------------------------------------------------
(* The benchmark.                                                           *)

LEMMA BenchKeepsStore == ASSUME Store, UNCHANGED <<units, store>> PROVE Store'
  BY DEF Store, store, Written, Writing, Faithful, ManifestCovered

LEMMA BeginBenchStep == ASSUME IInv, BeginBench PROVE IInv'
  <1> USE DEF IInv, Types
  <1>1. /\ manifest["compressed"] # None /\ pc' = "manifest"
        /\ read' = [read EXCEPT !["compressed"] = manifest["compressed"]]
        /\ UNCHANGED <<units, object, manifest, writer, dirty, step, index, bytes, seen>>
        /\ clean' = \A p \in Prefixes : ~dirty[p]
    BY DEF BeginBench, store
  <1>2. Types'
    BY <1>1 DEF Prefixes
  <1>3. Store'
    BY BenchKeepsStore DEF BeginBench
  <1>4. read'["compressed"] = manifest["compressed"]
    BY <1>1 DEF Prefixes
  <1>5. Reads'
    BY <1>1, <1>4 DEF Reads, Stable, Same, Passing, Others, Seen
  <1> QED
    BY <1>2, <1>3, <1>5

LEMMA ReadRawManifestStep == ASSUME IInv, ReadRawManifest PROVE IInv'
  <1> USE DEF IInv, Types
  <1>1. /\ pc = "manifest" /\ step' = 0 /\ index' = 0
        /\ read' = [read EXCEPT !["raw"] = manifest["raw"]]
        /\ bytes' = [p \in Prefixes |-> 0] /\ seen' = [p \in Prefixes |-> {}]
        /\ UNCHANGED <<units, object, manifest, writer, dirty, clean>>
        /\ pc' \in {"pass", "failed"}
        /\ pc' = "pass" => manifest["raw"] # None /\ SameSize(read["compressed"], manifest["raw"])
    BY DEF ReadRawManifest, store
  <1>2. Types'
    BY <1>1 DEF Prefixes
  <1>3. Store'
    BY BenchKeepsStore DEF ReadRawManifest
  <1>4. read'["raw"] = manifest["raw"] /\ read'["compressed"] = read["compressed"]
    BY <1>1 DEF Prefixes
  <1>5. Stable' /\ Same' /\ Seen'
    BY <1>1, <1>4 DEF Reads, Stable, Same, SameSize, Seen
  <1>6. Others'
    <2>1. \A p : ~Had(p)'
      BY <1>1 DEF Had
    <2> QED
      BY <1>1, <2>1 DEF Others
  <1>7. Passing'
    <2>1. Method(step)' = "raw" /\ "raw" \in Prefixes
      BY <1>1, WarmUps DEF Prefixes
    <2>2. read'["raw"].units \in 0 .. MaxUnits
      BY <1>2, <2>1
    <2>3. Prefix(read'["raw"].units, 0) = 0 /\ Count(read'["raw"].units) \in Nat
      BY <2>2, PrefixGrows, CountOf
    <2> QED
      BY <1>1, <2>1, <2>3 DEF Passing
  <1> QED
    BY <1>2, <1>3, <1>5, <1>6, <1>7 DEF Reads

\* Where nothing is written, the next object is the one the manifest means.
LEMMA NextObject ==
  ASSUME IInv, clean, NEW p \in Prefixes, InPass(p)
  PROVE  object[p][index] = Sized(read[p].ver, read[p].units, index)
  <1> USE DEF IInv, Types
  <1>1. read[p] = manifest[p] /\ manifest[p] # None /\ ~dirty[p]
    BY DEF InPass, Reads, Stable, Prefixes
  <1>2. index \in Numbers /\ index < Count(manifest[p].units)
    BY <1>1, CountOf DEF InPass
  <1> QED
    BY <1>1, <1>2 DEF Store, Faithful

LEMMA ReadStep == ASSUME IInv, ReadRaw \/ ReadCompressed PROVE IInv'
  <1> USE DEF IInv, Types
  <1>1. PICK p \in Prefixes :
          /\ InPass(p) /\ Keep(p)
          /\ p = "raw" => object[p][index].units = Expected(index)
    BY DEF ReadRaw, ReadCompressed, Prefixes
  <1>2. /\ pc = "pass" /\ Method(step) = p /\ index < Count(read[p].units)
        /\ index' = index + 1
        /\ bytes' = [bytes EXCEPT ![p] = @ + object[p][index].units]
        /\ seen' = [seen EXCEPT ![p] = @ \union {object[p][index].ver}]
        /\ UNCHANGED <<units, object, manifest, writer, dirty, pc, read, step, clean>>
    BY <1>1 DEF InPass, Keep, store
  <1>3. Types'
    <2>1. bytes' = [q \in Prefixes |-> bytes'[q]] /\ seen' = [q \in Prefixes |-> seen'[q]]
      BY <1>2
    <2>2. index' \in Nat
      BY <1>2
    <2> QED
      BY <1>2, <2>1, <2>2
  <1>4. Store'
    BY <1>1, BenchKeepsStore DEF Keep
  <1>5. Stable' /\ Same'
    BY <1>2 DEF Reads, Stable, Same
  <1>6. read[p].units \in 0 .. MaxUnits /\ Count(read[p].units) \in Nat
    BY CountOf
  <1>7. Known(p) => object[p][index].units = Chunk(read[p].units, index)
    <2>1. CASE p = "raw"
      BY <1>1, <2>1 DEF Expected
    <2>2. CASE clean
      <3>1. object[p][index] = Sized(read[p].ver, read[p].units, index)
        BY <1>1, <2>2, NextObject
      <3> QED
        BY <3>1 DEF Sized
    <2> QED
      BY <2>1, <2>2 DEF Known
  <1>8. Passing'
    <2>1. Known(p) => bytes[p] = Prefix(read[p].units, index)
      BY <1>2 DEF Reads, Passing
    <2>2. Known(p) => bytes'[p] = Prefix(read[p].units, index) + Chunk(read[p].units, index)
      BY <1>2, <1>7, <2>1
    <2>3. Prefix(read[p].units, index) + Chunk(read[p].units, index) = Prefix(read[p].units, index + 1)
      BY <1>2, <1>6, PrefixGrows
    <2>4. Known(p)' <=> Known(p)
      BY <1>2 DEF Known
    <2> QED
      BY <1>2, <1>6, <2>2, <2>3, <2>4 DEF Passing
  <1>9. Others'
    <2>1. \A q \in Prefixes : q # p => bytes'[q] = bytes[q]
      BY <1>2
    <2>2. \A q \in Prefixes : (Known(q)' <=> Known(q)) /\ (Had(q)' <=> Had(q))
      BY <1>2 DEF Known, Had
    <2> QED
      BY <1>2, <2>1, <2>2 DEF Reads, Others
  <1>10. Seen'
    <2>1. ASSUME clean PROVE object[p][index].ver = read[p].ver
      <3>1. object[p][index] = Sized(read[p].ver, read[p].units, index)
        BY <1>1, <2>1, NextObject
      <3> QED
        BY <3>1 DEF Sized
    <2> QED
      BY <1>2, <2>1 DEF Reads, Seen
  <1> QED
    BY <1>3, <1>4, <1>5, <1>8, <1>9, <1>10 DEF Reads

LEMMA ReadFailsStep == ASSUME IInv, ReadFails PROVE IInv'
  <1> USE DEF IInv, Types
  <1>1. Types'
    BY DEF ReadFails, store
  <1>2. Store'
    BY BenchKeepsStore DEF ReadFails
  <1>3. Reads'
    BY DEF ReadFails, Reads, Stable, Same, Passing, Others, Seen
  <1> QED
    BY <1>1, <1>2, <1>3

LEMMA OneMore ==
  ASSUME NEW n \in Nat
  PROVE  \A s : s \in 0 .. (n + 1) - 1 <=> s \in 0 .. n - 1 \/ s = n
  OBVIOUS

\* A pass ends with the whole of its dataset read; what the other method has
\* read stays.
LEMMA EndPassStep == ASSUME IInv, EndPass PROVE IInv'
  <1> USE DEF IInv, Types
  <1> DEFINE m == Method(step)
  <1>1. /\ pc = "pass" /\ index = Count(read[m].units) /\ index' = 0 /\ step' = step + 1
        /\ UNCHANGED <<units, object, manifest, writer, dirty, read, seen, clean>>
    BY DEF EndPass, store
  <1>2. \/ pc' = "pass" /\ bytes' = [bytes EXCEPT ![Method(step')] = 0]
        \/ pc' = "done" /\ bytes' = bytes /\ ~(step' < Passes)
    BY DEF EndPass
  <1>3. m \in Prefixes /\ Method(step') \in Prefixes
    <2>1. step \in Nat /\ step' \in Nat
      BY <1>1
    <2> QED
      BY <2>1, WarmUps
  <1>4. Types'
    BY <1>1, <1>2, <1>3
  <1>5. Store'
    BY BenchKeepsStore DEF EndPass
  <1>6. Stable' /\ Same' /\ Seen'
    BY <1>1, <1>2 DEF Reads, Stable, Same, Seen
  <1>7. Known(m) => bytes[m] = read[m].units
    BY <1>1 DEF Reads, Passing, Prefix
  <1>8. \A q \in Prefixes : (Known(q)' <=> Known(q)) /\ (Had(q)' <=> Had(q) \/ q = m)
    <2>1. \A s : s \in 0 .. step' - 1 <=> s \in 0 .. step - 1 \/ s = step
      <3>1. step \in Nat /\ step' = step + 1
        BY <1>1
      <3> QED
        BY <3>1, OneMore
    <2>2. \A q \in Prefixes : Known(q)' <=> Known(q)
      BY <1>1, Zenon DEF Known
    <2> QED
      BY <2>1, <2>2, Zenon DEF Had
  <1>9. \A q \in Prefixes : Had(q)' /\ Known(q) => bytes[q] = read[q].units
    BY <1>1, <1>7, <1>8 DEF Reads, Others
  <1>10. CASE pc' = "pass"
    <2>1. Passing'
      <3>1. /\ read'[Method(step')].units \in 0 .. MaxUnits
            /\ bytes'[Method(step')] = 0
        BY <1>1, <1>2, <1>3, <1>10
      <3>2. /\ Prefix(read'[Method(step')].units, 0) = 0
            /\ Count(read'[Method(step')].units) \in Nat
        BY <3>1, PrefixGrows, CountOf
      <3> QED
        BY <1>1, <3>1, <3>2 DEF Passing
    <2>2. Others'
      BY <1>1, <1>2, <1>3, <1>8, <1>9, <1>10 DEF Others
    <2> QED
      BY <1>4, <1>5, <1>6, <2>1, <2>2 DEF Reads
  <1>11. CASE pc' = "done"
    <2>1. step' >= 4
      <3>1. ~(step' < Passes)
        BY <1>2, <1>11, Zenon
      <3>2. step' \in Nat /\ Passes \in Nat /\ Passes >= 4
        BY <1>1, RoundsAssumption DEF Passes
      <3> QED
        BY <3>1, <3>2
    <2>2. \A q \in Prefixes : Had(q)'
      <3>1. 0 \in 0 .. step' - 1 /\ 1 \in 0 .. step' - 1
        BY <1>1, <2>1
      <3>2. \A q \in Prefixes : \E s \in 0 .. step' - 1 : Method(s) = q
        BY <3>1, WarmUps DEF Prefixes
      <3> QED
        BY <3>2 DEF Had
    <2>3. Passing' /\ Others'
      BY <1>1, <1>2, <1>8, <1>9, <1>11, <2>2 DEF Passing, Others
    <2> QED
      BY <1>4, <1>5, <1>6, <2>3 DEF Reads
  <1> QED
    BY <1>2, <1>10, <1>11

LEMMA NextIInv == IInv /\ [Next]_vars => IInv'
  <1> SUFFICES ASSUME IInv, [Next]_vars PROVE IInv'
    OBVIOUS
  <1>1. CASE UNCHANGED vars
    <2>1. UNCHANGED <<units, object, manifest, writer, dirty, pc, read, step, index, bytes, seen, clean>>
      BY <1>1 DEF vars, store, bench
    <2>2. Types'
      BY <2>1 DEF IInv, Types
    <2>3. Store'
      BY <2>1, BenchKeepsStore DEF IInv, store
    <2>4. Stable' /\ Same' /\ Seen' /\ Passing' /\ Others'
      BY <2>1 DEF IInv, Reads, Stable, Same, Seen, Passing, Others, Known, Had
    <2> QED
      BY <2>2, <2>3, <2>4 DEF IInv, Reads
  <1>2. CASE Next
    BY <1>2, BeginWriteStep, WriteObjectStep, WriteManifestStep, WriteStopsStep, BeginBenchStep,
       ReadRawManifestStep, ReadStep, ReadFailsStep, EndPassStep DEF Next, Writer, Bench
  <1> QED
    BY <1>1, <1>2

LEMMA Invariance == Spec => []IInv
  BY InitIInv, NextIInv, PTL DEF Spec

-----------------------------------------------------------------------------
(* TypeOK: the upper bounds.                                               *)

LEMMA CountBounded == MaxCount \in Nat /\ \A n \in 0 .. MaxUnits : Count(n) \in 0 .. MaxCount
  <1>1. \A n \in 0 .. MaxUnits : Count(n) <= MaxCount
    BY DivisionGrows, UnitsAssumption DEF Count, MaxCount
  <1> QED
    BY <1>1, CountOf, UnitsAssumption DEF MaxCount

\* No object exceeds the size of its dataset, nor that of an object.
LEMMA ChunkBounded ==
  ASSUME NEW n \in 0 .. MaxUnits, NEW i \in Nat, i < Count(n)
  PROVE  Chunk(n, i) \in 0 .. MaxUnits /\ Chunk(n, i) <= ObjectUnits
  <1> DEFINE u == ObjectUnits
             q == Count(n)
             r == (n + u - 1) % u
  <1>1. u \in Nat \ {0} /\ n \in Nat /\ MaxUnits \in Nat /\ n <= MaxUnits /\ q \in Nat
    BY UnitsAssumption, CountOf
  <1>2. r \in 0 .. u - 1 /\ n + u - 1 = u * q + r
    BY <1>1 DEF Count
  <1>3. i < q
    OBVIOUS
  <1>c. Chunk(n, i) = IF i + 1 = q THEN n - i * u ELSE u
    BY DEF Chunk
  <1> HIDE DEF u, q, r
  <1>4. CASE i + 1 = q
    <2>1. u * q = i * u + u
      BY <1>1, <1>4
    <2>2. n - i * u = r + 1 /\ i * u \in Nat
      BY <1>1, <1>2, <2>1
    <2>3. Chunk(n, i) = r + 1 /\ r + 1 <= u /\ r + 1 <= n
      BY <1>1, <1>2, <1>4, <1>c, <2>2
    <2> QED
      BY <1>1, <1>2, <2>3 DEF u
  <1>5. CASE i + 1 # q
    <2>1. q - 2 \in Nat /\ u * q = u * (q - 2) + u + u /\ u * (q - 2) \in Nat
      BY <1>1, <1>3, <1>5
    <2>2. n >= u
      BY <1>1, <1>2, <2>1
    <2> QED
      BY <1>1, <1>5, <1>c, <2>2 DEF u
  <1> QED
    BY <1>4, <1>5

LEMMA ProductGrows ==
  ASSUME NEW a \in Nat, NEW b \in Nat, NEW u \in Nat, a <= b
  PROVE  a * u \in Nat /\ b * u \in Nat /\ a * u <= b * u
  <1>1. b * u = a * u + (b - a) * u /\ (b - a) * u \in Nat /\ a * u \in Nat
    OBVIOUS
  <1> QED
    BY <1>1

Bounded ==
  /\ object \in [Prefixes -> [Numbers -> Stored]]
  /\ \A p \in Prefixes, i \in Numbers : object[p][i] # None =>
       object[p][i].ver \in Versions /\ object[p][i].units <= ObjectUnits
  /\ \A p \in Prefixes : writer[p].next <= MaxCount
  /\ step <= Passes /\ (pc = "pass" => step < Passes)
  /\ index <= MaxCount
  /\ bytes \in [Prefixes -> 0 .. MaxCount * ObjectUnits]
  /\ pc = "pass" => bytes[Method(step)] <= index * ObjectUnits
  /\ seen \in [Prefixes -> SUBSET Versions]
  /\ clean \in BOOLEAN

\* What one pass reads of one prefix.
LEMMA KeepBounded ==
  ASSUME IInv, Bounded, NEW p \in Prefixes, InPass(p), object[p][index] # None, Keep(p)
  PROVE  Bounded'
  <1> USE DEF IInv, Types
  <1>1. /\ index' = index + 1
        /\ bytes' = [bytes EXCEPT ![p] = @ + object[p][index].units]
        /\ seen' = [seen EXCEPT ![p] = @ \union {object[p][index].ver}]
        /\ UNCHANGED <<units, object, writer, pc, step, clean>>
        /\ pc = "pass" /\ Method(step) = p
    BY DEF Keep, InPass, store
  <1>2. index \in Numbers /\ index + 1 <= MaxCount /\ index + 1 \in Nat
    <2>1. index < Count(read[p].units) /\ read[p].units \in 0 .. MaxUnits
      BY DEF InPass
    <2> QED
      BY <2>1, CountOf, CountBounded
  <1>3. /\ object[p][index].ver \in Versions
        /\ object[p][index].units \in 0 .. ObjectUnits
    <2>1. object[p][index] \in Stored
      BY <1>2 DEF Bounded
    <2> QED
      BY <1>2, <2>1, UnitsAssumption DEF Bounded, Stored
  <1>4. bytes'[p] \in Nat /\ bytes'[p] <= (index + 1) * ObjectUnits
    <2>1. bytes[p] \in Nat /\ bytes[p] <= index * ObjectUnits /\ index * ObjectUnits \in Nat
      BY <1>1, CountBounded, ProductGrows, UnitsAssumption DEF Bounded
    <2>2. bytes'[p] = bytes[p] + object[p][index].units
      BY <1>1 DEF Bounded
    <2>3. (index + 1) * ObjectUnits = index * ObjectUnits + ObjectUnits
      BY UnitsAssumption
    <2> QED
      BY <1>3, <2>1, <2>2, <2>3, UnitsAssumption
  <1>5. (index + 1) * ObjectUnits <= MaxCount * ObjectUnits
    BY <1>2, CountBounded, ProductGrows, UnitsAssumption
  <1>6. bytes' \in [Prefixes -> 0 .. MaxCount * ObjectUnits]
    <2>1. MaxCount * ObjectUnits \in Nat /\ (index + 1) * ObjectUnits \in Nat
      BY <1>2, CountBounded, UnitsAssumption
    <2>2. bytes'[p] \in 0 .. MaxCount * ObjectUnits
      BY <1>4, <1>5, <2>1
    <2> QED
      BY <1>1, <2>2 DEF Bounded
  <1>7. seen' \in [Prefixes -> SUBSET Versions]
    BY <1>1, <1>3 DEF Bounded
  <1> QED
    BY <1>1, <1>2, <1>4, <1>6, <1>7 DEF Bounded

LEMMA WritersBounded ==
  ASSUME IInv, Bounded, NEW p \in Prefixes,
         Writer(p) \/ \E v \in Versions : BeginWrite(p, v)
  PROVE  Bounded'
  <1> USE DEF IInv, Types
  <1>1. UNCHANGED <<pc, read, step, index, bytes, seen>> /\ clean' \in BOOLEAN
    BY DEF Writer, WriteObject, WriteManifest, WriteStops, BeginWrite, bench, Bounded
  <1>2. CASE ~WriteObject(p)
    <2>1. /\ object' = object
          /\ \E w \in {writer[p], NoWriter} \union {[ver |-> v, next |-> 0] : v \in Versions} :
               writer' = [writer EXCEPT ![p] = w] /\ w.next <= MaxCount
      BY <1>2, CountBounded DEF Writer, WriteManifest, WriteStops, BeginWrite, NoWriter, Bounded
    <2>2. \A q \in Prefixes : writer'[q].next <= MaxCount
      BY <2>1 DEF Bounded
    <2> QED
      BY <1>1, <2>1, <2>2 DEF Bounded
  <1>3. CASE WriteObject(p)
    <2> DEFINE w == writer[p]
               o == [ver |-> w.ver, units |-> Chunk(units[w.ver], w.next)]
    <2>1. /\ Writing(p) /\ w.next < Count(units[w.ver])
          /\ object' = [object EXCEPT ![p][w.next] = o]
          /\ writer' = [writer EXCEPT ![p].next = @ + 1]
      BY <1>3 DEF WriteObject
    <2>2. /\ w.ver \in Versions /\ units[w.ver] \in 0 .. MaxUnits /\ w.next \in Nat
          /\ w.next \in Numbers /\ w.next + 1 <= MaxCount
      BY <2>1, WriterHasVersion, CountOf, CountBounded DEF Store
    <2>3. o \in Stored /\ o.ver \in Versions /\ o.units <= ObjectUnits
      BY <2>1, <2>2, ChunkBounded DEF Stored
    <2> HIDE DEF o
    <2>4. /\ object' \in [Prefixes -> [Numbers -> Stored]]
          /\ \A q \in Prefixes, i \in Numbers : object'[q][i] \in {object[q][i], o}
      BY <2>1, <2>2, <2>3 DEF Bounded
    <2>5. \A q \in Prefixes : writer'[q].next <= MaxCount
      BY <2>1, <2>2 DEF Bounded
    <2>6. \A q \in Prefixes, i \in Numbers : object'[q][i] # None =>
            object'[q][i].ver \in Versions /\ object'[q][i].units <= ObjectUnits
      BY <2>3, <2>4 DEF Bounded
    <2> QED
      BY <1>1, <2>4, <2>5, <2>6 DEF Bounded
  <1> QED
    BY <1>2, <1>3

LEMMA BoundedStep == ASSUME IInv, Bounded, [Next]_vars PROVE Bounded'
  <1> USE DEF IInv, Types
  <1>a. /\ Passes \in Nat /\ 0 < Passes
        /\ 0 \in 0 .. MaxCount * ObjectUnits /\ 0 * ObjectUnits = 0
    <2>1. MaxCount * ObjectUnits \in Nat
      BY CountBounded, ProductGrows, UnitsAssumption
    <2> QED
      BY <2>1, RoundsAssumption, UnitsAssumption DEF Passes
  <1>1. CASE \E p \in Prefixes : Writer(p) \/ \E v \in Versions : BeginWrite(p, v)
    BY <1>1, WritersBounded
  <1>2. CASE BeginBench \/ ReadFails
    BY <1>2 DEF BeginBench, ReadFails, store, Bounded
  <1>3. CASE ReadRawManifest
    <2>1. /\ step' = 0 /\ index' = 0
          /\ bytes' = [p \in Prefixes |-> 0] /\ seen' = [p \in Prefixes |-> {}]
          /\ UNCHANGED <<object, writer, clean>>
      BY <1>3 DEF ReadRawManifest, store
    <2>2. bytes' \in [Prefixes -> 0 .. MaxCount * ObjectUnits]
      BY <1>a, <2>1
    <2>3. seen' \in [Prefixes -> SUBSET Versions]
      BY <2>1
    <2>4. bytes'[Method(step')] <= index' * ObjectUnits
      <3>1. bytes'[Method(0)] = 0
        BY <2>1, WarmUps
      <3> QED
        BY <1>a, <2>1, <3>1
    <2>5. step' <= Passes /\ step' < Passes /\ index' <= MaxCount
      BY <1>a, <2>1, CountBounded
    <2> QED
      BY <2>1, <2>2, <2>3, <2>4, <2>5 DEF Bounded
  <1>4. CASE ReadRaw \/ ReadCompressed
    BY <1>4, KeepBounded DEF ReadRaw, ReadCompressed, Prefixes
  <1>5. CASE EndPass
    <2>1. /\ index' = 0 /\ step' = step + 1 /\ step < Passes
          /\ UNCHANGED <<object, writer, seen, clean>>
      BY <1>5 DEF EndPass, store, Bounded
    <2>2. step' <= Passes /\ index' <= MaxCount /\ step' \in Nat
      BY <1>a, <2>1, CountBounded
    <2>3. CASE step' < Passes
      <3>1. pc' = "pass" /\ bytes' = [bytes EXCEPT ![Method(step')] = 0]
        BY <1>5, <2>3 DEF EndPass
      <3>2. bytes' \in [Prefixes -> 0 .. MaxCount * ObjectUnits]
        BY <1>a, <3>1 DEF Bounded
      <3>3. bytes'[Method(step')] <= index' * ObjectUnits
        BY <1>a, <2>1, <2>2, <3>1, WarmUps DEF Bounded
      <3> QED
        BY <2>1, <2>2, <2>3, <3>2, <3>3 DEF Bounded
    <2>4. CASE ~(step' < Passes)
      <3>1. pc' = "done" /\ bytes' = bytes
        BY <1>5, <2>4 DEF EndPass
      <3> QED
        BY <2>1, <2>2, <3>1 DEF Bounded
    <2> QED
      BY <2>3, <2>4
  <1>6. CASE UNCHANGED vars
    BY <1>6 DEF vars, store, bench, Bounded
  <1> QED
    BY <1>1, <1>2, <1>3, <1>4, <1>5, <1>6 DEF Next, Bench

\* Every variable keeps its type: no writer passes the end of its version, no
\* pass the end of its dataset, and no pass reads more than the objects hold.
THEOREM TypeCorrect == Spec => []TypeOK
  <1>1. Init => Bounded
    <2> SUFFICES ASSUME Init PROVE Bounded
      OBVIOUS
    <2>1. None \in Stored /\ 0 \in 0 .. MaxCount * ObjectUnits
      BY CountBounded, ProductGrows, UnitsAssumption DEF None, Stored
    <2>2. object \in [Prefixes -> [Numbers -> Stored]]
      BY <2>1 DEF Init
    <2>3. bytes \in [Prefixes -> 0 .. MaxCount * ObjectUnits]
      BY <2>1 DEF Init
    <2>4. step <= Passes /\ index <= MaxCount
      BY CountBounded, RoundsAssumption DEF Init, Passes
    <2>5. \A p \in Prefixes : writer[p].next <= MaxCount
      BY CountBounded DEF Init, NoWriter
    <2>6. \A p \in Prefixes, i \in Numbers : object[p][i] = None
      BY DEF Init
    <2>7. seen \in [Prefixes -> SUBSET Versions] /\ clean \in BOOLEAN /\ pc # "pass"
      BY DEF Init
    <2> QED
      BY <2>2, <2>3, <2>4, <2>5, <2>6, <2>7 DEF Bounded
  <1>2. IInv /\ Bounded => TypeOK
    <2> SUFFICES ASSUME IInv, Bounded PROVE TypeOK
      OBVIOUS
    <2>1. writer \in [Prefixes -> [ver : {0} \union Versions, next : 0 .. MaxCount]]
      BY CountBounded DEF IInv, Types, Bounded
    <2>2. step \in 0 .. Passes /\ index \in 0 .. MaxCount
      BY CountBounded, RoundsAssumption DEF IInv, Types, Bounded, Passes
    <2> QED
      BY <2>1, <2>2 DEF IInv, Types, Bounded, Stored, TypeOK
  <1> QED
    BY <1>1, <1>2, InitIInv, NextIInv, BoundedStep, PTL DEF Spec

\* However often and wherever a write is interrupted and repeated, the objects
\* a manifest counts exist.
THEOREM ManifestsAreCovered == Spec => []ManifestCovered
  <1>1. IInv => ManifestCovered
    BY DEF IInv, Store
  <1> QED
    BY <1>1, Invariance, PTL

\* A raw pass has read exactly what its manifest says, even while the objects
\* are being written again.
THEOREM RawPassesAreComplete == Spec => []RawPassIsComplete
  <1>1. IInv => RawPassIsComplete
    BY DEF IInv, Reads, Passing, Known, Prefix, RawPassIsComplete
  <1> QED
    BY <1>1, Invariance, PTL

\* When nothing was written meanwhile, the summary compares equal amounts, each
\* of the one version its manifest is of.
THEOREM SummariesAreFair == Spec => []SummaryIsFair
  <1>1. IInv => SummaryIsFair
    BY DEF IInv, Reads, Same, Others, Known, Seen, Prefixes, SummaryIsFair
  <1> QED
    BY <1>1, Invariance, PTL

-----------------------------------------------------------------------------
(* PoolReadBench: what the steps of a run may rely on.                      *)

\* The units of chunk c of file x.
Need(x, c) == Piece(size[x] - c * ChunkUnits)

\* Pool p has chunk c of file x: some object of that name, and of that size
\* if no other file has the name.
HasChunk(p, x, c) ==
  /\ Oid(x, c) \in DOMAIN pools[p].objects
  /\ Distinct => pools[p].objects[Oid(x, c)] = Need(x, c)

\* The units of the files at a place of the list, and at a set of places.
Units(o)   == {o[1]} \X (o[2] * ChunkUnits + 1 .. o[2] * ChunkUnits + Need(o[1], o[2]))
Covered(S) == UNION {Units(o) : o \in S}

\* Pool p has every chunk of every file.
Whole(p) == \A x \in 1 .. Files : \A c \in 0 .. Chunks(size[x]) - 1 : HasChunk(p, x, c)

\* A pool is called intact only if it exists and is whole.
Kept == \A p \in intact : pools[p].id # 0 /\ Whole(p)

\* The context is the current pool's, and the pool has what comes before the
\* current file position.
Copied ==
  at = "write" =>
    /\ pool \notin intact
    /\ ~blame =>
         /\ Usable /\ io # 0
         /\ f <= Files => offset = IF chunk * ChunkUnits < size[f]
                                   THEN chunk * ChunkUnits ELSE size[f]
         /\ \A x \in 1 .. Files : \A c \in 0 .. Chunks(size[x]) - 1 :
              x < f \/ (x = f /\ c < chunk) => HasChunk(pool, x, c)

\* A run that reads only reads intact pools, a run that writes has created its own.
Prepared ==
  /\ at \in {"exists", "delete", "create", "wait", "set", "write"} => ~readOnly
  /\ ~blame /\ readOnly => \A k \in DOMAIN todo : todo[k] \in intact
  /\ ~blame /\ at \in {"wait", "set", "connect"} => pools[pool].id # 0

\* Reading starts from an intact pool, and has got what the round has passed.
Counted ==
  ~blame =>
    /\ at \in {"list", "read"} => pool \in intact /\ Usable
    /\ at = "read" => list = Places /\ (Distinct => got = Cardinality(Covered(list \ left)))
    /\ at = "result" /\ Distinct => total = IF ReadRounds = 0 THEN 0 ELSE Bytes

PoolSafe == Kept /\ Copied /\ Prepared /\ Counted /\ ReadsEveryFile /\ RaisesForAReason

\* A run works on pools that are ready, unless wait_pool_ready gave one up.
PoolReady ==
  ~blame /\ ~late =>
    /\ at \in {"set", "connect", "write", "list", "read"} => pool \in ready
    /\ readOnly => \A k \in DOMAIN todo : todo[k] \in ready

\* What a pool may hold: objects named by a prefix and a chunk number.
Names   == (1 .. Files) \X Nat
Stores  == UNION {[S -> 1 .. ChunkUnits] : S \in SUBSET Names}
PoolSet == [id : Nat, objects : Stores, mode : {"unset", "zlib", "none"}, dying : BOOLEAN]
Todos   == {<<>>, <<"po1">>, <<"po1_raw">>, <<"po1", "po1_raw">>}
Running == {"exists", "delete", "create", "wait", "set", "connect", "write", "list", "read",
            "result"}

PoolTypes ==
  /\ size \in [1 .. Files -> 0 .. MaxSize]
  /\ prefix \in [1 .. Files -> 1 .. Files]
  /\ pools \in [Pools -> PoolSet]
  /\ lastId \in Nat /\ \A p \in Pools : pools[p].id \in 0 .. lastId
  /\ at \in {"idle", "raised"} \union Running /\ readOnly \in BOOLEAN
  /\ todo \in Todos /\ (at # "idle" => todo # <<>>)
  /\ io \in 0 .. lastId
  /\ f \in 1 .. Files + 1 /\ chunk \in Nat /\ offset \in Nat
  /\ left \subseteq list
  /\ round \in 0 .. ReadRounds /\ (at = "read" => round < ReadRounds)
  /\ intact \subseteq Pools /\ blame \in BOOLEAN
  /\ ready \subseteq Pools /\ (\A p \in ready : pools[p].id # 0) /\ late \in BOOLEAN

-----------------------------------------------------------------------------
(* PoolReadBench: types.                                                    *)

LEMMA EmptyStore == NoPool \in PoolSet /\ NoPool.id = 0
  <1>1. [o \in {} |-> 0] \in [{} -> 1 .. ChunkUnits] /\ {} \in SUBSET Names
    OBVIOUS
  <1>2. [o \in {} |-> 0] \in Stores
    BY <1>1 DEF Stores
  <1> QED
    BY <1>2 DEF NoPool, PoolSet

LEMMA LargerStore ==
  ASSUME NEW s \in Stores, NEW oid \in Names, NEW n \in 1 .. ChunkUnits
  PROVE  [o \in DOMAIN s \union {oid} |-> IF o = oid THEN n ELSE s[o]] \in Stores
  <1>1. PICK S \in SUBSET Names : s \in [S -> 1 .. ChunkUnits]
    BY DEF Stores
  <1>2. [o \in DOMAIN s \union {oid} |-> IF o = oid THEN n ELSE s[o]]
          \in [S \union {oid} -> 1 .. ChunkUnits]
    BY <1>1
  <1>3. S \union {oid} \in SUBSET Names
    BY <1>1
  <1> QED
    BY <1>2, <1>3 DEF Stores

\* Writing one object changes that object alone.
LEMMA PutIs ==
  ASSUME pools \in [Pools -> PoolSet], NEW p \in Pools, NEW oid \in Names,
         NEW n \in 1 .. ChunkUnits
  PROVE  /\ Put(p, oid, n) \in [Pools -> PoolSet]
         /\ \A q \in Pools : Put(p, oid, n)[q].id = pools[q].id
         /\ \A q \in Pools \ {p} : Put(p, oid, n)[q] = pools[q]
         /\ DOMAIN Put(p, oid, n)[p].objects = DOMAIN pools[p].objects \union {oid}
         /\ \A o \in DOMAIN Put(p, oid, n)[p].objects :
              Put(p, oid, n)[p].objects[o] = IF o = oid THEN n ELSE pools[p].objects[o]
  <1> DEFINE s == [o \in DOMAIN pools[p].objects \union {oid} |->
                     IF o = oid THEN n ELSE pools[p].objects[o]]
  <1>1. pools[p] \in PoolSet /\ pools[p].objects \in Stores
    BY DEF PoolSet
  <1>2. s \in Stores
    BY <1>1, LargerStore
  <1>3. Put(p, oid, n) = [pools EXCEPT ![p].objects = s]
    BY DEF Put
  <1>4. /\ DOMAIN s = DOMAIN pools[p].objects \union {oid}
        /\ \A o \in DOMAIN s : s[o] = IF o = oid THEN n ELSE pools[p].objects[o]
    OBVIOUS
  <1> HIDE DEF s
  <1>5. /\ Put(p, oid, n) \in [Pools -> PoolSet]
        /\ \A q \in Pools : Put(p, oid, n)[q].id = pools[q].id
        /\ \A q \in Pools \ {p} : Put(p, oid, n)[q] = pools[q]
        /\ Put(p, oid, n)[p].objects = s
    BY <1>1, <1>2, <1>3 DEF PoolSet
  <1> QED
    BY <1>4, <1>5

\* The current pool, and the pools that remain after it.
LEMMA TodoIs ==
  ASSUME NEW t \in Todos, t # <<>>
  PROVE  /\ Head(t) \in Pools /\ 1 \in DOMAIN t /\ Head(t) = t[1]
         /\ Tail(t) \in Todos
         /\ Len(t) # 1 => Tail(t) # <<>>
         /\ \A k \in DOMAIN Tail(t) : k + 1 \in DOMAIN t /\ Tail(t)[k] = t[k + 1]
  <1>1. CASE t = <<"po1">>
    BY <1>1 DEF Todos, Pools
  <1>2. CASE t = <<"po1_raw">>
    BY <1>2 DEF Todos, Pools
  <1>3. CASE t = <<"po1", "po1_raw">>
    BY <1>3 DEF Todos, Pools
  <1> QED
    BY <1>1, <1>2, <1>3 DEF Todos

LEMMA PieceIs ==
  ASSUME NEW n \in Int
  PROVE  /\ n > 0 => Piece(n) \in 1 .. ChunkUnits /\ Piece(n) <= n
         /\ n <= 0 => Piece(n) = n
  BY ChunkAssumption DEF Piece

LEMMA PoolTypesInit == PoolInit => PoolTypes
  <1> SUFFICES ASSUME PoolInit PROVE PoolTypes
    OBVIOUS
  <1>1. \A p \in Pools : pools[p] \in PoolSet /\ pools[p].id = 0
    BY EmptyStore DEF PoolInit
  <1>2. pools \in [Pools -> PoolSet]
    BY <1>1 DEF PoolInit
  <1>3. f \in 1 .. Files + 1 /\ round \in 0 .. ReadRounds /\ io \in 0 .. lastId
    BY BoundsAssumption, ReadRoundsAssumption DEF PoolInit
  <1>4. at = "idle" /\ todo \in Todos /\ left \subseteq list /\ intact \subseteq Pools
    BY DEF PoolInit, Todos
  <1> QED
    BY <1>1, <1>2, <1>3, <1>4 DEF PoolInit, PoolTypes

\* create_pool and the two ways it may fail.
LEMMA CreateTypes ==
  ASSUME PoolTypes,
         \/ Create \/ Await \/ (\E slow \in BOOLEAN : DeleteFails(slow))
         \/ \E p \in Pools : PoolVanishes(p) \/ PoolBecomesReady(p)
  PROVE  PoolTypes'
  <1> USE DEF PoolTypes
  <1>a. ASSUME at # "idle" PROVE pool \in Pools
    BY <1>a, TodoIs DEF pool
  <1>1. CASE FindPool
    BY <1>1 DEF FindPool, NoFault, cluster, writing, reading, Running
  <1>2. CASE DeletePool
    <2>1. /\ pools' = [pools EXCEPT ![pool] = NoPool] /\ intact' = intact \ {pool}
          /\ ready' = ready \ {pool} /\ pool \in Pools
      BY <1>2, <1>a DEF DeletePool
    <2>2. /\ pools' \in [Pools -> PoolSet] /\ \A p \in Pools : pools'[p].id \in 0 .. lastId
          /\ \A p \in ready' : pools'[p].id # 0
      BY <2>1, EmptyStore
    <2> QED
      BY <1>2, <2>1, <2>2 DEF DeletePool, NoFault, writing, reading, Running
  <1>3. CASE \E slow \in BOOLEAN : DeleteFails(slow)
    <2>1. PICK slow \in BOOLEAN : DeleteFails(slow)
      BY <1>3
    <2>2. pools' = [pools EXCEPT ![pool].dying = slow]
      BY <2>1 DEF DeleteFails
    <2>3. pools' \in [Pools -> PoolSet] /\ \A p \in Pools : pools'[p].id = pools[p].id
      BY <2>2 DEF PoolSet
    <2> QED
      BY <2>1, <2>3 DEF DeleteFails, writing, reading, Running
  <1>4. CASE \E p \in Pools : PoolVanishes(p)
    <2>1. PICK p \in Pools : PoolVanishes(p)
      BY <1>4
    <2>2. pools' = [pools EXCEPT ![p] = NoPool] /\ ready' = ready \ {p}
      BY <2>1 DEF PoolVanishes
    <2>3. /\ pools' \in [Pools -> PoolSet] /\ \A q \in Pools : pools'[q].id \in 0 .. lastId
          /\ \A q \in ready' : pools'[q].id # 0
      BY <2>2, EmptyStore
    <2> QED
      BY <2>1, <2>3 DEF PoolVanishes, writing, reading
  <1>5. CASE CreatePool
    <2>1. UNCHANGED <<size, prefix, readOnly, todo, io, writing, reading, intact, blame, ready,
                      late>>
          /\ at = "create" /\ at' = "wait"
      BY <1>5 DEF CreatePool, NoFault
    <2>2. CASE pools[pool].id = 0
      <3>1. lastId' = lastId + 1 /\ pools' = [pools EXCEPT ![pool] = [NoPool EXCEPT !.id = lastId']]
        BY <1>5, <2>2 DEF CreatePool
      <3>2. [NoPool EXCEPT !.id = lastId'] \in PoolSet /\ [NoPool EXCEPT !.id = lastId'].id = lastId'
        BY <3>1, EmptyStore DEF PoolSet
      <3>3. pools' \in [Pools -> PoolSet]
        BY <3>1, <3>2
      <3>4. /\ \A q \in Pools : pools'[q].id \in 0 .. lastId'
            /\ \A q \in ready' : pools'[q].id # 0
        <4>1. \A q \in Pools : pools'[q] = pools[q] \/ pools'[q] = [NoPool EXCEPT !.id = lastId']
          BY <3>1
        <4> QED
          BY <2>1, <3>1, <3>2, <4>1
      <3> QED
        BY <2>1, <3>1, <3>3, <3>4 DEF writing, reading, Running
    <2>3. CASE pools[pool].id # 0
      BY <1>5, <2>1, <2>3 DEF CreatePool, cluster, writing, reading, Running
    <2> QED
      BY <2>2, <2>3
  <1>6. CASE CreateFails
    BY <1>6 DEF CreateFails, cluster, writing, reading, Running
  <1>7. CASE SetMode
    <2>1. pools' \in [Pools -> PoolSet] /\ \A q \in Pools : pools'[q].id = pools[q].id
      <3>1. CASE pools[pool].id = 0
        BY <1>7, <3>1 DEF SetMode
      <3>2. CASE pools[pool].id # 0
        <4>1. pools' = [pools EXCEPT ![pool].mode = IF pool = "po1" THEN "zlib" ELSE "none"]
          BY <1>7, <3>2 DEF SetMode
        <4> QED
          BY <4>1 DEF PoolSet
      <3> QED
        BY <3>1, <3>2
    <2> QED
      BY <1>7, <2>1 DEF SetMode, NoFault, writing, reading, Running
  <1>8. CASE WaitReady \/ WaitTimesOut
    BY <1>8 DEF WaitReady, WaitTimesOut, Fault, NoFault, cluster, writing, reading, Running
  <1>9. CASE \E p \in Pools : PoolBecomesReady(p)
    BY <1>9 DEF PoolBecomesReady, NoFault, writing, reading
  <1> QED
    BY <1>1, <1>2, <1>3, <1>4, <1>5, <1>6, <1>7, <1>8, <1>9 DEF Create, Await

LEMMA WriteTypes == ASSUME PoolTypes, Write PROVE PoolTypes'
  <1> USE DEF PoolTypes
  <1>1. CASE WriteChunk
    <2>1. pool \in Pools
      BY <1>1, TodoIs DEF WriteChunk, pool
    <2>2. Left \in Int /\ Left > 0 /\ Piece(Left) \in 1 .. ChunkUnits
      <3>1. f \in 1 .. Files /\ size[f] \in Nat
        BY <1>1, BoundsAssumption DEF WriteChunk
      <3>2. Left \in Int /\ Left > 0
        BY <1>1, <3>1 DEF WriteChunk, Left
      <3> QED
        BY <3>2, PieceIs
    <2>3. Oid(f, chunk) \in Names
      <3>1. f \in 1 .. Files /\ prefix[f] \in 1 .. Files /\ chunk \in Nat
        BY <1>1, BoundsAssumption DEF WriteChunk
      <3> QED
        BY <3>1 DEF Oid, Names
    <2>4. pools' = Put(pool, Oid(f, chunk), Piece(Left))
      BY <1>1 DEF WriteChunk
    <2>5. pools' \in [Pools -> PoolSet] /\ \A q \in Pools : pools'[q].id = pools[q].id
      BY <2>1, <2>2, <2>3, <2>4, PutIs
    <2>6. chunk' \in Nat /\ offset' \in Nat
      BY <1>1, <2>2, ChunkAssumption DEF WriteChunk
    <2> QED
      BY <1>1, <2>5, <2>6 DEF WriteChunk, NoFault, reading
  <1>2. CASE NextFile
    <2>1. f' \in 1 .. Files + 1 /\ chunk' = 0 /\ offset' = 0
      BY <1>2, BoundsAssumption DEF NextFile
    <2> QED
      BY <1>2, <2>1 DEF NextFile, NoFault, cluster, reading
  <1>3. CASE EndWrite
    <2>1. pool \in Pools
      BY <1>3, TodoIs DEF EndWrite, pool
    <2> QED
      BY <1>3, <2>1 DEF EndWrite, NoFault, cluster, writing, reading, Running
  <1> QED
    BY <1>1, <1>2, <1>3 DEF Write

LEMMA ReadTypes == ASSUME PoolTypes, Read PROVE PoolTypes'
  <1> USE DEF PoolTypes, NoFault, cluster, writing, Running
  <1>1. CASE BuildList
    BY <1>1, ReadRoundsAssumption DEF BuildList
  <1>2. CASE ReadObject
    BY <1>2 DEF ReadObject
  <1>3. CASE EndRound
    BY <1>3, ReadRoundsAssumption DEF EndRound
  <1>4. CASE Result
    <2>1. Tail(todo) \in Todos /\ (Len(todo) # 1 => Tail(todo) # <<>>)
      BY <1>4, TodoIs DEF Result
    <2> QED
      BY <1>4, <2>1 DEF Result, reading
  <1> QED
    BY <1>1, <1>2, <1>3, <1>4 DEF Read

LEMMA PoolTypesStep == ASSUME PoolTypes, [PoolNext]_poolVars PROVE PoolTypes'
  <1> USE DEF PoolTypes
  <1>1. CASE \E ro, skipRaw \in BOOLEAN : Begin(ro, skipRaw)
    <2>1. PICK ro, skipRaw \in BOOLEAN : Begin(ro, skipRaw)
      BY <1>1
    <2>2. todo' \in Todos /\ todo' # <<>>
      BY <2>1 DEF Begin, Todos
    <2> QED
      BY <2>1, <2>2 DEF Begin, cluster, writing, reading, Running
  <1>2. CASE \/ Create \/ Await \/ (\E slow \in BOOLEAN : DeleteFails(slow))
             \/ \E p \in Pools : PoolVanishes(p) \/ PoolBecomesReady(p)
    BY <1>2, CreateTypes
  <1>3. CASE Connect
    <2>1. pool \in Pools /\ 1 \in 1 .. Files + 1
      BY <1>3, TodoIs, BoundsAssumption DEF Connect, pool
    <2> QED
      BY <1>3, <2>1 DEF Connect, NoFault, cluster, reading, Running
  <1>4. CASE ConnectRaises \/ OperationRaises
    BY <1>4 DEF ConnectRaises, OperationRaises, NoFault, cluster, writing, reading, Running
  <1>5. CASE Write
    BY <1>5, WriteTypes
  <1>6. CASE Read
    BY <1>6, ReadTypes
  <1>7. CASE Exit
    BY <1>7 DEF Exit, NoFault, cluster, writing, reading, Todos
  <1>8. CASE \E x \in 1 .. Files, n \in 0 .. MaxSize : FileChanges(x, n)
    <2>1. PICK x \in 1 .. Files, n \in 0 .. MaxSize : FileChanges(x, n)
      BY <1>8
    <2> QED
      BY <2>1 DEF FileChanges, cluster, writing, reading
  <1>9. CASE Ended \/ UNCHANGED poolVars
    BY <1>9 DEF Ended, poolVars, cluster, writing, reading
  <1> QED
    BY <1>1, <1>2, <1>3, <1>4, <1>5, <1>6, <1>7, <1>8, <1>9 DEF PoolNext

-----------------------------------------------------------------------------
(* PoolReadBench: chunks and the units they hold.                           *)

LEMMA ChunksAre ==
  ASSUME NEW n \in Nat
  PROVE  /\ Chunks(n) \in Nat
         /\ \A c \in Nat : c * ChunkUnits \in Nat /\ (c < Chunks(n) <=> c * ChunkUnits < n)
  <1> DEFINE u == ChunkUnits
             q == (n + u - 1) \div u
             r == (n + u - 1) % u
  <1>1. u \in Nat \ {0} /\ n + u - 1 \in Nat
    BY ChunkAssumption
  <1>2. q \in Int /\ r \in 0 .. u - 1 /\ n + u - 1 = u * q + r /\ q >= 0
    BY <1>1
  <1>3. Chunks(n) = q
    BY DEF Chunks
  <1> HIDE DEF u, q, r
  <1>4. q \in Nat /\ u * q = q * u
    BY <1>1, <1>2
  <1>5. ASSUME NEW c \in Nat PROVE c * u \in Nat /\ (c < q <=> c * u < n)
    <2>1. CASE c < q
      <3>1. (c + 1) * u <= q * u /\ (c + 1) * u = c * u + u /\ c * u \in Nat
        BY <1>1, <1>4, <2>1, ProductGrows
      <3> QED
        BY <1>1, <1>2, <1>4, <2>1, <3>1
    <2>2. CASE q <= c
      <3>1. q * u <= c * u /\ c * u \in Nat
        BY <1>1, <1>4, <2>2, ProductGrows
      <3> QED
        BY <1>1, <1>2, <1>4, <2>2, <3>1
    <2> QED
      BY <1>4, <2>1, <2>2
  <1> QED
    BY <1>3, <1>4, <1>5 DEF u

LEMMA NextChunk ==
  ASSUME NEW c \in Nat, NEW d \in Nat, c < d
  PROVE  c * ChunkUnits \in Nat /\ (c + 1) * ChunkUnits = c * ChunkUnits + ChunkUnits
         /\ c * ChunkUnits + ChunkUnits <= d * ChunkUnits
  <1>1. (c + 1) * ChunkUnits = c * ChunkUnits + ChunkUnits /\ c * ChunkUnits \in Nat
    BY ChunkAssumption
  <1>2. (c + 1) * ChunkUnits <= d * ChunkUnits
    BY ChunkAssumption, ProductGrows
  <1> QED
    BY <1>1, <1>2

\* A place of the list, and the units there.
LEMMA PlaceIs ==
  ASSUME PoolTypes, NEW o \in Places
  PROVE  /\ o[1] \in 1 .. Files /\ o[2] \in 0 .. Chunks(size[o[1]]) - 1
         /\ o = <<o[1], o[2]>> /\ o[2] \in Nat /\ o[2] * ChunkUnits \in Nat
         /\ size[o[1]] \in 0 .. MaxSize /\ o[2] * ChunkUnits < size[o[1]]
         /\ Need(o[1], o[2]) \in 1 .. ChunkUnits
         /\ o[2] * ChunkUnits + Need(o[1], o[2]) <= size[o[1]]
         /\ o[2] * ChunkUnits + Need(o[1], o[2]) < size[o[1]] => Need(o[1], o[2]) = ChunkUnits
  <1>1. PICK x \in 1 .. Files : o \in {x} \X (0 .. Chunks(size[x]) - 1)
    BY DEF Places
  <1>2. PICK c \in 0 .. Chunks(size[x]) - 1 : o = <<x, c>>
    BY <1>1
  <1>3. size[x] \in 0 .. MaxSize /\ size[x] \in Nat
    BY BoundsAssumption DEF PoolTypes
  <1>4. c \in Nat /\ c * ChunkUnits \in Nat /\ c * ChunkUnits < size[x]
    <2>1. Chunks(size[x]) \in Nat
      BY <1>3, ChunksAre
    <2>2. c \in Nat /\ c < Chunks(size[x])
      BY <2>1
    <2> QED
      BY <1>3, <2>2, ChunksAre
  <1>5. /\ Need(x, c) \in 1 .. ChunkUnits
        /\ c * ChunkUnits + Need(x, c) <= size[x]
        /\ c * ChunkUnits + Need(x, c) < size[x] => Need(x, c) = ChunkUnits
    BY <1>3, <1>4, ChunkAssumption DEF Need, Piece
  <1> QED
    BY <1>2, <1>3, <1>4, <1>5

\* Every unit of every file.
AllUnits == UNION {{x} \X (1 .. size[x]) : x \in 1 .. Files}

LEMMA AllUnitsFinite == PoolTypes => IsFiniteSet(AllUnits)
  <1> SUFFICES ASSUME PoolTypes PROVE IsFiniteSet(AllUnits)
    OBVIOUS
  <1>1. IsFiniteSet((1 .. Files) \X (1 .. MaxSize))
    <2>1. IsFiniteSet(1 .. Files) /\ IsFiniteSet(1 .. MaxSize)
      BY BoundsAssumption, FS_Interval
    <2> QED
      BY <2>1, FS_Product
  <1>2. AllUnits \subseteq (1 .. Files) \X (1 .. MaxSize)
    <2> SUFFICES ASSUME NEW x \in 1 .. Files, NEW k \in 1 .. size[x]
                 PROVE  k \in 1 .. MaxSize
      BY DEF AllUnits
    <2>1. size[x] \in 0 .. MaxSize
      BY DEF PoolTypes
    <2> QED
      BY <2>1, BoundsAssumption
  <1> QED
    BY <1>1, <1>2, FS_Subset

\* The places of the list hold every unit, and no unit twice.
LEMMA PlacesCover ==
  ASSUME PoolTypes
  PROVE  /\ Covered(Places) = AllUnits
         /\ \A o, q \in Places : o # q => Units(o) \cap Units(q) = {}
  <1>1. ASSUME NEW o \in Places, NEW e \in Units(o)
        PROVE  e \in AllUnits
    <2>1. PICK k \in o[2] * ChunkUnits + 1 .. o[2] * ChunkUnits + Need(o[1], o[2]) :
                e = <<o[1], k>>
      BY <1>1 DEF Units
    <2>2. o[1] \in 1 .. Files /\ k \in 1 .. size[o[1]]
      BY <2>1, PlaceIs, ChunkAssumption, BoundsAssumption
    <2> QED
      BY <2>1, <2>2 DEF AllUnits
  <1>2. ASSUME NEW e \in AllUnits
        PROVE  \E o \in Places : e \in Units(o)
    <2>a. PICK x \in 1 .. Files : e \in {x} \X (1 .. size[x])
      BY DEF AllUnits
    <2>1. PICK k \in 1 .. size[x] : e = <<x, k>>
      BY <2>a
    <2>2. size[x] \in 0 .. MaxSize /\ size[x] \in Nat /\ k \in Nat /\ k >= 1
      BY BoundsAssumption DEF PoolTypes
    <2> DEFINE c == (k - 1) \div ChunkUnits
    <2>3. /\ c \in Nat
          /\ c * ChunkUnits <= k - 1 /\ k - 1 < c * ChunkUnits + ChunkUnits
          /\ c * ChunkUnits \in Nat
      <3> DEFINE m == k - 1
                 r == m % ChunkUnits
      <3>1. m \in Nat /\ ChunkUnits \in Nat \ {0}
        BY <2>2, ChunkAssumption
      <3>2. /\ m \div ChunkUnits \in Int /\ m \div ChunkUnits >= 0
            /\ r \in 0 .. ChunkUnits - 1
            /\ m = ChunkUnits * (m \div ChunkUnits) + r
        <4> HIDE DEF m
        <4> QED
          BY <3>1
      <3>3. c \in Nat /\ m = ChunkUnits * c + r
        BY <3>2
      <3> HIDE DEF c, m, r
      <3>4. ChunkUnits * c = c * ChunkUnits /\ c * ChunkUnits \in Nat
        BY <3>1, <3>3
      <3>5. c * ChunkUnits <= m /\ m < c * ChunkUnits + ChunkUnits
        BY <3>1, <3>2, <3>3, <3>4
      <3> QED
        BY <3>3, <3>4, <3>5 DEF m
    <2> HIDE DEF c
    <2>4. c < Chunks(size[x]) /\ c \in 0 .. Chunks(size[x]) - 1
      <3>1. c * ChunkUnits < size[x]
        BY <2>2, <2>3
      <3>2. c < Chunks(size[x]) /\ Chunks(size[x]) \in Nat
        BY <2>2, <2>3, <3>1, ChunksAre
      <3> QED
        BY <2>3, <3>2
    <2>5. <<x, c>> \in Places
      BY <2>4 DEF Places
    <2>6. k \in c * ChunkUnits + 1 .. c * ChunkUnits + Need(x, c)
      <3>1. k <= c * ChunkUnits + Need(x, c)
        BY <2>2, <2>3, ChunkAssumption DEF Need, Piece
      <3> QED
        BY <2>2, <2>3, <2>5, <3>1, PlaceIs, ChunkAssumption
    <2>7. e \in Units(<<x, c>>)
      BY <2>1, <2>6 DEF Units
    <2> QED
      BY <2>5, <2>7
  <1>3. ASSUME NEW o \in Places, NEW q \in Places, o # q
        PROVE  Units(o) \cap Units(q) = {}
    <2> SUFFICES ASSUME NEW e \in Units(o), e \in Units(q) PROVE FALSE
      OBVIOUS
    <2>1. PICK k \in o[2] * ChunkUnits + 1 .. o[2] * ChunkUnits + Need(o[1], o[2]) :
                e = <<o[1], k>>
      BY DEF Units
    <2>2. k \in q[2] * ChunkUnits + 1 .. q[2] * ChunkUnits + Need(q[1], q[2]) /\ q[1] = o[1]
      BY <2>1 DEF Units
    <2>3. o[2] # q[2]
      BY <1>3, <2>2, PlaceIs
    <2>4. k \in Int /\ k > o[2] * ChunkUnits /\ k <= o[2] * ChunkUnits + ChunkUnits
          /\ k > q[2] * ChunkUnits /\ k <= q[2] * ChunkUnits + ChunkUnits
      BY <2>1, <2>2, PlaceIs, ChunkAssumption
    <2>5. CASE o[2] < q[2]
      BY <2>4, <2>5, NextChunk, PlaceIs, ChunkAssumption
    <2>6. CASE q[2] < o[2]
      BY <2>4, <2>6, NextChunk, PlaceIs, ChunkAssumption
    <2>7. o[2] \in Nat /\ q[2] \in Nat
      BY PlaceIs
    <2> QED
      BY <2>3, <2>5, <2>6, <2>7
  <1> QED
    BY <1>1, <1>2, <1>3 DEF Covered

\* Reading one more place adds the units there.
LEMMA CoveredGrows ==
  ASSUME PoolTypes, NEW S \in SUBSET Places, NEW o \in Places \ S
  PROVE  /\ Cardinality(Covered(S \union {o}))
              = Cardinality(Covered(S)) + Need(o[1], o[2])
         /\ Cardinality(Covered(S)) \in Nat
  <1>1. Covered(S \union {o}) = Covered(S) \union Units(o)
    BY DEF Covered
  <1>2. Covered(S) \cap Units(o) = {}
    <2>1. \A q \in S : Units(q) \cap Units(o) = {}
      BY PlacesCover
    <2> QED
      BY <2>1 DEF Covered
  <1>3. IsFiniteSet(Covered(S))
    <2>1. Covered(S) \subseteq Covered(Places)
      BY DEF Covered
    <2> QED
      BY <2>1, PlacesCover, AllUnitsFinite, FS_Subset
  <1> DEFINE a == o[2] * ChunkUnits
             n == Need(o[1], o[2])
             I == a + 1 .. a + n
  <1>4. a \in Nat /\ n \in Nat
    BY PlaceIs, ChunkAssumption
  <1> HIDE DEF a, n
  <1>5. IsFiniteSet(I) /\ Cardinality(I) = n
    <2>1. a + 1 \in Int /\ a + n \in Int
      BY <1>4
    <2>2. IsFiniteSet(I) /\ Cardinality(I) = IF a + 1 > a + n THEN 0 ELSE (a + n) - (a + 1) + 1
      BY <2>1, FS_Interval
    <2> QED
      BY <1>4, <2>2
  <1>6. IsFiniteSet({o[1]}) /\ Cardinality({o[1]}) = 1
    BY FS_Singleton
  <1> HIDE DEF I
  <1>7. IsFiniteSet({o[1]} \X I) /\ Cardinality({o[1]} \X I) = 1 * n
    BY <1>5, <1>6, FS_Product
  <1>8. IsFiniteSet(Units(o)) /\ Cardinality(Units(o)) = n
    BY <1>4, <1>7 DEF Units, a, n, I
  <1>9. Cardinality(Covered(S) \union Units(o))
          = Cardinality(Covered(S)) + Cardinality(Units(o)) - Cardinality(Covered(S) \cap Units(o))
    BY <1>3, <1>8, FS_Union
  <1>10. Cardinality(Covered(S) \cap Units(o)) = 0 /\ Cardinality(Covered(S)) \in Nat
    BY <1>2, <1>3, FS_EmptySet, FS_CardinalityType
  <1>11. Cardinality(Covered(S \union {o})) = Cardinality(Covered(S)) + n
    <2> DEFINE k == Cardinality(Covered(S))
    <2>1. k \in Nat
      BY <1>10
    <2>2. Cardinality(Covered(S \union {o})) = k + n - 0
      BY <1>1, <1>8, <1>9, <1>10
    <2> HIDE DEF k
    <2> QED
      BY <1>4, <2>1, <2>2 DEF k
  <1> QED
    BY <1>10, <1>11 DEF n

-----------------------------------------------------------------------------
(* PoolReadBench: every step is safe.                                       *)

LEMMA WholeStays ==
  ASSUME UNCHANGED <<size, prefix>>, NEW p, Whole(p), pools'[p].objects = pools[p].objects
  PROVE  Whole(p)'
  BY DEF Whole, HasChunk, Oid, Distinct, Need, Piece, Chunks

LEMMA KeptStays ==
  ASSUME Kept, UNCHANGED <<size, prefix>>, intact' \subseteq intact,
         \A p \in intact' : pools'[p].id = pools[p].id /\ pools'[p].objects = pools[p].objects
  PROVE  Kept'
  <1>1. ASSUME NEW p \in intact' PROVE pools'[p].id # 0 /\ Whole(p)'
    BY <1>1, WholeStays DEF Kept
  <1> QED
    BY <1>1 DEF Kept

LEMMA ResultsStay ==
  ASSUME ReadsEveryFile, UNCHANGED <<size, prefix, results>>, blame => blame',
         blame \in BOOLEAN
  PROVE  ReadsEveryFile'
  BY DEF ReadsEveryFile, Distinct, Bytes

LEMMA BeginSafe ==
  ASSUME PoolTypes, PoolSafe, NEW ro \in BOOLEAN, NEW skipRaw \in BOOLEAN, Begin(ro, skipRaw)
  PROVE  PoolSafe'
  <1>1. /\ UNCHANGED <<size, prefix, pools, intact>>
        /\ at' = IF ro THEN "connect" ELSE "exists"
        /\ readOnly' = ro /\ results' = {}
        /\ blame' = (ro /\ \E k \in DOMAIN todo' : todo'[k] \notin intact)
    BY DEF Begin, cluster
  <1>2. Kept'
    BY <1>1, KeptStays DEF PoolSafe
  <1>3. todo' \in Todos /\ todo' # <<>>
    BY DEF Begin, Todos
  <1>4. 1 \in DOMAIN todo' /\ pool' = todo'[1]
    BY <1>3, TodoIs DEF pool
  <1>5. Prepared'
    <2>1. ~blame' /\ readOnly' => \A k \in DOMAIN todo' : todo'[k] \in intact'
      BY <1>1
    <2>2. ~blame' /\ at' = "connect" => pools'[pool'].id # 0
      BY <1>1, <1>4, <2>1 DEF PoolSafe, Kept
    <2> QED
      BY <1>1, <2>1, <2>2 DEF Prepared
  <1>6. ReadsEveryFile'
    BY <1>1 DEF ReadsEveryFile
  <1> QED
    BY <1>1, <1>2, <1>5, <1>6 DEF PoolSafe, Copied, Counted, RaisesForAReason

LEMMA CreateSafe ==
  ASSUME PoolTypes, PoolSafe, Create \/ Await \/ \E slow \in BOOLEAN : DeleteFails(slow)
  PROVE  PoolSafe'
  <1>a. pool \in Pools /\ pools \in [Pools -> PoolSet] /\ intact \subseteq Pools
        /\ blame \in BOOLEAN /\ lastId \in Nat
    BY TodoIs DEF Create, Await, FindPool, DeletePool, CreatePool, CreateFails, WaitReady,
       WaitTimesOut, SetMode, DeleteFails, pool, PoolTypes
  <1>b. /\ UNCHANGED <<size, prefix, readOnly, todo, results>>
        /\ at \in {"exists", "delete", "create", "wait", "set"}
        /\ at' \in {"delete", "create", "wait", "set", "connect"}
        /\ blame => blame'
    BY <1>a DEF Create, Await, FindPool, DeletePool, CreatePool, CreateFails, WaitReady,
       WaitTimesOut, SetMode, DeleteFails, NoFault
  <1>1. ASSUME intact' \subseteq intact,
               \A p \in intact' : pools'[p].id = pools[p].id /\ pools'[p].objects = pools[p].objects,
               ~blame' /\ at' \in {"wait", "set", "connect"} => pools'[pool].id # 0
        PROVE  PoolSafe'
    <2>1. Kept' /\ ReadsEveryFile'
      BY <1>a, <1>b, <1>1, KeptStays, ResultsStay DEF PoolSafe
    <2>2. ~readOnly' /\ pool' = pool
      BY <1>b DEF PoolSafe, Prepared, pool
    <2> QED
      BY <1>b, <1>1, <2>1, <2>2 DEF PoolSafe, Copied, Prepared, Counted, RaisesForAReason
  <1>2. CASE FindPool
    <2>1. UNCHANGED <<pools, intact>> /\ at' \in {"delete", "create"}
      BY <1>2 DEF FindPool, cluster
    <2> QED
      BY <1>1, <2>1
  <1>3. CASE DeletePool
    <2>1. intact' = intact \ {pool} /\ at' = "create" /\ pools' = [pools EXCEPT ![pool] = NoPool]
      BY <1>3 DEF DeletePool
    <2> QED
      BY <1>a, <1>1, <2>1
  <1>4. CASE \E slow \in BOOLEAN : DeleteFails(slow)
    <2>1. PICK slow \in BOOLEAN : DeleteFails(slow)
      BY <1>4
    <2>2. intact' = intact /\ at' = "create" /\ pools' = [pools EXCEPT ![pool].dying = slow]
      BY <2>1 DEF DeleteFails
    <2>3. \A p \in Pools : pools'[p].id = pools[p].id /\ pools'[p].objects = pools[p].objects
      BY <1>a, <2>2 DEF PoolSet
    <2> QED
      BY <1>a, <1>1, <2>2, <2>3
  <1>5. CASE CreatePool
    <2>1. intact' = intact
      BY <1>5 DEF CreatePool
    <2>2. CASE pools[pool].id = 0
      <3>1. lastId' = lastId + 1 /\ pools' = [pools EXCEPT ![pool] = [NoPool EXCEPT !.id = lastId']]
        BY <1>5, <2>2 DEF CreatePool
      <3>2. [NoPool EXCEPT !.id = lastId'].id = lastId'
        BY EmptyStore DEF PoolSet
      <3>3. pools'[pool].id # 0
        BY <1>a, <3>1, <3>2
      <3>4. pool \notin intact
        BY <2>2 DEF PoolSafe, Kept
      <3> QED
        BY <1>a, <1>1, <2>1, <3>1, <3>3, <3>4
    <2>3. CASE pools[pool].id # 0
      <3>1. pools' = pools
        BY <1>5, <2>3 DEF CreatePool, cluster
      <3> QED
        BY <1>1, <2>1, <2>3, <3>1
    <2> QED
      BY <2>2, <2>3
  <1>6. CASE CreateFails
    <2>1. intact' = intact /\ pools' = pools /\ blame' = (blame \/ pools[pool].id = 0)
      BY <1>6 DEF CreateFails, cluster
    <2> QED
      BY <1>a, <1>1, <2>1
  <1>7. CASE SetMode
    <2>1. intact' = intact /\ UNCHANGED blame /\ at = "set"
      BY <1>7 DEF SetMode, NoFault
    <2>2. \A p \in Pools : pools'[p].id = pools[p].id /\ pools'[p].objects = pools[p].objects
      <3>1. CASE pools[pool].id = 0
        BY <1>7, <3>1 DEF SetMode
      <3>2. CASE pools[pool].id # 0
        <4>1. pools' = [pools EXCEPT ![pool].mode = IF pool = "po1" THEN "zlib" ELSE "none"]
          BY <1>7, <3>2 DEF SetMode
        <4> QED
          BY <1>a, <4>1 DEF PoolSet
      <3> QED
        BY <3>1, <3>2
    <2>3. ~blame => pools[pool].id # 0
      BY <2>1 DEF PoolSafe, Prepared
    <2> QED
      BY <1>a, <1>1, <2>1, <2>2, <2>3
  <1>8. CASE WaitReady \/ WaitTimesOut
    <2>1. UNCHANGED <<pools, intact, blame>> /\ at = "wait"
      BY <1>8 DEF WaitReady, WaitTimesOut, NoFault, cluster
    <2>2. ~blame => pools[pool].id # 0
      BY <2>1 DEF PoolSafe, Prepared
    <2> QED
      BY <1>1, <2>1, <2>2
  <1> QED
    BY <1>2, <1>3, <1>4, <1>5, <1>6, <1>7, <1>8 DEF Create, Await

\* A pool that goes late, or a file that changes, spoils what depends on it.
LEMMA SpoilSafe ==
  ASSUME PoolTypes, PoolSafe,
         \/ \E p \in Pools : PoolVanishes(p)
         \/ \E x \in 1 .. Files, n \in 0 .. MaxSize : FileChanges(x, n)
  PROVE  PoolSafe'
  <1>1. CASE \E p \in Pools : PoolVanishes(p)
    <2>1. PICK p \in Pools : PoolVanishes(p)
      BY <1>1
    <2>2. /\ UNCHANGED <<size, prefix, at, readOnly, todo, results>>
          /\ intact' = intact \ {p} /\ blame' = TRUE
          /\ pools' = [pools EXCEPT ![p] = NoPool]
      BY <2>1 DEF PoolVanishes
    <2>3. Kept'
      <3>1. \A q \in intact' : pools'[q] = pools[q]
        BY <2>2 DEF PoolTypes
      <3> QED
        BY <2>2, <3>1, KeptStays DEF PoolSafe
    <2>4. pool' = pool
      BY <2>2 DEF pool
    <2> QED
      BY <2>2, <2>3, <2>4 DEF PoolSafe, Copied, Prepared, Counted, ReadsEveryFile, RaisesForAReason
  <1>2. CASE \E x \in 1 .. Files, n \in 0 .. MaxSize : FileChanges(x, n)
    <2>1. UNCHANGED <<at, readOnly, todo>> /\ intact' = {} /\ blame' = TRUE
      BY <1>2 DEF FileChanges
    <2>2. pool' = pool
      BY <2>1 DEF pool
    <2> QED
      BY <2>1, <2>2 DEF PoolSafe, Kept, Copied, Prepared, Counted, ReadsEveryFile, RaisesForAReason
  <1> QED
    BY <1>1, <1>2

LEMMA ConnectSafe == ASSUME PoolTypes, PoolSafe, Connect PROVE PoolSafe'
  <1>1. /\ UNCHANGED <<size, prefix, pools, readOnly, todo, results, blame>>
        /\ at = "connect" /\ io' = pools[pool].id /\ io' # 0
        /\ f' = 1 /\ chunk' = 0 /\ offset' = 0
        /\ readOnly => at' = "list" /\ intact' = intact
        /\ ~readOnly => at' = "write" /\ intact' = intact \ {pool}
        /\ blame \in BOOLEAN /\ readOnly \in BOOLEAN
    BY DEF Connect, NoFault, cluster, PoolTypes
  <1>2. Kept' /\ ReadsEveryFile'
    BY <1>1, KeptStays, ResultsStay DEF PoolSafe
  <1>3. pool' = pool /\ pool = todo[1] /\ 1 \in DOMAIN todo
    BY <1>1, TodoIs DEF pool, PoolTypes
  <1>4. Usable'
    BY <1>1, <1>3 DEF Usable
  <1>5. Copied'
    <2>1. \A x \in 1 .. Files : \A c \in 0 .. Chunks(size'[x]) - 1 : ~(x < f' \/ (x = f' /\ c < chunk'))
      <3> SUFFICES ASSUME NEW x \in 1 .. Files, NEW c \in 0 .. Chunks(size[x]) - 1
                   PROVE  ~(x < 1 \/ (x = 1 /\ c < 0))
        BY <1>1
      <3>1. size[x] \in Nat
        BY BoundsAssumption DEF PoolTypes
      <3>2. Chunks(size[x]) \in Nat
        BY <3>1, ChunksAre
      <3> QED
        BY <3>2, BoundsAssumption
    <2>2. offset' = IF chunk' * ChunkUnits < size'[f'] THEN chunk' * ChunkUnits ELSE size'[f']
      <3>1. 1 \in 1 .. Files /\ size[1] \in Nat
        BY BoundsAssumption DEF PoolTypes
      <3> QED
        BY <1>1, <3>1, ChunkAssumption
    <2> QED
      BY <1>1, <1>3, <1>4, <2>1, <2>2 DEF Copied, Chunks
  <1>6. Prepared'
    BY <1>1 DEF PoolSafe, Prepared
  <1>7. Counted'
    BY <1>1, <1>3, <1>4 DEF PoolSafe, Prepared, Counted
  <1> QED
    BY <1>1, <1>2, <1>5, <1>6, <1>7 DEF PoolSafe, RaisesForAReason

\* An exception has a reason.
LEMMA RaisesSafe ==
  ASSUME PoolTypes, PoolSafe, PoolReady, ConnectRaises \/ OperationRaises
  PROVE  PoolSafe'
  <1>1. /\ UNCHANGED <<size, prefix, pools, readOnly, todo, results, blame, late, intact>>
        /\ at' = "raised" /\ blame \in BOOLEAN
    BY DEF ConnectRaises, OperationRaises, NoFault, cluster, PoolTypes
  <1>2. Kept' /\ ReadsEveryFile'
    BY <1>1, KeptStays, ResultsStay DEF PoolSafe
  <1>3. blame \/ late
    <2> SUFFICES ASSUME ~blame, ~late PROVE FALSE
      BY <1>1
    <2>1. CASE ConnectRaises
      BY <2>1 DEF ConnectRaises, PoolSafe, Prepared
    <2>2. CASE at = "write" /\ ~(Usable /\ pool \in ready)
      BY <2>2 DEF PoolSafe, Copied, PoolReady
    <2>3. CASE at = "read" /\ \E o \in left : ~(Usable /\ pool \in ready /\ Held(o))
      <3>1. PICK o \in left : ~Held(o)
        BY <2>3 DEF PoolSafe, Counted, PoolReady
      <3>2. o \in Places /\ pool \in intact
        BY <2>3, <3>1 DEF PoolSafe, Counted, PoolTypes
      <3>3. HasChunk(pool, o[1], o[2])
        BY <3>2, PlaceIs DEF PoolSafe, Kept, Whole
      <3> QED
        BY <3>1, <3>3 DEF HasChunk, Held
    <2> QED
      BY <2>1, <2>2, <2>3 DEF OperationRaises
  <1> QED
    BY <1>1, <1>2, <1>3 DEF PoolSafe, Copied, Prepared, Counted, RaisesForAReason

\* Where the file position is.
Position(x, c) == IF c * ChunkUnits < size[x] THEN c * ChunkUnits ELSE size[x]

LEMMA WriteChunkSafe == ASSUME PoolTypes, PoolSafe, WriteChunk PROVE PoolSafe'
  <1>1. /\ UNCHANGED <<size, prefix, at, readOnly, todo, io, f, results, intact, blame>>
        /\ at = "write" /\ Usable /\ Left > 0
        /\ pools' = Put(pool, Oid(f, chunk), Piece(Left))
        /\ chunk' = chunk + 1 /\ offset' = offset + Piece(Left)
        /\ f \in 1 .. Files /\ f <= Files /\ chunk \in Nat /\ offset \in Nat
        /\ blame \in BOOLEAN
    BY DEF WriteChunk, NoFault, PoolTypes
  <1>2. /\ pool \in Pools /\ pool' = pool
        /\ pools \in [Pools -> PoolSet] /\ intact \subseteq Pools
    BY <1>1, TodoIs DEF pool, PoolTypes
  <1>3. size[f] \in 0 .. MaxSize /\ size[f] \in Nat /\ prefix[f] \in 1 .. Files
    BY <1>1, BoundsAssumption DEF PoolTypes
  <1>4. Piece(Left) \in 1 .. ChunkUnits /\ Oid(f, chunk) \in Names
    <2>1. Left \in Int
      BY <1>1, <1>3 DEF Left
    <2> QED
      BY <1>1, <1>3, <2>1, PieceIs DEF Oid, Names
  <1>5. /\ \A q \in Pools : pools'[q].id = pools[q].id
        /\ \A q \in Pools \ {pool} : pools'[q] = pools[q]
        /\ DOMAIN pools'[pool].objects = DOMAIN pools[pool].objects \union {Oid(f, chunk)}
        /\ \A o \in DOMAIN pools'[pool].objects :
             pools'[pool].objects[o] =
               IF o = Oid(f, chunk) THEN Piece(Left) ELSE pools[pool].objects[o]
    BY <1>1, <1>2, <1>4, PutIs
  <1>6. pool \notin intact /\ ~readOnly
    BY <1>1 DEF PoolSafe, Copied, Prepared
  <1>7. Kept' /\ ReadsEveryFile'
    <2>1. \A p \in intact' : pools'[p] = pools[p]
      BY <1>1, <1>2, <1>5, <1>6
    <2> QED
      BY <1>1, <2>1, KeptStays, ResultsStay DEF PoolSafe
  <1>8. ASSUME ~blame PROVE
          /\ Usable'
          /\ offset' = IF chunk' * ChunkUnits < size[f] THEN chunk' * ChunkUnits ELSE size[f]
          /\ \A x \in 1 .. Files : \A c \in 0 .. Chunks(size[x])' - 1 :
               x < f \/ (x = f /\ c < chunk') => HasChunk(pool, x, c)'
    <2>1. Usable'
      BY <1>1, <1>2, <1>5 DEF Usable
    <2>2. /\ chunk * ChunkUnits \in Nat /\ chunk' * ChunkUnits = chunk * ChunkUnits + ChunkUnits
          /\ offset = chunk * ChunkUnits /\ Left = Need(f, chunk) + (Left - Piece(Left))
          /\ Left = size[f] - chunk * ChunkUnits
      <3>1. chunk * ChunkUnits \in Nat /\ (chunk + 1) * ChunkUnits = chunk * ChunkUnits + ChunkUnits
        BY <1>1, NextChunk
      <3>2. offset = Position(f, chunk)
        BY <1>1, <1>8 DEF PoolSafe, Copied, Position
      <3>3. offset = chunk * ChunkUnits /\ Left = size[f] - chunk * ChunkUnits
        BY <1>1, <1>3, <3>1, <3>2 DEF Position, Left
      <3>4. Need(f, chunk) = Piece(Left) /\ Left \in Int
        BY <1>3, <3>1, <3>3 DEF Need
      <3> QED
        BY <1>1, <1>4, <3>1, <3>3, <3>4, ChunkAssumption
    <2>3. Piece(Left) = Need(f, chunk)
      BY <2>2 DEF Need
    <2>4. offset' = IF chunk' * ChunkUnits < size[f] THEN chunk' * ChunkUnits ELSE size[f]
      <3>1. offset' = chunk * ChunkUnits + Piece(size[f] - chunk * ChunkUnits)
        BY <1>1, <2>2
      <3> QED
        BY <1>3, <2>2, <3>1, ChunkAssumption DEF Piece
    <2>5. ASSUME NEW x \in 1 .. Files, NEW c \in 0 .. Chunks(size[x]) - 1,
                 x < f \/ (x = f /\ c < chunk')
          PROVE  /\ Oid(x, c) \in DOMAIN pools'[pool].objects
                 /\ Distinct => pools'[pool].objects[Oid(x, c)] = Need(x, c)
      <3>1. CASE x = f /\ c = chunk
        BY <1>5, <2>3, <3>1
      <3>2. CASE ~(x = f /\ c = chunk)
        <4>1. Chunks(size[x]) \in Nat
          <5>1. size[x] \in Nat
            BY BoundsAssumption DEF PoolTypes
          <5> QED
            BY <5>1, ChunksAre
        <4>2. x < f \/ (x = f /\ c < chunk)
          BY <1>1, <2>5, <3>2, <4>1
        <4>3. HasChunk(pool, x, c)
          BY <1>1, <1>8, <4>2 DEF PoolSafe, Copied
        <4>4. Distinct => Oid(x, c) # Oid(f, chunk)
          BY <1>1, <3>2 DEF Distinct, Oid
        <4> QED
          BY <1>5, <4>3, <4>4 DEF HasChunk
      <3> QED
        BY <3>1, <3>2
    <2>6. ASSUME NEW x \in 1 .. Files, NEW c \in 0 .. Chunks(size[x])' - 1,
                 x < f \/ (x = f /\ c < chunk')
          PROVE  HasChunk(pool, x, c)'
      <3>1. Chunks(size[x])' = Chunks(size[x])
        BY <1>1 DEF Chunks
      <3>2. /\ Oid(x, c) \in DOMAIN pools'[pool].objects
            /\ Distinct => pools'[pool].objects[Oid(x, c)] = Need(x, c)
        BY <2>5, <2>6, <3>1
      <3> QED
        BY <1>1, <1>2, <3>2 DEF HasChunk, Oid, Distinct, Need
    <2> QED
      BY <2>1, <2>4, <2>6
  <1>9. Copied'
    <2>1. ~blame => io # 0
      BY <1>1 DEF PoolSafe, Copied
    <2> QED
      BY <1>1, <1>2, <1>6, <1>8, <2>1 DEF Copied
  <1> QED
    BY <1>1, <1>6, <1>7, <1>9 DEF PoolSafe, Prepared, Counted, RaisesForAReason

\* At the end of a file all its chunks have been written.
LEMMA NextFileSafe == ASSUME PoolTypes, PoolSafe, NextFile PROVE PoolSafe'
  <1>1. /\ UNCHANGED <<size, prefix, pools, at, readOnly, todo, io, results, intact, blame>>
        /\ at = "write" /\ f \in 1 .. Files /\ f <= Files /\ Left <= 0
        /\ f' = f + 1 /\ chunk' = 0 /\ offset' = 0
        /\ chunk \in Nat /\ blame \in BOOLEAN
    BY DEF NextFile, NoFault, cluster, PoolTypes
  <1>2. pool' = pool
    BY <1>1 DEF pool
  <1>3. Kept' /\ ReadsEveryFile' /\ pool \notin intact /\ ~readOnly
    BY <1>1, KeptStays, ResultsStay DEF PoolSafe, Copied, Prepared
  <1>4. ASSUME ~blame PROVE
          /\ Usable /\ io # 0
          /\ \A x \in 1 .. Files : \A c \in 0 .. Chunks(size[x]) - 1 :
               x <= f => HasChunk(pool, x, c)
    <2>1. Usable /\ io # 0 /\ offset = Position(f, chunk)
          /\ \A x \in 1 .. Files : \A c \in 0 .. Chunks(size[x]) - 1 :
               x < f \/ (x = f /\ c < chunk) => HasChunk(pool, x, c)
      BY <1>1, <1>4 DEF PoolSafe, Copied, Position
    <2>2. size[f] \in Nat
      BY <1>1, BoundsAssumption DEF PoolTypes
    <2>3. Chunks(size[f]) \in Nat /\ Chunks(size[f]) <= chunk
      <3>1. ~(chunk * ChunkUnits < size[f])
        BY <1>1, <2>1, <2>2, ChunksAre DEF Left, Position
      <3> QED
        BY <1>1, <2>2, <3>1, ChunksAre
    <2>4. \A c \in 0 .. Chunks(size[f]) - 1 : c < chunk
      BY <1>1, <2>3
    <2> QED
      BY <1>1, <2>1, <2>4
  <1>5. Copied'
    <2>1. f' <= Files => offset' = IF chunk' * ChunkUnits < size'[f']
                                   THEN chunk' * ChunkUnits ELSE size'[f']
      <3> SUFFICES ASSUME f + 1 <= Files PROVE 0 = IF 0 * ChunkUnits < size[f + 1]
                                                  THEN 0 * ChunkUnits ELSE size[f + 1]
        BY <1>1
      <3>1. size[f + 1] \in Nat
        BY <1>1, BoundsAssumption DEF PoolTypes
      <3> QED
        BY <3>1, ChunkAssumption
    <2>2. ASSUME NEW x \in 1 .. Files, NEW c \in 0 .. Chunks(size[x]) - 1,
                 x < f' \/ (x = f' /\ c < chunk')
          PROVE  x <= f
      <3>1. size[x] \in Nat
        BY BoundsAssumption DEF PoolTypes
      <3>2. c \in Nat
        BY <3>1, ChunksAre
      <3> QED
        BY <1>1, <2>2, <3>2
    <2>3. ASSUME ~blame, NEW x \in 1 .. Files, NEW c \in 0 .. Chunks(size[x])' - 1,
                 x < f' \/ (x = f' /\ c < chunk')
          PROVE  HasChunk(pool, x, c)'
      <3>1. Chunks(size[x])' = Chunks(size[x])
        BY <1>1 DEF Chunks
      <3>2. HasChunk(pool, x, c)
        BY <1>4, <2>2, <2>3, <3>1
      <3> QED
        BY <1>1, <1>2, <3>2 DEF HasChunk, Oid, Distinct, Need, Piece
    <2>4. ~blame => Usable' /\ io' # 0
      BY <1>1, <1>2, <1>4 DEF Usable
    <2> QED
      BY <1>1, <1>2, <1>3, <2>1, <2>3, <2>4 DEF Copied
  <1> QED
    BY <1>1, <1>3, <1>5 DEF PoolSafe, Prepared, Counted, RaisesForAReason

LEMMA EndWriteSafe == ASSUME PoolTypes, PoolSafe, EndWrite PROVE PoolSafe'
  <1>1. /\ UNCHANGED <<size, prefix, pools, readOnly, todo, io, results, blame>>
        /\ at = "write" /\ at' = "list" /\ f > Files /\ f \in 1 .. Files + 1
        /\ intact' = IF blame THEN intact ELSE intact \union {pool}
        /\ blame \in BOOLEAN
    BY DEF EndWrite, NoFault, cluster, PoolTypes
  <1>2. pool' = pool /\ ~readOnly
    BY <1>1 DEF pool, PoolSafe, Prepared
  <1>3. ~blame => Usable /\ io # 0 /\ Whole(pool)
    <2>1. \A x \in 1 .. Files : x < f
      BY <1>1, BoundsAssumption
    <2> QED
      BY <1>1, <2>1 DEF PoolSafe, Copied, Whole
  <1>4. ~blame => pools[pool].id # 0
    BY <1>1, <1>3 DEF Usable
  <1>5. ASSUME NEW p \in intact' PROVE pools'[p].id # 0 /\ Whole(p)'
    <2>1. pools[p].id # 0 /\ Whole(p)
      BY <1>1, <1>3, <1>4, <1>5 DEF PoolSafe, Kept
    <2> QED
      BY <1>1, <2>1, WholeStays
  <1>6. Kept' /\ ReadsEveryFile'
    BY <1>1, <1>5, ResultsStay DEF PoolSafe, Kept
  <1>7. ~blame => Usable'
    BY <1>1, <1>2, <1>3 DEF Usable
  <1> QED
    BY <1>1, <1>2, <1>6, <1>7 DEF PoolSafe, Copied, Prepared, Counted, RaisesForAReason

LEMMA CoveredNone == Cardinality(Covered({})) = 0
  BY FS_EmptySet DEF Covered

\* read_all: while nothing is spoilt, a round gets what its places hold.
LEMMA ReadSafe == ASSUME PoolTypes, PoolSafe, BuildList \/ ReadObject \/ EndRound PROVE PoolSafe'
  <1>1. /\ UNCHANGED <<size, prefix, pools, readOnly, todo, io, results, intact, blame>>
        /\ at \in {"list", "read"} /\ at' \in {"read", "result"}
        /\ blame \in BOOLEAN
    BY DEF BuildList, ReadObject, EndRound, NoFault, cluster, PoolTypes
  <1>2. Kept' /\ ReadsEveryFile' /\ pool' = pool
    BY <1>1, KeptStays, ResultsStay DEF PoolSafe, pool
  <1>3. ~blame => pool \in intact /\ Usable /\ Usable'
    BY <1>1, <1>2 DEF PoolSafe, Counted, Usable
  <1>4. Places' = Places /\ Distinct' = Distinct /\ \A S : Covered(S)' = Covered(S)
    BY <1>1 DEF Places, Chunks, Distinct, Covered, Units, Need, Piece
  <1>5. ASSUME ~blame,
               at' = "read" => list' = Places /\ (Distinct => got' = Cardinality(Covered(list' \ left'))),
               at' = "result" /\ Distinct => total' = IF ReadRounds = 0 THEN 0 ELSE Bytes
        PROVE  Counted'
    <2>1. Bytes' = Bytes
      BY <1>1 DEF Bytes
    <2>2. at' = "read" => list' = Places' /\ (Distinct' => got' = Cardinality(Covered(list \ left))')
      BY <1>1, <1>4, <1>5 DEF Covered, Units, Need, Piece
    <2> QED
      BY <1>1, <1>2, <1>3, <1>4, <1>5, <2>1, <2>2 DEF Counted
  <1>6. ASSUME ~blame PROVE Counted'
    <2>1. CASE BuildList
      <3>1. /\ list' = Places /\ left' = list' /\ got' = 0 /\ total' = 0
            /\ at' = IF ReadRounds = 0 THEN "result" ELSE "read"
        BY <2>1 DEF BuildList
      <3>2. list' \ left' = {}
        BY <3>1
      <3> QED
        BY <1>5, <1>6, <3>1, <3>2, CoveredNone
    <2>2. CASE ReadObject
      <3>1. PICK o \in left : /\ Held(o)
                              /\ got' = got + pools[pool].objects[Oid(o[1], o[2])]
                              /\ left' = left \ {o}
        BY <2>2 DEF ReadObject
      <3>2. at = "read" /\ at' = at /\ list' = list /\ list = Places /\ left \subseteq list
        BY <1>6, <2>2 DEF ReadObject, PoolSafe, Counted, PoolTypes
      <3>3. Distinct => pools[pool].objects[Oid(o[1], o[2])] = Need(o[1], o[2])
        <4>1. o \in Places
          BY <3>1, <3>2
        <4> QED
          BY <1>3, <1>6, <4>1, PlaceIs DEF PoolSafe, Kept, Whole, HasChunk
      <3>4. /\ list \ left \in SUBSET Places /\ o \in Places \ (list \ left)
            /\ list' \ left' = (list \ left) \union {o}
        BY <3>1, <3>2
      <3>5. Cardinality(Covered(list' \ left')) = Cardinality(Covered(list \ left)) + Need(o[1], o[2])
        BY <3>4, CoveredGrows
      <3>6. Distinct => got = Cardinality(Covered(list \ left))
        BY <1>6, <3>2 DEF PoolSafe, Counted
      <3> QED
        BY <1>5, <1>6, <3>1, <3>2, <3>3, <3>5, <3>6
    <2>3. CASE EndRound
      <3>1. /\ at = "read" /\ left = {} /\ left' = list /\ list' = list
            /\ total' = got /\ got' = 0 /\ ReadRounds # 0
        BY <2>3, ReadRoundsAssumption DEF EndRound, PoolTypes
      <3>2. list = Places /\ (Distinct => got = Cardinality(Covered(list \ left)))
        BY <1>6, <3>1 DEF PoolSafe, Counted
      <3>3. list' \ left' = {} /\ list \ left = Places
        BY <3>1, <3>2
      <3>4. Cardinality(Covered(Places)) = Bytes
        BY PlacesCover DEF AllUnits, Bytes
      <3> QED
        BY <1>5, <1>6, <3>1, <3>2, <3>3, <3>4, CoveredNone
    <2> QED
      BY <2>1, <2>2, <2>3
  <1>7. Counted'
    BY <1>1, <1>6 DEF Counted
  <1>8. Prepared'
    BY <1>1 DEF PoolSafe, Prepared
  <1> QED
    BY <1>1, <1>2, <1>7, <1>8 DEF PoolSafe, Copied, RaisesForAReason

LEMMA ResultSafe == ASSUME PoolTypes, PoolSafe, Result PROVE PoolSafe'
  <1>1. /\ UNCHANGED <<size, prefix, pools, readOnly, intact, blame>>
        /\ at = "result" /\ todo' = Tail(todo) /\ blame \in BOOLEAN
        /\ results' = results \union {[pool |-> pool, bytes |-> total, clean |-> ~blame]}
        /\ at' = IF Len(todo) = 1 THEN "idle" ELSE IF readOnly THEN "connect" ELSE "exists"
    BY DEF Result, NoFault, cluster, PoolTypes
  <1>2. Kept'
    BY <1>1, KeptStays DEF PoolSafe
  <1>3. ReadsEveryFile'
    <2> SUFFICES ASSUME Distinct, ~blame, NEW r \in results', r.clean
                 PROVE  r.bytes = IF ReadRounds = 0 THEN 0 ELSE Bytes
      <3>1. Bytes' = Bytes /\ Distinct' = Distinct /\ blame' = blame
        BY <1>1 DEF Bytes, Distinct
      <3> QED
        BY <3>1 DEF ReadsEveryFile
    <2>1. CASE r \in results
      BY <2>1 DEF PoolSafe, ReadsEveryFile
    <2>2. CASE r = [pool |-> pool, bytes |-> total, clean |-> ~blame]
      BY <1>1, <2>2 DEF PoolSafe, Counted
    <2> QED
      BY <1>1, <2>1, <2>2
  <1>4. /\ \A k \in DOMAIN todo' : \E m \in DOMAIN todo : todo'[k] = todo[m]
        /\ Len(todo) # 1 => 1 \in DOMAIN todo' /\ pool' = todo'[1]
    <2>1. todo \in Todos /\ todo # <<>>
      BY <1>1 DEF PoolTypes
    <2>2. todo' \in Todos /\ (Len(todo) # 1 => todo' # <<>>)
      BY <1>1, <2>1, TodoIs
    <2> QED
      BY <1>1, <2>1, <2>2, TodoIs DEF pool
  <1>5. Prepared'
    <2>1. ~blame /\ readOnly => \A k \in DOMAIN todo' : todo'[k] \in intact
      BY <1>4 DEF PoolSafe, Prepared
    <2>2. ~blame /\ at' = "connect" => pools[pool'].id # 0
      BY <1>1, <1>4, <2>1 DEF PoolSafe, Kept
    <2> QED
      BY <1>1, <2>1, <2>2 DEF Prepared
  <1> QED
    BY <1>1, <1>2, <1>3, <1>5 DEF PoolSafe, Copied, Counted, RaisesForAReason

LEMMA PoolSafeStep ==
  ASSUME PoolTypes, PoolSafe, PoolReady, [PoolNext]_poolVars PROVE PoolSafe'
  <1>1. CASE \E ro, skipRaw \in BOOLEAN : Begin(ro, skipRaw)
    BY <1>1, BeginSafe
  <1>2. CASE Create \/ Await \/ \E slow \in BOOLEAN : DeleteFails(slow)
    BY <1>2, CreateSafe
  <1>3. CASE \/ \E p \in Pools : PoolVanishes(p)
             \/ \E x \in 1 .. Files, n \in 0 .. MaxSize : FileChanges(x, n)
    BY <1>3, SpoilSafe
  <1>4. CASE Connect \/ ConnectRaises \/ OperationRaises
    BY <1>4, ConnectSafe, RaisesSafe
  <1>5. CASE Write \/ Read
    BY <1>5, WriteChunkSafe, NextFileSafe, EndWriteSafe, ReadSafe, ResultSafe DEF Write, Read
  <1>6. CASE Exit
    <2>1. /\ UNCHANGED <<size, prefix, pools, readOnly, results, intact, blame>>
          /\ at' = "idle" /\ todo' = <<>> /\ blame \in BOOLEAN
      BY <1>6 DEF Exit, NoFault, cluster, PoolTypes
    <2>2. Kept' /\ ReadsEveryFile'
      BY <2>1, KeptStays, ResultsStay DEF PoolSafe
    <2> QED
      BY <2>1, <2>2 DEF PoolSafe, Copied, Prepared, Counted, RaisesForAReason
  <1>7. CASE (\E p \in Pools : PoolBecomesReady(p)) \/ Ended \/ UNCHANGED poolVars
    <2>1. UNCHANGED <<size, prefix, pools, at, readOnly, todo, io, f, chunk, offset, list, left,
                      got, total, results, intact, blame, late>>
      BY <1>7 DEF PoolBecomesReady, NoFault, Ended, poolVars, cluster, writing, reading
    <2>2. Kept' /\ ReadsEveryFile' /\ pool' = pool /\ blame \in BOOLEAN
      BY <2>1, KeptStays, ResultsStay DEF PoolSafe, PoolTypes, pool
    <2>3. Copied'
      BY <2>1, <2>2 DEF PoolSafe, Copied, Usable, HasChunk, Oid, Distinct, Need, Piece, Chunks
    <2>4. Prepared' /\ RaisesForAReason'
      BY <2>1, <2>2 DEF PoolSafe, Prepared, RaisesForAReason
    <2>5. Bytes' = Bytes /\ Places' = Places /\ Distinct' = Distinct /\ Usable' = Usable
          /\ Covered(list \ left)' = Covered(list \ left)
      BY <2>1, <2>2 DEF Bytes, Places, Distinct, Usable, Chunks, Covered, Units, Need, Piece
    <2>6. Counted'
      BY <2>1, <2>2, <2>5 DEF PoolSafe, Counted
    <2> QED
      BY <2>2, <2>3, <2>4, <2>6 DEF PoolSafe
  <1> QED
    BY <1>1, <1>2, <1>3, <1>4, <1>5, <1>6, <1>7 DEF PoolNext

\* A pool stays ready until it goes, and create_pool goes on without it only
\* where the wait has given up.
LEMMA PoolReadyStep ==
  ASSUME PoolTypes, PoolSafe, PoolReady, [PoolNext]_poolVars PROVE PoolReady'
  <1>a. blame \in BOOLEAN /\ late \in BOOLEAN
    BY DEF PoolTypes
  <1>1. CASE \E ro, skipRaw \in BOOLEAN : Begin(ro, skipRaw)
    <2>1. PICK ro, skipRaw \in BOOLEAN : Begin(ro, skipRaw)
      BY <1>1
    <2>2. /\ at' = IF ro THEN "connect" ELSE "exists"
          /\ readOnly' = ro /\ ready' = ready
          /\ late' = (ro /\ \E k \in DOMAIN todo' : todo'[k] \notin ready)
      BY <2>1 DEF Begin, cluster
    <2>3. todo' \in Todos /\ todo' # <<>>
      BY <2>1 DEF Begin, Todos
    <2>4. 1 \in DOMAIN todo' /\ pool' = todo'[1]
      BY <2>3, TodoIs DEF pool
    <2> QED
      BY <2>2, <2>4 DEF PoolReady
  <1>2. CASE Create \/ \E slow \in BOOLEAN : DeleteFails(slow)
    <2>1. at \in {"exists", "delete", "create"} /\ at' \in {"delete", "create", "wait"}
          /\ readOnly' = readOnly
      BY <1>2 DEF Create, FindPool, DeletePool, CreatePool, CreateFails, DeleteFails
    <2> QED
      BY <2>1 DEF PoolReady, PoolSafe, Prepared
  <1>3. CASE Await
    <2>1. /\ at \in {"wait", "set"} /\ at' \in {"set", "connect"}
          /\ UNCHANGED <<readOnly, ready, todo, blame>>
          /\ late => late'
      BY <1>3, <1>a DEF Await, WaitReady, WaitTimesOut, SetMode, NoFault, cluster
    <2>2. ~readOnly' /\ pool' = pool
      BY <2>1 DEF PoolSafe, Prepared, pool
    <2>3. ~blame /\ ~late' => pool \in ready
      BY <1>3, <2>1 DEF Await, WaitReady, WaitTimesOut, SetMode, NoFault, PoolSafe, Prepared,
         PoolReady
    <2> QED
      BY <2>1, <2>2, <2>3 DEF PoolReady
  <1>4. CASE \/ \E p \in Pools : PoolVanishes(p)
             \/ \E x \in 1 .. Files, n \in 0 .. MaxSize : FileChanges(x, n)
    BY <1>4 DEF PoolVanishes, FileChanges, PoolReady
  <1>5. CASE \E p \in Pools : PoolBecomesReady(p)
    <2>1. UNCHANGED <<at, readOnly, todo, blame, late>> /\ ready \subseteq ready'
      BY <1>5 DEF PoolBecomesReady, NoFault
    <2>2. pool' = pool
      BY <2>1 DEF pool
    <2> QED
      BY <2>1, <2>2 DEF PoolReady
  <1>6. CASE Connect \/ Write \/ BuildList \/ ReadObject \/ EndRound
    <2>1. /\ at \in {"connect", "write", "list", "read"}
          /\ UNCHANGED <<readOnly, todo, ready, blame, late>>
      BY <1>6 DEF Connect, Write, WriteChunk, NextFile, EndWrite, BuildList, ReadObject, EndRound,
         NoFault, cluster
    <2>2. pool' = pool
      BY <2>1 DEF pool
    <2> QED
      BY <2>1, <2>2 DEF PoolReady
  <1>7. CASE Result
    <2>1. /\ at = "result" /\ todo' = Tail(todo)
          /\ at' = IF Len(todo) = 1 THEN "idle" ELSE IF readOnly THEN "connect" ELSE "exists"
          /\ UNCHANGED <<readOnly, ready, blame, late>>
      BY <1>7 DEF Result, NoFault, cluster
    <2>2. todo \in Todos /\ todo # <<>>
      BY <2>1 DEF PoolTypes
    <2>3. \A k \in DOMAIN todo' : k + 1 \in DOMAIN todo /\ todo'[k] = todo[k + 1]
      BY <2>1, <2>2, TodoIs
    <2>4. Len(todo) # 1 => 1 \in DOMAIN todo' /\ pool' = todo'[1]
      BY <2>1, <2>2, TodoIs DEF pool
    <2> QED
      BY <2>1, <2>3, <2>4 DEF PoolReady
  <1>8. CASE ConnectRaises \/ OperationRaises \/ Exit
    <2>1. /\ at' \in {"raised", "idle"}
          /\ todo' \in {todo, <<>>}
          /\ UNCHANGED <<readOnly, ready, blame, late>>
      BY <1>8 DEF ConnectRaises, OperationRaises, Exit, NoFault, cluster
    <2> QED
      BY <2>1 DEF PoolReady
  <1>9. CASE Ended \/ UNCHANGED poolVars
    BY <1>9 DEF Ended, poolVars, cluster, PoolReady, pool
  <1> QED
    BY <1>1, <1>2, <1>3, <1>4, <1>5, <1>6, <1>7, <1>8, <1>9 DEF PoolNext, Read

LEMMA PoolInvariance == PoolSpec => [](PoolTypes /\ PoolSafe /\ PoolReady)
  <1>1. PoolInit => PoolSafe /\ PoolReady
    BY DEF PoolInit, PoolSafe, Kept, Copied, Prepared, Counted, ReadsEveryFile,
       RaisesForAReason, PoolReady
  <1>2. PoolTypes /\ [PoolNext]_poolVars => PoolTypes'
    BY PoolTypesStep
  <1>3. PoolTypes /\ PoolSafe /\ PoolReady /\ [PoolNext]_poolVars => PoolSafe' /\ PoolReady'
    BY PoolSafeStep, PoolReadyStep
  <1> QED
    BY <1>1, <1>2, <1>3, PoolTypesInit, PTL DEF PoolSpec

\* Every variable of the pool benchmark keeps its type: an object is never
\* empty and never larger than a chunk, and no context has an id that was not
\* given out.
THEOREM PoolTypeCorrect == PoolSpec => []PoolTypeOK
  <1>1. PoolTypes => PoolTypeOK
    <2> SUFFICES ASSUME PoolTypes PROVE PoolTypeOK
      OBVIOUS
    <2>1. ASSUME NEW p \in Pools
          PROVE  /\ pools[p].mode \in {"unset", "zlib", "none"}
                 /\ \A oid \in DOMAIN pools[p].objects : pools[p].objects[oid] \in 1 .. ChunkUnits
      <3>1. pools[p].mode \in {"unset", "zlib", "none"} /\ pools[p].objects \in Stores
        BY DEF PoolTypes, PoolSet
      <3>2. PICK S \in SUBSET Names : pools[p].objects \in [S -> 1 .. ChunkUnits]
        BY <3>1 DEF Stores
      <3> QED
        BY <3>1, <3>2
    <2> QED
      BY <2>1 DEF PoolTypes, PoolTypeOK
  <1> QED
    BY <1>1, PoolInvariance, PTL

\* A result obtained while nothing failed or changed counts every unit of every
\* file once, if no two files share a prefix, whichever pools were there before,
\* for every number of rounds but none at all, which counts nothing.
THEOREM EveryFileIsRead == PoolSpec => []ReadsEveryFile
  <1>1. PoolSafe => ReadsEveryFile
    BY DEF PoolSafe
  <1> QED
    BY <1>1, PoolInvariance, PTL

\* While nothing failed or changed and no wait for a pool was given up, no
\* exception leaves the program: it opens only pools that exist and are ready,
\* and reads only objects that it has written.
THEOREM ExceptionsHaveReasons == PoolSpec => []RaisesForAReason
  <1>1. PoolSafe => RaisesForAReason
    BY DEF PoolSafe
  <1> QED
    BY <1>1, PoolInvariance, PTL
=============================================================================
