---------------------------- MODULE BboSnapshot ----------------------------
(***************************************************************************)
(* The seqlock publication cell (BboSnapshotCellBase): one writer, any     *)
(* number of readers, a version counter that is odd while a publication is *)
(* in progress and one atomic word per field.                              *)
(*                                                                         *)
(* Every atomic access is a step.  The field accesses are relaxed, so they *)
(* are taken in any order, but between the two accesses of the version.    *)
(***************************************************************************)
EXTENDS Integers

CONSTANTS Fields,          \* the words of a snapshot
          Values,          \* what a word can hold
          Snapshots,       \* the snapshots the writer may publish
          Readers,         \* the reader threads
          None,            \* a reader that has not accepted a snapshot yet
          VersionLimit,    \* 2^64: the version counter wraps here
          MaxPublications  \* bound: publications in one behaviour

ASSUME SnapshotsAssumption == /\ Snapshots \subseteq [Fields -> Values]
                              /\ 0 \in Values
ASSUME VersionAssumption == /\ MaxPublications \in Nat
                            /\ VersionLimit \in Nat
                            /\ 2 * MaxPublications + 1 < VersionLimit

VARIABLES
  version, cell,           \* the shared atomics
  wpc, starting, snapshot, todo, \* publish(): its position, locals, stores left
  before, got, left, rpc,  \* try_read(): per reader, its locals and position
  result,                  \* the last snapshot try_read returned to each reader
  current,                 \* history: the last snapshot completely published
  publications             \* history: number of publications begun

writerVars == <<wpc, starting, snapshot, todo, current, publications>>
readerVars == <<before, got, left, rpc, result>>
bboVars == <<version, cell, writerVars, readerVars>>

ZeroSnapshot == [f \in Fields |-> 0]

Wrap(n) == IF n >= VersionLimit THEN n - VersionLimit ELSE n

Odd(n) == n % 2 = 1

BboInit == /\ version = 0
           /\ cell = ZeroSnapshot
           /\ wpc = "idle"
           /\ starting = 0
           /\ snapshot = ZeroSnapshot
           /\ todo = {}
           /\ before = [r \in Readers |-> 0]
           /\ got = [r \in Readers |-> ZeroSnapshot]
           /\ left = [r \in Readers |-> {}]
           /\ rpc = [r \in Readers |-> "idle"]
           /\ result = [r \in Readers |-> None]
           /\ current = ZeroSnapshot
           /\ publications = 0
-----------------------------------------------------------------------------
(* Mutant: the version is read, not incremented.                           *)
FetchAddVersion_NoIncrement(s) ==
  /\ wpc = "idle"
  /\ publications < MaxPublications
  /\ publications' = publications + 1
  /\ wpc' = "storing"
  /\ starting' = version
  /\ snapshot' = s
  /\ todo' = Fields
  /\ UNCHANGED <<version, cell, current, readerVars>>

(* publish(s): fetch_add of the version, the relaxed stores, the release   *)
(* store of starting_version + 2.                                          *)
FetchAddVersion(s) ==
  /\ wpc = "idle"
  /\ publications < MaxPublications
  /\ publications' = publications + 1
  /\ wpc' = "storing"
  /\ starting' = version
  /\ version' = Wrap(version + 1)
  /\ snapshot' = s
  /\ todo' = Fields
  /\ UNCHANGED <<cell, current, readerVars>>

StoreField(f) ==
  /\ wpc = "storing"
  /\ f \in todo
  /\ cell' = [cell EXCEPT ![f] = snapshot[f]]
  /\ todo' = todo \ {f}
  /\ UNCHANGED <<version, wpc, starting, snapshot, current, publications, readerVars>>

(* Mutant: the version stays odd.                                          *)
StoreVersion_Odd ==
  /\ wpc = "storing"
  /\ todo = {}
  /\ version' = Wrap(starting + 1)
  /\ wpc' = "idle"
  /\ current' = snapshot
  /\ UNCHANGED <<cell, starting, snapshot, todo, publications, readerVars>>

StoreVersion ==
  /\ wpc = "storing"
  /\ todo = {}
  /\ version' = Wrap(starting + 2)
  /\ wpc' = "idle"
  /\ current' = snapshot
  /\ UNCHANGED <<cell, starting, snapshot, todo, publications, readerVars>>
-----------------------------------------------------------------------------
(* try_read() of reader r: the first version load, with the early return   *)
(* on an odd version; the field loads; the second version load, which      *)
(* accepts or rejects what was collected.                                  *)
LoadBefore(r) ==
  /\ rpc[r] = "idle"
  /\ before' = [before EXCEPT ![r] = version]
  /\ IF Odd(version)
     THEN UNCHANGED <<left, rpc>>
     ELSE /\ left' = [left EXCEPT ![r] = Fields]
          /\ rpc' = [rpc EXCEPT ![r] = "loading"]
  /\ UNCHANGED <<version, cell, writerVars, got, result>>

(* Mutant: the version is loaded instead of the field.                     *)
LoadField_Version(r, f) ==
  /\ rpc[r] = "loading"
  /\ f \in left[r]
  /\ got' = [got EXCEPT ![r] = [@ EXCEPT ![f] = version]]
  /\ left' = [left EXCEPT ![r] = @ \ {f}]
  /\ UNCHANGED <<version, cell, writerVars, before, rpc, result>>

LoadField(r, f) ==
  /\ rpc[r] = "loading"
  /\ f \in left[r]
  /\ got' = [got EXCEPT ![r] = [@ EXCEPT ![f] = cell[f]]]
  /\ left' = [left EXCEPT ![r] = @ \ {f}]
  /\ UNCHANGED <<version, cell, writerVars, before, rpc, result>>

(* Mutant: the second version is not compared.                             *)
LoadAfter_Unchecked(r) ==
  /\ rpc[r] = "loading"
  /\ left[r] = {}
  /\ rpc' = [rpc EXCEPT ![r] = "idle"]
  /\ result' = [result EXCEPT ![r] = got[r]]
  /\ UNCHANGED <<version, cell, writerVars, before, got, left>>

LoadAfter(r) ==
  /\ rpc[r] = "loading"
  /\ left[r] = {}
  /\ rpc' = [rpc EXCEPT ![r] = "idle"]
  /\ result' = [result EXCEPT ![r] = IF version = before[r] THEN got[r] ELSE @]
  /\ UNCHANGED <<version, cell, writerVars, before, got, left>>
-----------------------------------------------------------------------------
Writer == \/ \E s \in Snapshots : FetchAddVersion(s)
          \/ \E f \in Fields : StoreField(f)
          \/ StoreVersion

Reader(r) == \/ LoadBefore(r)
             \/ \E f \in Fields : LoadField(r, f)
             \/ LoadAfter(r)

BboNext == Writer \/ \E r \in Readers : Reader(r)

BboSpec == BboInit /\ [][BboNext]_bboVars

(* A publication that has begun is finished (publish has no loop and no    *)
(* wait), and every reader keeps calling try_read.  Nothing makes the      *)
(* writer begin another publication.                                       *)
BboFairness == /\ WF_bboVars(\E f \in Fields : StoreField(f))
               /\ WF_bboVars(StoreVersion)
               /\ \A r \in Readers : WF_bboVars(Reader(r))

BboFairSpec == BboSpec /\ BboFairness
-----------------------------------------------------------------------------
(* Types of the shared words and of the threads' locals.                   *)
BboTypeOK ==
  /\ version \in Nat
  /\ cell \in [Fields -> Values]
  /\ wpc \in {"idle", "storing"}
  /\ starting \in Nat
  /\ snapshot \in [Fields -> Values]
  /\ todo \in SUBSET Fields
  /\ before \in [Readers -> Nat]
  /\ got \in [Readers -> [Fields -> Values]]
  /\ left \in [Readers -> SUBSET Fields]
  /\ rpc \in [Readers -> {"idle", "loading"}]
  /\ result \in [Readers -> [Fields -> Values] \cup {None}]
  /\ current \in [Fields -> Values]
  /\ publications \in 0 .. MaxPublications

(* The protocol's inductive invariant.  The version is even exactly when   *)
(* no publication is in progress, and then the cell holds the last         *)
(* published snapshot; during publish() each word is still the old one or  *)
(* already the new one; and as long as the version a reader loaded first   *)
(* is still the current one, every word it has loaded since belongs to the *)
(* current snapshot, which is why "before == after" is enough to accept.   *)
SeqlockInv ==
  /\ wpc = "idle" => version = 2 * publications /\ cell = current
  /\ wpc = "storing" =>
       /\ version = 2 * publications - 1
       /\ starting = version - 1
       /\ snapshot \in Snapshots
       /\ \A f \in Fields :
            cell[f] = IF f \in todo THEN current[f] ELSE snapshot[f]
  /\ \A r \in Readers : rpc[r] = "loading" =>
       /\ before[r] <= version
       /\ ~Odd(before[r])
       /\ before[r] = version =>
            \A f \in Fields \ left[r] : got[r][f] = current[f]

(* A reader gets one internally consistent snapshot or nothing: the cell   *)
(* implements an atomic register in which a publication takes effect at    *)
(* the final version store and an accepted try_read at its second version  *)
(* load.  Hence no accepted snapshot mixes two publications, and no reader *)
(* ever goes back to an older snapshot than one it already accepted.       *)
Register == INSTANCE BboRegister
RegisterSpec == Register!Spec

(* The writer never blocks readers for good: once it stops publishing,     *)
(* every reader that keeps retrying try_read ends up with the last         *)
(* published snapshot.                                                     *)
ReadersCatchUp == \A r \in Readers : <>[](result[r] = current)
=============================================================================
