------------------------ MODULE SubscriptionDirectory ------------------------
(***************************************************************************)
(* The subscription directory: one immutable, versioned snapshot of the    *)
(* subscription cache, replaced as a whole through an ArcSwap.  A reader   *)
(* loads the version and the rows of one and the same snapshot.            *)
(*                                                                         *)
(* apply_snapshot runs under UStreamer's exclusive borrow, so there is one *)
(* writer, and a reader sees nothing of it before the final store: the     *)
(* whole operation is one step.                                            *)
(***************************************************************************)
EXTENDS SubscriptionRouting

CONSTANTS
  Responses,      \* what fetch_subscriptions may return: sets of rows
  MaxSnapshots    \* bound on the snapshots applied in one behaviour

ASSUME ResponsesAssumption ==
  /\ Responses \subseteq SUBSET Row
  /\ MaxSnapshots \in Nat

\* What stands for an absent field is no value of it.
ASSUME MissingAssumption == Missing \notin Nat

VARIABLES
  snapshot,       \* the current [version, rows]
  next_version,   \* the AtomicU64 the next snapshot takes its version from
  applied         \* history: the rows of every version so far

directoryVars == <<snapshot, next_version, applied>>

\* SubscriptionDirectory::empty
DirectoryInit ==
  /\ snapshot = [version |-> 0, rows |-> {}]
  /\ next_version = 1
  /\ applied = [v \in {0} |-> {}]

\* Variant: the cache is published under the version of its predecessor.
ApplySnapshotSameVersion(rows) ==
  /\ RowsAreComplete(rows)
  /\ next_version <= MaxSnapshots
  /\ snapshot' = [version |-> snapshot.version, rows |-> rows]
  /\ next_version' = next_version + 1
  /\ applied' = [v \in DOMAIN applied \cup {snapshot.version} |->
                   IF v = snapshot.version THEN rows ELSE applied[v]]

\* SubscriptionDirectory::apply_snapshot returning Ok.
ApplySnapshot(rows) ==
  /\ RowsAreComplete(rows)
  /\ next_version <= MaxSnapshots
  /\ snapshot' = [version |-> next_version, rows |-> rows]
  /\ next_version' = next_version + 1
  /\ applied' = [v \in DOMAIN applied \cup {next_version} |->
                   IF v = next_version THEN rows ELSE applied[v]]

\* Versions are handed out without gaps, and the snapshot in force is one of
\* those applied.
DirectoryTypeOK ==
  /\ next_version \in Nat
  /\ DOMAIN applied = 0..(next_version - 1)
  /\ \A v \in DOMAIN applied : applied[v] \subseteq CompleteRow
  /\ snapshot \in [version : DOMAIN applied, rows : SUBSET CompleteRow]
  /\ snapshot.rows = applied[snapshot.version]

=============================================================================
