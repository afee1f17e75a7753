-------------------------- MODULE SubscriptionSync ---------------------------
(***************************************************************************)
(* UStreamer::refresh_subscriptions: fetch from the uSubscription service, *)
(* apply to the directory, record the outcome in SubscriptionSyncHealth.   *)
(* UStreamer::new runs it once as a bootstrap and goes on whatever the     *)
(* outcome, so the first attempt of a behaviour is the bootstrap.          *)
(*                                                                         *)
(* The method borrows the streamer exclusively and changes nothing before  *)
(* its fetch returns: an attempt is one step.  The n-th attempt happens at *)
(* time n.                                                                 *)
(***************************************************************************)
EXTENDS SubscriptionDirectory, Sequences

CONSTANT MaxAttempts    \* bound on the attempts in one behaviour

VARIABLES
  health,      \* SubscriptionSyncHealth, with Missing for None
  outcomes     \* history: what the attempts so far returned, TRUE for Ok

syncVars == <<directoryVars, health, outcomes>>

SyncInit ==
  /\ DirectoryInit
  /\ health = [ last_attempt_at |-> Missing, last_success_at |-> Missing,
                last_attempt_succeeded |-> Missing,
                previous_attempt_succeeded |-> Missing ]
  /\ outcomes = << >>

\* Variant: a failed attempt forgets when the last one succeeded.
HealthAfterForgetful(succeeded, now) ==
  [ last_attempt_at            |-> now,
    last_success_at            |-> IF succeeded THEN now ELSE Missing,
    last_attempt_succeeded     |-> succeeded,
    previous_attempt_succeeded |-> health.last_attempt_succeeded ]

\* UStreamer::update_subscription_sync_health
HealthAfter(succeeded, now) ==
  [ last_attempt_at            |-> now,
    last_success_at            |-> IF succeeded THEN now ELSE health.last_success_at,
    last_attempt_succeeded     |-> succeeded,
    previous_attempt_succeeded |-> health.last_attempt_succeeded ]

Attempt(succeeded) ==
  /\ Len(outcomes) < MaxAttempts
  /\ outcomes' = Append(outcomes, succeeded)
  /\ health' = HealthAfter(succeeded, Len(outcomes) + 1)

\* fetch_subscriptions returns Err.
FetchFails == Attempt(FALSE) /\ UNCHANGED directoryVars

\* Variant: a refused response has already taken its version.
SnapshotRefusedTakesVersion(rows) ==
  /\ ~RowsAreComplete(rows)
  /\ Attempt(FALSE)
  /\ next_version' = next_version + 1
  /\ UNCHANGED <<snapshot, applied>>

\* The response holds an incomplete row, and SubscriptionCache::new refuses it.
\* The version counter is not touched.
SnapshotRefused(rows) ==
  /\ ~RowsAreComplete(rows)
  /\ Attempt(FALSE)
  /\ UNCHANGED directoryVars

RefreshSubscriptions(rows) == ApplySnapshot(rows) /\ Attempt(TRUE)

SyncNext ==
  \/ FetchFails
  \/ \E rows \in Responses : SnapshotRefused(rows) \/ RefreshSubscriptions(rows)

SyncSpec == SyncInit /\ [][SyncNext]_syncVars

-----------------------------------------------------------------------------
SyncTypeOK ==
  /\ outcomes \in Seq(BOOLEAN)
  /\ DirectoryTypeOK

Successes == {n \in 1..Len(outcomes) : outcomes[n]}

OutcomeAt(n) == IF n \in 1..Len(outcomes) THEN outcomes[n] ELSE Missing

\* Health is a faithful summary of all attempts: the last two outcomes, and the
\* time of the last success however many failures came after it.
HealthSummarisesAttempts ==
  /\ health.last_attempt_succeeded = OutcomeAt(Len(outcomes))
  /\ health.previous_attempt_succeeded = OutcomeAt(Len(outcomes) - 1)
  /\ health.last_attempt_at = IF outcomes = << >> THEN Missing ELSE Len(outcomes)
  /\ IF Successes = {}
       THEN health.last_success_at = Missing
       ELSE /\ health.last_success_at \in Successes
            /\ \A n \in Successes : n <= health.last_success_at

\* Health and directory agree: the directory holds as many versions as attempts
\* succeeded, and serves the empty bootstrap snapshot exactly until health
\* reports a success.  A failed attempt leaves the rows in force where they were.
HealthMatchesDirectory ==
  /\ snapshot.version = Cardinality(Successes)
  /\ next_version = snapshot.version + 1
  /\ snapshot.rows = applied[snapshot.version]
  /\ snapshot.version = 0 <=> health.last_success_at = Missing

=============================================================================
