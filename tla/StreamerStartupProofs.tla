------------------------ MODULE StreamerStartupProofs ------------------------
(***************************************************************************)
(* A streamer that says READY has every forwarding rule of a sound         *)
(* configuration in force, and the start of a sound configuration fails    *)
(* only through the environment, for every set of configurations.  The     *)
(* inductive invariant says which rules are behind the two loops of        *)
(* wire_forwarding_rules and that exactly these are in force.              *)
(***************************************************************************)
EXTENDS StreamerStartup, FiniteSetTheorems, TLAPS

-----------------------------------------------------------------------------
(* Subscription sync health tells the truth about the attempts made and      *)
(* about the directory, for every sequence of responses and failures.  The   *)
(* two invariants and the type invariant are inductive together: the number  *)
(* of successes is what ties health, version and counter.                    *)

SyncInv == SyncTypeOK /\ HealthSummarisesAttempts /\ HealthMatchesDirectory

\* The attempts that succeeded are finitely many.
LEMMA SuccessesAreFinite ==
  ASSUME outcomes \in Seq(BOOLEAN)
  PROVE  IsFiniteSet(Successes) /\ Successes \subseteq 1..Len(outcomes)
<1>1. IsFiniteSet(1..Len(outcomes))
  BY FS_Interval
<1> QED
  BY <1>1, FS_Subset DEF Successes

\* A new attempt adds its number to the successes if it succeeds and leaves
\* them alone if it fails.
LEMMA AttemptCounts ==
  ASSUME outcomes \in Seq(BOOLEAN), NEW ok \in BOOLEAN,
         outcomes' = Append(outcomes, ok)
  PROVE  /\ outcomes' \in Seq(BOOLEAN)
         /\ Len(outcomes') = Len(outcomes) + 1
         /\ Successes' = IF ok THEN Successes \cup {Len(outcomes) + 1} ELSE Successes
         /\ Cardinality(Successes') = Cardinality(Successes) + (IF ok THEN 1 ELSE 0)
         /\ Cardinality(Successes) \in Nat
         /\ OutcomeAt(Len(outcomes))' = ok
         /\ OutcomeAt(Len(outcomes) - 1)' = OutcomeAt(Len(outcomes))
<1>1. outcomes' \in Seq(BOOLEAN) /\ Len(outcomes') = Len(outcomes) + 1
  OBVIOUS
<1>2. Successes' = IF ok THEN Successes \cup {Len(outcomes) + 1} ELSE Successes
  <2>1. \A n \in 1..Len(outcomes) : outcomes'[n] = outcomes[n]
    OBVIOUS
  <2>2. outcomes'[Len(outcomes) + 1] = ok
    OBVIOUS
  <2>3. 1..(Len(outcomes) + 1) = (1..Len(outcomes)) \cup {Len(outcomes) + 1}
    OBVIOUS
  <2> QED
    BY <1>1, <2>1, <2>2, <2>3 DEF Successes
<1>3. IsFiniteSet(Successes) /\ Successes \subseteq 1..Len(outcomes)
  BY SuccessesAreFinite
<1>4. Len(outcomes) + 1 \notin Successes
  BY <1>3
<1>5. Cardinality(Successes') = Cardinality(Successes) + (IF ok THEN 1 ELSE 0)
  <2>1. Cardinality(Successes) \in Nat
    BY <1>3, FS_CardinalityType
  <2>2. CASE ok
    BY <1>2, <1>3, <1>4, <2>2, FS_AddElement
  <2>3. CASE ~ok
    BY <1>2, <2>1, <2>3
  <2> QED
    BY <2>2, <2>3
<1>6. Cardinality(Successes) \in Nat
  BY <1>3, FS_CardinalityType
<1>7. OutcomeAt(Len(outcomes))' = ok
  <2>1. outcomes'[Len(outcomes')] = ok /\ Len(outcomes') \in 1..Len(outcomes')
    BY <1>1
  <2> QED
    BY <2>1 DEF OutcomeAt
<1>8. OutcomeAt(Len(outcomes) - 1)' = OutcomeAt(Len(outcomes))
  <2>1. Len(outcomes') - 1 = Len(outcomes) /\ Len(outcomes) \in Nat
    BY <1>1
  <2>2. CASE outcomes = << >>
    BY <2>1, <2>2 DEF OutcomeAt
  <2>3. CASE outcomes # << >>
    <3>1. Len(outcomes) \in 1..Len(outcomes) /\ Len(outcomes) \in 1..Len(outcomes')
      BY <2>1, <2>3
    <3>2. outcomes'[Len(outcomes)] = outcomes[Len(outcomes)]
      BY <3>1
    <3> QED
      BY <2>1, <3>1, <3>2 DEF OutcomeAt
  <2> QED
    BY <2>2, <2>3
<1> QED
  BY <1>1, <1>2, <1>5, <1>6, <1>7, <1>8

\* A streamer begins with no attempt and the empty snapshot.
LEMMA SyncInvInit == SyncInit => SyncInv
<1> SUFFICES ASSUME SyncInit PROVE SyncInv
  OBVIOUS
<1> USE DEF SyncInit, DirectoryInit
<1>1. Successes = {} /\ Cardinality(Successes) = 0
  BY FS_EmptySet DEF Successes
<1>2. SyncTypeOK
  BY DEF SyncTypeOK, DirectoryTypeOK
<1>3. HealthSummarisesAttempts
  BY <1>1 DEF HealthSummarisesAttempts, OutcomeAt
<1>4. HealthMatchesDirectory
  BY <1>1 DEF HealthMatchesDirectory
<1> QED
  BY <1>2, <1>3, <1>4 DEF SyncInv

\* What health says follows an attempt, whatever happens to the directory.
LEMMA HealthFollows ==
  ASSUME outcomes \in Seq(BOOLEAN), HealthSummarisesAttempts,
         NEW ok \in BOOLEAN, Attempt(ok)
  PROVE  HealthSummarisesAttempts'
<1>1. outcomes' = Append(outcomes, ok) /\ health' = HealthAfter(ok, Len(outcomes) + 1)
  BY DEF Attempt
<1>2. /\ Len(outcomes') = Len(outcomes) + 1
      /\ Successes' = IF ok THEN Successes \cup {Len(outcomes) + 1} ELSE Successes
      /\ OutcomeAt(Len(outcomes))' = ok
      /\ OutcomeAt(Len(outcomes) - 1)' = OutcomeAt(Len(outcomes))
      /\ outcomes' # << >>
  BY <1>1, AttemptCounts
<1>3. Successes \subseteq 1..Len(outcomes)
  BY SuccessesAreFinite
<1>4. /\ health'.last_attempt_succeeded = OutcomeAt(Len(outcomes))'
      /\ health'.previous_attempt_succeeded = OutcomeAt(Len(outcomes) - 1)'
      /\ health'.last_attempt_at = Len(outcomes')
  BY <1>1, <1>2 DEF HealthAfter, HealthSummarisesAttempts
<1>5. IF Successes' = {}
        THEN health'.last_success_at = Missing
        ELSE /\ health'.last_success_at \in Successes'
             /\ \A n \in Successes' : n <= health'.last_success_at
  <2>1. CASE ok
    <3>1. health'.last_success_at = Len(outcomes) + 1
      BY <1>1, <2>1 DEF HealthAfter
    <3> QED
      BY <1>2, <1>3, <2>1, <3>1
  <2>2. CASE ~ok
    <3>1. health'.last_success_at = health.last_success_at
      BY <1>1, <2>2 DEF HealthAfter
    <3>2. Successes' = Successes
      BY <1>2, <2>2
    <3> QED
      BY <3>1, <3>2 DEF HealthSummarisesAttempts
  <2> QED
    BY <2>1, <2>2
<1> QED
  BY <1>2, <1>4, <1>5 DEF HealthSummarisesAttempts

\* Every attempt preserves the three invariants: a failed one keeps the
\* directory, a successful one installs the next version.
LEMMA SyncInvStep == SyncInv /\ [SyncNext]_syncVars => SyncInv'
<1> SUFFICES ASSUME SyncInv, [SyncNext]_syncVars PROVE SyncInv'
  OBVIOUS
<1>0. SyncTypeOK /\ HealthSummarisesAttempts /\ HealthMatchesDirectory
  BY DEF SyncInv
<1>t. outcomes \in Seq(BOOLEAN) /\ DirectoryTypeOK
  BY <1>0 DEF SyncTypeOK
<1>a. ASSUME Attempt(FALSE), UNCHANGED directoryVars PROVE SyncInv'
  <2>1. outcomes' \in Seq(BOOLEAN) /\ Cardinality(Successes)' = Cardinality(Successes)
    BY <1>a, <1>t, AttemptCounts DEF Attempt
  <2>2. SyncTypeOK'
    BY <1>a, <1>t, <2>1 DEF SyncTypeOK, DirectoryTypeOK, directoryVars
  <2>3. HealthSummarisesAttempts'
    BY <1>0, <1>a, <1>t, HealthFollows
  <2>4. HealthMatchesDirectory'
    BY <1>0, <1>a, <2>1 DEF HealthMatchesDirectory, Attempt, HealthAfter, directoryVars
  <2> QED
    BY <2>2, <2>3, <2>4 DEF SyncInv
<1>1. CASE FetchFails
  BY <1>1, <1>a DEF FetchFails
<1>2. CASE \E rows \in Responses : SnapshotRefused(rows)
  BY <1>2, <1>a DEF SnapshotRefused
<1>3. ASSUME NEW rows \in Responses, RefreshSubscriptions(rows) PROVE SyncInv'
  <2>1. ApplySnapshot(rows) /\ Attempt(TRUE)
    BY <1>3 DEF RefreshSubscriptions
  <2>2. rows \in SUBSET CompleteRow
    BY <2>1, ResponsesAssumption DEF ApplySnapshot, RowsAreComplete, Row, CompleteRow
  <2>3. /\ outcomes' \in Seq(BOOLEAN)
        /\ Cardinality(Successes)' = Cardinality(Successes) + 1
    BY <1>t, <2>1, AttemptCounts DEF Attempt
  <2>4. SyncTypeOK'
    <3>1. next_version \in Nat /\ next_version' = next_version + 1
      BY <1>t, <2>1 DEF DirectoryTypeOK, ApplySnapshot
    <3>2. DOMAIN applied' = 0..(next_version' - 1)
      BY <1>t, <2>1, <3>1 DEF DirectoryTypeOK, ApplySnapshot
    <3>3. \A v \in DOMAIN applied' : applied'[v] \subseteq CompleteRow
      BY <1>t, <2>1, <2>2 DEF DirectoryTypeOK, ApplySnapshot
    <3>4. /\ snapshot' \in [version : DOMAIN applied', rows : SUBSET CompleteRow]
          /\ snapshot'.rows = applied'[snapshot'.version]
      BY <1>t, <2>1, <2>2, <3>1, <3>2 DEF ApplySnapshot
    <3> QED
      BY <2>3, <3>1, <3>2, <3>3, <3>4 DEF SyncTypeOK, DirectoryTypeOK
  <2>5. HealthSummarisesAttempts'
    BY <1>0, <1>t, <2>1, HealthFollows
  <2>6. HealthMatchesDirectory'
    <3>1. /\ snapshot'.version = next_version /\ next_version' = next_version + 1
          /\ snapshot'.rows = applied'[snapshot'.version]
      BY <2>1 DEF ApplySnapshot
    <3>2. next_version = Cardinality(Successes) + 1 /\ next_version \in Nat
      BY <1>0, <1>t DEF HealthMatchesDirectory, DirectoryTypeOK
    <3>3. health'.last_success_at = Len(outcomes) + 1
      BY <2>1 DEF Attempt, HealthAfter
    <3>4. health'.last_success_at # Missing /\ snapshot'.version # 0
      <4>1. Cardinality(Successes) \in Nat /\ Len(outcomes) + 1 \in Nat
        BY <1>t, SuccessesAreFinite, FS_CardinalityType
      <4>2. snapshot'.version # 0
        BY <3>1, <3>2, <4>1
      <4>3. health'.last_success_at \in Nat
        BY <3>3, <4>1
      <4>4. health'.last_success_at # Missing
        BY <4>3, MissingAssumption
      <4> QED
        BY <4>2, <4>4
    <3> QED
      BY <2>3, <3>1, <3>2, <3>4 DEF HealthMatchesDirectory
  <2> QED
    BY <2>4, <2>5, <2>6 DEF SyncInv
<1>4. CASE UNCHANGED syncVars
  BY <1>0, <1>4
  DEF SyncInv, SyncTypeOK, DirectoryTypeOK, HealthSummarisesAttempts, HealthMatchesDirectory,
      Successes, OutcomeAt, syncVars, directoryVars
<1> QED
  BY <1>1, <1>2, <1>3, <1>4 DEF SyncNext

\* Health and directory of a streamer that only refreshes: types, the summary of
\* all attempts, and the agreement of the two.
THEOREM SyncCorrect ==
  SyncSpec => [](SyncTypeOK /\ HealthSummarisesAttempts /\ HealthMatchesDirectory)
<1>1. SyncInv => SyncTypeOK /\ HealthSummarisesAttempts /\ HealthMatchesDirectory
  BY DEF SyncInv
<1> QED
  BY SyncInvInit, SyncInvStep, <1>1, PTL DEF SyncSpec

-----------------------------------------------------------------------------
(* Starting.                                                                *)

Total == Len(config.endpoints)

Starting == {"config", "bootstrap", "transports"}

\* The first n endpoints of the configuration are named, by names of their own.
Registered(n) ==
  /\ DOMAIN endpoints = {config.endpoints[i].name : i \in 1..n}
  /\ \A i \in 1..n : endpoints[config.endpoints[i].name] = Endpoint(config.endpoints[i])
  /\ \A i, j \in 1..n : config.endpoints[i].name = config.endpoints[j].name => i = j

TargetName(r) == config.endpoints[r[1]].forwarding[r[2]]

RouteOf(r) == RouteKey(From(config, r), endpoints[TargetName(r)])

\* A set of rules is in force, each by a route of its own.
Wired(S) ==
  /\ active = {RouteOf(r) : r \in S}
  /\ \A r \in S :
       /\ TargetName(r) \in DOMAIN endpoints
       /\ endpoints[TargetName(r)].authority # From(config, r).authority
       /\ config.message_queue_size > 0
  /\ \A r, s \in S : RouteOf(r) = RouteOf(s) => r = s

\* The rules behind the loops.
Done == {r \in Rules(config) : r[1] < at \/ (r[1] = at /\ r[2] < target)}

Here == <<at, target>>

\* The rules in force: the one at hand counts once its call has succeeded.
InForce == IF reply = "OK" THEN Done \cup {Here} ELSE Done

\* What is known between the call of add_route and its check.
Calling ==
  /\ request # Contract!NoRequest =>
       /\ HasRule /\ reply = "none" /\ RuleTarget \in DOMAIN endpoints
       /\ request = [op |-> "add", in |-> Endpoint(Current), out |-> endpoints[RuleTarget]]
  /\ reply # "none" => HasRule
  /\ reply \notin {"none", "OK"} /\ ~fault => ~Sound(config)

Positions ==
  /\ at <= Total + 1
  /\ at <= Total => target <= Len(Current.forwarding) + 1
  /\ at > Total => target = 1

WiringInv ==
  /\ config \in Configs
  /\ at \in Nat \ {0} /\ target \in Nat \ {0} /\ fault \in BOOLEAN
  /\ phase \in Starting \cup {"endpoints", "wire", "ready", "failed", "stopped"}
  /\ phase \in Starting => endpoints = << >> /\ at = 1
  /\ phase \in Starting \cup {"endpoints"} => target = 1 /\ active = {} /\ Idle
  /\ phase \in {"bootstrap", "transports", "endpoints", "wire", "ready"} =>
       config.mode = "static_file"
  /\ phase = "endpoints" => at <= Total + 1 /\ Registered(at - 1)
  /\ phase = "wire" =>
       /\ Registered(Total) /\ Positions /\ Calling
       /\ Wired(InForce)
  /\ phase = "ready" => Registered(Total) /\ Wired(Rules(config))
  /\ phase \in {"failed", "stopped"} => DOMAIN endpoints \subseteq Names(config)
  /\ phase = "failed" /\ ~fault => ~Sound(config)

-----------------------------------------------------------------------------
\* What a configuration is made of.
LEMMA ConfigShape ==
  ASSUME config \in Configs
  PROVE  /\ config.message_queue_size \in Nat
         /\ Total \in Nat /\ DOMAIN config.endpoints = 1..Total
         /\ \A i \in 1..Total :
              /\ config.endpoints[i].forwarding \in Seq(STRING)
              /\ Len(config.endpoints[i].forwarding) \in Nat
              /\ DOMAIN config.endpoints[i].forwarding
                   = 1..Len(config.endpoints[i].forwarding)
<1>1. config.message_queue_size \in Nat /\ config.endpoints \in Seq(EndpointConfig)
  BY ConfigsAssumption
<1>2. Total \in Nat /\ DOMAIN config.endpoints = 1..Total
  BY <1>1 DEF Total
<1>3. \A i \in 1..Total : config.endpoints[i] \in EndpointConfig
  BY <1>1 DEF Total
<1>4. \A i \in 1..Total : config.endpoints[i].forwarding \in Seq(STRING)
  BY <1>3 DEF EndpointConfig
<1> QED
  BY <1>1, <1>2, <1>4

\* A rule is a pair of an endpoint and one of its targets.
LEMMA RuleShape ==
  ASSUME config \in Configs
  PROVE  /\ \A i \in 1..Total : \A j \in 1..Len(config.endpoints[i].forwarding) :
              <<i, j>> \in Rules(config)
         /\ \A r \in Rules(config) :
              /\ r[1] \in 1..Total
              /\ r[2] \in 1..Len(config.endpoints[r[1]].forwarding)
              /\ r = <<r[1], r[2]>>
<1>1. /\ DOMAIN config.endpoints = 1..Total
      /\ \A i \in 1..Total : DOMAIN config.endpoints[i].forwarding
                               = 1..Len(config.endpoints[i].forwarding)
  BY ConfigShape
<1>2. \A r : r \in Rules(config) <=>
        \E i \in 1..Total : \E j \in 1..Len(config.endpoints[i].forwarding) : r = <<i, j>>
  BY <1>1 DEF Rules
<1> QED
  BY <1>2

\* With names that are unique, a target name means one endpoint or none.
LEMMA TargetIsUnique ==
  ASSUME config \in Configs, Registered(Total), NEW r \in Rules(config)
  PROVE  Targets(config, r) = IF TargetName(r) \in DOMAIN endpoints
                                THEN {endpoints[TargetName(r)]} ELSE {}
<1>1. DOMAIN config.endpoints = 1..Total
  BY ConfigShape
<1>2. \A e : e \in Targets(config, r) <=>
        \E i \in 1..Total : config.endpoints[i].name = TargetName(r)
                              /\ e = Endpoint(config.endpoints[i])
  BY <1>1 DEF Targets, TargetName
<1>3. CASE TargetName(r) \in DOMAIN endpoints
  <2>1. PICK i \in 1..Total : config.endpoints[i].name = TargetName(r)
    BY <1>3 DEF Registered
  <2>2. \A e : e \in Targets(config, r) <=> e = endpoints[TargetName(r)]
    BY <1>2, <2>1 DEF Registered
  <2> QED
    BY <1>3, <2>2
<1>4. CASE TargetName(r) \notin DOMAIN endpoints
  <2>1. \A i \in 1..Total : config.endpoints[i].name # TargetName(r)
    BY <1>4 DEF Registered
  <2> QED
    BY <1>2, <1>4, <2>1
<1> QED
  BY <1>3, <1>4

\* All rules in force is what the configuration asks for, and makes it sound.
LEMMA AllWired ==
  ASSUME config \in Configs, config.mode = "static_file",
         Registered(Total), Wired(Rules(config))
  PROVE  active = RoutesAskedFor(config) /\ Sound(config)
<1>1. \A r \in Rules(config) : Targets(config, r) = {endpoints[TargetName(r)]}
  BY TargetIsUnique DEF Wired
<1>2. active = RoutesAskedFor(config)
  <2>1. \A k : k \in RoutesAskedFor(config) <=>
          \E r \in Rules(config) : \E e \in Targets(config, r) :
             k = RouteKey(From(config, r), e)
    BY DEF RoutesAskedFor
  <2>2. \A k : k \in RoutesAskedFor(config) <=> \E r \in Rules(config) : k = RouteOf(r)
    BY <1>1, <2>1 DEF RouteOf
  <2> QED
    BY <2>2 DEF Wired
<1>3. NamesAreUnique(config)
  BY ConfigShape DEF NamesAreUnique, Registered
<1>4. \A r \in Rules(config) :
        /\ Targets(config, r) # {}
        /\ \A e \in Targets(config, r) : e.authority # From(config, r).authority
        /\ config.message_queue_size > 0
  BY <1>1 DEF Wired
<1>5. \A r, s \in Rules(config) : \A e \in Targets(config, r), f \in Targets(config, s) :
        RouteKey(From(config, r), e) = RouteKey(From(config, s), f) => r = s
  BY <1>1 DEF Wired, RouteOf
<1> QED
  BY <1>2, <1>3, <1>4, <1>5 DEF Sound

\* Each way in which a rule can fail is a fault of the configuration.
LEMMA UnsoundRule ==
  ASSUME config \in Configs, Registered(Total), NEW r \in Rules(config),
         \/ TargetName(r) \notin DOMAIN endpoints
         \/ endpoints[TargetName(r)].authority = From(config, r).authority
         \/ config.message_queue_size = 0
         \/ \E s \in Rules(config) :
              /\ s # r /\ TargetName(s) \in DOMAIN endpoints /\ RouteOf(s) = RouteOf(r)
  PROVE  ~Sound(config)
<1>1. CASE TargetName(r) \notin DOMAIN endpoints
  BY <1>1, TargetIsUnique DEF Sound
<1>2. CASE config.message_queue_size = 0
  BY <1>2 DEF Sound
<1>3. ASSUME TargetName(r) \in DOMAIN endpoints
      PROVE endpoints[TargetName(r)] \in Targets(config, r)
  BY <1>3, TargetIsUnique
<1>4. CASE /\ TargetName(r) \in DOMAIN endpoints
           /\ endpoints[TargetName(r)].authority = From(config, r).authority
  BY <1>3, <1>4 DEF Sound
<1>5. ASSUME TargetName(r) \in DOMAIN endpoints, NEW s \in Rules(config),
             s # r, TargetName(s) \in DOMAIN endpoints, RouteOf(s) = RouteOf(r)
      PROVE  ~Sound(config)
  <2>1. endpoints[TargetName(s)] \in Targets(config, s)
    BY <1>5, TargetIsUnique
  <2> QED
    BY <1>3, <1>5, <2>1 DEF Sound, RouteOf
<1> QED
  BY <1>1, <1>2, <1>4, <1>5

-----------------------------------------------------------------------------
\* Every name in the map comes from the configuration.
LEMMA NamesKnown ==
  ASSUME WiringInv
  PROVE  DOMAIN endpoints \subseteq Names(config)
<1>1. DOMAIN config.endpoints = 1..Total /\ Total \in Nat
  BY ConfigShape DEF WiringInv
<1>2. ASSUME NEW n \in Nat, n <= Total, Registered(n) PROVE DOMAIN endpoints \subseteq Names(config)
  BY <1>1, <1>2 DEF Registered, Names
<1>3. CASE phase \in Starting
  BY <1>3 DEF WiringInv
<1>4. CASE phase = "endpoints"
  BY <1>1, <1>2, <1>4 DEF WiringInv, Starting
<1>5. CASE phase \in {"wire", "ready"}
  BY <1>1, <1>2, <1>5 DEF WiringInv, Starting
<1>6. CASE phase \in {"failed", "stopped"}
  BY <1>6 DEF WiringInv, Starting
<1> QED
  BY <1>3, <1>4, <1>5, <1>6 DEF WiringInv

\* Giving up is safe when something outside failed or the configuration is to
\* blame.
LEMMA GiveUpInv ==
  ASSUME WiringInv, NEW b \in BOOLEAN, GiveUp(b), ~b => ~Sound(config)
  PROVE  WiringInv'
<1>1. phase' = "failed" /\ fault' = b /\ UNCHANGED <<config, endpoints, at, target>>
  BY DEF GiveUp, wiringVars
<1>2. DOMAIN endpoints \subseteq Names(config)
  BY NamesKnown
<1> QED
  BY <1>1, <1>2 DEF WiringInv, Starting

\* So is stopping.
LEMMA StoppedInv ==
  ASSUME WiringInv, Stopped
  PROVE  WiringInv'
<1>1. phase' = "stopped" /\ UNCHANGED <<config, endpoints, at, target, fault>>
  BY DEF Stopped, wiringVars
<1>2. DOMAIN endpoints \subseteq Names(config)
  BY NamesKnown
<1> QED
  BY <1>1, <1>2 DEF WiringInv, Starting

\* A start begins with nothing named and nothing wired.
LEMMA WiringInvInit == StartupInit => WiringInv
<1> SUFFICES ASSUME StartupInit PROVE WiringInv
  OBVIOUS
<1>1. /\ config \in Configs /\ phase = "config" /\ fault = FALSE
      /\ endpoints = << >> /\ at = 1 /\ target = 1
      /\ active = {} /\ Idle
  BY DEF StartupInit, Idle, Contract!Init
<1>2. fault \in BOOLEAN
  BY <1>1
<1>4. at \in Nat \ {0} /\ target \in Nat \ {0}
  BY <1>1
<1>3. phase \in Starting /\ phase \notin {"bootstrap", "transports", "endpoints", "wire",
                                         "ready", "failed", "stopped"}
  BY <1>1 DEF Starting
<1> QED
  BY <1>1, <1>2, <1>3, <1>4 DEF WiringInv

\* The steps up to the registration of the endpoints.
LEMMA PreludeInv ==
  ASSUME WiringInv,
         LoadConfig \/ EnvironmentFails \/ Bootstrap \/ BuildTransports
  PROVE  WiringInv'
<1>1. CASE LoadConfig
  <2>1. CASE config.mode = "static_file"
    <3>1. phase = "config" /\ phase' = "bootstrap"
          /\ UNCHANGED <<config, fault, endpoints, at, target, active, request, reply>>
      BY <1>1, <2>1 DEF LoadConfig, Reach, wiringVars, contractVars
    <3> QED
      BY <2>1, <3>1 DEF WiringInv, Starting, Idle
  <2>2. CASE config.mode # "static_file"
    <3>1. GiveUp(FALSE) /\ ~Sound(config)
      BY <1>1, <2>2 DEF LoadConfig, Sound
    <3> QED
      BY <3>1, GiveUpInv
  <2> QED
    BY <2>1, <2>2
<1>2. CASE EnvironmentFails
  BY <1>2, GiveUpInv DEF EnvironmentFails
<1>3. CASE Bootstrap
  <2>1. phase = "bootstrap" /\ phase' = "transports"
        /\ UNCHANGED <<config, fault, endpoints, at, target, active, request, reply>>
    BY <1>3 DEF Bootstrap, Reach, wiringVars, contractVars
  <2> QED
    BY <2>1 DEF WiringInv, Starting, Idle
<1>4. CASE BuildTransports
  <2>1. phase = "transports" /\ phase' = "endpoints"
        /\ UNCHANGED <<config, fault, endpoints, at, target, active, request, reply>>
    BY <1>4 DEF BuildTransports, Reach, wiringVars, contractVars
  <2>a. endpoints' = << >> /\ at' = 1 /\ Total' = Total
    BY <2>1 DEF WiringInv, Starting, Total
  <2>b. Total \in Nat
    BY ConfigShape DEF WiringInv
  <2>2. Registered(at - 1)'
    BY <2>a, <2>b DEF Registered
  <2>3. Idle' /\ active' = {}
    BY <2>1 DEF WiringInv, Starting, Idle
  <2>4. at' <= Total' + 1
    BY <2>a, <2>b
  <2>5. at' \in Nat \ {0} /\ target' \in Nat \ {0} /\ target' = 1
    BY <2>1, <2>a DEF WiringInv, Starting
  <2>6. config' \in Configs /\ config'.mode = "static_file" /\ fault' \in BOOLEAN
    BY <2>1 DEF WiringInv
  <2>7. phase' = "endpoints"
    BY <2>1
  <2> QED
    BY <2>a, <2>2, <2>3, <2>4, <2>5, <2>6, <2>7 DEF WiringInv, Starting
<1> QED
  BY <1>1, <1>2, <1>3, <1>4

\* Registration names one endpoint more, or finds the name taken.
LEMMA RegistrationInv ==
  ASSUME WiringInv, RegisterEndpoint \/ EndpointsRegistered
  PROVE  WiringInv'
<1>0. Total \in Nat /\ DOMAIN config.endpoints = 1..Total /\ at \in Nat \ {0}
  BY ConfigShape DEF WiringInv
<1>1. ASSUME RegisterEndpoint PROVE WiringInv'
  <2>1. phase = "endpoints" /\ at <= Total /\ Registered(at - 1)
    BY <1>1 DEF RegisterEndpoint, WiringInv, Total
  <2>2. ASSUME Current.name \in DOMAIN endpoints, GiveUp(FALSE) PROVE WiringInv'
    <3>1. PICK i \in 1..(at - 1) : config.endpoints[i].name = config.endpoints[at].name
      BY <2>1, <2>2 DEF Registered, Current
    <3>2. i \in DOMAIN config.endpoints /\ at \in DOMAIN config.endpoints /\ i # at
      BY <1>0, <2>1
    <3>3. ~Sound(config)
      BY <3>1, <3>2 DEF Sound, NamesAreUnique
    <3> QED
      BY <2>2, <3>3, GiveUpInv
  <2>3. ASSUME Current.name \notin DOMAIN endpoints,
               endpoints' = [n \in DOMAIN endpoints \cup {Current.name} |->
                               IF n = Current.name THEN Endpoint(Current) ELSE endpoints[n]],
               at' = at + 1,
               UNCHANGED <<syncVars, config, phase, target, fault, contractVars>>
        PROVE  WiringInv'
    <3>1. UNCHANGED <<config, phase, target, fault, active, request, reply>>
      BY <2>3 DEF contractVars
    <3>2. 1..at = (1..(at - 1)) \cup {at}
      BY <1>0
    <3>3. DOMAIN endpoints' = {config.endpoints[i].name : i \in 1..at}
      BY <2>1, <2>3, <3>2 DEF Registered, Current
    <3>4. \A i \in 1..at : endpoints'[config.endpoints[i].name] = Endpoint(config.endpoints[i])
      BY <2>1, <2>3, <3>2 DEF Registered, Current
    <3>5. \A i, j \in 1..at : config.endpoints[i].name = config.endpoints[j].name => i = j
      BY <2>1, <2>3, <3>2 DEF Registered, Current
    <3>6. Registered(at - 1)' /\ at' <= Total' + 1
      <4>1. config' = config /\ at' = at + 1 /\ Total' = Total
        BY <2>3, <3>1 DEF Total
      <4>2. at' - 1 = at /\ at' <= Total' + 1
        BY <1>0, <2>1, <4>1
      <4> QED
        BY <3>3, <3>4, <3>5, <4>1, <4>2 DEF Registered
    <3> QED
      BY <1>0, <2>1, <2>3, <3>1, <3>6 DEF WiringInv, Starting, Idle
  <2> QED
    BY <1>1, <2>2, <2>3 DEF RegisterEndpoint
<1>2. ASSUME EndpointsRegistered PROVE WiringInv'
  <2>1. phase = "endpoints" /\ at = Total + 1 /\ Registered(Total)
    BY <1>0, <1>2 DEF EndpointsRegistered, WiringInv, Total
  <2>2. /\ phase' = "wire" /\ at' = 1
        /\ UNCHANGED <<config, fault, endpoints, target, active, request, reply>>
    BY <1>2 DEF EndpointsRegistered, Reach, contractVars
  <2>3. target = 1 /\ active = {} /\ request = Contract!NoRequest /\ reply = "none"
    BY <2>1 DEF WiringInv, Idle
  <2>4. Registered(Total)'
    BY <2>1, <2>2 DEF Registered, Total
  <2>5. Positions'
    <3>1. Total >= 1 => Len(config.endpoints[1].forwarding) \in Nat
      BY <1>0, ConfigShape DEF WiringInv
    <3> QED
      BY <1>0, <2>2, <2>3, <3>1 DEF Positions, Total, Current
  <2>6. Calling'
    BY <2>2, <2>3 DEF Calling
  <2>7. Done' = {}
    <3>1. \A r \in Rules(config) : r[1] >= 1 /\ r[2] >= 1
      BY <1>0, RuleShape, ConfigShape DEF WiringInv
    <3> QED
      BY <1>0, <2>2, <2>3, <3>1, RuleShape, ConfigShape DEF Done, WiringInv
  <2>8. Wired(InForce)'
    BY <2>2, <2>3, <2>7 DEF Wired, InForce
  <2> QED
    BY <2>1, <2>2, <2>3, <2>4, <2>5, <2>6, <2>8 DEF WiringInv, Starting
<1> QED
  BY <1>1, <1>2

-----------------------------------------------------------------------------
\* What the invariant says of the wiring, and of the rule at hand.
LEMMA WireFacts ==
  ASSUME WiringInv, phase = "wire"
  PROVE  /\ config \in Configs /\ config.mode = "static_file"
         /\ Registered(Total) /\ Positions /\ Calling /\ Wired(InForce)
         /\ Total \in Nat /\ at \in Nat \ {0} /\ target \in Nat \ {0}
         /\ HasRule => /\ Here \in Rules(config) /\ RuleTarget = TargetName(Here)
                       /\ From(config, Here) = Endpoint(Current)
                       /\ Current.name \in DOMAIN endpoints
                       /\ endpoints[Current.name] = Endpoint(Current)
<1>1. /\ config \in Configs /\ config.mode = "static_file"
      /\ Registered(Total) /\ Positions /\ Calling /\ Wired(InForce)
  BY DEF WiringInv, Starting
<1>2. at \in Nat \ {0} /\ target \in Nat \ {0}
  BY DEF WiringInv
<1>3. Total \in Nat
  BY <1>1, ConfigShape
<1>4. ASSUME HasRule
      PROVE  /\ Here \in Rules(config) /\ RuleTarget = TargetName(Here)
             /\ From(config, Here) = Endpoint(Current)
             /\ Current.name \in DOMAIN endpoints
             /\ endpoints[Current.name] = Endpoint(Current)
  <2>1. at \in 1..Total /\ target \in 1..Len(config.endpoints[at].forwarding)
    <3>1. Len(config.endpoints[at].forwarding) \in Nat
      BY <1>1, <1>2, <1>3, <1>4, ConfigShape DEF HasRule, Total
    <3> QED
      BY <1>2, <1>3, <1>4, <3>1 DEF HasRule, Total, Current
  <2>2. Here \in Rules(config)
    BY <1>1, <2>1, RuleShape DEF Here
  <2>3. RuleTarget = TargetName(Here) /\ From(config, Here) = Endpoint(Current)
    BY DEF RuleTarget, TargetName, Here, From, Current
  <2>4. Current.name \in DOMAIN endpoints /\ endpoints[Current.name] = Endpoint(Current)
    BY <1>1, <2>1 DEF Registered, Current
  <2> QED
    BY <2>2, <2>3, <2>4
<1> QED
  BY <1>1, <1>2, <1>3, <1>4

\* The rule at hand is not behind the loops.
LEMMA HereIsNew ==
  ASSUME WiringInv, phase = "wire"
  PROVE  Here \notin Done
  BY WireFacts DEF Done, Here

\* The parts of the invariant that a step of the wiring has to restore.
LEMMA WireKeeps ==
  ASSUME WiringInv, phase = "wire", UNCHANGED <<config, phase, endpoints>>,
         at' \in Nat \ {0}, target' \in Nat \ {0}, fault' \in BOOLEAN,
         Positions', Calling', Wired(InForce)'
  PROVE  WiringInv'
<1>1. Registered(Total)'
  <2>1. Registered(Total) /\ config' = config /\ endpoints' = endpoints
    BY WireFacts
  <2> QED
    BY <2>1 DEF Registered, Total
<1> QED
  BY <1>1, WireFacts DEF WiringInv, Starting

\* The outer loop turns when the inner one is through.
LEMMA NextEndpointInv ==
  ASSUME WiringInv, NextEndpoint
  PROVE  WiringInv'
<1>1. /\ phase = "wire" /\ at <= Total /\ request = Contract!NoRequest /\ reply = "none"
      /\ at' = at + 1 /\ target' = 1 /\ target > Len(config.endpoints[at].forwarding)
      /\ UNCHANGED <<config, phase, endpoints, active, request, reply>>
  BY DEF NextEndpoint, Idle, contractVars, Total, Current
<1>2. fault' \in BOOLEAN
  BY DEF NextEndpoint, WiringInv
<1>3. \A i \in 1..Total : Len(config.endpoints[i].forwarding) \in Nat
  BY <1>1, WireFacts, ConfigShape
<1>4. Positions'
  BY <1>1, <1>3, WireFacts DEF Positions, Total, Current
<1>5. Calling'
  BY <1>1 DEF Calling
<1>6. Done' = Done
  <2>1. \A r \in Rules(config) :
          r[1] \in 1..Total /\ r[2] \in 1..Len(config.endpoints[r[1]].forwarding)
    BY <1>1, WireFacts, RuleShape
  <2>2. \A r \in Rules(config) :
          (r[1] < at + 1 \/ (r[1] = at + 1 /\ r[2] < 1)) <=>
          (r[1] < at \/ (r[1] = at /\ r[2] < target))
    BY <1>1, <1>3, <2>1, WireFacts
  <2> QED
    BY <1>1, <2>2 DEF Done
<1>7. Wired(InForce)'
  <2>1. InForce' = InForce
    BY <1>1, <1>6 DEF InForce
  <2> QED
    BY <1>1, <2>1, WireFacts DEF Wired, RouteOf, TargetName
<1>8. at' \in Nat \ {0} /\ target' \in Nat \ {0}
  BY <1>1, WireFacts
<1> QED
  BY <1>1, <1>2, <1>4, <1>5, <1>7, <1>8, WireKeeps

\* The call of add_route for the rule at hand.
LEMMA AddRouteInv ==
  ASSUME WiringInv, AddRoute
  PROVE  WiringInv'
<1>1. /\ phase = "wire" /\ HasRule /\ reply = "none" /\ reply' = "none"
      /\ RuleTarget \in DOMAIN endpoints
      /\ request' = [op |-> "add", in |-> endpoints[Current.name], out |-> endpoints[RuleTarget]]
      /\ UNCHANGED <<config, phase, endpoints, at, target, active>>
  BY DEF AddRoute, HasRule, Idle, wiringVars, Contract!Submit
<1>2. fault' \in BOOLEAN
  BY DEF AddRoute, WiringInv
<1>3. Positions' /\ at' \in Nat \ {0} /\ target' \in Nat \ {0}
  BY <1>1, WireFacts DEF Positions, Total, Current
<1>4. Calling'
  BY <1>1, WireFacts DEF Calling, HasRule, Current, RuleTarget
<1>5. Wired(InForce)'
  <2>1. InForce' = InForce
    BY <1>1 DEF InForce, Done, Here
  <2> QED
    BY <1>1, <2>1, WireFacts DEF Wired, RouteOf, TargetName
<1> QED
  BY <1>1, <1>2, <1>3, <1>4, <1>5, WireKeeps

\* The answer of add_route.
LEMMA AddRouteReturnsInv ==
  ASSUME WiringInv, AddRouteReturns
  PROVE  WiringInv'
<1> DEFINE in == Endpoint(Current)
           out == endpoints[RuleTarget]
           k == RouteKey(in, out)
<1>1. /\ phase = "wire" /\ request # Contract!NoRequest /\ ~Panics /\ Contract!Add
      /\ UNCHANGED <<config, phase, endpoints, at, target>>
  BY DEF AddRouteReturns, wiringVars
<1>2. /\ HasRule /\ reply = "none" /\ RuleTarget \in DOMAIN endpoints
      /\ request.op = "add" /\ request.in = in /\ request.out = out
  BY <1>1, WireFacts DEF Calling
<1>3. /\ Here \in Rules(config) /\ RuleTarget = TargetName(Here) /\ From(config, Here) = in
      /\ RouteOf(Here) = k
  BY <1>1, <1>2, WireFacts DEF RouteOf
<1>4. Wired(Done) /\ InForce = Done
  BY <1>1, <1>2, WireFacts DEF InForce
<1>5. request' = Contract!NoRequest
  BY <1>1, <1>2 DEF Contract!Add, Contract!Answer
<1>6. Done' = Done /\ Here' = Here
  BY <1>1 DEF Done, Here
<1>7. Positions' /\ at' \in Nat \ {0} /\ target' \in Nat \ {0}
  BY <1>1, WireFacts DEF Positions, Total, Current
<1>8. fault' \in BOOLEAN
  BY DEF AddRouteReturns, WiringInv
<1>9. HasRule'
  BY <1>1, <1>2 DEF HasRule, Current
<1>10. Sound(config)' = Sound(config)
  <2>1. config' = config
    BY <1>1
  <2> QED
    BY <2>1 DEF Sound, NamesAreUnique, Rules, Targets, From
<1>11. CASE in.authority = out.authority
  <2>1. reply' = "INVALID_ARGUMENT" /\ active' = active
    BY <1>1, <1>2, <1>11 DEF Contract!Add, Contract!Answer
  <2>2. ~Sound(config)
    BY <1>1, <1>2, <1>3, <1>11, WireFacts, UnsoundRule
  <2>3. Calling'
    BY <1>5, <1>9, <1>10, <2>2 DEF Calling
  <2>4. Wired(InForce)'
    BY <1>1, <1>4, <1>6, <2>1 DEF Wired, InForce, RouteOf, TargetName
  <2> QED
    BY <1>1, <1>7, <1>8, <2>3, <2>4, WireKeeps
<1>12. CASE in.authority # out.authority /\ k \in active
  <2>1. reply' = "ALREADY_EXISTS" /\ active' = active
    BY <1>1, <1>2, <1>12 DEF Contract!Add, Contract!Answer
  <2>2. PICK s \in Done : RouteOf(s) = k
    BY <1>4, <1>12 DEF Wired
  <2>3. s \in Rules(config) /\ s # Here /\ TargetName(s) \in DOMAIN endpoints
    BY <1>1, <1>4, <2>2, HereIsNew DEF Done, Wired
  <2>4. ~Sound(config)
    BY <1>1, <1>3, <2>2, <2>3, WireFacts, UnsoundRule
  <2>5. Calling'
    BY <1>5, <1>9, <1>10, <2>4 DEF Calling
  <2>6. Wired(InForce)'
    BY <1>1, <1>4, <1>6, <2>1 DEF Wired, InForce, RouteOf, TargetName
  <2> QED
    BY <1>1, <1>7, <1>8, <2>5, <2>6, WireKeeps
<1>13. CASE in.authority # out.authority /\ k \notin active /\ reply' = "OK"
  <2>1. active' = active \cup {k}
    BY <1>1, <1>2, <1>13 DEF Contract!Add, Contract!Answer
  <2>2. Calling'
    BY <1>5, <1>9, <1>13 DEF Calling
  <2>3. InForce' = Done \cup {Here}
    BY <1>6, <1>13 DEF InForce
  <2>4. config.message_queue_size > 0
    <3>1. config.message_queue_size \in Nat /\ config.message_queue_size # 0
      BY <1>1, <1>2, <1>13, WireFacts, ConfigShape DEF Panics
    <3> QED
      BY <3>1
  <2>5. Wired(Done \cup {Here})'
    <3>1. active' = {RouteOf(r) : r \in Done \cup {Here}}
      BY <1>3, <1>4, <2>1 DEF Wired
    <3>2. \A r \in Done \cup {Here} :
            /\ TargetName(r) \in DOMAIN endpoints
            /\ endpoints[TargetName(r)].authority # From(config, r).authority
            /\ config.message_queue_size > 0
      BY <1>2, <1>3, <1>4, <1>13, <2>4 DEF Wired
    <3>3. \A r, s \in Done \cup {Here} : RouteOf(r) = RouteOf(s) => r = s
      BY <1>3, <1>4, <1>13 DEF Wired
    <3>4. \A r : RouteOf(r)' = RouteOf(r) /\ TargetName(r)' = TargetName(r)
                 /\ From(config, r)' = From(config, r)
      BY <1>1 DEF RouteOf, TargetName, From
    <3> QED
      BY <1>1, <1>6, <3>1, <3>2, <3>3, <3>4 DEF Wired
  <2>6. Wired(InForce)'
    BY <1>6, <2>3, <2>5 DEF Wired
  <2> QED
    BY <1>1, <1>7, <1>8, <2>2, <2>6, WireKeeps
<1>14. CASE in.authority # out.authority /\ k \notin active /\ reply' # "OK"
  <2>1. reply' = "INVALID_ARGUMENT" /\ active' = active
    BY <1>1, <1>2, <1>14 DEF Contract!Add, Contract!Answer
  <2>2. fault'
    <3>1. /\ reply' # "OK" /\ request.in.authority # request.out.authority
          /\ RouteKey(request.in, request.out) \notin active
      BY <1>2, <1>14
    <3>2. fault' = (fault \/ (reply' # "OK" /\ request.in.authority # request.out.authority
                              /\ RouteKey(request.in, request.out) \notin active))
      BY DEF AddRouteReturns
    <3> QED
      BY <3>1, <3>2, Zenon
  <2>3. Calling'
    BY <1>5, <1>9, <2>2 DEF Calling
  <2>4. Wired(InForce)'
    BY <1>1, <1>4, <1>6, <2>1 DEF Wired, InForce, RouteOf, TargetName
  <2> QED
    BY <1>1, <1>7, <1>8, <2>3, <2>4, WireKeeps
<1> QED
  BY <1>11, <1>12, <1>13, <1>14

\* The check of the answer.
LEMMA ReplyReceivedInv ==
  ASSUME WiringInv, ReplyReceived, phase = "wire"
  PROVE  WiringInv'
<1>1. HasRule /\ reply # "none" /\ request = Contract!NoRequest
  BY WireFacts DEF ReplyReceived, Calling
<1>2. CASE reply = "OK"
  <2>1. /\ target' = target + 1 /\ reply' = "none"
        /\ UNCHANGED <<config, phase, endpoints, at, fault, active, request>>
    BY <1>2 DEF ReplyReceived, NextTarget
  <2>2. Positions'
    <3>1. at <= Total /\ target <= Len(config.endpoints[at].forwarding)
      BY <1>1 DEF HasRule, Total, Current
    <3>2. Len(config.endpoints[at].forwarding) \in Nat
      BY <3>1, WireFacts, ConfigShape
    <3> QED
      BY <2>1, <3>1, <3>2, WireFacts DEF Positions, Total, Current
  <2>3. Calling'
    BY <1>1, <2>1 DEF Calling
  <2>4. Done' = Done \cup {Here}
    <3>1. \A r \in Rules(config) : /\ r[1] \in 1..Total /\ r = <<r[1], r[2]>>
                                  /\ r[2] \in 1..Len(config.endpoints[r[1]].forwarding)
      BY WireFacts, RuleShape
    <3>2. \A r \in Rules(config) : r[2] \in Int
      BY <3>1, WireFacts, ConfigShape
    <3>3. \A r \in Rules(config) :
            (r[1] < at \/ (r[1] = at /\ r[2] < target + 1)) <=>
            (r[1] < at \/ (r[1] = at /\ r[2] < target) \/ (r[1] = at /\ r[2] = target))
      BY <3>1, <3>2, WireFacts
    <3>4. \A r \in Rules(config) : r = Here <=> r[1] = at /\ r[2] = target
      BY <3>1 DEF Here
    <3>5. Here \in Rules(config)
      BY <1>1, WireFacts
    <3>6. \A r \in Rules(config) : (r[1] < at \/ (r[1] = at /\ r[2] < target + 1)) <=>
                                   r \in Done \cup {Here}
      BY <3>3, <3>4 DEF Done
    <3> QED
      BY <2>1, <3>5, <3>6 DEF Done
  <2>5. InForce' = Done \cup {Here}
    BY <2>1, <2>4 DEF InForce
  <2>6. Wired(InForce)'
    <3>1. Wired(Done \cup {Here})
      BY <1>2, WireFacts DEF InForce
    <3> QED
      BY <2>1, <2>5, <3>1 DEF Wired, RouteOf, TargetName
  <2>7. at' \in Nat \ {0} /\ target' \in Nat \ {0}
    BY <2>1, WireFacts
  <2>8. fault' \in BOOLEAN
    BY <2>1 DEF WiringInv
  <2> QED
    BY <2>1, <2>2, <2>3, <2>6, <2>7, <2>8, WireKeeps
<1>3. CASE reply # "OK"
  <2>1. GiveUp(fault) /\ fault \in BOOLEAN
    BY <1>3 DEF ReplyReceived, WiringInv
  <2>2. ~fault => ~Sound(config)
    BY <1>1, <1>3, WireFacts DEF Calling
  <2> QED
    BY <2>1, <2>2, GiveUpInv
<1> QED
  BY <1>2, <1>3

\* The two errors that the wiring meets outside the answer.
LEMMA WiringFailsInv ==
  ASSUME WiringInv, UnknownTarget \/ AddRoutePanics
  PROVE  WiringInv'
<1>1. CASE UnknownTarget
  <2>1. phase = "wire" /\ HasRule /\ RuleTarget \notin DOMAIN endpoints /\ GiveUp(FALSE)
    BY <1>1 DEF UnknownTarget, HasRule
  <2>2. ~Sound(config)
    BY <2>1, WireFacts, UnsoundRule
  <2> QED
    BY <2>1, <2>2, GiveUpInv
<1>2. CASE AddRoutePanics
  <2>1. phase = "wire" /\ request # Contract!NoRequest /\ GiveUp(fault) /\ fault \in BOOLEAN
        /\ config.message_queue_size = 0
    BY <1>2 DEF AddRoutePanics, Panics, WiringInv
  <2>2. HasRule
    BY <2>1, WireFacts DEF Calling
  <2>3. ~Sound(config)
    BY <2>1, <2>2, WireFacts, UnsoundRule
  <2> QED
    BY <2>1, <2>3, GiveUpInv
<1> QED
  BY <1>1, <1>2

\* READY is reached with all rules behind the loops.
LEMMA ReadyInv ==
  ASSUME WiringInv, Ready
  PROVE  WiringInv'
<1>1. phase = "wire" /\ at > Total /\ phase' = "ready"
      /\ UNCHANGED <<config, fault, endpoints, at, target, active, request, reply>>
  BY DEF Ready, Reach, wiringVars, contractVars, Total
<1>2. ~HasRule
  BY <1>1, WireFacts DEF HasRule, Total
<1>3. InForce = Done
  BY <1>1, <1>2, WireFacts DEF Calling, InForce
<1>4. Done = Rules(config)
  <2>1. \A r \in Rules(config) : r[1] \in 1..Total
    BY <1>1, WireFacts, RuleShape
  <2>2. \A r \in Rules(config) : r[1] < at
    BY <1>1, <2>1, WireFacts
  <2> QED
    BY <2>2 DEF Done
<1>5. Wired(Rules(config)) /\ Registered(Total)
  BY <1>1, <1>3, <1>4, WireFacts
<1>6. Wired(Rules(config))'
  <2>1. Rules(config)' = Rules(config)
    BY <1>1 DEF Rules
  <2> QED
    BY <1>1, <1>5, <2>1 DEF Wired, RouteOf, TargetName
<1>7. Registered(Total)'
  BY <1>1, <1>5 DEF Registered, Total
<1> QED
  BY <1>1, <1>6, <1>7, WireFacts DEF WiringInv, Starting

\* Steps that leave the wiring alone.
LEMMA WiringUnchanged ==
  ASSUME WiringInv, UNCHANGED <<config, phase, wiringVars, fault, contractVars>>
  PROVE  WiringInv'
<1>1. UNCHANGED <<config, phase, endpoints, at, target, fault, active, request, reply>>
  BY DEF wiringVars, contractVars
<1>2. Sound(config)' = Sound(config) /\ Names(config)' = Names(config)
  BY <1>1 DEF Sound, Names, NamesAreUnique, Rules, Targets, From
<1>3. /\ Registered(at - 1)' = Registered(at - 1) /\ Registered(Total)' = Registered(Total)
      /\ (at <= Total + 1)' = (at <= Total + 1)
  BY <1>1 DEF Registered, Total
<1>4. Positions' = Positions /\ Calling' = Calling /\ Idle' = Idle
  BY <1>1, <1>2 DEF Positions, Calling, Idle, HasRule, RuleTarget, Current, Total
<1>5. Wired(InForce)' = Wired(InForce) /\ Wired(Rules(config))' = Wired(Rules(config))
  BY <1>1 DEF Wired, InForce, Done, Here, RouteOf, TargetName, From, Rules
<1> QED
  BY <1>1, <1>2, <1>3, <1>4, <1>5 DEF WiringInv, Starting

\* Every step preserves the invariant.
LEMMA WiringInvStep == WiringInv /\ [StartupNext]_startupVars => WiringInv'
<1> SUFFICES ASSUME WiringInv, [StartupNext]_startupVars PROVE WiringInv'
  OBVIOUS
<1>1. CASE LoadConfig \/ EnvironmentFails \/ Bootstrap \/ BuildTransports
  BY <1>1, PreludeInv
<1>2. CASE RegisterEndpoint \/ EndpointsRegistered
  BY <1>2, RegistrationInv
<1>3. CASE NextEndpoint \/ AddRoute \/ AddRouteReturns
  BY <1>3, NextEndpointInv, AddRouteInv, AddRouteReturnsInv
<1>4. CASE UnknownTarget \/ AddRoutePanics
  BY <1>4, WiringFailsInv
<1>5. CASE ReplyReceived
  BY <1>5, ReplyReceivedInv DEF ReplyReceived, HasRule
<1>6. CASE Ready
  BY <1>6, ReadyInv
<1>7. CASE Refresh
  BY <1>7, WiringUnchanged DEF Refresh
<1>8. CASE ShutdownSignal \/ DropPlugin
  BY <1>8, StoppedInv DEF ShutdownSignal, DropPlugin
<1>9. CASE UNCHANGED startupVars
  BY <1>9, WiringUnchanged DEF startupVars
<1> QED
  BY <1>1, <1>2, <1>3, <1>4, <1>5, <1>6, <1>7, <1>8, <1>9 DEF StartupNext, Progress

\* Of the subscription state a start changes nothing but by SyncNext.
LEMMA StartupSyncs == [StartupNext]_startupVars => [SyncNext]_syncVars
  BY DEF StartupNext, Progress, startupVars, LoadConfig, EnvironmentFails, Bootstrap,
         BuildTransports, RegisterEndpoint, EndpointsRegistered, NextEndpoint, AddRoute,
         UnknownTarget, AddRouteReturns, AddRoutePanics, ReplyReceived, NextTarget, Ready,
         Refresh, ShutdownSignal, DropPlugin, Stopped, GiveUp

\* What the two invariants say of the checked properties.
LEMMA StartupInvImplies ==
  WiringInv /\ SyncInv => /\ StartupTypeOK /\ ReadyMeansWired
                         /\ OnlySoundConfigsStart /\ SoundConfigsStart
<1> SUFFICES ASSUME WiringInv, SyncInv
             PROVE  /\ StartupTypeOK /\ ReadyMeansWired
                    /\ OnlySoundConfigsStart /\ SoundConfigsStart
  OBVIOUS
<1>1. StartupTypeOK
  <2>1. phase \in {"config", "bootstrap", "transports", "endpoints", "wire", "ready",
                   "failed", "stopped"}
    BY DEF WiringInv, Starting
  <2>2. DOMAIN endpoints \subseteq Names(config)
    BY NamesKnown
  <2> QED
    BY <2>1, <2>2 DEF StartupTypeOK, WiringInv, SyncInv
<1>2. ASSUME phase = "ready" PROVE active = RoutesAskedFor(config) /\ Sound(config)
  <2>1. config \in Configs /\ config.mode = "static_file" /\ Registered(Total)
        /\ Wired(Rules(config))
    BY <1>2 DEF WiringInv, Starting
  <2> QED
    BY <2>1, AllWired
<1>3. SoundConfigsStart
  BY DEF SoundConfigsStart, WiringInv
<1> QED
  BY <1>1, <1>2, <1>3 DEF ReadyMeansWired, OnlySoundConfigsStart

\* Both invariants hold throughout a start and the life of its streamer.
LEMMA StartupInvariant == StartupSpec => [](WiringInv /\ SyncInv)
<1>1. StartupInit => WiringInv /\ SyncInv
  BY WiringInvInit, SyncInvInit DEF StartupInit
<1>2. (WiringInv /\ SyncInv) /\ [StartupNext]_startupVars => (WiringInv /\ SyncInv)'
  BY WiringInvStep, SyncInvStep, StartupSyncs
<1> QED
  BY <1>1, <1>2, PTL DEF StartupSpec

\* READY is said with every forwarding rule in force and no other route.
THEOREM ReadyStreamersAreWired == StartupSpec => []ReadyMeansWired
  BY StartupInvariant, StartupInvImplies, PTL

\* Only sound configurations get a streamer ready.
THEOREM ReadyConfigsAreSound == StartupSpec => []OnlySoundConfigsStart
  BY StartupInvariant, StartupInvImplies, PTL

\* The start of a sound configuration fails through the environment alone.
THEOREM SoundConfigsAreStarted == StartupSpec => []SoundConfigsStart
  BY StartupInvariant, StartupInvImplies, PTL

\* Types, over a start and the refreshes that follow it.
THEOREM StartupTypeCorrect == StartupSpec => []StartupTypeOK
  BY StartupInvariant, StartupInvImplies, PTL

\* Health sums up all attempts of a streamer, from its bootstrap on.
THEOREM HealthIsFaithful == StartupSpec => []HealthSummarisesAttempts
<1>1. SyncInv => HealthSummarisesAttempts
  BY DEF SyncInv
<1> QED
  BY StartupInvariant, <1>1, PTL

\* Health and directory agree, from the bootstrap on.
THEOREM HealthAgreesWithDirectory == StartupSpec => []HealthMatchesDirectory
<1>1. SyncInv => HealthMatchesDirectory
  BY DEF SyncInv
<1> QED
  BY StartupInvariant, <1>1, PTL

=============================================================================
