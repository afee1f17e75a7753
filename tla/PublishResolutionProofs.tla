----------------------- MODULE PublishResolutionProofs -----------------------
(***************************************************************************)
(* Proofs about SubscriptionRouting's operators and PublishResolution's    *)
(* loop, for any rows, authorities and order of the loop.                  *)
(***************************************************************************)
EXTENDS PublishResolution, TLAPS

-----------------------------------------------------------------------------
(* Identities.                                                              *)

\* Truncating a field twice is truncating it once.
LEMMA TruncateTwice ==
  ASSUME NEW n \in Nat
  PROVE  (n % 256) % 256 = n % 256 /\ (n % 65536) % 65536 = n % 65536
OBVIOUS

\* The identity of a topic gives the same source filter as the topic.
LEMMA FilterOfIdentity ==
  ASSUME NEW in, NEW topic \in UUri
  PROVE  /\ SourceFilterUri(in, UriIdentityKey(topic)) = SourceFilterUri(in, topic)
         /\ HasSourceFilter(in, UriIdentityKey(topic)) <=> HasSourceFilter(in, topic)
<1>1. /\ topic.ue_version_major \in Nat /\ topic.resource_id \in Nat
      /\ UriIdentityKey(topic).authority_name = topic.authority_name
      /\ UriIdentityKey(topic).ue_id = topic.ue_id
      /\ UriIdentityKey(topic).ue_version_major = topic.ue_version_major % 256
      /\ UriIdentityKey(topic).resource_id = topic.resource_id % 65536
  BY DEF UUri, UriIdentityKey, MajorVersion, ResourceId
<1>2. SourceFilterUri(in, UriIdentityKey(topic)) = SourceFilterUri(in, topic)
  <2>1. MajorVersion(UriIdentityKey(topic)) = MajorVersion(topic)
    BY <1>1, TruncateTwice DEF MajorVersion
  <2>2. ResourceId(UriIdentityKey(topic)) = ResourceId(topic)
    BY <1>1, TruncateTwice DEF ResourceId
  <2>3. QED
    BY <1>1, <2>1, <2>2 DEF SourceFilterUri
<1>3. HasSourceFilter(in, UriIdentityKey(topic)) <=> HasSourceFilter(in, topic)
  BY <1>1 DEF HasSourceFilter, TopicMatchesIngressAuthority
<1>4. QED
  BY <1>2, <1>3

\* A source filter is its own identity, so the map that derive_source_filters fills
\* never drops one filter for another.
LEMMA FilterIsItsIdentity ==
  ASSUME NEW in, NEW topic, topic.ue_version_major \in Nat, topic.resource_id \in Nat
  PROVE  UriIdentityKey(SourceFilterUri(in, topic)) = SourceFilterUri(in, topic)
<1> DEFINE u == SourceFilterUri(in, topic)
<1>1. /\ u.ue_version_major = topic.ue_version_major % 256
      /\ u.resource_id = topic.resource_id % 65536
  BY DEF SourceFilterUri, MajorVersion, ResourceId
<1>2. MajorVersion(u) = u.ue_version_major /\ ResourceId(u) = u.resource_id
  BY <1>1, TruncateTwice DEF MajorVersion, ResourceId
<1>3. UriIdentityKey(u) = [ authority_name   |-> u.authority_name,
                            ue_id            |-> u.ue_id,
                            ue_version_major |-> u.ue_version_major,
                            resource_id      |-> u.resource_id ]
  BY <1>2 DEF UriIdentityKey
<1>4. QED
  BY <1>3 DEF SourceFilterUri

\* For one ingress authority the projection key decides the filter.
LEMMA ProjectionDecidesFilter ==
  ASSUME NEW in, NEW t, NEW u, TopicProjectionKey(t) = TopicProjectionKey(u)
  PROVE  SourceFilterUri(in, t) = SourceFilterUri(in, u)
BY DEF TopicProjectionKey, SourceFilterUri

-----------------------------------------------------------------------------
(* Lookup.                                                                  *)

\* The grouped and merged cache, read for an egress authority, holds the identities
\* of the rows whose subscriber is behind that authority or behind every authority.
LEMMA LookupIsOfRows ==
  ASSUME NEW R, NEW out
  PROVE  LookupRouteSubscribers(R, out) =
           {SubscriptionIdentityKey(row) :
              row \in {x \in R : x.subscriber.authority_name \in {out, WildcardAuthority}}}
<1> DEFINE exact     == SubscriptionCacheMap(R)
           merged    == BuildWildcardMergedCache(exact)
           Behind(a) == {SubscriptionIdentityKey(row) :
                           row \in {x \in R : x.subscriber.authority_name = a}}
<1>1. /\ DOMAIN exact = {row.subscriber.authority_name : row \in R}
      /\ \A a \in DOMAIN exact : exact[a] = Behind(a)
  BY DEF SubscriptionCacheMap
<1>2. ASSUME NEW a, a \notin DOMAIN exact
      PROVE  Behind(a) = {}
  BY <1>1, <1>2
<1>3. /\ DOMAIN merged = DOMAIN exact
      /\ \A a \in DOMAIN exact :
           merged[a] = IF a # WildcardAuthority /\ WildcardAuthority \in DOMAIN exact
                         THEN exact[a] \cup exact[WildcardAuthority]
                         ELSE exact[a]
  BY DEF BuildWildcardMergedCache
<1>4. LookupRouteSubscribers(R, out) =
        IF out \in DOMAIN merged
          THEN merged[out]
          ELSE IF out # WildcardAuthority /\ WildcardAuthority \in DOMAIN exact
                 THEN exact[WildcardAuthority]
                 ELSE {}
  BY DEF LookupRouteSubscribers, FetchCacheEntryWithWildcard, SubscriptionCache
<1>5. LookupRouteSubscribers(R, out) = Behind(out) \cup Behind(WildcardAuthority)
  <2> HIDE DEF exact, merged, Behind
  <2>0. /\ \A a \in DOMAIN exact : exact[a] = Behind(a)
        /\ WildcardAuthority \notin DOMAIN exact => Behind(WildcardAuthority) = {}
    BY <1>1, <1>2
  <2>1. CASE out \in DOMAIN exact
    <3>1. LookupRouteSubscribers(R, out) =
            IF out # WildcardAuthority /\ WildcardAuthority \in DOMAIN exact
              THEN exact[out] \cup exact[WildcardAuthority]
              ELSE exact[out]
      BY <2>1, <1>3, <1>4
    <3>2. QED
      BY <2>0, <2>1, <3>1
  <2>2. CASE out \notin DOMAIN exact
    <3>1. Behind(out) = {}
      BY <2>2, <1>2
    <3>2. LookupRouteSubscribers(R, out) =
            IF out # WildcardAuthority /\ WildcardAuthority \in DOMAIN exact
              THEN exact[WildcardAuthority]
              ELSE {}
      BY <2>2, <1>3, <1>4
    <3>3. QED
      BY <2>0, <2>2, <3>1, <3>2
  <2>3. QED
    BY <2>1, <2>2
<1>6. QED
  BY <1>5

\* The filters of the looked-up subscribers, said of the rows.
LEMMA FiltersOfRows ==
  ASSUME NEW R \in SUBSET CompleteRow, NEW in, NEW out
  PROVE  DeriveSourceFilters(in, LookupRouteSubscribers(R, out)) = SubscribedFilters(R, in, out)
<1>1. ASSUME NEW row \in R
      PROVE  /\ SourceFilterUri(in, SubscriptionIdentityKey(row).topic)
                  = SourceFilterUri(in, row.topic)
             /\ HasSourceFilter(in, SubscriptionIdentityKey(row).topic)
                  <=> HasSourceFilter(in, row.topic)
  BY FilterOfIdentity DEF SubscriptionIdentityKey, CompleteRow
<1>2. DeriveSourceFilters(in, LookupRouteSubscribers(R, out)) =
        {SourceFilterUri(in, row.topic) :
           row \in {x \in R :
                      /\ x.subscriber.authority_name \in {out, WildcardAuthority}
                      /\ HasSourceFilter(in, x.topic)}}
  BY <1>1, LookupIsOfRows DEF DeriveSourceFilters
<1>3. QED
  BY <1>2 DEF SubscribedFilters, HasSourceFilter, TopicMatchesIngressAuthority

-----------------------------------------------------------------------------
(* The loop.                                                                *)

Subscribers == LookupRouteSubscribers(fetched, out_authority)

\* The subscribers the loop has met whose topic gives a filter.
Giving == {s \in Subscribers \ remaining : HasSourceFilter(in_authority, s.topic)}

\* Whatever subscribers the loop has met so far, it has seen the topics that gave a
\* filter and has each of those filters, under itself as key.
LoopInv ==
  /\ fetched \subseteq CompleteRow
  /\ remaining \subseteq Subscribers
  /\ seen_topics = {TopicProjectionKey(s.topic) : s \in Giving}
  /\ DOMAIN source_filters = {SourceFilterUri(in_authority, s.topic) : s \in Giving}
  /\ \A k \in DOMAIN source_filters : source_filters[k] = k

\* The topic of a looked-up subscriber has numbers where UUri has them.
LEMMA SubscriberTopics ==
  ASSUME fetched \subseteq CompleteRow, NEW s \in Subscribers
  PROVE  s.topic.ue_version_major \in Nat /\ s.topic.resource_id \in Nat
<1>1. PICK row \in fetched : s = SubscriptionIdentityKey(row)
  BY LookupIsOfRows DEF Subscribers
<1>2. row.topic \in UUri
  BY DEF CompleteRow
<1>3. /\ s.topic.ue_version_major = row.topic.ue_version_major % 256
      /\ s.topic.resource_id = row.topic.resource_id % 65536
  BY <1>1 DEF SubscriptionIdentityKey, UriIdentityKey, MajorVersion, ResourceId
<1>4. QED
  BY <1>2, <1>3 DEF UUri

\* A turn of the loop moves its subscriber among those met, and among those that give
\* a filter if it does.
LEMMA TurnMeets ==
  ASSUME LoopInv, NEW s \in remaining, remaining' = remaining \ {s}, UNCHANGED input
  PROVE  /\ s \in Subscribers
         /\ remaining' \subseteq Subscribers'
         /\ Giving' = IF HasSourceFilter(in_authority, s.topic) THEN Giving \cup {s} ELSE Giving
BY DEF LoopInv, Giving, Subscribers, input

\* Every turn keeps the loop's invariant, whichever subscriber it meets.
LEMMA LoopInvNext == LoopInv /\ [ResolutionNext]_resolutionVars => LoopInv'
<1> SUFFICES ASSUME LoopInv, [ResolutionNext]_resolutionVars
             PROVE  LoopInv'
  OBVIOUS
<1>1. CASE UNCHANGED resolutionVars
  BY <1>1 DEF resolutionVars, LoopInv, Giving, Subscribers
<1>2. ASSUME NEW s \in remaining, remaining' = remaining \ {s}, UNCHANGED input,
             SkipSeen(s) \/ NoFilter(s) \/ InsertFilter(s)
      PROVE  LoopInv'
  <2> DEFINE uri == SourceFilterUri(in_authority, s.topic)
  <2>1. /\ s \in Subscribers
        /\ remaining' \subseteq Subscribers'
        /\ Giving' = IF HasSourceFilter(in_authority, s.topic)
                       THEN Giving \cup {s} ELSE Giving
        /\ fetched' \subseteq CompleteRow
        /\ in_authority' = in_authority
    BY <1>2, TurnMeets DEF input, LoopInv
  \* The topic was seen with a subscriber that gives the same filter.
  <2>2. CASE SkipSeen(s) /\ HasSourceFilter(in_authority, s.topic)
    <3>1. PICK t \in Giving : TopicProjectionKey(t.topic) = TopicProjectionKey(s.topic)
      BY <2>2 DEF SkipSeen, LoopInv
    <3>2. uri = SourceFilterUri(in_authority, t.topic)
      BY <3>1, ProjectionDecidesFilter
    <3>3. UNCHANGED <<seen_topics, source_filters>>
      BY <2>2 DEF SkipSeen
    <3>4. Giving' = Giving \cup {s}
      BY <2>1, <2>2
    <3>5. seen_topics' = {TopicProjectionKey(x.topic) : x \in Giving'}
      BY <3>1, <3>3, <3>4 DEF LoopInv
    <3>6. DOMAIN source_filters' = {SourceFilterUri(in_authority', x.topic) : x \in Giving'}
      BY <2>1, <3>1, <3>2, <3>3, <3>4 DEF LoopInv
    <3>7. \A k \in DOMAIN source_filters' : source_filters'[k] = k
      BY <3>3 DEF LoopInv
    <3>8. QED
      BY <2>1, <3>5, <3>6, <3>7 DEF LoopInv
  <2>3. CASE (SkipSeen(s) \/ NoFilter(s)) /\ ~HasSourceFilter(in_authority, s.topic)
    BY <2>1, <2>3 DEF LoopInv, SkipSeen, NoFilter
  <2>4. CASE InsertFilter(s)
    <3>1. UriIdentityKey(uri) = uri
      BY <2>1, SubscriberTopics, FilterIsItsIdentity DEF LoopInv
    <3>2. /\ HasSourceFilter(in_authority, s.topic)
          /\ seen_topics' = seen_topics \cup {TopicProjectionKey(s.topic)}
          /\ source_filters' = [k \in DOMAIN source_filters \cup {uri} |->
                                  IF k \in DOMAIN source_filters THEN source_filters[k]
                                  ELSE uri]
      BY <2>4, <3>1 DEF InsertFilter
    <3> HIDE DEF uri
    <3>3. /\ DOMAIN source_filters' = DOMAIN source_filters \cup {uri}
          /\ \A k \in DOMAIN source_filters' : source_filters'[k] = k
      BY <3>2 DEF LoopInv
    <3>4. Giving' = Giving \cup {s}
      BY <2>1, <3>2
    <3>5. QED
      BY <2>1, <3>2, <3>3, <3>4 DEF LoopInv, uri
  <2>5. QED
    BY <1>2, <2>2, <2>3, <2>4 DEF NoFilter
<1>3. QED
  BY <1>1, <1>2 DEF ResolutionNext

LEMMA LoopInvHolds == ResolutionSpec => []LoopInv
<1>1. ResolutionInit => LoopInv
  BY RowUniverseAssumption DEF ResolutionInit, LoopInv, Giving, Subscribers
<1>2. QED
  BY <1>1, LoopInvNext, PTL DEF ResolutionSpec

\* derive_source_filters returns the filters that the rest of the model takes for it,
\* in whatever order its loop meets the subscribers.
LoopDerives ==
  remaining = {} => Range(source_filters) = DeriveSourceFilters(in_authority, Subscribers)

THEOREM LoopIsDeriveSourceFilters == ResolutionSpec => []LoopDerives
<1>1. LoopInv => LoopDerives
  BY DEF LoopInv, LoopDerives, Giving, DeriveSourceFilters, Range
<1>2. QED
  BY <1>1, LoopInvHolds, PTL

\* For every snapshot, pair of authorities and order of the loop, the publish filters
\* are one for each topic subscribed to behind the egress authority that the ingress
\* authority can publish: skipping topics already seen loses none.
THEOREM FiltersAreExactForAllRows == ResolutionSpec => []FiltersAreExact
<1>1. LoopInv /\ LoopDerives => FiltersAreExact
  BY FiltersOfRows DEF LoopInv, LoopDerives, FiltersAreExact, Subscribers
<1>2. QED
  BY <1>1, LoopInvHolds, LoopIsDeriveSourceFilters, PTL

=============================================================================
