-------------------------- MODULE PublishResolution --------------------------
(***************************************************************************)
(* PublishRouteResolver::derive_source_filters as the loop it is.  It runs *)
(* over the values of a HashMap, so the order in which it meets the        *)
(* subscribers is arbitrary, and it skips a subscriber whose topic it has  *)
(* already seen.  A topic counts as seen by its ue_id, version and         *)
(* resource alone, whatever its authority, so the result is right only if  *)
(* a topic that gave no filter does not suppress a later one that does.    *)
(*                                                                         *)
(* One behaviour is one call of register_route's filter derivation: the    *)
(* rows of some fetched snapshot, cached and looked up for an egress       *)
(* authority, and then the loop.                                           *)
(***************************************************************************)
EXTENDS SubscriptionRouting

CONSTANTS
  RowUniverse,      \* the complete rows a snapshot may hold
  RouteAuthorities  \* authorities of the route's two endpoints

\* SubscriptionCache::new has refused every other snapshot.
ASSUME RowUniverseAssumption == RowUniverse \subseteq CompleteRow

VARIABLES
  fetched,          \* the rows of the snapshot behind this call
  in_authority, out_authority,
  remaining,        \* subscribers the loop has not met yet
  seen_topics,
  source_filters    \* HashMap<UriIdentityKey, UUri>

input == <<fetched, in_authority, out_authority>>
resolutionVars ==
  <<fetched, in_authority, out_authority, remaining, seen_topics, source_filters>>

ResolutionInit ==
  /\ fetched \in SUBSET RowUniverse
  /\ in_authority \in RouteAuthorities
  /\ out_authority \in RouteAuthorities \ {in_authority}
  /\ remaining = LookupRouteSubscribers(fetched, out_authority)
  /\ seen_topics = {}
  /\ source_filters = << >>

\* Loop body, seen_topics.contains(&topic_key): continue.
SkipSeen(s) ==
  /\ TopicProjectionKey(s.topic) \in seen_topics
  /\ UNCHANGED <<seen_topics, source_filters>>

\* A variant of the loop that marks a topic seen before it knows of a filter.
NoFilterMarksSeen(s) ==
  /\ TopicProjectionKey(s.topic) \notin seen_topics
  /\ ~HasSourceFilter(in_authority, s.topic)
  /\ seen_topics' = seen_topics \cup {TopicProjectionKey(s.topic)}
  /\ UNCHANGED source_filters

\* Loop body, derive_source_filter_for_topic returns None: the topic comes from
\* another authority, or the filter's URI cannot be built.
NoFilter(s) ==
  /\ TopicProjectionKey(s.topic) \notin seen_topics
  /\ ~HasSourceFilter(in_authority, s.topic)
  /\ UNCHANGED <<seen_topics, source_filters>>

\* Loop body, Some(source_uri): entry(..).or_insert(source_uri).
InsertFilter(s) ==
  LET source_uri == SourceFilterUri(in_authority, s.topic)
      key == UriIdentityKey(source_uri)
  IN  /\ TopicProjectionKey(s.topic) \notin seen_topics
      /\ HasSourceFilter(in_authority, s.topic)
      /\ seen_topics' = seen_topics \cup {TopicProjectionKey(s.topic)}
      /\ source_filters' =
           [k \in DOMAIN source_filters \cup {key} |->
              IF k \in DOMAIN source_filters THEN source_filters[k] ELSE source_uri]

ResolutionNext ==
  \E s \in remaining :
    /\ remaining' = remaining \ {s}
    /\ SkipSeen(s) \/ NoFilter(s) \/ InsertFilter(s)
    /\ UNCHANGED input

ResolutionSpec == ResolutionInit /\ [][ResolutionNext]_resolutionVars

-----------------------------------------------------------------------------
\* When the loop ends, and whatever order it met the subscribers in, the filters
\* derive_source_filters returns are exactly the subscribed ones: no subscribed
\* topic is lost to the deduplication and none of another authority gets in.
FiltersAreExact ==
  remaining = {} =>
    Range(source_filters) = SubscribedFilters(fetched, in_authority, out_authority)

=============================================================================
