------------------------- MODULE SubscriptionRouting -------------------------
(***************************************************************************)
(* The pure part of up-streamer's routing layer: the identity of a URI,    *)
(* the subscription cache with its wildcard-merged view, and the publish   *)
(* source filters a route needs for the subscribers behind its egress      *)
(* authority.                                                              *)
(*                                                                         *)
(* The code's SubscriptionLookup maps an identity key to the row it was    *)
(* built from, and everything read from that row later (authority, ue_id,  *)
(* truncated version and resource of the topic) is determined by the key.  *)
(* A lookup is therefore the set of its keys, and which of two rows with   *)
(* one identity is kept cannot be told apart.                              *)
(***************************************************************************)
EXTENDS Naturals, FiniteSets, Functions

CONSTANTS
  Missing,              \* an absent optional field of a protobuf message
  MalformedAuthorities  \* authority names that UUri::try_from_parts rejects

WildcardAuthority == "*"

\* 0xFFFF_FFFF, as the same 32 bits read as a signed integer: ue_id is only
\* ever compared.
WildcardUeId == -1

UUri == [ authority_name   : STRING,
          ue_id            : Int,
          ue_version_major : Nat,
          resource_id      : Nat ]

\* UUri::uentity_major_version and UUri::resource_id keep the low bits of two
\* 32-bit protobuf fields.
MajorVersion(uri) == uri.ue_version_major % 256
ResourceId(uri)   == uri.resource_id % 65536

\* UriIdentityKey::from
UriIdentityKey(uri) ==
  [ authority_name   |-> uri.authority_name,
    ue_id            |-> uri.ue_id,
    ue_version_major |-> MajorVersion(uri),
    resource_id      |-> ResourceId(uri) ]

\* authority_to_wildcard_filter
AuthorityToWildcardFilter(authority) ==
  [ authority_name   |-> authority,
    ue_id            |-> WildcardUeId,
    ue_version_major |-> 255,
    resource_id      |-> 65535 ]

\* One subscription of a response, complete or not.  A missing subscriber and a
\* subscriber without URI are treated alike.
Row == [topic : UUri \cup {Missing}, subscriber : UUri \cup {Missing}]

CompleteRow == [topic : UUri, subscriber : UUri]

\* SubscriptionIdentityKey::from, for a row that has all its fields.
SubscriptionIdentityKey(row) ==
  [ topic |-> UriIdentityKey(row.topic), subscriber |-> UriIdentityKey(row.subscriber) ]

\* SubscriptionCache::new rejects the whole response when one row has no topic,
\* no subscriber or a subscriber without URI.
RowsAreComplete(rows) ==
  \A row \in rows : row.topic # Missing /\ row.subscriber # Missing

\* subscription_cache_map: identities grouped by the subscriber's authority.
SubscriptionCacheMap(rows) ==
  [ a \in {row.subscriber.authority_name : row \in rows} |->
      {SubscriptionIdentityKey(row) :
         row \in {x \in rows : x.subscriber.authority_name = a}} ]

\* Variant: subscribers of an authority hide those of every authority.
BuildWildcardMergedCacheUnmerged(exact) == exact

\* SubscriptionCache::build_wildcard_merged_cache
BuildWildcardMergedCache(exact) ==
  [ a \in DOMAIN exact |->
      IF a # WildcardAuthority /\ WildcardAuthority \in DOMAIN exact
        THEN exact[a] \cup exact[WildcardAuthority]
        ELSE exact[a] ]

\* SubscriptionCache::new on complete rows, and SubscriptionCache::default on none.
SubscriptionCache(rows) ==
  LET exact == SubscriptionCacheMap(rows)
  IN  [exact |-> exact, merged |-> BuildWildcardMergedCache(exact)]

\* fetch_cache_entry_with_wildcard, with an empty lookup for None: its caller
\* lookup_route_subscribers_from_snapshot makes no other use of the difference.
FetchCacheEntryWithWildcard(cache, entry) ==
  IF entry \in DOMAIN cache.merged
    THEN cache.merged[entry]
    ELSE IF entry # WildcardAuthority /\ WildcardAuthority \in DOMAIN cache.exact
           THEN cache.exact[WildcardAuthority]
           ELSE {}

LookupRouteSubscribers(rows, out_authority) ==
  FetchCacheEntryWithWildcard(SubscriptionCache(rows), out_authority)

-----------------------------------------------------------------------------
\* PublishRouteResolver::topic_projection_key
TopicProjectionKey(topic) == <<topic.ue_id, MajorVersion(topic), ResourceId(topic)>>

\* PublishRouteResolver::topic_matches_ingress_authority
TopicMatchesIngressAuthority(in_authority, topic) ==
  topic.authority_name \in {WildcardAuthority, in_authority}

\* UUri::try_from_parts on the ingress authority and the topic's parts.
SourceFilterUri(in_authority, topic) ==
  [ authority_name   |-> in_authority,
    ue_id            |-> topic.ue_id,
    ue_version_major |-> MajorVersion(topic),
    resource_id      |-> ResourceId(topic) ]

\* PublishRouteResolver::derive_source_filter_for_topic returns Some.
HasSourceFilter(in_authority, topic) ==
  /\ TopicMatchesIngressAuthority(in_authority, topic)
  /\ in_authority \notin MalformedAuthorities

\* What PublishRouteResolver::derive_source_filters returns, whatever the order
\* in which its loop meets the subscribers (module PublishResolution has the loop).
DeriveSourceFilters(in_authority, subscribers) ==
  {SourceFilterUri(in_authority, s.topic) :
     s \in {x \in subscribers : HasSourceFilter(in_authority, x.topic)}}

-----------------------------------------------------------------------------
\* The publish filters of a route, said of the rows without any cache or loop:
\* one for each topic that some subscriber behind the egress authority (or
\* behind every authority) asked for and that the ingress authority can publish.
SubscribedFilters(rows, in_authority, out_authority) ==
  {SourceFilterUri(in_authority, row.topic) :
     row \in {x \in rows :
                /\ x.subscriber.authority_name \in {out_authority, WildcardAuthority}
                /\ x.topic.authority_name \in {in_authority, WildcardAuthority}
                /\ in_authority \notin MalformedAuthorities}}

=============================================================================
