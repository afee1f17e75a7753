--------------------------- MODULE StaticFileProofs --------------------------
(***************************************************************************)
(* Proofs about StaticFileSubscription, for any number of callers, edits   *)
(* and clears, any contents of the file and both reload strategies.        *)
(***************************************************************************)
EXTENDS StaticFileSubscription, TLAPS

LoadPcs == {"load", "parse", "store"}

\* The parts of the state that the arguments below rest on.
StateShape ==
  /\ reload_strategy \in StaticFileReloadStrategy
  /\ file \in Seq(FileContents)
  /\ Len(file) > 0
  /\ clears \in Seq([edit : Nat, inUse : SUBSET Nat])
  /\ cached.edit \in Nat

\* Every call began at an edit and a clear that lie in the past; what it parsed or
\* was answered is an edit that exists.  AlwaysReload does not come near the cache.
CallShape ==
  /\ DOMAIN calls = Callers
  /\ \A c \in Callers :
       /\ calls[c].pc \in LoadPcs \cup {"answered"} =>
            calls[c].began \in 1..Len(file) /\ calls[c].after \in 0..Len(clears)
       /\ calls[c].pc = "store" => calls[c].parsed.edit \in 1..Len(file)
       /\ calls[c].pc = "answered" => calls[c].edit \in Nat /\ calls[c].before \in 0..Len(clears)
       /\ reload_strategy = "AlwaysReload" => calls[c].pc \notin {"parse", "store"}

Shape == StateShape /\ CallShape

\* What was answered since the last clear is what the cache holds.
CacheRemembers ==
  reload_strategy = "CacheOnFirstRead" =>
    \A c \in Answered :
      calls[c].before = Len(clears) => cached # None /\ cached.edit = calls[c].edit

\* For every clear, an edit in use at it bounds the file's, the cache's and every
\* parsed edit from below.
BoundedByUse ==
  \A k \in 1..Len(clears) :
    /\ \E e \in clears[k].inUse : Len(file) >= e
    /\ cached # None => \E e \in clears[k].inUse : cached.edit >= e
    /\ \A c \in Callers : calls[c].pc = "store" =>
         \E e \in clears[k].inUse : calls[c].parsed.edit >= e

-----------------------------------------------------------------------------
\* Adding an entry to the history of clears or to that of the file keeps the
\* earlier entries in their places.
LEMMA HistoryGrows ==
  ASSUME NEW S, NEW s \in Seq(S), NEW x \in S
  PROVE  /\ Append(s, x) \in Seq(S)
         /\ Len(Append(s, x)) = Len(s) + 1
         /\ \A k \in 1..Len(s) : Append(s, x)[k] = s[k]
         /\ Append(s, x)[Len(s) + 1] = x
OBVIOUS

\* The entries of a history have its type.
LEMMA HistoryType ==
  ASSUME NEW S, NEW s \in Seq(S), NEW k \in 1..Len(s)
  PROVE  s[k] \in S
OBVIOUS

\* The shape holds at the start.
LEMMA ShapeInit == StaticFileInit => Shape
BY DEF StaticFileInit, Shape, StateShape, CallShape, LoadPcs, None, Idle

\* The edits in use are edits.
LEMMA InUseType == Shape => EditsInUse \subseteq Nat /\ Len(file) \in EditsInUse
BY DEF Shape, StateShape, CallShape, EditsInUse

\* The strategy of a service never changes.
LEMMA StrategyIsFixed == [StaticFileNext]_vars => UNCHANGED reload_strategy
BY DEF StaticFileNext, vars, LoadStep, Fetch, Reload, ReadCache, ParseFile, ParseFails,
       StoreParsed, ClearCachedSubscriptions, EditFile

\* A call that begins is loading or has failed.
LEMMA FetchBegins ==
  ASSUME Shape, NEW c \in Callers, NEW request \in Requests, Fetch(c, request)
  PROVE  /\ calls'[c].pc \in {"load", "failed"}
         /\ \A d \in Callers \ {c} : calls'[d] = calls[d]
         /\ UNCHANGED <<reload_strategy, file, cached, clears>>
<1>1. CASE request # AllRows /\ request.topic = Missing
  BY <1>1 DEF Fetch, Fail, Shape, CallShape
<1>2. CASE ~(request # AllRows /\ request.topic = Missing)
  BY <1>2 DEF Fetch, Shape, CallShape
<1>3. QED
  BY <1>1, <1>2 DEF Fetch

\* What an answer records.
LEMMA AnswerRecords ==
  ASSUME Shape, NEW c \in Callers, NEW loaded, Answer(c, loaded)
  PROVE  /\ calls'[c].pc = "answered"
         /\ calls'[c].began = calls[c].began
         /\ calls'[c].after = calls[c].after
         /\ calls'[c].edit = loaded.edit
         /\ calls'[c].before = Len(clears)
         /\ \A d \in Callers \ {c} : calls'[d] = calls[d]
BY DEF Answer, Shape, CallShape

\* A load that parses the file, or misses the cache, is not answered yet.
LEMMA ParseContinues ==
  ASSUME Shape, NEW c \in Callers,
         ParseFile(c) \/ ParseFails(c) \/ (ReadCache(c) /\ cached = None)
  PROVE  /\ calls'[c].pc \in {"parse", "store", "failed"}
         /\ calls'[c].pc = "store" => calls'[c].parsed.edit = Len(file)
         /\ \A d \in Callers \ {c} : calls'[d] = calls[d]
         /\ UNCHANGED <<reload_strategy, file, cached, clears>>
<1>1. CASE ParseFile(c)
  BY <1>1 DEF ParseFile, Parsed, Shape, CallShape
<1>2. CASE ParseFails(c)
  BY <1>2 DEF ParseFails, Fail, Shape, CallShape
<1>3. CASE ReadCache(c) /\ cached = None
  BY <1>3 DEF ReadCache, Shape, CallShape
<1>4. QED
  BY <1>1, <1>2, <1>3

\* Every step keeps the shape.
LEMMA ShapeNext == Shape /\ [StaticFileNext]_vars => Shape'
<1> SUFFICES ASSUME Shape, [StaticFileNext]_vars PROVE Shape'
  OBVIOUS
<1> USE DEF Shape, StateShape, CallShape, LoadPcs, StaticFileReloadStrategy
<1>1. ASSUME NEW c \in Callers, NEW request \in Requests, Fetch(c, request) PROVE Shape'
  BY <1>1 DEF Fetch, Fail
<1>2. ASSUME NEW c \in Callers, Reload(c) PROVE Shape'
  BY <1>2 DEF Reload, Answer, Parsed
<1>3. ASSUME NEW c \in Callers, ReadCache(c) PROVE Shape'
  <2>1. CASE cached # None
    BY <1>3, <2>1 DEF ReadCache, Answer
  <2>2. CASE cached = None
    BY <1>3, <2>2 DEF ReadCache
  <2>3. QED
    BY <2>1, <2>2
<1>4. ASSUME NEW c \in Callers, ParseFile(c) PROVE Shape'
  BY <1>4 DEF ParseFile, Parsed
<1>5. ASSUME NEW c \in Callers, ParseFails(c) PROVE Shape'
  BY <1>5 DEF ParseFails, Fail
<1>6. ASSUME NEW c \in Callers, StoreParsed(c) PROVE Shape'
  BY <1>6 DEF StoreParsed, Answer
<1>7. CASE ClearCachedSubscriptions
  BY <1>7, InUseType DEF ClearCachedSubscriptions, Cleared, None
<1>8. CASE EditFile
  BY <1>8 DEF EditFile
<1>9. CASE UNCHANGED vars
  BY <1>9 DEF vars
<1>10. QED
  BY <1>1, <1>2, <1>3, <1>4, <1>5, <1>6, <1>7, <1>8, <1>9 DEF StaticFileNext, LoadStep

\* The shape is an invariant.
LEMMA ShapeInvariant == StaticFileSpec => []Shape
BY ShapeInit, ShapeNext, PTL DEF StaticFileSpec

-----------------------------------------------------------------------------
\* An answer does not predate the call with AlwaysReload, whose load is the parse.
THEOREM ReloadIsFresh == StaticFileSpec => []AnswersAreFresh
<1>1. StaticFileInit => AnswersAreFresh
  BY DEF StaticFileInit, AnswersAreFresh, Answered, Idle
<1>2. Shape /\ AnswersAreFresh /\ [StaticFileNext]_vars => AnswersAreFresh'
  <2> SUFFICES ASSUME Shape, AnswersAreFresh, [StaticFileNext]_vars,
                      reload_strategy = "AlwaysReload"
               PROVE  AnswersAreFresh'
    BY StrategyIsFixed DEF AnswersAreFresh
  <2> USE DEF Shape, StateShape, CallShape, LoadPcs, AnswersAreFresh, Answered
  <2>1. ASSUME NEW c \in Callers, NEW request \in Requests, Fetch(c, request)
        PROVE  AnswersAreFresh'
    BY <2>1, FetchBegins
  <2>2. ASSUME NEW c \in Callers, LoadStep(c) PROVE AnswersAreFresh'
    <3>1. CASE Reload(c)
      BY <3>1, AnswerRecords DEF Reload, Parsed
    <3>2. CASE ParseFails(c)
      BY <3>2, ParseContinues
    <3>3. QED
      BY <2>2, <3>1, <3>2 DEF LoadStep, ReadCache, ParseFile, StoreParsed
  <2>3. CASE ClearCachedSubscriptions
    BY <2>3 DEF ClearCachedSubscriptions
  <2>4. CASE EditFile
    BY <2>4 DEF EditFile
  <2>5. CASE UNCHANGED vars
    BY <2>5 DEF vars
  <2>6. QED
    BY <2>1, <2>2, <2>3, <2>4, <2>5 DEF StaticFileNext
<1>3. QED
  BY <1>1, <1>2, ShapeInvariant, PTL DEF StaticFileSpec

-----------------------------------------------------------------------------
\* With CacheOnFirstRead the answers between two clears are from one edit, because
\* each of them is what the cache holds until the next clear.
THEOREM CachedAnswersAgree == StaticFileSpec => []AnswersAgreeBetweenClears
<1> DEFINE Inv == CacheRemembers /\ AnswersAgreeBetweenClears
<1>1. StaticFileInit => Inv
  BY DEF StaticFileInit, CacheRemembers, AnswersAgreeBetweenClears, Answered, Idle
<1>2. Shape /\ Inv /\ [StaticFileNext]_vars => Inv'
  <2> SUFFICES ASSUME Shape, Inv, [StaticFileNext]_vars, reload_strategy = "CacheOnFirstRead"
               PROVE  Inv'
    BY StrategyIsFixed DEF CacheRemembers, AnswersAgreeBetweenClears
  <2> USE DEF CacheRemembers, AnswersAgreeBetweenClears, Answered
  <2>1. ASSUME NEW c \in Callers, NEW request \in Requests, Fetch(c, request) PROVE Inv'
    BY <2>1, FetchBegins
  <2>2. ASSUME NEW c \in Callers, Reload(c) PROVE Inv'
    BY <2>2 DEF Reload
  <2>3. ASSUME NEW c \in Callers, ReadCache(c) PROVE Inv'
    <3>1. CASE cached # None
      BY <2>3, <3>1, AnswerRecords DEF ReadCache
    <3>2. CASE cached = None
      BY <2>3, <3>2, ParseContinues
    <3>3. QED
      BY <3>1, <3>2
  <2>4. ASSUME NEW c \in Callers, ParseFile(c) PROVE Inv'
    BY <2>4, ParseContinues
  <2>5. ASSUME NEW c \in Callers, ParseFails(c) PROVE Inv'
    BY <2>5, ParseContinues
  <2>6. ASSUME NEW c \in Callers, StoreParsed(c) PROVE Inv'
    <3>1. calls[c].parsed # None
      BY <2>6 DEF StoreParsed, None, Shape, CallShape
    <3>2. CASE cached # None
      BY <2>6, <3>2, AnswerRecords DEF StoreParsed
    <3>3. CASE cached = None
      BY <2>6, <3>1, <3>3, AnswerRecords DEF StoreParsed
    <3>4. QED
      BY <3>2, <3>3
  <2>7. CASE ClearCachedSubscriptions
    <3>1. Len(clears') = Len(clears) + 1
      BY <2>7, InUseType DEF ClearCachedSubscriptions, Cleared, Shape, StateShape
    <3>2. \A c \in Answered : calls[c].before \in 0..Len(clears)
      BY DEF Shape, CallShape
    <3>3. Len(clears) \in Nat
      BY DEF Shape, StateShape
    <3>4. QED
      BY <2>7, <3>1, <3>2, <3>3 DEF ClearCachedSubscriptions
  <2>8. CASE EditFile
    BY <2>8 DEF EditFile
  <2>9. CASE UNCHANGED vars
    BY <2>9 DEF vars
  <2>10. QED
    BY <2>1, <2>2, <2>3, <2>4, <2>5, <2>6, <2>7, <2>8, <2>9 DEF StaticFileNext, LoadStep
<1>3. QED
  BY <1>1, <1>2, ShapeInvariant, PTL DEF StaticFileSpec

-----------------------------------------------------------------------------
\* An answer made of an edit that every clear allows keeps staleness bounded.
LEMMA AnswerKeepsBound ==
  ASSUME Shape, StaleOnlyFromLoadsInProgress, NEW c \in Callers, NEW loaded,
         calls[c].pc \in LoadPcs, Answer(c, loaded), UNCHANGED clears,
         \A k \in 1..Len(clears) : \E e \in clears[k].inUse : loaded.edit >= e
  PROVE  StaleOnlyFromLoadsInProgress'
<1>1. calls[c].after \in 0..Len(clears) /\ Len(clears) \in Nat
  BY DEF Shape, StateShape, CallShape
<1>2. ASSUME NEW d \in Answered' PROVE
        calls'[d].after > 0 => \E e \in clears'[calls'[d].after].inUse : calls'[d].edit >= e
  <2>1. CASE d = c
    BY <1>1, <2>1, AnswerRecords
  <2>2. CASE d # c
    BY <1>2, <2>2, AnswerRecords DEF StaleOnlyFromLoadsInProgress, Answered
  <2>3. QED
    BY <2>1, <2>2
<1>3. QED
  BY <1>2 DEF StaleOnlyFromLoadsInProgress

\* A call that begins after a clear is answered from contents no older than all
\* that were in use at the clear, with either strategy.
THEOREM StalenessIsBounded == StaticFileSpec => []StaleOnlyFromLoadsInProgress
<1> DEFINE Inv == BoundedByUse /\ StaleOnlyFromLoadsInProgress
<1>1. StaticFileInit => Inv
  BY DEF StaticFileInit, BoundedByUse, StaleOnlyFromLoadsInProgress, Answered, Idle
<1>2. Shape /\ Inv /\ [StaticFileNext]_vars => Inv'
  <2> SUFFICES ASSUME Shape, Inv, [StaticFileNext]_vars PROVE Inv'
    OBVIOUS
  <2>0. /\ \A c \in Callers : calls[c].pc \in {"load", "store", "answered"} =>
             calls[c].after \in 0..Len(clears)
        /\ \A c \in Callers : calls[c].pc = "store" => calls[c].parsed.edit \in Nat
        /\ \A c \in Callers : calls[c].pc = "answered" => calls[c].edit \in Nat
        /\ \A k \in 1..Len(clears) : clears[k].inUse \subseteq Nat
        /\ Len(file) \in Nat /\ Len(clears) \in Nat /\ cached.edit \in Nat
    <3>1. \A k \in 1..Len(clears) : clears[k].inUse \subseteq Nat
      <4>1. \A k \in 1..Len(clears) : clears[k] \in [edit : Nat, inUse : SUBSET Nat]
        BY HistoryType DEF Shape, StateShape
      <4>2. QED
        BY <4>1
    <3>2. Len(file) \in Nat /\ Len(clears) \in Nat /\ cached.edit \in Nat
      BY DEF Shape, StateShape
    <3>3. QED
      BY <3>1, <3>2 DEF Shape, CallShape, LoadPcs
  <2> USE DEF BoundedByUse, StaleOnlyFromLoadsInProgress, Answered
  <2>1. ASSUME NEW c \in Callers, NEW request \in Requests, Fetch(c, request) PROVE Inv'
    BY <2>0, <2>1, FetchBegins
  <2>2. ASSUME NEW c \in Callers, Reload(c) PROVE Inv'
    <3>1. calls[c].pc = "load" /\ Answer(c, Parsed) /\ UNCHANGED <<file, cached, clears>>
      BY <2>2 DEF Reload
    <3>2. Parsed.edit = Len(file)
      BY DEF Parsed
    <3>3. StaleOnlyFromLoadsInProgress'
      BY <3>1, <3>2, AnswerKeepsBound DEF LoadPcs
    <3>4. BoundedByUse'
      BY <3>1, AnswerRecords
    <3>5. QED
      BY <3>3, <3>4
  <2>3. ASSUME NEW c \in Callers, ReadCache(c) PROVE Inv'
    <3>1. CASE cached # None
      <4>1. StaleOnlyFromLoadsInProgress'
        BY <2>3, <3>1, AnswerKeepsBound DEF ReadCache, LoadPcs
      <4>2. BoundedByUse'
        BY <2>3, <3>1, AnswerRecords DEF ReadCache
      <4>3. QED
        BY <4>1, <4>2
    <3>2. CASE cached = None
      BY <2>0, <2>3, <3>2, ParseContinues
    <3>3. QED
      BY <3>1, <3>2
  <2>4. ASSUME NEW c \in Callers, ParseFile(c) PROVE Inv'
    BY <2>0, <2>4, ParseContinues
  <2>5. ASSUME NEW c \in Callers, ParseFails(c) PROVE Inv'
    BY <2>0, <2>5, ParseContinues
  <2>6. ASSUME NEW c \in Callers, StoreParsed(c) PROVE Inv'
    <3> DEFINE loaded == IF cached # None THEN cached ELSE calls[c].parsed
    <3>1. \A k \in 1..Len(clears) : \E e \in clears[k].inUse : loaded.edit >= e
      BY <2>6 DEF StoreParsed
    <3>2. /\ calls[c].pc = "store"
          /\ cached' = loaded
          /\ Answer(c, loaded)
          /\ UNCHANGED <<file, clears>>
      BY <2>6 DEF StoreParsed
    <3> HIDE DEF loaded
    <3>3. BoundedByUse'
      BY <3>1, <3>2, AnswerRecords
    <3>4. StaleOnlyFromLoadsInProgress'
      BY <3>1, <3>2, AnswerKeepsBound DEF LoadPcs
    <3>5. QED
      BY <3>3, <3>4
  <2>7. CASE ClearCachedSubscriptions
    <3> DEFINE entry == [edit |-> Len(file), inUse |-> EditsInUse]
    <3>1. /\ Len(clears') = Len(clears) + 1
          /\ \A k \in 1..Len(clears) : clears'[k] = clears[k]
          /\ clears'[Len(clears) + 1] = entry
      <4>1. entry \in [edit : Nat, inUse : SUBSET Nat]
        BY <2>0, InUseType
      <4>2. clears' = Append(clears, entry)
        BY <2>7 DEF ClearCachedSubscriptions, Cleared
      <4>3. QED
        BY <4>1, <4>2, HistoryGrows DEF Shape, StateShape
    <3>2. /\ Len(file) \in EditsInUse
          /\ \A c \in Callers : calls[c].pc = "store" => calls[c].parsed.edit \in EditsInUse
      BY DEF EditsInUse
    <3>3. QED
      BY <2>7, <2>0, <3>1, <3>2 DEF ClearCachedSubscriptions
  <2>8. CASE EditFile
    <3>1. Len(file') = Len(file) + 1
      BY <2>8 DEF EditFile, Shape, StateShape
    <3>2. QED
      BY <2>0, <2>8, <3>1 DEF EditFile
  <2>9. CASE UNCHANGED vars
    BY <2>9 DEF vars
  <2>10. QED
    BY <2>1, <2>2, <2>3, <2>4, <2>5, <2>6, <2>7, <2>8, <2>9 DEF StaticFileNext, LoadStep
<1>3. QED
  BY <1>1, <1>2, ShapeInvariant, PTL DEF StaticFileSpec

-----------------------------------------------------------------------------
(* What an answer says of the file.                                         *)

\* The usable pairs of topic and subscriber that the content lists.
Listed(content) ==
  UNION {{e.topic} \X (e.subscribers \ {Missing}) : e \in UsableEntries(content)}

\* The subscribers listed under some topic of the same entity.
ListedFor(content, topic) ==
  {pair[2] : pair \in {x \in Listed(content) : SameEntity(x[1], topic)}}

\* A usable entry has a topic that is a URI, and so are its well-formed subscribers.
LEMMA EntryType ==
  ASSUME NEW content \in FileContents \ {Missing}, NEW e \in UsableEntries(content)
  PROVE  e.topic \in UUri /\ e.subscribers \ {Missing} \subseteq UUri
BY FileContentsAssumption DEF UsableEntries

\* Each listed pair becomes one row, under the canonical topic.
LEMMA RowsOfContent ==
  ASSUME NEW content, NEW row
  PROVE  row \in ParseStaticSubscriptions(content) <=>
           \E e \in UsableEntries(content) : \E s \in e.subscribers \ {Missing} :
             row = [topic |-> CanonicalTopic(e.topic), subscriber |-> s]
BY DEF ParseStaticSubscriptions

LEMMA PairsOfContent ==
  ASSUME NEW content, NEW pair
  PROVE  pair \in Listed(content) <=>
           \E e \in UsableEntries(content) : \E s \in e.subscribers \ {Missing} :
             pair = <<e.topic, s>>
BY DEF Listed

\* Two topics have one canonical key exactly when they differ in the resource at most.
LEMMA CanonicalKeys ==
  ASSUME NEW t \in UUri, NEW u \in UUri
  PROVE  /\ CanonicalTopic(t) \in UUri
         /\ CanonicalTopic(t).resource_id = STATIC_RESOURCE_ID
         /\ SameEntity(t, CanonicalTopic(t))
         /\ UriProjectionKey(CanonicalTopic(t)) = UriProjectionKey(CanonicalTopic(u))
              <=> SameEntity(t, u)
<1>1. /\ CanonicalTopic(t) = [authority_name   |-> t.authority_name,
                              ue_id            |-> t.ue_id,
                              ue_version_major |-> t.ue_version_major,
                              resource_id      |-> STATIC_RESOURCE_ID]
      /\ CanonicalTopic(u) = [authority_name   |-> u.authority_name,
                              ue_id            |-> u.ue_id,
                              ue_version_major |-> u.ue_version_major,
                              resource_id      |-> STATIC_RESOURCE_ID]
  BY DEF CanonicalTopic, UUri
<1>2. CanonicalTopic(t) \in UUri
  BY <1>1 DEF UUri, STATIC_RESOURCE_ID
<1>3. SameEntity(t, CanonicalTopic(t))
  BY <1>1 DEF SameEntity, MajorVersion
<1>4. UriProjectionKey(CanonicalTopic(t)) = UriProjectionKey(CanonicalTopic(u))
        <=> SameEntity(t, u)
  BY <1>1 DEF UriProjectionKey, UriIdentityKey, MajorVersion, ResourceId, SameEntity
<1>5. QED
  BY <1>1, <1>2, <1>3, <1>4

\* The rows made of a usable content are complete.
LEMMA ParsedRowsAreComplete ==
  ASSUME NEW content \in FileContents \ {Missing}
  PROVE  ParseStaticSubscriptions(content) \subseteq CompleteRow
<1> SUFFICES ASSUME NEW row \in ParseStaticSubscriptions(content)
             PROVE  row \in CompleteRow
  OBVIOUS
<1>1. PICK e \in UsableEntries(content) : \E s \in e.subscribers \ {Missing} :
        row = [topic |-> CanonicalTopic(e.topic), subscriber |-> s]
  BY RowsOfContent
<1>2. PICK s \in e.subscribers \ {Missing} :
        row = [topic |-> CanonicalTopic(e.topic), subscriber |-> s]
  BY <1>1
<1>3. e.topic \in UUri /\ s \in UUri
  BY EntryType
<1>4. CanonicalTopic(e.topic) \in UUri
  BY <1>3, CanonicalKeys
<1>5. QED
  BY <1>2, <1>3, <1>4 DEF CompleteRow

\* fetch_subscribers names the subscribers listed for the topic's entity.
LEMMA SubscribersAreListed ==
  ASSUME NEW content \in FileContents \ {Missing}, NEW request,
         request # AllRows, request.topic \in UUri
  PROVE  Result(request, ParseStaticSubscriptions(content)) = ListedFor(content, request.topic)
<1> DEFINE rows == ParseStaticSubscriptions(content)
           key  == UriProjectionKey(CanonicalTopic(request.topic))
<1>1. Result(request, rows) =
        {row.subscriber : row \in {x \in rows : UriProjectionKey(x.topic) = key}}
  BY DEF Result
<1>2. ASSUME NEW row \in rows, UriProjectionKey(row.topic) = key
      PROVE  row.subscriber \in ListedFor(content, request.topic)
  <2>0. PICK e \in UsableEntries(content) : \E s \in e.subscribers \ {Missing} :
          row = [topic |-> CanonicalTopic(e.topic), subscriber |-> s]
    BY RowsOfContent
  <2>1. PICK s \in e.subscribers \ {Missing} :
          row = [topic |-> CanonicalTopic(e.topic), subscriber |-> s]
    BY <2>0
  <2>2. SameEntity(e.topic, request.topic)
    BY <1>2, <2>1, EntryType, CanonicalKeys
  <2>3. <<e.topic, s>> \in Listed(content)
    BY PairsOfContent
  <2>4. <<e.topic, s>>[1] = e.topic /\ <<e.topic, s>>[2] = s
    OBVIOUS
  <2>5. QED
    BY <2>1, <2>2, <2>3, <2>4 DEF ListedFor
<1>3. ASSUME NEW pair \in Listed(content), SameEntity(pair[1], request.topic)
      PROVE  \E row \in rows : UriProjectionKey(row.topic) = key /\ row.subscriber = pair[2]
  <2>0. PICK e \in UsableEntries(content) : \E s \in e.subscribers \ {Missing} :
          pair = <<e.topic, s>>
    BY PairsOfContent
  <2>1. PICK s \in e.subscribers \ {Missing} :
          pair = <<e.topic, s>>
    BY <2>0
  <2>2. [topic |-> CanonicalTopic(e.topic), subscriber |-> s] \in rows
    BY RowsOfContent
  <2>3. UriProjectionKey(CanonicalTopic(e.topic)) = key
    BY <1>3, <2>1, EntryType, CanonicalKeys
  <2>4. QED
    BY <2>1, <2>2, <2>3
<1>4. QED
  BY <1>1, <1>2, <1>3 DEF ListedFor

\* fetch_subscriptions pairs each listed subscriber with the canonical topic of its
\* entity, and makes up no pair.
LEMMA RowsAreListed ==
  ASSUME NEW content \in FileContents \ {Missing}
  PROVE  LET rows == ParseStaticSubscriptions(content)
         IN  /\ \A row \in rows :
                  /\ row.topic.resource_id = STATIC_RESOURCE_ID
                  /\ row.subscriber \in ListedFor(content, row.topic)
             /\ \A pair \in Listed(content) : \E row \in rows :
                  SameEntity(pair[1], row.topic) /\ pair[2] = row.subscriber
<1> DEFINE rows == ParseStaticSubscriptions(content)
<1>1. ASSUME NEW row \in rows
      PROVE  /\ row.topic.resource_id = STATIC_RESOURCE_ID
             /\ row.subscriber \in ListedFor(content, row.topic)
  <2>0. PICK e \in UsableEntries(content) : \E s \in e.subscribers \ {Missing} :
          row = [topic |-> CanonicalTopic(e.topic), subscriber |-> s]
    BY RowsOfContent
  <2>1. PICK s \in e.subscribers \ {Missing} :
          row = [topic |-> CanonicalTopic(e.topic), subscriber |-> s]
    BY <2>0
  <2>2. row.topic.resource_id = STATIC_RESOURCE_ID /\ SameEntity(e.topic, row.topic)
    BY <2>1, EntryType, CanonicalKeys
  <2>3. <<e.topic, s>> \in Listed(content)
    BY PairsOfContent
  <2>4. <<e.topic, s>>[1] = e.topic /\ <<e.topic, s>>[2] = s
    OBVIOUS
  <2>5. QED
    BY <2>1, <2>2, <2>3, <2>4 DEF ListedFor
<1>2. ASSUME NEW pair \in Listed(content)
      PROVE  \E row \in rows : SameEntity(pair[1], row.topic) /\ pair[2] = row.subscriber
  <2>0. PICK e \in UsableEntries(content) : \E s \in e.subscribers \ {Missing} :
          pair = <<e.topic, s>>
    BY PairsOfContent
  <2>1. PICK s \in e.subscribers \ {Missing} :
          pair = <<e.topic, s>>
    BY <2>0
  <2>2. [topic |-> CanonicalTopic(e.topic), subscriber |-> s] \in rows
    BY RowsOfContent
  <2>3. SameEntity(e.topic, CanonicalTopic(e.topic))
    BY EntryType, CanonicalKeys
  <2>4. QED
    BY <2>1, <2>2, <2>3
<1>3. QED
  BY <1>1, <1>2

-----------------------------------------------------------------------------
\* What was loaded is what the file said, all of it, at the edit noted with it.
FromFile(loaded) ==
  /\ loaded.edit \in 1..Len(file)
  /\ file[loaded.edit] # Missing
  /\ loaded.rows = ParseStaticSubscriptions(file[loaded.edit])

\* The same of an answer to a request.
AnswersFromFile(call) ==
  /\ call.edit \in 1..Len(file)
  /\ file[call.edit] # Missing
  /\ call.result = Result(call.request, ParseStaticSubscriptions(file[call.edit]))

\* A call is for all rows or for a topic, and what it has parsed or been answered is
\* from the file.
CallFromFile(call) ==
  /\ call.pc \in LoadPcs \cup {"idle", "failed", "answered"}
  /\ call.pc \in LoadPcs \cup {"answered"} =>
       call.request = AllRows \/ (call.request # AllRows /\ call.request.topic \in UUri)
  /\ call.pc = "store" => FromFile(call.parsed)
  /\ call.pc = "answered" => AnswersFromFile(call)

\* So is what the cache holds, and only CacheOnFirstRead has one.
CacheFromFile ==
  cached # None => FromFile(cached) /\ reload_strategy = "CacheOnFirstRead"

LoadedFromFile == CacheFromFile /\ \A c \in Callers : CallFromFile(calls[c])

\* The file's history only grows, so what it has said it will always have said.
LEMMA FileKeepsItsEdits ==
  ASSUME Shape, [StaticFileNext]_vars
  PROVE  /\ Len(file) \in Nat /\ Len(file') \in Nat
         /\ Len(file) <= Len(file')
         /\ \A k \in 1..Len(file) : file'[k] = file[k]
<1>1. CASE EditFile
  BY <1>1 DEF EditFile, Shape, StateShape
<1>2. CASE UNCHANGED file
  BY <1>2 DEF Shape, StateShape
<1>3. QED
  BY <1>1, <1>2
     DEF StaticFileNext, vars, LoadStep, Fetch, Reload, ReadCache, ParseFile, ParseFails,
         StoreParsed, ClearCachedSubscriptions

LEMMA LoadsStayFromFile ==
  ASSUME Shape, [StaticFileNext]_vars
  PROVE  /\ \A loaded : FromFile(loaded) =>
              /\ loaded.edit \in 1..Len(file')
              /\ file'[loaded.edit] # Missing
              /\ loaded.rows = ParseStaticSubscriptions(file'[loaded.edit])
         /\ \A call : AnswersFromFile(call) =>
              /\ call.edit \in 1..Len(file')
              /\ file'[call.edit] # Missing
              /\ call.result = Result(call.request, ParseStaticSubscriptions(file'[call.edit]))
BY FileKeepsItsEdits DEF FromFile, AnswersFromFile

\* A step that keeps the cache and the calls of others keeps what is known of them.
LEMMA OthersStayFromFile ==
  ASSUME Shape, LoadedFromFile, [StaticFileNext]_vars
  PROVE  /\ UNCHANGED cached => CacheFromFile'
         /\ \A d \in Callers : calls'[d] = calls[d] => CallFromFile(calls[d])'
<1>1. UNCHANGED cached => CacheFromFile'
  BY LoadsStayFromFile, StrategyIsFixed DEF LoadedFromFile, CacheFromFile, FromFile
<1>2. ASSUME NEW d \in Callers, calls'[d] = calls[d]
      PROVE  CallFromFile(calls[d])'
  <2>1. CallFromFile(calls[d])
    BY DEF LoadedFromFile
  <2>2. calls[d].pc = "store" => FromFile(calls[d].parsed)'
    BY <1>2, <2>1, LoadsStayFromFile DEF CallFromFile, FromFile
  <2>3. calls[d].pc = "answered" => AnswersFromFile(calls[d])'
    BY <1>2, <2>1, LoadsStayFromFile DEF CallFromFile, AnswersFromFile
  <2>4. QED
    BY <1>2, <2>1, <2>2, <2>3 DEF CallFromFile
<1>3. QED
  BY <1>1, <1>2

\* An answer made from a load is what the file said.
LEMMA AnswerFromFile ==
  ASSUME Shape, LoadedFromFile, NEW c \in Callers, NEW loaded, FromFile(loaded),
         calls[c].pc \in LoadPcs, Answer(c, loaded), UNCHANGED file
  PROVE  CallFromFile(calls[c])'
<1>1. calls[c].request = AllRows \/ (calls[c].request # AllRows /\ calls[c].request.topic \in UUri)
  BY DEF LoadedFromFile, CallFromFile
<1>2. /\ calls'[c].pc = "answered"
      /\ calls'[c].request = calls[c].request
      /\ calls'[c].edit = loaded.edit
      /\ calls'[c].result = Result(calls[c].request, loaded.rows)
  BY DEF Answer, Shape, CallShape
<1>3. AnswersFromFile(calls[c])'
  BY <1>2 DEF FromFile, AnswersFromFile
<1>4. QED
  BY <1>1, <1>2, <1>3 DEF CallFromFile, LoadPcs

\* What is parsed now is what the file says now.
LEMMA ParsedFromFile ==
  ASSUME Shape, CurrentContent # Missing
  PROVE  FromFile(Parsed)
BY DEF Shape, StateShape, CurrentContent, Parsed, FromFile

\* Every step keeps all loads from the file.
LEMMA LoadedFromFileNext == Shape /\ LoadedFromFile /\ [StaticFileNext]_vars => LoadedFromFile'
<1> SUFFICES ASSUME Shape, LoadedFromFile, [StaticFileNext]_vars
             PROVE  LoadedFromFile'
  OBVIOUS
\* A step of one caller that leaves the cache has to be looked at for that caller.
<1>0. ASSUME NEW c \in Callers, CacheFromFile', CallFromFile(calls[c])',
             \A d \in Callers \ {c} : calls'[d] = calls[d]
      PROVE  LoadedFromFile'
  BY <1>0, OthersStayFromFile DEF LoadedFromFile
<1>1. ASSUME NEW c \in Callers, NEW request \in Requests, Fetch(c, request)
      PROVE  LoadedFromFile'
  <2>1. CASE request # AllRows /\ request.topic = Missing
    <3>1. calls'[c] = [pc |-> "failed"]
      BY <1>1, <2>1 DEF Fetch, Fail, Shape, CallShape
    <3>2. CallFromFile(calls[c])'
      BY <3>1 DEF CallFromFile, LoadPcs
    <3>3. QED
      BY <1>0, <1>1, <3>2, FetchBegins, OthersStayFromFile
  <2>2. CASE ~(request # AllRows /\ request.topic = Missing)
    <3>1. request = AllRows \/ (request # AllRows /\ request.topic \in UUri)
      BY <2>2, StaticFileAssumption DEF Requests, AllRows, SubscribersOf
    <3>2. /\ calls'[c].pc = "load"
          /\ calls'[c].request = request
      BY <1>1, <2>2 DEF Fetch, Shape, CallShape
    <3>3. CallFromFile(calls[c])'
      BY <3>1, <3>2 DEF CallFromFile, LoadPcs
    <3>4. QED
      BY <1>0, <1>1, <3>3, FetchBegins, OthersStayFromFile
  <2>3. QED
    BY <2>1, <2>2
<1>2. ASSUME NEW c \in Callers, Reload(c)
      PROVE  LoadedFromFile'
  <2>1. FromFile(Parsed)
    BY <1>2, ParsedFromFile DEF Reload
  <2>2. /\ calls[c].pc \in LoadPcs
        /\ Answer(c, Parsed)
        /\ UNCHANGED <<file, cached>>
    BY <1>2 DEF Reload, LoadPcs
  <2>3. CallFromFile(calls[c])'
    BY <2>1, <2>2, AnswerFromFile
  <2>4. QED
    BY <1>0, <2>2, <2>3, AnswerRecords, OthersStayFromFile
<1>3. ASSUME NEW c \in Callers, ReadCache(c), cached # None
      PROVE  LoadedFromFile'
  <2>1. FromFile(cached)
    BY <1>3 DEF LoadedFromFile, CacheFromFile
  <2>2. /\ calls[c].pc \in LoadPcs
        /\ Answer(c, cached)
        /\ UNCHANGED <<file, cached>>
    BY <1>3 DEF ReadCache, LoadPcs
  <2>3. CallFromFile(calls[c])'
    BY <2>1, <2>2, AnswerFromFile
  <2>4. QED
    BY <1>0, <2>2, <2>3, AnswerRecords, OthersStayFromFile
<1>4. ASSUME NEW c \in Callers, ParseFile(c) \/ ParseFails(c) \/ (ReadCache(c) /\ cached = None)
      PROVE  LoadedFromFile'
  <2>1. /\ calls[c].pc \in LoadPcs
        /\ UNCHANGED <<file, cached>>
    BY <1>4, ParseContinues DEF LoadPcs, ParseFile, ParseFails, ReadCache
  <2>2. calls[c].request = AllRows
          \/ (calls[c].request # AllRows /\ calls[c].request.topic \in UUri)
    BY <2>1 DEF LoadedFromFile, CallFromFile
  <2>3. CASE ParseFile(c)
    <3>1. /\ calls'[c].pc = "store"
          /\ calls'[c].request = calls[c].request
          /\ calls'[c].parsed = Parsed
          /\ FromFile(Parsed)
      BY <2>3, ParsedFromFile DEF ParseFile, Shape, CallShape
    <3>2. FromFile(calls[c].parsed)'
      BY <2>1, <3>1 DEF FromFile
    <3>3. QED
      BY <1>0, <1>4, <2>1, <2>2, <3>1, <3>2, ParseContinues, OthersStayFromFile
         DEF CallFromFile, LoadPcs
  <2>4. CASE ParseFails(c)
    <3>1. calls'[c] = [pc |-> "failed"]
      BY <2>4 DEF ParseFails, Fail, Shape, CallShape
    <3>2. QED
      BY <1>0, <1>4, <2>1, <3>1, ParseContinues, OthersStayFromFile DEF CallFromFile, LoadPcs
  <2>5. CASE ReadCache(c) /\ cached = None
    <3>1. calls'[c].pc = "parse" /\ calls'[c].request = calls[c].request
      BY <2>5 DEF ReadCache, Shape, CallShape
    <3>2. QED
      BY <1>0, <1>4, <2>1, <2>2, <3>1, ParseContinues, OthersStayFromFile
         DEF CallFromFile, LoadPcs
  <2>6. QED
    BY <1>4, <2>3, <2>4, <2>5
<1>5. ASSUME NEW c \in Callers, StoreParsed(c)
      PROVE  LoadedFromFile'
  <2> DEFINE loaded == IF cached # None THEN cached ELSE calls[c].parsed
  <2>1. FromFile(loaded) /\ reload_strategy = "CacheOnFirstRead"
    BY <1>5 DEF StoreParsed, LoadedFromFile, CacheFromFile, CallFromFile, Shape, StateShape,
                CallShape, StaticFileReloadStrategy
  <2>2. /\ calls[c].pc \in LoadPcs
        /\ Answer(c, loaded)
        /\ cached' = loaded
        /\ UNCHANGED <<file, reload_strategy>>
    BY <1>5 DEF StoreParsed, LoadPcs
  <2> HIDE DEF loaded
  <2>3. CacheFromFile'
    BY <2>1, <2>2 DEF CacheFromFile, FromFile
  <2>4. CallFromFile(calls[c])'
    BY <2>1, <2>2, AnswerFromFile
  <2>5. QED
    BY <1>0, <2>2, <2>3, <2>4, AnswerRecords
<1>6. CASE ClearCachedSubscriptions
  <2>1. CacheFromFile'
    BY <1>6 DEF ClearCachedSubscriptions, CacheFromFile
  <2>2. QED
    BY <1>6, <2>1, OthersStayFromFile DEF ClearCachedSubscriptions, LoadedFromFile
<1>7. CASE EditFile \/ UNCHANGED vars
  BY <1>7, OthersStayFromFile DEF EditFile, vars, LoadedFromFile
<1>8. QED
  BY <1>1, <1>2, <1>3, <1>4, <1>5, <1>6, <1>7 DEF StaticFileNext, LoadStep

LEMMA LoadedFromFileHolds == StaticFileSpec => []LoadedFromFile
<1>1. StaticFileInit => LoadedFromFile
  BY DEF StaticFileInit, LoadedFromFile, CacheFromFile, CallFromFile, Idle, LoadPcs
<1>2. QED
  BY <1>1, ShapeInvariant, LoadedFromFileNext, PTL DEF StaticFileSpec

-----------------------------------------------------------------------------
\* Types: in particular the cache is CacheOnFirstRead's only, and every row is complete,
\* so that SubscriptionCache::new refuses no response of this service.
THEOREM StaticFileTypeCorrect == StaticFileSpec => []StaticFileTypeOK
<1>1. Shape /\ LoadedFromFile => StaticFileTypeOK
  <2> SUFFICES ASSUME Shape, LoadedFromFile
               PROVE  StaticFileTypeOK
    OBVIOUS
  <2>1. CASE cached = None
    BY <2>1 DEF None, Shape, StateShape, LoadedFromFile, CallFromFile, LoadPcs, AnswersFromFile,
                StaticFileTypeOK, Answered
  <2>2. CASE cached # None
    <3>1. FromFile(cached) /\ reload_strategy = "CacheOnFirstRead"
      BY <2>2 DEF LoadedFromFile, CacheFromFile
    <3>2. file[cached.edit] \in FileContents \ {Missing}
      BY <3>1 DEF FromFile, Shape, StateShape
    <3>3. cached.rows \subseteq CompleteRow
      BY <3>1, <3>2, ParsedRowsAreComplete DEF FromFile
    <3>4. cached.edit \in 0..Len(file) /\ cached.edit > 0
      BY <3>1 DEF FromFile, Shape, StateShape
    <3>5. QED
      BY <3>1, <3>3, <3>4 DEF LoadedFromFile, CallFromFile, LoadPcs, AnswersFromFile,
                              StaticFileTypeOK, Answered
  <2>3. QED
    BY <2>1, <2>2
<1>2. QED
  BY <1>1, ShapeInvariant, LoadedFromFileHolds, PTL

\* Whatever interleaving of loads, clears and edits led to it, an answer is what the
\* file said at one edit, entity by entity: nothing of two edits is ever mixed, no
\* well-formed subscriber is left out, none is made up.
THEOREM AnswersAreFaithful == StaticFileSpec => []AnswersMatchTheFile
<1>1. Shape /\ LoadedFromFile => AnswersMatchTheFile
  <2> SUFFICES ASSUME Shape, LoadedFromFile, NEW c \in Answered
               PROVE  LET call == calls[c]
                          content == file[call.edit]
                      IN  /\ content # Missing
                          /\ call.request # AllRows =>
                               call.result = ListedFor(content, call.request.topic)
                          /\ call.request = AllRows =>
                               /\ \A row \in call.result :
                                    /\ row.topic.resource_id = STATIC_RESOURCE_ID
                                    /\ row.subscriber \in ListedFor(content, row.topic)
                               /\ \A pair \in Listed(content) : \E row \in call.result :
                                    SameEntity(pair[1], row.topic) /\ pair[2] = row.subscriber
    BY DEF AnswersMatchTheFile, Listed, ListedFor
  <2>1. CallFromFile(calls[c]) /\ calls[c].pc = "answered"
    BY DEF LoadedFromFile, Answered
  <2>2. PICK content \in FileContents \ {Missing} : content = file[calls[c].edit]
    BY <2>1 DEF CallFromFile, AnswersFromFile, Shape, StateShape
  <2>3. calls[c].result = Result(calls[c].request, ParseStaticSubscriptions(content))
    BY <2>1, <2>2 DEF CallFromFile, AnswersFromFile
  <2>4. CASE calls[c].request # AllRows
    <3>1. calls[c].request.topic \in UUri
      BY <2>1, <2>4 DEF CallFromFile
    <3>2. calls[c].result = ListedFor(content, calls[c].request.topic)
      BY <2>3, <2>4, <3>1, SubscribersAreListed
    <3>3. QED
      BY <2>2, <2>4, <3>2
  <2>5. CASE calls[c].request = AllRows
    <3>1. calls[c].result = ParseStaticSubscriptions(content)
      BY <2>3, <2>5 DEF Result
    <3>2. QED
      BY <2>2, <2>5, <3>1, RowsAreListed
  <2>6. QED
    BY <2>4, <2>5
<1>2. QED
  BY <1>1, ShapeInvariant, LoadedFromFileHolds, PTL

=============================================================================
