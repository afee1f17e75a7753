----------------------- MODULE StaticFileSubscription ------------------------
(***************************************************************************)
(* USubscriptionStaticFile, the uSubscription service that reads its       *)
(* subscriptions from a JSON file.  With CacheOnFirstRead it keeps what it *)
(* parsed until clear_cached_subscriptions.                                *)
(*                                                                         *)
(* Its methods take &self and may run on several threads.  A load takes    *)
(* the cache's lock twice and reads the file in between without it, so one *)
(* step is a lock hold or the reading of the file.  A file that is read    *)
(* while it is being written is one more content, as a rule Missing.  No   *)
(* code panics while it holds the lock, so the lock is never poisoned.     *)
(*                                                                         *)
(* subscribe and unsubscribe are refused; register_for_notifications,      *)
(* unregister_for_notifications and reset do nothing: no actions.          *)
(***************************************************************************)
EXTENDS SubscriptionRouting, Sequences

CONSTANTS
  Callers,       \* threads that call the service
  FileContents,  \* what the file may hold: a set of entries, or Missing when it
                 \* cannot be found, read or parsed or is no JSON object
  NotAList,      \* a value that is no array
  Topics,        \* topics that fetch_subscribers is asked for
  MaxEdits,      \* bound on the edits of the file in one behaviour
  MaxClears      \* bound on the calls of clear_cached_subscriptions

ASSUME StaticFileAssumption ==
  /\ Topics \subseteq UUri \cup {Missing}
  /\ MaxEdits \in Nat /\ MaxClears \in Nat

\* An entry's topic and the items of its list of subscribers are URIs, or Missing
\* where they do not parse as one.
ASSUME FileContentsAssumption ==
  \A content \in FileContents \ {Missing} : \A e \in content :
    /\ e.topic \in UUri \cup {Missing}
    /\ e.subscribers # NotAList => e.subscribers \subseteq UUri \cup {Missing}

VARIABLES
  reload_strategy,  \* set when the service is made
  file,    \* the contents the file has had, the current one last
  cached,  \* cached_subscriptions: None, or the rows and the edit they are from
  calls,   \* per caller, its fetch in progress or the answer it got
  clears   \* history: per clear, the current edit and the edits still in use

vars == <<reload_strategy, file, cached, calls, clears>>

StaticFileReloadStrategy == {"AlwaysReload", "CacheOnFirstRead"}

\* No cached or parsed subscriptions.
None == [edit |-> 0, rows |-> {}]

STATIC_RESOURCE_ID == 32769

\* The service's own key of a URI has the fields of UriIdentityKey.
UriProjectionKey(uri) == UriIdentityKey(uri)

\* The topic under which every entry or request is kept.
CanonicalTopic(topic) == [topic EXCEPT !.resource_id = STATIC_RESOURCE_ID]

UsableEntries(content) ==
  {e \in content : e.topic # Missing /\ e.subscribers # NotAList}

\* Variant: the topic keeps the resource it has in the file.
ParseStaticSubscriptionsVerbatim(content) ==
  UNION {{[topic |-> e.topic, subscriber |-> s] : s \in e.subscribers \ {Missing}} :
           e \in UsableEntries(content)}

\* Variant: a subscriber that does not parse is kept.
ParseStaticSubscriptionsMalformed(content) ==
  UNION {{[topic |-> CanonicalTopic(e.topic), subscriber |-> s] : s \in e.subscribers} :
           e \in UsableEntries(content)}

\* parse_static_subscriptions on a JSON object: an entry is a topic with a list of
\* subscribers, where Missing stands for a URI that does not parse.  URIs that
\* parse are within the width of their fields, so rows of one identity are equal.
ParseStaticSubscriptions(content) ==
  UNION {{[topic |-> CanonicalTopic(e.topic), subscriber |-> s] :
            s \in e.subscribers \ {Missing}} :
           e \in UsableEntries(content)}

\* What fetch_subscriptions makes of the loaded rows.
AllRows == [kind |-> "fetch_subscriptions"]

\* What fetch_subscribers makes of them.
SubscribersOf(topic) == [kind |-> "fetch_subscribers", topic |-> topic]

Requests == {AllRows} \cup {SubscribersOf(t) : t \in Topics}

Result(request, rows) ==
  IF request = AllRows
    THEN rows
    ELSE {row.subscriber :
            row \in {x \in rows : UriProjectionKey(x.topic)
                                    = UriProjectionKey(CanonicalTopic(request.topic))}}

-----------------------------------------------------------------------------
\* began and after are history: the edit and the number of clears at the start of
\* the call; so are edit and before, the edit answered from and the number of
\* clears before the answer.
Idle == [pc |-> "idle"]

\* What the file holds now.
CurrentContent == file[Len(file)]

StaticFileInit ==
  /\ reload_strategy \in StaticFileReloadStrategy
  /\ \E content \in FileContents : file = <<content>>
  /\ cached = None
  /\ calls = [c \in Callers |-> Idle]
  /\ clears = << >>

Answer(c, loaded) ==
  calls' = [calls EXCEPT ![c] =
    [ pc |-> "answered", request |-> @.request, began |-> @.began, after |-> @.after,
      edit |-> loaded.edit, before |-> Len(clears),
      result |-> Result(@.request, loaded.rows) ]]

Fail(c) == calls' = [calls EXCEPT ![c] = [pc |-> "failed"]]

\* fetch_subscriptions or fetch_subscribers is called; the latter needs a topic.
Fetch(c, request) ==
  /\ calls[c].pc \in {"idle", "answered", "failed"}
  /\ IF request # AllRows /\ request.topic = Missing
       THEN Fail(c)
       ELSE calls' = [calls EXCEPT ![c] =
              [ pc |-> "load", request |-> request,
                began |-> Len(file), after |-> Len(clears) ]]
  /\ UNCHANGED <<reload_strategy, file, cached, clears>>

\* read_static_config_json and parse_static_subscriptions
Parsed == [edit |-> Len(file), rows |-> ParseStaticSubscriptions(CurrentContent)]

\* Variant: AlwaysReload answers from the cache once it is filled.
ReloadOnce(c) ==
  LET loaded == IF cached = None THEN Parsed ELSE cached
  IN  /\ reload_strategy = "AlwaysReload"
      /\ calls[c].pc = "load"
      /\ CurrentContent # Missing
      /\ cached' = loaded
      /\ Answer(c, loaded)
      /\ UNCHANGED <<reload_strategy, file, clears>>

\* load_subscriptions with AlwaysReload.
Reload(c) ==
  /\ reload_strategy = "AlwaysReload"
  /\ calls[c].pc = "load"
  /\ CurrentContent # Missing
  /\ Answer(c, Parsed)
  /\ UNCHANGED <<reload_strategy, file, cached, clears>>

\* load_subscriptions with CacheOnFirstRead: the look under the read lock.
ReadCache(c) ==
  /\ reload_strategy = "CacheOnFirstRead"
  /\ calls[c].pc = "load"
  /\ IF cached # None
       THEN Answer(c, cached)
       ELSE calls' = [calls EXCEPT ![c] =
              [pc |-> "parse", request |-> @.request, began |-> @.began, after |-> @.after]]
  /\ UNCHANGED <<reload_strategy, file, cached, clears>>

\* The file is read and parsed without a lock.
ParseFile(c) ==
  /\ calls[c].pc = "parse"
  /\ CurrentContent # Missing
  /\ calls' = [calls EXCEPT ![c] =
       [ pc |-> "store", request |-> @.request, began |-> @.began, after |-> @.after,
         parsed |-> Parsed ]]
  /\ UNCHANGED <<reload_strategy, file, cached, clears>>

\* The file cannot be used: the call fails and leaves the cache alone.
ParseFails(c) ==
  /\ calls[c].pc = "parse" \/ (calls[c].pc = "load" /\ reload_strategy = "AlwaysReload")
  /\ CurrentContent = Missing
  /\ Fail(c)
  /\ UNCHANGED <<reload_strategy, file, cached, clears>>

\* Variant: no second look at the cache.
StoreParsedBlindly(c) ==
  /\ calls[c].pc = "store"
  /\ cached' = calls[c].parsed
  /\ Answer(c, calls[c].parsed)
  /\ UNCHANGED <<reload_strategy, file, clears>>

\* Under the write lock: what another load has stored meanwhile wins.
StoreParsed(c) ==
  LET loaded == IF cached # None THEN cached ELSE calls[c].parsed
  IN  /\ calls[c].pc = "store"
      /\ cached' = loaded
      /\ Answer(c, loaded)
      /\ UNCHANGED <<reload_strategy, file, clears>>

\* The edit that a load in progress will store or answer, and the current one.
EditsInUse ==
  {Len(file)} \cup {calls[c].parsed.edit : c \in {x \in Callers : calls[x].pc = "store"}}

Cleared == Append(clears, [edit |-> Len(file), inUse |-> EditsInUse])

\* Variant: the cache is left as it is.
ClearCachedSubscriptionsForgets ==
  /\ Len(clears) < MaxClears
  /\ clears' = Cleared
  /\ UNCHANGED <<reload_strategy, file, cached, calls>>

\* clear_cached_subscriptions
ClearCachedSubscriptions ==
  /\ Len(clears) < MaxClears
  /\ cached' = None
  /\ clears' = Cleared
  /\ UNCHANGED <<reload_strategy, file, calls>>

\* External: someone writes, removes or restores the file.
EditFile ==
  /\ Len(file) <= MaxEdits
  /\ \E content \in FileContents : file' = Append(file, content)
  /\ UNCHANGED <<reload_strategy, cached, calls, clears>>

LoadStep(c) ==
  Reload(c) \/ ReadCache(c) \/ ParseFile(c) \/ ParseFails(c) \/ StoreParsed(c)

StaticFileNext ==
  \/ \E c \in Callers : LoadStep(c) \/ \E request \in Requests : Fetch(c, request)
  \/ ClearCachedSubscriptions
  \/ EditFile

StaticFileSpec == StaticFileInit /\ [][StaticFileNext]_vars

-----------------------------------------------------------------------------
Answered == {c \in Callers : calls[c].pc = "answered"}

\* Two topics that differ in the resource at most.
SameEntity(t, u) ==
  /\ t.authority_name = u.authority_name
  /\ t.ue_id = u.ue_id
  /\ MajorVersion(t) = MajorVersion(u)

\* The cache and every answer come from an edit the file has had, AlwaysReload
\* keeps no cache, and rows are complete, so that SubscriptionCache::new refuses
\* no response of this service.
StaticFileTypeOK ==
  /\ cached.edit \in 0..Len(file)
  /\ cached # None => reload_strategy = "CacheOnFirstRead" /\ cached.edit > 0
  /\ cached.rows \subseteq CompleteRow
  /\ \A c \in Callers : calls[c].pc \in {"idle", "failed", "load", "parse", "store", "answered"}
  /\ \A c \in Answered : calls[c].edit \in 1..Len(file)

\* An answer is what the file said at one edit, all of it: fetch_subscribers names
\* exactly the well-formed subscribers listed under some topic of the requested
\* authority, entity and version, whatever resource the file or the request gives,
\* and fetch_subscriptions pairs each with that topic.
AnswersMatchTheFile ==
  \A c \in Answered :
    LET call   == calls[c]
        Listed == UNION {{e.topic} \X (e.subscribers \ {Missing}) :
                           e \in UsableEntries(file[call.edit])}
        ListedFor(topic) == {pair[2] : pair \in {x \in Listed : SameEntity(x[1], topic)}}
    IN  /\ file[call.edit] # Missing
        /\ call.request # AllRows => call.result = ListedFor(call.request.topic)
        /\ call.request = AllRows =>
             /\ \A row \in call.result :
                  /\ row.topic.resource_id = STATIC_RESOURCE_ID
                  /\ row.subscriber \in ListedFor(row.topic)
             /\ \A pair \in Listed : \E row \in call.result :
                  SameEntity(pair[1], row.topic) /\ pair[2] = row.subscriber

\* With CacheOnFirstRead all answers between two clears are from one edit, also
\* when several loads missed the cache and read different contents.
AnswersAgreeBetweenClears ==
  reload_strategy = "CacheOnFirstRead" =>
    \A c, d \in Answered :
      calls[c].before = calls[d].before => calls[c].edit = calls[d].edit

\* With AlwaysReload no answer is older than the call.
AnswersAreFresh ==
  reload_strategy = "AlwaysReload" => \A c \in Answered : calls[c].edit >= calls[c].began

\* After a clear, older contents come back only through a load that had parsed
\* them before the clear and stored them after it.
StaleOnlyFromLoadsInProgress ==
  \A c \in Answered :
    calls[c].after > 0 => \E e \in clears[calls[c].after].inUse : calls[c].edit >= e

\* A call that begins after a clear is answered from contents at least as new as
\* those at the clear, as the service's test of clear_cached_subscriptions says.
ClearTakesEffect ==
  \A c \in Answered : calls[c].after > 0 => calls[c].edit >= clears[calls[c].after].edit

=============================================================================
