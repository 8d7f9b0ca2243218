--------------------------- MODULE MetadataService ---------------------------
(***************************************************************************)
(* packages/state-fetcher, MetadataService: the details of resources, with *)
(* the metadata of their validator, behind three caches: the strategy's    *)
(* cache, whose entries expire, the map of all resources ever fetched, and *)
(* the validators' metadata, which do not.  Requests overlap, and the      *)
(* caches may be cleared meanwhile.                                        *)
(*                                                                         *)
(* Values are taken as LocalStorageCacheStrategy stores them: copies that  *)
(* expire.  InMemoryCacheStrategy is the case of a TTL never reached, but  *)
(* for the sharing of objects between answers.                             *)
(***************************************************************************)
EXTENDS Integers, FiniteSets

CONSTANTS
  Resources,    \* addresses, numbered in the order they are asked in
  ValidatorOf,  \* [LSUs and claim NFTs -> their validator]
  Asks,         \* the sets of resources a request may ask for
  Callers,      \* requests that can be under way at once
  BatchSize,    \* addresses per request to the gateway, 20 in the code
  Ttl,          \* ttlMs, in ticks
  MaxTime,      \* bound: ticks of the clock; the ledger may change with each
  MaxFaults,    \* bound: gateway requests that fail
  MaxClears     \* bound: calls of clearCache

ASSUME CachesAssumption ==
  /\ Resources \subseteq Nat \ {0}
  /\ DOMAIN ValidatorOf \subseteq Resources
  /\ Asks \subseteq SUBSET Resources
  /\ BatchSize \in Nat \ {0} /\ Ttl \in Nat /\ MaxTime \in Nat \ {0} /\ MaxFaults \in Nat
  /\ MaxClears \in Nat

VARIABLES
  now,         \* Date.now(); what is read of the ledger is known by the time it is read
  cache,       \* cacheStrategy: [resource -> details and expiry]
  infos,       \* resourceInfoState: [resource -> details and the request they are shared with]
  validators,  \* validatorMetadataCache: [validator -> when its metadata was read]
  request,     \* [caller -> its getResourceDetails]
  clearedAt,   \* when the caches were last cleared, whether a request was under way; how often
  faults

vars == <<now, cache, infos, validators, request, clearedAt, faults>>

None == 0   \* no validatorMetadata; time starts at 1

\* stage: the call awaited, or how the request ended; unread: batches not answered yet;
\* toFetch: resourcesToFetch; result: returnedResult, by resource; missing:
\* validatorAddressesToFetch.
Unasked == [stage |-> "idle", ask |-> {}, toFetch |-> {}, unread |-> {}, result |-> <<>>,
            missing |-> {}]

Init ==
  /\ now = 1
  /\ cache = <<>>
  /\ infos = <<>>
  /\ validators = <<>>
  /\ request = [c \in Callers |-> Unasked]
  /\ clearedAt = [time |-> 0, busy |-> FALSE, count |-> 0]
  /\ faults = 0

Ended(c) == request[c].stage \in {"idle", "answered", "thrown"}

\* Strategy's get: nothing once the expiry has passed
CacheGet == {r \in DOMAIN cache : now <= cache[r].expiry}

Details(read, validator) == [read |-> read, validator |-> validator]

\* The entries of g, and those of f in their place (f @@ g, written out)
Over(f, g) ==
  [x \in DOMAIN f \cup DOMAIN g |-> IF x \in DOMAIN f THEN f[x] ELSE g[x]]

\* Slices of BatchSize, in the order the resources are asked in
Batches(rs) ==
  LET Before(r) == Cardinality({s \in rs : s < r}) IN
  {{s \in rs : Before(s) \div BatchSize = Before(r) \div BatchSize} : r \in rs}

\* getResourceDetails up to its first await: what is cached is taken; expired entries go.
Ask(c) ==
  /\ Ended(c)
  /\ \E ask \in Asks :
       LET hits == ask \cap CacheGet
           fetch == ask \ hits IN
       /\ request' = [request EXCEPT ![c] =
            [stage |-> IF fetch = {} THEN "answered" ELSE "details",
             ask |-> ask, toFetch |-> fetch, unread |-> Batches(fetch), missing |-> {},
             result |-> [r \in hits |-> Details(cache[r].read, cache[r].validator)]]]
       /\ cache' = [r \in DOMAIN cache \ (ask \ hits) |-> cache[r]]
  /\ UNCHANGED <<now, infos, validators, clearedAt, faults>>

OfKnown(result, known) ==
  {r \in DOMAIN result \cap DOMAIN ValidatorOf : ValidatorOf[r] \in known}

\* validatorMetadata of the resources rs is set to what read tells.
WithValidators(result, rs, read) ==
  [r \in DOMAIN result |->
     IF r \in rs THEN Details(result[r].read, read[ValidatorOf[r]]) ELSE result[r]]

\* Mutant: only resources that lack validator metadata are updated, as with find()
FirstOfValidator(result, v) ==
  {r \in DOMAIN result \cap DOMAIN ValidatorOf :
     ValidatorOf[r] = v /\ result[r].validator = None}

\* All resources of a validator whose metadata was fetched, cached ones as well
OfValidator(result, v) ==
  {r \in DOMAIN result \cap DOMAIN ValidatorOf : ValidatorOf[r] = v}

\* The strategy's cache gets the resources fetched.
Store(rs, result) ==
  cache' = Over([r \in rs |-> [read |-> result[r].read, validator |-> result[r].validator,
                               expiry |-> now + Ttl]], cache)

\* Mutant: what was fetched is cached before its validators are known
CacheAtEarly(missing) == TRUE

\* The cache is written when there is nothing left to fetch.
CacheAt(missing) == missing = {}

\* All batches are answered: resourceInfoState is set, validators that are known are
\* filled in, and the others asked for.
Collect(c, result) ==
  LET known == OfKnown(result, DOMAIN validators)
      filled == WithValidators(result, known, validators)
      missing == {ValidatorOf[r] : r \in DOMAIN result \cap DOMAIN ValidatorOf}
                   \ DOMAIN validators IN
  /\ request' = [request EXCEPT
       ![c].stage = IF missing = {} THEN "answered" ELSE "validators",
       ![c].unread = {}, ![c].result = filled, ![c].missing = missing]
  /\ infos' = Over([r \in request[c].toFetch |-> [details |-> filled[r], by |-> c]], infos)
  /\ IF CacheAt(missing) THEN Store(request[c].toFetch, filled) ELSE UNCHANGED cache

\* A batch of details is answered.
GotBatch(c) ==
  /\ request[c].stage = "details"
  /\ \E batch \in request[c].unread :
       LET result == Over([r \in batch |-> Details(now, None)], request[c].result)
           unread == request[c].unread \ {batch} IN
       IF unread = {} THEN Collect(c, result)
       ELSE /\ request' = [request EXCEPT ![c].unread = unread, ![c].result = result]
            /\ UNCHANGED <<cache, infos>>
  /\ UNCHANGED <<now, validators, clearedAt, faults>>

\* The metadata of validators is answered: it is cached for good, given to all resources
\* of the answer - those in resourceInfoState are the same objects - and what was
\* fetched goes to the cache.
GotValidators(c) ==
  /\ request[c].stage = "validators"
  /\ LET got == [v \in request[c].missing |-> now]
         rs == UNION {OfValidator(request[c].result, v) : v \in request[c].missing}
         result == WithValidators(request[c].result, rs, got) IN
     /\ validators' = Over(got, validators)
     /\ request' = [request EXCEPT ![c].stage = "answered", ![c].result = result]
     /\ infos' = [r \in DOMAIN infos |->
                    IF infos[r].by = c /\ r \in request[c].toFetch
                    THEN [details |-> result[r], by |-> c] ELSE infos[r]]
     /\ Store(request[c].toFetch, result)
  /\ UNCHANGED <<now, clearedAt, faults>>

\* A gateway request fails, and the call with it.
RequestFails(c) ==
  /\ ~Ended(c)
  /\ faults < MaxFaults
  /\ faults' = faults + 1
  /\ request' = [request EXCEPT ![c].stage = "thrown"]
  /\ UNCHANGED <<now, cache, infos, validators, clearedAt>>

\* Mutant: the validators' metadata are left out
ClearedSome == validators

\* clearCache clears the validators' metadata too.
Cleared == <<>>

ClearCache ==
  /\ clearedAt.count < MaxClears
  /\ cache' = <<>>
  /\ infos' = <<>>
  /\ validators' = Cleared
  /\ clearedAt' = [time |-> now, busy |-> \E c \in Callers : ~Ended(c),
                   count |-> clearedAt.count + 1]
  /\ UNCHANGED <<now, request, faults>>

Tick ==
  /\ now < MaxTime
  /\ now' = now + 1
  /\ UNCHANGED <<cache, infos, validators, request, clearedAt, faults>>

Next ==
  \/ \E c \in Callers : Ask(c) \/ GotBatch(c) \/ GotValidators(c) \/ RequestFails(c)
  \/ ClearCache
  \/ Tick

Spec == Init /\ [][Next]_vars

-----------------------------------------------------------------------------

\* Complete(d, r): resource r's details come with its validator's metadata, if it has one.
Complete(d, r) == r \in DOMAIN ValidatorOf => d.validator # None

\* The cache holds no resource without its validator's metadata, whatever fails, is
\* cleared or overlaps in between: it is filled in last, so that a later answer from the
\* cache alone is as complete as the first was.
CachedComplete == \A r \in DOMAIN cache : Complete(cache[r], r)

\* An answer has every resource asked for, complete; and unless it came from the cache
\* alone, it has one and the same metadata for all resources of a validator, also when
\* some were cached earlier than others.
AnswersAgree ==
  \A c \in Callers : request[c].stage = "answered" =>
    LET result == request[c].result IN
    /\ DOMAIN result = request[c].ask
    /\ \A r \in DOMAIN result : Complete(result[r], r)
    /\ request[c].toFetch # {} =>
         \A r, s \in DOMAIN result \cap DOMAIN ValidatorOf :
           ValidatorOf[r] = ValidatorOf[s] => result[r].validator = result[s].validator

\* When no request was under way as the caches were cleared, nothing in any of the three
\* was read before that.
FreshAfterClear ==
  ~clearedAt.busy =>
    /\ \A r \in DOMAIN cache :
         cache[r].read >= clearedAt.time
           /\ (cache[r].validator # None => cache[r].validator >= clearedAt.time)
    /\ \A r \in DOMAIN infos : infos[r].details.read >= clearedAt.time
    /\ \A v \in DOMAIN validators : validators[v] >= clearedAt.time
=============================================================================
