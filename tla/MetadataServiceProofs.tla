------------------------ MODULE MetadataServiceProofs ------------------------
(***************************************************************************)
(* Theorems about MetadataService, for any resources and validators, any   *)
(* number of overlapping requests, any batch size, expiry, failures and    *)
(* clears.                                                                 *)
(***************************************************************************)
EXTENDS MetadataService, TLAPS

Validators == {ValidatorOf[r] : r \in DOMAIN ValidatorOf}
Detail == [read : Nat, validator : Nat]
Results == UNION {[rs -> Detail] : rs \in SUBSET Resources}

Request ==
  [stage : {"idle", "details", "validators", "answered", "thrown"},
   ask : SUBSET Resources, toFetch : SUBSET Resources, unread : SUBSET SUBSET Resources,
   result : Results, missing : SUBSET Validators]

TypeInv ==
  /\ now \in Nat \ {0}
  /\ DOMAIN cache \subseteq Resources
  /\ \A r \in DOMAIN cache : cache[r].read \in Nat /\ cache[r].validator \in Nat
  /\ \A v \in DOMAIN validators : validators[v] \in Nat \ {0}
  /\ request \in [Callers -> Request]
  /\ clearedAt.time \in Nat /\ clearedAt.time <= now

\* Staged resources of one validator that is known agree on its metadata.
Agree(result, missing) ==
  \A r, s \in DOMAIN result \cap DOMAIN ValidatorOf :
    /\ ValidatorOf[r] \notin missing => result[r].validator # None
    /\ ValidatorOf[r] = ValidatorOf[s] /\ ValidatorOf[r] \notin missing =>
         result[r].validator = result[s].validator

\* A request misses only what its unread batches will tell, then only the validators it
\* asks for.
StagesInv ==
  \A c \in Callers :
    LET q == request[c] IN
    /\ q.stage \in {"details", "validators"} => q.toFetch \subseteq q.ask
    /\ q.stage = "details" => DOMAIN q.result \cup UNION q.unread = q.ask
    /\ q.stage = "validators" => DOMAIN q.result = q.ask /\ Agree(q.result, q.missing)

\* What a request under way has read, it has read since the caches were cleared.
Fresh(result, time) ==
  \A r \in DOMAIN result :
    result[r].read >= time /\ (result[r].validator # None => result[r].validator >= time)

ReadsFresh ==
  ~clearedAt.busy => \A c \in Callers : ~Ended(c) => Fresh(request[c].result, clearedAt.time)

IInv ==
  /\ TypeInv /\ StagesInv /\ CachedComplete /\ AnswersAgree
  /\ ReadsFresh /\ FreshAfterClear
-----------------------------------------------------------------------------
(* The operators *)

LEMMA ResultsIntro ==
  ASSUME NEW rs \in SUBSET Resources, NEW f \in [rs -> Detail]
  PROVE  f \in Results
BY DEF Results

LEMMA ResultsElim ==
  ASSUME NEW f \in Results
  PROVE  /\ DOMAIN f \subseteq Resources /\ f \in [DOMAIN f -> Detail]
         /\ \A r \in DOMAIN f : f[r].read \in Nat /\ f[r].validator \in Nat
BY DEF Results, Detail

LEMMA OverResults ==
  ASSUME NEW f \in Results, NEW g \in Results
  PROVE  Over(f, g) \in Results
<1>1. DOMAIN f \cup DOMAIN g \in SUBSET Resources
  BY ResultsElim
<1>2. Over(f, g) \in [DOMAIN f \cup DOMAIN g -> Detail]
  BY ResultsElim DEF Over
<1>3. QED
  BY <1>1, <1>2, ResultsIntro

LEMMA BatchesCover ==
  ASSUME NEW rs \in SUBSET Resources
  PROVE  UNION Batches(rs) = rs /\ Batches(rs) \in SUBSET SUBSET Resources
<1> DEFINE Before(r) == Cardinality({s \in rs : s < r})
           Slice(r) == {s \in rs : Before(s) \div BatchSize = Before(r) \div BatchSize}
<1>1. Batches(rs) = {Slice(r) : r \in rs}
  BY DEF Batches
<1>2. \A r \in rs : r \in Slice(r) /\ Slice(r) \subseteq rs
  OBVIOUS
<1> HIDE DEF Slice
<1>3. QED
  BY <1>1, <1>2

\* Only the validator's metadata of the resources rs is another.
LEMMA Filled ==
  ASSUME NEW result \in Results, NEW rs, rs \subseteq DOMAIN result \cap DOMAIN ValidatorOf,
         NEW read, \A r \in rs : read[ValidatorOf[r]] \in Nat
  PROVE  /\ WithValidators(result, rs, read) \in Results
         /\ DOMAIN WithValidators(result, rs, read) = DOMAIN result
         /\ \A r \in DOMAIN result : WithValidators(result, rs, read)[r].read = result[r].read
         /\ \A r \in rs : WithValidators(result, rs, read)[r].validator = read[ValidatorOf[r]]
         /\ \A r \in DOMAIN result \ rs :
              WithValidators(result, rs, read)[r].validator = result[r].validator
<1> DEFINE filled == WithValidators(result, rs, read)
<1>1. filled = [r \in DOMAIN result |->
                  IF r \in rs THEN [read |-> result[r].read, validator |-> read[ValidatorOf[r]]]
                  ELSE result[r]]
  BY DEF WithValidators, Details
<1>2. \A r \in DOMAIN result : result[r] \in Detail
  BY ResultsElim
<1>3. filled \in [DOMAIN result -> Detail]
  BY <1>1, <1>2 DEF Detail
<1>4. filled \in Results
  BY <1>3, ResultsIntro, ResultsElim
<1>5. QED
  BY <1>1, <1>4

-----------------------------------------------------------------------------
(* The steps *)

LEMMA InitInv == Init => IInv
<1> SUFFICES ASSUME Init PROVE IInv
  OBVIOUS
<1>1. <<>> \in Results /\ DOMAIN <<>> = {}
  <2>1. <<>> \in [{} -> Detail] /\ {} \in SUBSET Resources
    OBVIOUS
  <2>2. QED
    BY <2>1, ResultsIntro
<1>2. Unasked \in Request /\ Unasked.stage = "idle"
  BY <1>1 DEF Unasked, Request
<1>3. TypeInv
  BY <1>1, <1>2 DEF Init, TypeInv
<1>4. StagesInv /\ AnswersAgree /\ ReadsFresh
  BY <1>2 DEF Init, StagesInv, AnswersAgree, ReadsFresh, Ended
<1>5. CachedComplete /\ FreshAfterClear
  BY <1>1 DEF Init, CachedComplete, FreshAfterClear
<1>6. QED
  BY <1>3, <1>4, <1>5 DEF IInv

LEMMA AskInv == ASSUME IInv, NEW c \in Callers, Ask(c) PROVE IInv'
<1> USE DEF IInv
<1>1. PICK ask \in Asks :
        LET hits == ask \cap CacheGet
            fetch == ask \ hits IN
        /\ request' = [request EXCEPT ![c] =
             [stage |-> IF fetch = {} THEN "answered" ELSE "details",
              ask |-> ask, toFetch |-> fetch, unread |-> Batches(fetch), missing |-> {},
              result |-> [r \in hits |-> Details(cache[r].read, cache[r].validator)]]]
        /\ cache' = [r \in DOMAIN cache \ (ask \ hits) |-> cache[r]]
  BY DEF Ask
<1> DEFINE hits == ask \cap CacheGet
           fetch == ask \ hits
           result == [r \in hits |-> Details(cache[r].read, cache[r].validator)]
<1>2. /\ now' = now /\ infos' = infos /\ validators' = validators
      /\ clearedAt' = clearedAt
  BY DEF Ask
<1>3. /\ ask \in SUBSET Resources /\ fetch \in SUBSET Resources
      /\ hits \in SUBSET Resources /\ hits \subseteq DOMAIN cache /\ hits \cup fetch = ask
  BY CachesAssumption DEF CacheGet
<1>4. /\ result \in Results /\ DOMAIN result = hits
      /\ \A r \in hits : result[r].read = cache[r].read
                        /\ result[r].validator = cache[r].validator
  <2>1. result \in [hits -> Detail]
    BY <1>3 DEF Details, Detail, TypeInv
  <2>2. QED
    BY <1>3, <2>1, ResultsIntro DEF Details
<1>5. UNION Batches(fetch) = fetch /\ Batches(fetch) \in SUBSET SUBSET Resources
  BY <1>3, BatchesCover
<1>6. /\ request' \in [Callers -> Request] /\ \A d \in Callers \ {c} : request'[d] = request[d]
      /\ request'[c].stage = (IF fetch = {} THEN "answered" ELSE "details")
      /\ request'[c].ask = ask /\ request'[c].toFetch = fetch
      /\ request'[c].unread = Batches(fetch) /\ request'[c].result = result
  <2> HIDE DEF hits, result
  <2> DEFINE q == [stage |-> IF fetch = {} THEN "answered" ELSE "details",
                   ask |-> ask, toFetch |-> fetch, unread |-> Batches(fetch), missing |-> {},
                   result |-> result]
  <2>1. q \in Request
    BY <1>3, <1>4, <1>5 DEF Request
  <2>2. request' = [request EXCEPT ![c] = q]
    BY <1>1 DEF hits, result
  <2> HIDE DEF q
  <2>3. request' \in [Callers -> Request] /\ request'[c] = q
        /\ \A d \in Callers \ {c} : request'[d] = request[d]
    BY <2>1, <2>2 DEF TypeInv
  <2>4. QED
    BY <2>3 DEF q
<1>7. /\ DOMAIN cache' \subseteq DOMAIN cache /\ \A r \in DOMAIN cache' : cache'[r] = cache[r]
  BY <1>1
<1> HIDE DEF hits, fetch, result
<1>8. TypeInv'
  BY <1>2, <1>6, <1>7 DEF TypeInv
<1>9. StagesInv'
  BY <1>3, <1>4, <1>5, <1>6 DEF StagesInv
<1>10. CachedComplete'
  BY <1>7 DEF CachedComplete, Complete
<1>11. AnswersAgree'
  <2>1. ASSUME fetch = {}
        PROVE  DOMAIN result = ask /\ \A r \in DOMAIN result : Complete(result[r], r)
    BY <1>3, <1>4, <2>1 DEF CachedComplete, Complete
  <2>2. QED
    BY <1>6, <2>1 DEF AnswersAgree
<1>12. ReadsFresh'
  <2>1. ~clearedAt.busy => Fresh(result, clearedAt.time)
    BY <1>3, <1>4 DEF FreshAfterClear, Fresh
  <2>2. QED
    BY <1>2, <1>6, <2>1 DEF ReadsFresh, Ended
<1>13. FreshAfterClear'
  BY <1>2, <1>7 DEF FreshAfterClear
<1>14. QED
  BY <1>8, <1>9, <1>10, <1>11, <1>12, <1>13
\* What goes into the cache is complete, and as fresh as the answer it is of.
LEMMA StoreCache ==
  ASSUME IInv, NEW rs \in SUBSET Resources, NEW result \in Results, rs \subseteq DOMAIN result,
         \A r \in DOMAIN result : Complete(result[r], r), Store(rs, result)
  PROVE  /\ DOMAIN cache' \subseteq Resources
         /\ \A r \in DOMAIN cache' : cache'[r].read \in Nat /\ cache'[r].validator \in Nat
         /\ CachedComplete'
         /\ ~clearedAt.busy /\ Fresh(result, clearedAt.time) =>
              \A r \in DOMAIN cache' :
                cache'[r].read >= clearedAt.time
                  /\ (cache'[r].validator # None => cache'[r].validator >= clearedAt.time)
<1> DEFINE new == [r \in rs |-> [read |-> result[r].read, validator |-> result[r].validator,
                                 expiry |-> now + Ttl]]
<1>1. DOMAIN new = rs /\ \A r \in rs : new[r].read = result[r].read
                                   /\ new[r].validator = result[r].validator
  OBVIOUS
<1>2. cache' = Over(new, cache)
  BY DEF Store
<1> HIDE DEF new
<1>3. /\ DOMAIN cache' = rs \cup DOMAIN cache
      /\ \A r \in rs : cache'[r].read = result[r].read
                     /\ cache'[r].validator = result[r].validator
      /\ \A r \in DOMAIN cache \ rs : cache'[r] = cache[r]
  BY <1>1, <1>2 DEF Over
<1>4. \A r \in DOMAIN result : result[r].read \in Nat /\ result[r].validator \in Nat
  BY ResultsElim
<1>5. DOMAIN cache' \subseteq Resources
  BY <1>3 DEF IInv, TypeInv
<1>6. \A r \in DOMAIN cache' : cache'[r].read \in Nat /\ cache'[r].validator \in Nat
  BY <1>3, <1>4 DEF IInv, TypeInv
<1>7. CachedComplete'
  BY <1>3 DEF IInv, CachedComplete, Complete
<1>8. ASSUME ~clearedAt.busy, Fresh(result, clearedAt.time), NEW r \in DOMAIN cache'
      PROVE  cache'[r].read >= clearedAt.time
               /\ (cache'[r].validator # None => cache'[r].validator >= clearedAt.time)
  <2>1. CASE r \in rs
    BY <1>3, <1>8, <2>1 DEF Fresh
  <2>2. CASE r \notin rs
    BY <1>3, <1>8, <2>2 DEF IInv, FreshAfterClear
  <2>3. QED
    BY <2>1, <2>2
<1>9. QED
  BY <1>5, <1>6, <1>7, <1>8

\* The last batch of details is in: what is known of validators is filled in.
LEMMA CollectInv ==
  ASSUME IInv, NEW c \in Callers, request[c].stage = "details",
         NEW result \in Results, DOMAIN result = request[c].ask,
         ~clearedAt.busy => Fresh(result, clearedAt.time),
         Collect(c, result),
         now' = now, validators' = validators, clearedAt' = clearedAt
  PROVE  IInv'
<1> USE DEF IInv
<1> DEFINE known == OfKnown(result, DOMAIN validators)
           filled == WithValidators(result, known, validators)
           missing == {ValidatorOf[r] : r \in DOMAIN result \cap DOMAIN ValidatorOf}
                        \ DOMAIN validators
<1>1. /\ request' = [request EXCEPT
           ![c].stage = IF missing = {} THEN "answered" ELSE "validators",
           ![c].unread = {}, ![c].result = filled, ![c].missing = missing]
      /\ infos' = Over([r \in request[c].toFetch |-> [details |-> filled[r], by |-> c]], infos)
      /\ IF missing = {} THEN Store(request[c].toFetch, filled) ELSE cache' = cache
  BY DEF Collect, CacheAt
<1>2. /\ known = {r \in DOMAIN result \cap DOMAIN ValidatorOf :
                    ValidatorOf[r] \in DOMAIN validators}
      /\ \A v \in DOMAIN validators : validators[v] \in Nat \ {0}
  BY DEF OfKnown, TypeInv
<1>3. missing \in SUBSET Validators
  BY DEF Validators
<1>4. /\ filled \in Results /\ DOMAIN filled = DOMAIN result
      /\ \A r \in DOMAIN result : filled[r].read = result[r].read
      /\ \A r \in known : filled[r].validator = validators[ValidatorOf[r]]
      /\ \A r \in DOMAIN result \ known : filled[r].validator = result[r].validator
  <2>1. known \subseteq DOMAIN result \cap DOMAIN ValidatorOf
    BY <1>2
  <2>2. \A r \in known : validators[ValidatorOf[r]] \in Nat
    BY <1>2
  <2>3. filled = WithValidators(result, known, validators)
    OBVIOUS
  <2> HIDE DEF known, filled
  <2>4. QED
    BY <2>1, <2>2, <2>3, Filled
<1>5. Agree(filled, missing)
  BY <1>2, <1>4 DEF Agree, None
<1>6. request[c] \in Request /\ request[c].toFetch \subseteq request[c].ask
  BY DEF TypeInv, StagesInv
<1> HIDE DEF known, filled, missing
<1>7. /\ request' \in [Callers -> Request] /\ \A d \in Callers \ {c} : request'[d] = request[d]
      /\ request'[c].stage = (IF missing = {} THEN "answered" ELSE "validators")
      /\ request'[c].ask = request[c].ask /\ request'[c].toFetch = request[c].toFetch
      /\ request'[c].result = filled /\ request'[c].missing = missing
  BY <1>1, <1>3, <1>4, <1>6 DEF TypeInv, Request
<1>8. ~clearedAt.busy => Fresh(filled, clearedAt.time)
  <2>1. ASSUME ~clearedAt.busy, NEW r \in known
        PROVE  filled[r].validator >= clearedAt.time
    BY <1>2, <1>4, <2>1 DEF FreshAfterClear
  <2>2. QED
    BY <1>4, <2>1 DEF Fresh
<1>9. /\ DOMAIN infos' = request[c].toFetch \cup DOMAIN infos
      /\ \A r \in request[c].toFetch : infos'[r].details = filled[r]
      /\ \A r \in DOMAIN infos \ request[c].toFetch : infos'[r] = infos[r]
  <2> DEFINE new == [r \in request[c].toFetch |-> [details |-> filled[r], by |-> c]]
  <2>1. DOMAIN new = request[c].toFetch
        /\ \A r \in request[c].toFetch : new[r].details = filled[r]
    OBVIOUS
  <2>2. infos' = Over(new, infos)
    BY <1>1
  <2> HIDE DEF new
  <2>3. QED
    BY <2>1, <2>2 DEF Over
<1>10. missing = {} => \A r \in DOMAIN filled : Complete(filled[r], r)
  BY <1>5 DEF Agree, Complete
<1>11. /\ TypeInv' /\ CachedComplete'
       /\ ~clearedAt.busy =>
            \A r \in DOMAIN cache' :
              cache'[r].read >= clearedAt.time
                /\ (cache'[r].validator # None => cache'[r].validator >= clearedAt.time)
  <2>1. CASE missing = {}
    <3>1. Store(request[c].toFetch, filled)
      BY <1>1, <2>1
    <3>2. request[c].toFetch \in SUBSET Resources /\ request[c].toFetch \subseteq DOMAIN filled
      BY <1>4, <1>6 DEF Request
    <3>3. /\ DOMAIN cache' \subseteq Resources
          /\ \A r \in DOMAIN cache' : cache'[r].read \in Nat /\ cache'[r].validator \in Nat
          /\ CachedComplete'
          /\ ~clearedAt.busy /\ Fresh(filled, clearedAt.time) =>
               \A r \in DOMAIN cache' :
                 cache'[r].read >= clearedAt.time
                   /\ (cache'[r].validator # None => cache'[r].validator >= clearedAt.time)
      BY <1>4, <1>10, <2>1, <3>1, <3>2, StoreCache
    <3>4. QED
      BY <1>7, <1>8, <3>3 DEF TypeInv
  <2>2. CASE missing # {}
    BY <1>1, <1>7, <2>2 DEF TypeInv, CachedComplete, FreshAfterClear
  <2>3. QED
    BY <2>1, <2>2
<1>12. StagesInv'
  BY <1>4, <1>5, <1>6, <1>7 DEF StagesInv
<1>13. AnswersAgree'
  BY <1>4, <1>5, <1>7, <1>10 DEF AnswersAgree, Agree
<1>14. ReadsFresh'
  BY <1>7, <1>8 DEF ReadsFresh, Ended
<1>15. FreshAfterClear'
  BY <1>4, <1>6, <1>8, <1>9, <1>11 DEF FreshAfterClear, Fresh
<1>16. QED
  BY <1>11, <1>12, <1>13, <1>14, <1>15

LEMMA GotBatchInv == ASSUME IInv, NEW c \in Callers, GotBatch(c) PROVE IInv'
<1> USE DEF IInv
<1>1. PICK batch \in request[c].unread :
        LET result == Over([r \in batch |-> Details(now, None)], request[c].result)
            unread == request[c].unread \ {batch} IN
        IF unread = {} THEN Collect(c, result)
        ELSE /\ request' = [request EXCEPT ![c].unread = unread, ![c].result = result]
             /\ UNCHANGED <<cache, infos>>
  BY DEF GotBatch
<1> DEFINE result == Over([r \in batch |-> Details(now, None)], request[c].result)
           unread == request[c].unread \ {batch}
<1>2. /\ request[c].stage = "details"
      /\ now' = now /\ validators' = validators /\ clearedAt' = clearedAt
  BY DEF GotBatch
<1>3. request[c] \in Request /\ batch \in SUBSET Resources
  BY DEF TypeInv, Request
<1>4. /\ result \in Results /\ DOMAIN result = batch \cup DOMAIN request[c].result
      /\ \A r \in batch : result[r].read = now /\ result[r].validator = None
      /\ \A r \in DOMAIN request[c].result \ batch : result[r] = request[c].result[r]
  <2> DEFINE read == [r \in batch |-> Details(now, None)]
  <2>1. read \in [batch -> Detail] /\ DOMAIN read = batch
        /\ \A r \in batch : read[r].read = now /\ read[r].validator = None
    BY DEF Details, Detail, None, TypeInv
  <2> HIDE DEF read
  <2>2. read \in Results /\ request[c].result \in Results
    BY <1>3, <2>1, ResultsIntro DEF Request
  <2>3. result = Over(read, request[c].result)
    BY DEF read
  <2>4. QED
    BY <2>1, <2>2, <2>3, OverResults DEF Over
<1>5. DOMAIN result \cup UNION unread = request[c].ask
  <2>1. DOMAIN request[c].result \cup UNION request[c].unread = request[c].ask
    BY <1>2 DEF StagesInv
  <2>2. UNION request[c].unread = batch \cup UNION unread
    OBVIOUS
  <2>3. QED
    BY <1>4, <2>1, <2>2
<1>6. ~clearedAt.busy => Fresh(result, clearedAt.time)
  <2>1. ~clearedAt.busy => Fresh(request[c].result, clearedAt.time)
    BY <1>2 DEF ReadsFresh, Ended
  <2>2. QED
    BY <1>4, <2>1 DEF Fresh, TypeInv
<1> HIDE DEF result
<1>7. CASE unread # {}
  <2>1. request' = [request EXCEPT ![c].unread = unread, ![c].result = result]
        /\ cache' = cache /\ infos' = infos
    BY <1>1, <1>7 DEF result
  <2>2. /\ request' \in [Callers -> Request] /\ \A d \in Callers \ {c} : request'[d] = request[d]
        /\ request'[c].stage = "details" /\ request'[c].ask = request[c].ask
        /\ request'[c].toFetch = request[c].toFetch
        /\ request'[c].unread = unread /\ request'[c].result = result
    BY <1>2, <1>3, <1>4, <2>1 DEF TypeInv, Request
  <2> HIDE DEF unread
  <2>3. TypeInv'
    BY <1>2, <2>1, <2>2 DEF TypeInv
  <2>4. StagesInv'
    BY <1>2, <1>5, <2>2 DEF StagesInv
  <2>5. CachedComplete'
    BY <2>1 DEF CachedComplete
  <2>6. AnswersAgree'
    BY <2>2 DEF AnswersAgree
  <2>7. ReadsFresh'
    BY <1>2, <1>6, <2>2 DEF ReadsFresh, Ended
  <2>8. FreshAfterClear'
    BY <1>2, <2>1 DEF FreshAfterClear
  <2>9. QED
    BY <2>3, <2>4, <2>5, <2>6, <2>7, <2>8
<1>8. CASE unread = {}
  <2>1. Collect(c, result) /\ DOMAIN result = request[c].ask
    BY <1>1, <1>5, <1>8 DEF result
  <2>2. IInv'
    BY <1>2, <1>4, <1>6, <2>1, CollectInv
  <2>3. QED
    BY <2>2
<1>9. QED
  BY <1>7, <1>8
LEMMA GotValidatorsInv == ASSUME IInv, NEW c \in Callers, GotValidators(c) PROVE IInv'
<1> USE DEF IInv
<1> DEFINE missing == request[c].missing
           got == [v \in missing |-> now]
           rs == UNION {OfValidator(request[c].result, v) : v \in missing}
           result == WithValidators(request[c].result, rs, got)
<1>1. /\ request[c].stage = "validators"
      /\ validators' = Over(got, validators)
      /\ request' = [request EXCEPT ![c].stage = "answered", ![c].result = result]
      /\ infos' = [r \in DOMAIN infos |->
                     IF infos[r].by = c /\ r \in request[c].toFetch
                     THEN [details |-> result[r], by |-> c] ELSE infos[r]]
      /\ Store(request[c].toFetch, result)
      /\ now' = now /\ clearedAt' = clearedAt
  BY DEF GotValidators
<1>2. /\ request[c] \in Request /\ request[c].result \in Results
      /\ DOMAIN request[c].result = request[c].ask /\ Agree(request[c].result, missing)
      /\ request[c].toFetch \subseteq request[c].ask
      /\ request[c].toFetch \in SUBSET Resources
  BY <1>1 DEF TypeInv, StagesInv, Request
<1>3. rs = {r \in DOMAIN request[c].result \cap DOMAIN ValidatorOf : ValidatorOf[r] \in missing}
  BY DEF OfValidator
<1>4. \A v \in missing : got[v] = now /\ now \in Nat \ {0}
  BY DEF TypeInv
<1>5. /\ result \in Results /\ DOMAIN result = request[c].ask
      /\ \A r \in DOMAIN result : result[r].read = request[c].result[r].read
      /\ \A r \in rs : result[r].validator = now
      /\ \A r \in DOMAIN result \ rs : result[r].validator = request[c].result[r].validator
  <2>1. rs \subseteq DOMAIN request[c].result \cap DOMAIN ValidatorOf
    BY <1>3
  <2>2. \A r \in rs : got[ValidatorOf[r]] = now /\ got[ValidatorOf[r]] \in Nat
    BY <1>3, <1>4
  <2> HIDE DEF rs, got
  <2>3. QED
    BY <1>2, <2>1, <2>2, Filled
<1>6. /\ DOMAIN validators' = missing \cup DOMAIN validators
      /\ \A v \in missing : validators'[v] = now
      /\ \A v \in DOMAIN validators \ missing : validators'[v] = validators[v]
  BY <1>1 DEF Over
<1> HIDE DEF rs, got, result
<1>7. /\ request' \in [Callers -> Request] /\ \A d \in Callers \ {c} : request'[d] = request[d]
      /\ request'[c].stage = "answered" /\ request'[c].ask = request[c].ask
      /\ request'[c].toFetch = request[c].toFetch /\ request'[c].result = result
  BY <1>1, <1>2, <1>5 DEF TypeInv, Request
<1>8. Agree(result, {})
  BY <1>2, <1>3, <1>4, <1>5 DEF Agree, None
<1>9. \A r \in DOMAIN result : Complete(result[r], r)
  BY <1>8 DEF Agree, Complete
<1>10. ~clearedAt.busy => Fresh(result, clearedAt.time)
  <2>1. ~clearedAt.busy => Fresh(request[c].result, clearedAt.time)
    BY <1>1 DEF ReadsFresh, Ended
  <2>2. clearedAt.time <= now /\ clearedAt.time \in Nat /\ now \in Nat
    BY DEF TypeInv
  <2>3. QED
    BY <1>2, <1>5, <2>1, <2>2 DEF Fresh
<1>11. /\ DOMAIN cache' \subseteq Resources
       /\ \A r \in DOMAIN cache' : cache'[r].read \in Nat /\ cache'[r].validator \in Nat
       /\ CachedComplete'
       /\ ~clearedAt.busy /\ Fresh(result, clearedAt.time) =>
            \A r \in DOMAIN cache' :
              cache'[r].read >= clearedAt.time
                /\ (cache'[r].validator # None => cache'[r].validator >= clearedAt.time)
  BY <1>1, <1>2, <1>5, <1>9, StoreCache
<1>12. TypeInv'
  BY <1>1, <1>6, <1>7, <1>11 DEF TypeInv
<1>13. StagesInv'
  BY <1>7 DEF StagesInv
<1>14. AnswersAgree'
  BY <1>5, <1>7, <1>8, <1>9 DEF AnswersAgree, Agree
<1>15. ReadsFresh'
  BY <1>1, <1>7 DEF ReadsFresh, Ended
<1>16. FreshAfterClear'
  <2>1. ASSUME ~clearedAt.busy, NEW r \in DOMAIN infos'
        PROVE  infos'[r].details.read >= clearedAt.time
    BY <1>1, <1>2, <1>5, <1>10, <2>1 DEF FreshAfterClear, Fresh
  <2>2. ASSUME ~clearedAt.busy, NEW v \in DOMAIN validators'
        PROVE  validators'[v] >= clearedAt.time
    BY <1>6, <2>2 DEF FreshAfterClear, TypeInv
  <2>3. QED
    BY <1>1, <1>10, <1>11, <2>1, <2>2 DEF FreshAfterClear
<1>17. QED
  BY <1>11, <1>12, <1>13, <1>14, <1>15, <1>16

LEMMA NextInv == IInv /\ [Next]_vars => IInv'
<1> SUFFICES ASSUME IInv, [Next]_vars PROVE IInv'
  OBVIOUS
<1> USE DEF IInv
<1>1. ASSUME NEW c \in Callers, RequestFails(c) PROVE IInv'
  <2>1. /\ request' = [request EXCEPT ![c].stage = "thrown"]
        /\ now' = now /\ cache' = cache /\ infos' = infos /\ validators' = validators
        /\ clearedAt' = clearedAt
    BY <1>1 DEF RequestFails
  <2>2. /\ request' \in [Callers -> Request] /\ \A d \in Callers \ {c} : request'[d] = request[d]
        /\ request'[c].stage = "thrown"
    BY <2>1 DEF TypeInv, Request
  <2>3. TypeInv'
    BY <2>1, <2>2 DEF TypeInv
  <2>4. StagesInv' /\ AnswersAgree'
    BY <2>2 DEF StagesInv, AnswersAgree
  <2>5. CachedComplete' /\ FreshAfterClear'
    BY <2>1 DEF CachedComplete, FreshAfterClear
  <2>6. ReadsFresh'
    BY <2>1, <2>2 DEF ReadsFresh, Ended
  <2>7. QED
    BY <2>3, <2>4, <2>5, <2>6
<1>2. CASE ClearCache
  <2>1. /\ cache' = <<>> /\ infos' = <<>> /\ validators' = <<>>
        /\ now' = now /\ request' = request /\ clearedAt'.time = now
        /\ clearedAt'.busy = (\E c \in Callers : ~Ended(c))
    BY <1>2 DEF ClearCache, Cleared
  <2>2. DOMAIN cache' = {} /\ DOMAIN infos' = {} /\ DOMAIN validators' = {}
    BY <2>1
  <2>3. TypeInv'
    BY <2>1, <2>2 DEF TypeInv
  <2>4. StagesInv' /\ AnswersAgree'
    BY <2>1 DEF StagesInv, AnswersAgree
  <2>5. CachedComplete' /\ FreshAfterClear'
    BY <2>2 DEF CachedComplete, FreshAfterClear
  <2>6. ReadsFresh'
    BY <2>1 DEF ReadsFresh, Ended
  <2>7. QED
    BY <2>3, <2>4, <2>5, <2>6
<1>3. CASE Tick
  <2>1. /\ now' = now + 1 /\ cache' = cache /\ infos' = infos /\ validators' = validators
        /\ request' = request /\ clearedAt' = clearedAt
    BY <1>3 DEF Tick
  <2>2. QED
    BY <2>1 DEF TypeInv, StagesInv, CachedComplete, AnswersAgree, ReadsFresh, FreshAfterClear,
                Ended
<1>4. CASE UNCHANGED vars
  BY <1>4 DEF vars, TypeInv, StagesInv, CachedComplete, AnswersAgree, ReadsFresh,
              FreshAfterClear, Ended
<1>5. QED
  BY <1>1, <1>2, <1>3, <1>4, AskInv, GotBatchInv, GotValidatorsInv DEF Next

LEMMA Invariance == Spec => []IInv
BY InitInv, NextInv, PTL DEF Spec

\* No entry of the strategy's cache lacks its validator's metadata, although the details,
\* the metadata and the clears of overlapping requests interleave and requests fail.
THEOREM CacheComplete == Spec => []CachedComplete
<1>1. IInv => CachedComplete
  BY DEF IInv
<1>2. QED
  BY Invariance, <1>1, PTL

\* An answer has all resources asked for, complete, and one metadata per validator.
THEOREM AnswersWhole == Spec => []AnswersAgree
<1>1. IInv => AnswersAgree
  BY DEF IInv
<1>2. QED
  BY Invariance, <1>1, PTL

\* What is in the caches after a clear with no request under way was read after it.
THEOREM ClearedForGood == Spec => []FreshAfterClear
<1>1. IInv => FreshAfterClear
  BY DEF IInv
<1>2. QED
  BY Invariance, <1>1, PTL
=============================================================================
