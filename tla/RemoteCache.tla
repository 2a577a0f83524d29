----------------------------- MODULE RemoteCache -----------------------------
(***************************************************************************)
(* The cache of the remote chain's answers (src/src/cache.rs), the client  *)
(* that asks the remote chain through it (src/src/http_fork_source.rs) and *)
(* the selector resolver, which opens a cache of its own on the default    *)
(* directory (src/src/resolver.rs).                                        *)
(*                                                                         *)
(* The process may be stopped at any moment and started again, for another *)
(* network and with another kind of cache.  The directory stays.  A file   *)
(* in it may be incomplete: the process was stopped, or the disk was full, *)
(* while it was written.                                                   *)
(*                                                                         *)
(* A lookup that hits changes nothing, so the actions are the lookups that *)
(* miss; what a hit returns is what the get_ operators say.                *)
(***************************************************************************)
EXTENDS Integers, Sequences, FiniteSets

CONSTANTS
    Networks,       \* URLs of the chains the node may be told to fork
    Selectors,      \* the signature database, seen as one more network
    None,           \* an absent answer
    Torn,           \* the content of an incomplete file
    Types,          \* the cache types in use (to keep instances small)
    CacheConfigs,   \* the CacheConfig values the process may be started with
    MaxHead,        \* bound of the model: the last block of a network
    MaxTorn,        \* bound of the model: incomplete files at any one time
    MaxEntries      \* bound of the model: answers filed at any one time, in
                    \* memory and on disk

CacheTypes == << "blocks_full", "blocks_min", "block_raw_transactions",
                 "transactions", "resolver_selectors", "key_value",
                 "confirmed_tokens" >>

(* Confirmed tokens are kept in memory only. *)
OnDisk(type) == type # "confirmed_tokens"

ASSUME CacheAssumption ==
    /\ Selectors \notin Networks
    /\ Types \subseteq {CacheTypes[i] : i \in DOMAIN CacheTypes}
    /\ CacheConfigs \subseteq [kind : {"none", "memory", "disk"}, reset : BOOLEAN]
    /\ MaxHead \in Nat /\ MaxTorn \in Nat /\ MaxEntries \in Nat

(* An answer is something else than none. *)
ASSUME NoneAssumption ==
    None \notin [type : {CacheTypes[i] : i \in DOMAIN CacheTypes},
                net : Networks \cup {Selectors}, number : Nat, stage : Nat]

VARIABLES
    head,      \* network -> its newest block
    url,       \* the network the process forks, None while no process runs
    config,    \* the process's CacheConfig
    cache,     \* the process's Cache: [block_hashes, entries]
    disk,      \* the directory: file -> its content
    used       \* history: the networks forked with this directory since it
               \* was last emptied

vars == << head, url, config, cache, disk, used >>

-----------------------------------------------------------------------------
(* The remote chain.  Block n holds transaction n.  The batch of a block    *)
(* becomes known when the next block exists (stage 1); a transaction is     *)
(* pending (stage 0) before its block exists; the token list grows with the *)
(* chain; the signature database learns the selector at its first "block".  *)

Numbers == 1 .. MaxHead

(* Selectors are numbered too: 0 is a function that KNOWN_SIGNATURES lists. *)
Known(n) == n = 0
Hash == Networks \X Numbers

RemoteAnswer(type, net, n, h) ==
    LET at(stage) == [type |-> type, net |-> net, number |-> n, stage |-> stage]
    IN  CASE type \in {"blocks_full", "blocks_min"} ->
               IF n > h THEN None ELSE at(IF n < h THEN 1 ELSE 0)
          [] type = "block_raw_transactions" -> IF n > h THEN None ELSE at(1)
          [] type = "transactions" ->
               IF n > h + 1 THEN None ELSE at(IF n <= h THEN 1 ELSE 0)
          [] type = "resolver_selectors" -> at(IF Known(n) \/ h > 0 THEN 1 ELSE 0)
          [] type = "key_value" -> at(0)
          [] type = "confirmed_tokens" -> at(h)

(* The file, and the key in memory, an answer is filed under: by hash where *)
(* the answer has one, else by number or by a fixed name.                   *)
Entry(type, net, n) ==
    IF type \in {"blocks_full", "blocks_min", "transactions"}
      THEN << type, net, n >> ELSE << type, n >>

Insert(m, k, v) == [x \in DOMAIN m \cup {k} |-> IF x = k THEN v ELSE m[x]]
Restricted(m, S) == [x \in DOMAIN m \cap S |-> m[x]]

-----------------------------------------------------------------------------
(* The lookups.  With CacheConfig::None every one of them misses. *)

Lookup(k) ==
    IF config.kind # "none" /\ k \in DOMAIN cache.entries THEN cache.entries[k] ELSE None

BlockType(full_transactions) ==
    IF full_transactions THEN "blocks_full" ELSE "blocks_min"

get_block(hash, full_transactions) ==
    Lookup(<< BlockType(full_transactions), hash[1], hash[2] >>)

get_block_hash(number) ==
    IF config.kind # "none" /\ number \in DOMAIN cache.block_hashes
      THEN cache.block_hashes[number] ELSE None

get_block_raw_transactions(number) == Lookup(<< "block_raw_transactions", number >>)
get_transaction(hash) == Lookup(<< "transactions", hash[1], hash[2] >>)
get_bridge_addresses == Lookup(<< "key_value", 0 >>)
get_confirmed_tokens == Lookup(<< "confirmed_tokens", 0 >>)

-----------------------------------------------------------------------------
(* Writing and reading the directory. *)

TornFiles == {k \in DOMAIN disk : disk[k] = Torn}

(* What a write leaves: the whole file; a part of it; or, when the file     *)
(* cannot be created, what was there before.  Errors are only logged.       *)
write_to_disk(k, v) ==
    {Insert(disk, k, v), disk}
        \cup (IF Cardinality(TornFiles \ {k}) < MaxTorn THEN {Insert(disk, k, Torn)} ELSE {})

(* Faulty variant: a file that does not parse is taken for an empty answer. *)
LoadTornAsEmpty(files) ==
    {[k \in DOMAIN files |->
         IF files[k] = Torn THEN RemoteAnswer(k[1], url, 1, MaxHead) ELSE files[k]]}

(* read_all_from_disk goes through the types in order and through the files *)
(* of a type in whatever order the file system lists them.  The first file  *)
(* that does not parse ends it: of that type any part has been read, of the *)
(* types after it nothing.                                                  *)
read_all_from_disk(files) ==
    LET torn == {i \in DOMAIN CacheTypes :
                    \E k \in DOMAIN files : k[1] = CacheTypes[i] /\ files[k] = Torn}
        first == CHOOSE i \in torn : \A j \in torn : i <= j
        before == {k \in DOMAIN files : \E i \in 1 .. first - 1 : k[1] = CacheTypes[i]}
        partly == {k \in DOMAIN files : k[1] = CacheTypes[first] /\ files[k] # Torn}
    IN  IF torn = {} THEN {files}
        ELSE {Restricted(files, before \cup S) : S \in SUBSET partly}

(* The block_hashes that reading the blocks of entries leaves: the last one *)
(* read under a number wins, and blocks_min is read after blocks_full.      *)
IndexOf(entries) ==
    LET named(type, n) ==
            {<< k[2], k[3] >> : k \in {x \in DOMAIN entries : x[1] = type /\ x[3] = n}}
        last(n) == IF named("blocks_min", n) # {} THEN named("blocks_min", n)
                   ELSE named("blocks_full", n)
        numbers == {n \in Numbers : last(n) # {}}
    IN  {f \in [numbers -> Hash] : \A n \in numbers : f[n] \in last(n)}

EmptyCache == [block_hashes |-> << >>, entries |-> << >>]

(* Faulty variant: one of the six directories is forgotten. *)
ResetKeepingTransactions(c) ==
    IF c.kind = "disk" /\ c.reset
      THEN Restricted(disk, {k \in DOMAIN disk : k[1] = "transactions"}) ELSE disk

(* The directory a new cache starts from. *)
AfterReset(c) == IF c.kind = "disk" /\ c.reset THEN << >> ELSE disk

(* Cache::new for network u: empty the directory if asked to, then read it. *)
(* A directory that cannot be removed is kept (a warning): any of its files *)
(* may survive.                                                             *)
NewCache(u, c, removed) ==
    \E files \in IF removed THEN {AfterReset(c)}
                 ELSE {Restricted(disk, S) : S \in SUBSET DOMAIN disk} :
        /\ disk' = files
        /\ used' = IF c.kind = "disk"
                     THEN {u} \cup (IF c.reset /\ removed THEN {} ELSE used)
                     ELSE used
        /\ IF c.kind = "disk"
             THEN \E entries \in read_all_from_disk(files) :
                    \E index \in IndexOf(entries) :
                        cache' = [block_hashes |-> index, entries |-> entries]
             ELSE cache' = EmptyCache

RemovalOutcomes(c) == IF c.kind = "disk" /\ c.reset THEN {TRUE, FALSE} ELSE {TRUE}

-----------------------------------------------------------------------------
Init ==
    /\ head = [u \in Networks \cup {Selectors} |-> 0]
    /\ url = None
    /\ config = [kind |-> "none", reset |-> FALSE]
    /\ cache = EmptyCache
    /\ disk = << >>
    /\ used = {}

RemoteAdvances(u) ==
    /\ head[u] < MaxHead
    /\ head' = [head EXCEPT ![u] = @ + 1]
    /\ UNCHANGED << url, config, cache, disk, used >>

(* HttpForkSource::new when the node starts. *)
Start(u, c) ==
    /\ url = None
    /\ url' = u
    /\ config' = c
    /\ \E removed \in RemovalOutcomes(c) : NewCache(u, c, removed)
    /\ UNCHANGED head

(* The process ends, at any moment. *)
Stop ==
    /\ url # None
    /\ url' = None
    /\ config' = [kind |-> "none", reset |-> FALSE]
    /\ cache' = EmptyCache
    /\ UNCHANGED << head, disk, used >>

(* hardhat_reset makes a new HttpForkSource with the CacheConfig the old    *)
(* one was made with, the reset flag included.                              *)
Refork(u) ==
    /\ url # None
    /\ url' = u
    /\ \E removed \in RemovalOutcomes(config) : NewCache(u, config, removed)
    /\ UNCHANGED << head, config >>

-----------------------------------------------------------------------------
Room(k) ==
    /\ Cardinality(DOMAIN cache.entries \ {k}) < MaxEntries
    /\ Cardinality(DOMAIN disk \ {k}) < MaxEntries

(* File an answer in memory and on disk. *)
FileAnswer(k, v, index) ==
    /\ Room(k)
    /\ IF config.kind = "none" THEN UNCHANGED << cache, disk >>
       ELSE /\ cache' = [block_hashes |-> index, entries |-> Insert(cache.entries, k, v)]
            /\ IF config.kind = "disk" /\ OnDisk(k[1])
                 THEN disk' \in write_to_disk(k, v) ELSE UNCHANGED disk

(* Faulty variant: the block is indexed under the number after its own. *)
InsertBlockAhead(hash, full_transactions, block) ==
    FileAnswer(<< BlockType(full_transactions), hash[1], hash[2] >>, block,
               Insert(cache.block_hashes, block.number + block.stage,
                      << block.net, block.number >>))

insert_block(hash, full_transactions, block) ==
    FileAnswer(<< BlockType(full_transactions), hash[1], hash[2] >>, block,
               Insert(cache.block_hashes, block.number, << block.net, block.number >>))

insert(v) == FileAnswer(Entry(v.type, v.net, v.number), v, cache.block_hashes)

(* A client asks while the process runs; an error of the remote chain, or   *)
(* an absent answer, changes nothing.                                       *)
Asked(type) == url # None /\ type \in Types

get_block_by_hash(hash, full_transactions) ==
    LET type == BlockType(full_transactions)
        block == IF hash[1] = url THEN RemoteAnswer(type, url, hash[2], head[url]) ELSE None
    IN  /\ Asked(type)
        /\ get_block(hash, full_transactions) = None
        /\ block # None
        /\ insert_block(hash, full_transactions, block)
        /\ UNCHANGED << head, url, config, used >>

(* By number, and (n = 0) by a tag such as latest, which skips the cache.   *)
get_numbered_block(n, full_transactions) ==
    IF get_block_hash(n) = None THEN None
    ELSE get_block(get_block_hash(n), full_transactions)

get_block_by_number(n, full_transactions) ==
    LET type == BlockType(full_transactions)
        block == IF n = 0 /\ head[url] = 0 THEN None
                 ELSE RemoteAnswer(type, url, IF n = 0 THEN head[url] ELSE n, head[url])
    IN  /\ Asked(type)
        /\ get_numbered_block(n, full_transactions) = None
        /\ block # None
        /\ insert_block(<< block.net, block.number >>, full_transactions, block)
        /\ UNCHANGED << head, url, config, used >>

(* An empty list is not filed. *)
get_raw_block_transactions(n) ==
    /\ Asked("block_raw_transactions")
    /\ get_block_raw_transactions(n) = None
    /\ RemoteAnswer("block_raw_transactions", url, n, head[url]) # None
    /\ insert(RemoteAnswer("block_raw_transactions", url, n, head[url]))
    /\ UNCHANGED << head, url, config, used >>

get_transaction_by_hash(hash) ==
    /\ Asked("transactions")
    /\ hash[1] = url
    /\ get_transaction(hash) = None
    /\ RemoteAnswer("transactions", url, hash[2], head[url]) # None
    /\ insert(RemoteAnswer("transactions", url, hash[2], head[url]))
    /\ UNCHANGED << head, url, config, used >>

get_bridge_contracts ==
    /\ Asked("key_value")
    /\ get_bridge_addresses = None
    /\ insert(RemoteAnswer("key_value", url, 0, head[url]))
    /\ UNCHANGED << head, url, config, used >>

get_tokens ==
    /\ Asked("confirmed_tokens")
    /\ get_confirmed_tokens = None
    /\ insert(RemoteAnswer("confirmed_tokens", url, 0, head[url]))
    /\ UNCHANGED << head, url, config, used >>

(* The resolver.  Every lookup makes a client with a cache of its own, on   *)
(* the default directory whatever the node's CacheConfig is, and with a new *)
(* count of timeouts, which so never comes near its limit.                  *)

get_resolver_selector(n) ==
    LET k == Entry("resolver_selectors", Selectors, n)
    IN  {IF k \in DOMAIN entries THEN entries[k] ELSE None :
            entries \in read_all_from_disk(disk)}

(* What a client may make of it: the name, the empty name (stage 0) if the  *)
(* database does not know one, or an error (None).                          *)
decode_selector(n) ==
    {None, RemoteAnswer("resolver_selectors", Selectors, n, head[Selectors])}
decode_known_selector(n) ==
    {RemoteAnswer("resolver_selectors", Selectors, n, head[Selectors])}

(* Who asks when nothing is filed is answered with no name where the        *)
(* database knows none, but it is the empty name that is filed: a later     *)
(* lookup answers Some("") where the first answered None.  What callers     *)
(* make of the two is left out, the properties are about what is filed.     *)
Resolve(n, answers) ==
    LET k == Entry("resolver_selectors", Selectors, n)
    IN  /\ Asked("resolver_selectors")
        /\ None \in get_resolver_selector(n)
        /\ \E name \in answers \ {None} :
              /\ Room(k)
              /\ disk' \in write_to_disk(k, name)
        /\ UNCHANGED << head, url, config, cache, used >>

decode_function_selector ==
    \E n \in {0, 1} :
        Resolve(n, IF Known(n) THEN decode_known_selector(n) ELSE decode_selector(n))
(* Events are not among the signatures known in advance. *)
decode_event_selector == Resolve(2, decode_selector(2))

Requests ==
    \/ \E full \in BOOLEAN :
        \/ \E hash \in Hash : get_block_by_hash(hash, full)
        \/ \E n \in 0 .. MaxHead : get_block_by_number(n, full)
    \/ \E n \in Numbers : get_raw_block_transactions(n)
    \/ \E hash \in Hash : get_transaction_by_hash(hash)
    \/ get_bridge_contracts
    \/ get_tokens
    \/ decode_function_selector \/ decode_event_selector

Next ==
    \/ \E u \in Networks \cup {Selectors} : RemoteAdvances(u)
    \/ \E u \in Networks : Refork(u) \/ \E c \in CacheConfigs : Start(u, c)
    \/ Stop
    \/ Requests

Spec == Init /\ [][Next]_vars

-----------------------------------------------------------------------------
(* v is what network v.net answered at some time, to the request whose      *)
(* answers are filed under k.                                               *)
OnceTrue(k, v) ==
    /\ k = Entry(k[1], v.net, v.number)
    /\ \E h \in 0 .. head[v.net] : RemoteAnswer(k[1], v.net, v.number, h) = v

(* What a hit returns was once the remote chain's answer to that very       *)
(* request, whatever was stopped, restarted or left half written before: a  *)
(* block of the asked hash and kind, the transactions of the asked number.  *)
HitsOnceTrue ==
    /\ \A hash \in Hash, full \in BOOLEAN :
          get_block(hash, full) # None =>
              OnceTrue(<< BlockType(full), hash[1], hash[2] >>, get_block(hash, full))
    /\ \A n \in Numbers : get_block_raw_transactions(n) # None =>
          OnceTrue(<< "block_raw_transactions", n >>, get_block_raw_transactions(n))
    /\ \A hash \in Hash : get_transaction(hash) # None =>
          OnceTrue(<< "transactions", hash[1], hash[2] >>, get_transaction(hash))
    /\ get_bridge_addresses # None => OnceTrue(<< "key_value", 0 >>, get_bridge_addresses)
    /\ get_confirmed_tokens # None =>
          OnceTrue(<< "confirmed_tokens", 0 >>, get_confirmed_tokens)
    /\ \A n \in 0 .. 2 : \A name \in get_resolver_selector(n) \ {None} :
          OnceTrue(<< "resolver_selectors", n >>, name)

(* The index from numbers to hashes, which is rebuilt from the block files  *)
(* on a start, leads to a block of that number in one of the two maps.      *)
IndexExact ==
    \A n \in Numbers :
        get_block_hash(n) # None =>
            \E full \in BOOLEAN : /\ get_block(get_block_hash(n), full) # None
                                  /\ get_block(get_block_hash(n), full).number = n

(* The directory does not say which network it belongs to: what is served   *)
(* comes from one of the networks forked since it was last emptied.  A node *)
(* started with reset serves its own network only.                          *)
ServedNetworks ==
    \A k \in DOMAIN cache.entries :
        k[1] # "resolver_selectors" =>
            cache.entries[k].net \in (IF config.kind = "disk" THEN used ELSE {url})

-----------------------------------------------------------------------------
(* "the caching can be disabled ... via the --cache=none|memory|disk        *)
(* parameter": a node started with none leaves the directory alone.         *)
CachingDisabled == [][url # None /\ config.kind = "none" => disk' = disk]_vars
=============================================================================
