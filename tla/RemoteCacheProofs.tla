-------------------------- MODULE RemoteCacheProofs --------------------------
(***************************************************************************)
(* Proofs about RemoteCache, for every set of networks and cache types and *)
(* every length of the remote chains, number of files and of incomplete    *)
(* files.                                                                  *)
(***************************************************************************)
EXTENDS RemoteCache, TLAPS

-----------------------------------------------------------------------------
(* The inductive invariant. *)

TypeNames == {CacheTypes[i] : i \in DOMAIN CacheTypes}
Remotes == Networks \cup {Selectors}
Answers == [type : TypeNames, net : Remotes, number : Nat, stage : Nat]

(* v is an answer, once true, of a network that gives answers of that type, *)
(* and k is what it is filed under.                                         *)
Filed(k, v) ==
    /\ k[1] \in TypeNames
    /\ v \in Answers
    /\ k[1] # "resolver_selectors" => v.net \in Networks
    /\ OnceTrue(k, v)

(* The answers of chains in entries come from nets. *)
EntriesOK(entries, nets) ==
    \A k \in DOMAIN entries :
        /\ Filed(k, entries[k])
        /\ k[1] # "resolver_selectors" => entries[k].net \in nets

(* So do those in the files that are whole. *)
DirOK(files, nets) ==
    \A k \in DOMAIN files :
        /\ k[1] \in TypeNames
        /\ files[k] # Torn =>
              /\ Filed(k, files[k])
              /\ k[1] # "resolver_selectors" => files[k].net \in nets

(* An indexed number leads to a block of that number. *)
IndexOK(index, entries) ==
    \A n \in DOMAIN index :
        /\ index[n][2] = n
        /\ \E full \in BOOLEAN :
              << BlockType(full), index[n][1], index[n][2] >> \in DOMAIN entries

Serves == IF config.kind = "disk" THEN used ELSE {url}

CacheInv ==
    /\ head \in [Remotes -> 0 .. MaxHead]
    /\ url \in Networks \cup {None}
    /\ url # None /\ config.kind = "disk" => url \in used
    /\ EntriesOK(cache.entries, Serves)
    /\ IndexOK(cache.block_hashes, cache.entries)
    /\ DirOK(disk, used)

-----------------------------------------------------------------------------
(* Answers and what they are filed under. *)

LEMMA NamesOfTypes ==
    /\ TypeNames = {"blocks_full", "blocks_min", "block_raw_transactions", "transactions",
                    "resolver_selectors", "key_value", "confirmed_tokens"}
    /\ DOMAIN CacheTypes = 1 .. 7
  BY DEF TypeNames, CacheTypes

(* The remote chain's present answer is one that may be filed.              *)
LEMMA AnswerFiled ==
    ASSUME CacheInv, NEW type \in TypeNames, NEW net \in Remotes, NEW n \in Nat,
           type # "resolver_selectors" => net \in Networks,
           RemoteAnswer(type, net, n, head[net]) # None
    PROVE  LET v == RemoteAnswer(type, net, n, head[net])
           IN  /\ v.type = type /\ v.net = net /\ v.number = n
               /\ Filed(Entry(type, net, n), v)
<1> DEFINE h == head[net]
           v == RemoteAnswer(type, net, n, h)
           k == Entry(type, net, n)
<1>1. h \in Nat
  BY CacheAssumption DEF CacheInv
<1>2. PICK stage \in Nat : v = [type |-> type, net |-> net, number |-> n, stage |-> stage]
  BY SMTT(30), <1>1, NamesOfTypes DEF RemoteAnswer
<1>3. v \in Answers /\ v.type = type /\ v.net = net /\ v.number = n
  BY <1>2 DEF Answers
<1>4. k[1] = type
  BY DEF Entry
<1> HIDE DEF k
<1>5. k = Entry(k[1], v.net, v.number)
  BY <1>3, <1>4 DEF k
<1>6. h \in 0 .. head[v.net] /\ RemoteAnswer(k[1], v.net, v.number, h) = v
  <2>1. RemoteAnswer(k[1], v.net, v.number, h) = v
    BY <1>3, <1>4
  <2> HIDE DEF v
  <2>2. h \in 0 .. head[v.net]
    BY <1>1, <1>3
  <2> QED BY <2>1, <2>2
<1> HIDE DEF v, h
<1>7. OnceTrue(k, v)
  BY <1>5, <1>6 DEF OnceTrue
<1> QED BY <1>3, <1>4, <1>7 DEF Filed, k, v, h

(* An answer stays once true while the chains grow.                         *)
LEMMA StaysFiled ==
    ASSUME NEW k, NEW v, Filed(k, v),
           head \in [Remotes -> Nat], head' \in [Remotes -> Nat],
           \A u \in Remotes : head[u] <= head'[u]
    PROVE  Filed(k, v)'
<1>1. v.net \in Remotes
  BY DEF Filed, Answers
<1>2. PICK h \in 0 .. head[v.net] : RemoteAnswer(k[1], v.net, v.number, h) = v
  BY DEF Filed, OnceTrue
<1>3. h \in 0 .. head'[v.net]
  BY <1>1, <1>2
<1> QED BY <1>2, <1>3 DEF Filed, OnceTrue

(* The parts of a key of a block or a transaction, and of another key.      *)
LEMMA KeyParts ==
    ASSUME NEW k, NEW v, Filed(k, v)
    PROVE  /\ k[1] \in {"blocks_full", "blocks_min", "transactions"}
                => k = << k[1], v.net, v.number >> /\ k[2] = v.net /\ k[3] = v.number
           /\ k[1] \notin {"blocks_full", "blocks_min", "transactions"}
                => k = << k[1], v.number >> /\ k[2] = v.number
  BY DEF Filed, OnceTrue, Entry

-----------------------------------------------------------------------------
(* The directory. *)

(* Whatever ends the reading of a directory, only whole files were read.    *)
LEMMA ReadsWholeFiles ==
    ASSUME NEW files, \A k \in DOMAIN files : k[1] \in TypeNames,
           NEW entries \in read_all_from_disk(files)
    PROVE  /\ DOMAIN entries \subseteq DOMAIN files
           /\ \A k \in DOMAIN entries : entries[k] = files[k] /\ files[k] # Torn
<1> DEFINE torn == {i \in DOMAIN CacheTypes :
                       \E k \in DOMAIN files : k[1] = CacheTypes[i] /\ files[k] = Torn}
           first == CHOOSE i \in torn : \A j \in torn : i <= j
           before == {k \in DOMAIN files : \E i \in 1 .. first - 1 : k[1] = CacheTypes[i]}
           partly == {k \in DOMAIN files : k[1] = CacheTypes[first] /\ files[k] # Torn}
<1>1. entries \in (IF torn = {} THEN {files}
                   ELSE {Restricted(files, before \cup S) : S \in SUBSET partly})
  BY DEF read_all_from_disk
<1>2. \A k \in DOMAIN files : \E i \in 1 .. 7 : k[1] = CacheTypes[i]
  BY NamesOfTypes DEF TypeNames
<1>3. \A k \in DOMAIN files : files[k] = Torn => \E i \in torn : k[1] = CacheTypes[i]
  BY <1>2, NamesOfTypes
<1>4. CASE torn = {}
  <2> HIDE DEF torn
  <2>1. entries = files
    BY <1>1, <1>4
  <2> QED BY <1>3, <1>4, <2>1
<1>5. CASE torn # {}
  <2>1. torn \subseteq 1 .. 7
    BY NamesOfTypes
  <2> HIDE DEF torn
  <2>2. \E i \in torn : \A j \in torn : i <= j
    <3>1. \/ 1 \in torn \/ 2 \in torn \/ 3 \in torn \/ 4 \in torn
          \/ 5 \in torn \/ 6 \in torn \/ 7 \in torn
      <4>1. PICK i \in torn : i \in 1 .. 7
        BY <1>5, <2>1
      <4>2. i = 1 \/ i = 2 \/ i = 3 \/ i = 4 \/ i = 5 \/ i = 6 \/ i = 7
        BY <4>1
      <4> QED BY <4>1, <4>2
    <3> QED BY <2>1, <3>1
  <2>3. first \in torn /\ \A j \in torn : first <= j
    BY <2>2
  <2>4. PICK S \in SUBSET partly : entries = Restricted(files, before \cup S)
    <3> HIDE DEF before, partly
    <3> QED BY <1>1, <1>5
  <2> HIDE DEF first
  <2>5. \A k \in before : files[k] # Torn
    <3> SUFFICES ASSUME NEW k \in before, files[k] = Torn PROVE FALSE
      OBVIOUS
    <3>1. PICK i \in 1 .. first - 1 : k[1] = CacheTypes[i]
      OBVIOUS
    <3>2. i \in 1 .. 7 /\ ~(first <= i)
      BY <2>1, <2>3
    <3>3. i \in torn
      BY <3>1, <3>2, NamesOfTypes DEF torn
    <3> QED BY <2>3, <3>2, <3>3
  <2>6. /\ DOMAIN entries = DOMAIN files \cap (before \cup S)
        /\ \A k \in DOMAIN entries : entries[k] = files[k]
    BY <2>4 DEF Restricted
  <2>7. \A k \in S : files[k] # Torn
    BY <2>4
  <2> HIDE DEF before
  <2> QED BY <2>5, <2>6, <2>7
<1> QED BY <1>4, <1>5

(* What is read from a good directory is good.                              *)
LEMMA ReadsGoodEntries ==
    ASSUME NEW files, NEW nets, DirOK(files, nets),
           NEW entries \in read_all_from_disk(files)
    PROVE  EntriesOK(entries, nets)
<1>1. \A k \in DOMAIN files : k[1] \in TypeNames
  BY DEF DirOK
<1>2. /\ DOMAIN entries \subseteq DOMAIN files
      /\ \A k \in DOMAIN entries : entries[k] = files[k] /\ files[k] # Torn
  BY <1>1, ReadsWholeFiles
<1> QED BY <1>2 DEF DirOK, EntriesOK

(* The rebuilt index leads to blocks.                                       *)
LEMMA IndexRebuilt ==
    ASSUME NEW entries, NEW nets, EntriesOK(entries, nets),
           NEW index \in IndexOf(entries)
    PROVE  IndexOK(index, entries)
<1> DEFINE named(type, n) ==
             {<< k[2], k[3] >> : k \in {x \in DOMAIN entries : x[1] = type /\ x[3] = n}}
           last(n) == IF named("blocks_min", n) # {} THEN named("blocks_min", n)
                      ELSE named("blocks_full", n)
           numbers == {n \in Numbers : last(n) # {}}
<1>1. index \in {f \in [numbers -> Hash] : \A n \in numbers : f[n] \in last(n)}
  BY DEF IndexOf
<1>2. DOMAIN index = numbers /\ \A n \in numbers : index[n] \in last(n)
  <2> HIDE DEF last, numbers
  <2> QED BY <1>1
<1>3. ASSUME NEW n \in DOMAIN index
      PROVE  /\ index[n][2] = n
             /\ \E full \in BOOLEAN :
                   << BlockType(full), index[n][1], index[n][2] >> \in DOMAIN entries
  <2>1. \E full \in BOOLEAN : index[n] \in named(BlockType(full), n)
    <3>1. BlockType(TRUE) = "blocks_full" /\ BlockType(FALSE) = "blocks_min"
      BY DEF BlockType
    <3>2. index[n] \in last(n)
      BY <1>2
    <3>3. index[n] \in named("blocks_min", n) \/ index[n] \in named("blocks_full", n)
      <4> HIDE DEF named
      <4> QED BY <3>2
    <3> HIDE DEF named
    <3> QED BY <3>1, <3>3
  <2>2. PICK full \in BOOLEAN : index[n] \in named(BlockType(full), n)
    BY <2>1
  <2>3. PICK k \in DOMAIN entries :
           k[1] = BlockType(full) /\ k[3] = n /\ index[n] = << k[2], k[3] >>
    BY <2>2
  <2>4. Filed(k, entries[k])
    BY DEF EntriesOK
  <2>5. k = << k[1], k[2], k[3] >>
    <3>1. k[1] \in {"blocks_full", "blocks_min"}
      BY <2>3 DEF BlockType
    <3> QED BY <2>4, <3>1, KeyParts
  <2>6. index[n][1] = k[2] /\ index[n][2] = k[3]
    BY <2>3
  <2> QED BY <2>3, <2>5, <2>6
<1> QED BY <1>3 DEF IndexOK

(* One more answer in memory; in the index, at most its own number.         *)
LEMMA EntryAdded ==
    ASSUME NEW entries, NEW nets, EntriesOK(entries, nets), NEW k, NEW v, Filed(k, v),
           k[1] # "resolver_selectors" => v.net \in nets
    PROVE  EntriesOK(Insert(entries, k, v), nets)
  BY DEF EntriesOK, Insert

LEMMA IndexKept ==
    ASSUME NEW index, NEW entries, IndexOK(index, entries), NEW k, NEW v
    PROVE  IndexOK(index, Insert(entries, k, v))
<1>1. DOMAIN Insert(entries, k, v) = DOMAIN entries \cup {k}
  BY DEF Insert
<1> QED BY <1>1 DEF IndexOK

LEMMA IndexAdded ==
    ASSUME NEW index, NEW entries, IndexOK(index, entries), NEW full \in BOOLEAN,
           NEW net, NEW n, NEW v
    PROVE  IndexOK(Insert(index, n, << net, n >>),
                   Insert(entries, << BlockType(full), net, n >>, v))
<1> DEFINE k == << BlockType(full), net, n >>
           i == Insert(index, n, << net, n >>)
           e == Insert(entries, k, v)
<1>1. DOMAIN e = DOMAIN entries \cup {k}
  BY DEF Insert
<1>2. /\ DOMAIN i = DOMAIN index \cup {n} /\ i[n] = << net, n >>
      /\ \A m \in DOMAIN index : m # n => i[m] = index[m]
  BY DEF Insert
<1> HIDE DEF e, i
<1>3. i[n][1] = net /\ i[n][2] = n
  BY <1>2
<1>4. << BlockType(full), i[n][1], i[n][2] >> \in DOMAIN e
  BY <1>1, <1>3
<1> HIDE DEF k
<1> QED BY <1>1, <1>2, <1>3, <1>4 DEF IndexOK, e, i, k

(* A write to disk, whole, in part or not at all, leaves the directory good. *)
LEMMA FileWritten ==
    ASSUME NEW nets, DirOK(disk, nets), NEW k, NEW v, Filed(k, v),
           k[1] # "resolver_selectors" => v.net \in nets,
           disk' \in write_to_disk(k, v)
    PROVE  DirOK(disk', nets)
<1>1. disk' = Insert(disk, k, v) \/ disk' = disk \/ disk' = Insert(disk, k, Torn)
  BY DEF write_to_disk
<1>2. k[1] \in TypeNames
  BY DEF Filed
<1>3. CASE disk' = Insert(disk, k, v)
  BY <1>2, <1>3 DEF DirOK, Insert
<1>4. CASE disk' = Insert(disk, k, Torn)
  BY <1>2, <1>4 DEF DirOK, Insert
<1> QED BY <1>1, <1>3, <1>4

-----------------------------------------------------------------------------
(* The steps. *)

(* Filing an answer of the forked network. *)
LEMMA FilesAnswer ==
    ASSUME CacheInv, url # None, UNCHANGED << head, url, config, used >>,
           NEW k, NEW v, NEW index, FileAnswer(k, v, index), Filed(k, v),
           k[1] # "resolver_selectors", v.net = url,
           IndexOK(index, Insert(cache.entries, k, v))
    PROVE  CacheInv'
<1>1. /\ v.net \in Serves /\ (config.kind = "disk" => v.net \in used) /\ Serves' = Serves
  BY DEF CacheInv, Serves
<1>2. Filed(k, v)' /\ \A f, x : Filed(f, x)' <=> Filed(f, x)
  BY DEF Filed, OnceTrue
<1>3. DirOK(disk', used)
  <2>1. disk' = disk \/ (config.kind = "disk" /\ disk' \in write_to_disk(k, v))
    BY DEF FileAnswer
  <2>2. DirOK(disk, used)
    BY DEF CacheInv
  <2> QED BY <1>1, <2>1, <2>2, FileWritten
<1>4. /\ EntriesOK(cache'.entries, Serves)
      /\ IndexOK(cache'.block_hashes, cache'.entries)
  <2>1. CASE cache' = cache
    BY <2>1 DEF CacheInv
  <2>2. CASE cache' = [block_hashes |-> index, entries |-> Insert(cache.entries, k, v)]
    <3>1. cache'.block_hashes = index /\ cache'.entries = Insert(cache.entries, k, v)
      BY <2>2
    <3>2. EntriesOK(Insert(cache.entries, k, v), Serves)
      BY <1>1, EntryAdded DEF CacheInv
    <3> QED BY <3>1, <3>2
  <2> QED BY <2>1, <2>2 DEF FileAnswer
<1>5. EntriesOK(cache.entries, Serves)' /\ DirOK(disk, used)'
  BY <1>1, <1>2, <1>3, <1>4 DEF EntriesOK, DirOK
<1>6. IndexOK(cache.block_hashes, cache.entries)'
  BY <1>4 DEF IndexOK
<1> QED BY <1>5, <1>6 DEF CacheInv

(* A block is filed under its hash and indexed under its number.            *)
LEMMA FilesBlock ==
    ASSUME CacheInv, url # None, UNCHANGED << head, url, config, used >>,
           NEW full \in BOOLEAN, NEW n \in Nat,
           NEW block, block = RemoteAnswer(BlockType(full), url, n, head[url]), block # None,
           insert_block(<< url, n >>, full, block)
    PROVE  CacheInv'
<1> DEFINE k == << BlockType(full), url, n >>
<1>1. /\ BlockType(full) \in TypeNames /\ BlockType(full) # "resolver_selectors"
      /\ url \in Remotes /\ url \in Networks /\ Entry(BlockType(full), url, n) = k
  BY NamesOfTypes DEF BlockType, Entry, CacheInv, Remotes
<1>2. block.net = url /\ block.number = n /\ Filed(k, block)
  BY <1>1, AnswerFiled
<1>3. /\ << url, n >>[1] = url /\ << url, n >>[2] = n /\ k[1] = BlockType(full)
  OBVIOUS
<1>4. FileAnswer(k, block, Insert(cache.block_hashes, n, << url, n >>))
  BY <1>2, <1>3 DEF insert_block
<1>5. IndexOK(Insert(cache.block_hashes, n, << url, n >>), Insert(cache.entries, k, block))
  BY IndexAdded DEF CacheInv
<1> HIDE DEF k
<1> QED BY <1>1, <1>2, <1>3, <1>4, <1>5, FilesAnswer

(* The other answers leave the index alone.                                 *)
LEMMA FilesOther ==
    ASSUME CacheInv, url # None, UNCHANGED << head, url, config, used >>,
           NEW type \in TypeNames \ {"resolver_selectors"}, NEW n \in Nat,
           NEW v, v = RemoteAnswer(type, url, n, head[url]), v # None, insert(v)
    PROVE  CacheInv'
<1> DEFINE k == Entry(type, url, n)
<1>1. url \in Remotes /\ url \in Networks
  BY DEF CacheInv, Remotes
<1>2. v.type = type /\ v.net = url /\ v.number = n /\ Filed(k, v)
  BY <1>1, AnswerFiled
<1>3. k[1] = type
  BY DEF Entry
<1>4. FileAnswer(k, v, cache.block_hashes)
  BY <1>2 DEF insert
<1> HIDE DEF k
<1>5. IndexOK(cache.block_hashes, Insert(cache.entries, k, v))
  BY IndexKept DEF CacheInv
<1> QED BY <1>2, <1>3, <1>4, <1>5, FilesAnswer

(* The resolver writes to the directory behind the node's back.             *)
LEMMA ResolverWrites ==
    ASSUME CacheInv, NEW n \in Nat,
           NEW answers \in {decode_selector(n), decode_known_selector(n)},
           Resolve(n, answers)
    PROVE  CacheInv'
<1> DEFINE k == Entry("resolver_selectors", Selectors, n)
           name == RemoteAnswer("resolver_selectors", Selectors, n, head[Selectors])
<1>1. /\ disk' \in write_to_disk(k, name) /\ name # None
      /\ UNCHANGED << head, url, config, cache, used >>
  BY DEF Resolve, decode_selector, decode_known_selector
<1>2. k[1] = "resolver_selectors"
  BY DEF Entry
<1>3. Filed(k, name)
  <2>1. "resolver_selectors" \in TypeNames /\ Selectors \in Remotes
    BY NamesOfTypes DEF Remotes
  <2> QED BY <1>1, <2>1, AnswerFiled
<1> HIDE DEF k, name
<1>4. DirOK(disk', used)
  BY <1>1, <1>2, <1>3, FileWritten DEF CacheInv
<1>5. \A f, x : Filed(f, x)' <=> Filed(f, x)
  BY <1>1 DEF Filed, OnceTrue
<1>6. DirOK(disk, used)' /\ EntriesOK(cache.entries, Serves)'
  BY <1>1, <1>4, <1>5 DEF DirOK, EntriesOK, Serves, CacheInv
<1>7. IndexOK(cache.block_hashes, cache.entries)'
  BY <1>1 DEF IndexOK, CacheInv
<1> QED BY <1>1, <1>6, <1>7 DEF CacheInv

LEMMA RequestsKeep ==
    ASSUME CacheInv, Requests
    PROVE  CacheInv'
<1>1. Numbers \subseteq Nat /\ 0 .. MaxHead \subseteq Nat
  BY CacheAssumption DEF Numbers
<1>2. url # None => url \in Networks /\ url \in Remotes /\ head[url] \in Nat
  BY CacheAssumption DEF CacheInv, Remotes
<1>3. ASSUME NEW full \in BOOLEAN, NEW hash \in Hash, get_block_by_hash(hash, full)
      PROVE  CacheInv'
  <2>1. /\ url # None /\ UNCHANGED << head, url, config, used >>
        /\ hash[1] = url
        /\ RemoteAnswer(BlockType(full), url, hash[2], head[url]) # None
        /\ insert_block(hash, full, RemoteAnswer(BlockType(full), url, hash[2], head[url]))
    BY <1>3 DEF get_block_by_hash, Asked
  <2>2. hash = << url, hash[2] >> /\ hash[2] \in Nat
    <3>1. PICK net \in Networks, m \in Numbers : hash = << net, m >>
      BY DEF Hash
    <3> QED BY <1>1, <2>1, <3>1
  <2>3. insert_block(<< url, hash[2] >>, full,
                     RemoteAnswer(BlockType(full), url, hash[2], head[url]))
    BY <2>1, <2>2
  <2> QED BY <2>1, <2>2, <2>3, FilesBlock
<1>4. ASSUME NEW full \in BOOLEAN, NEW n \in 0 .. MaxHead, get_block_by_number(n, full)
      PROVE  CacheInv'
  <2> DEFINE m == IF n = 0 THEN head[url] ELSE n
             block == RemoteAnswer(BlockType(full), url, m, head[url])
  <2>1. /\ url # None /\ UNCHANGED << head, url, config, used >>
        /\ block # None /\ insert_block(<< block.net, block.number >>, full, block)
    BY <1>4 DEF get_block_by_number, Asked
  <2>2. m \in Nat
    BY <1>1, <1>2, <2>1
  <2> HIDE DEF m
  <2>3. block.net = url /\ block.number = m
    <3>1. BlockType(full) \in TypeNames /\ BlockType(full) # "resolver_selectors"
      BY NamesOfTypes DEF BlockType
    <3> QED BY <1>2, <2>1, <2>2, <3>1, AnswerFiled
  <2> QED BY <2>1, <2>2, <2>3, FilesBlock
<1>5. ASSUME NEW n \in Numbers, get_raw_block_transactions(n)
      PROVE  CacheInv'
  <2>1. n \in Nat /\ "block_raw_transactions" \in TypeNames \ {"resolver_selectors"}
    BY <1>1, NamesOfTypes
  <2> QED BY <1>5, <2>1, FilesOther DEF get_raw_block_transactions, Asked
<1>6. ASSUME NEW hash \in Hash, get_transaction_by_hash(hash)
      PROVE  CacheInv'
  <2>1. hash[2] \in Nat /\ "transactions" \in TypeNames \ {"resolver_selectors"}
    BY <1>1, NamesOfTypes DEF Hash
  <2> QED BY <1>6, <2>1, FilesOther DEF get_transaction_by_hash, Asked
<1>7. ASSUME NEW type \in {"key_value", "confirmed_tokens"}, Asked(type),
             insert(RemoteAnswer(type, url, 0, head[url])),
             UNCHANGED << head, url, config, used >>
      PROVE  CacheInv'
  <2>1. type \in TypeNames \ {"resolver_selectors"}
    BY NamesOfTypes
  <2>2. url # None
    BY <1>7 DEF Asked
  <2>3. RemoteAnswer(type, url, 0, head[url]) \in Answers
    BY <1>2, <2>1, <2>2 DEF RemoteAnswer, Answers
  <2>4. RemoteAnswer(type, url, 0, head[url]) # None
    BY <2>3, NoneAssumption DEF Answers, TypeNames, Remotes
  <2> QED BY <1>7, <2>1, <2>2, <2>4, FilesOther
<1>8. CASE get_bridge_contracts \/ get_tokens
  BY <1>7, <1>8 DEF get_bridge_contracts, get_tokens
<1>9. CASE decode_function_selector \/ decode_event_selector
  BY <1>9, ResolverWrites DEF decode_function_selector, decode_event_selector
<1> QED BY <1>3, <1>4, <1>5, <1>6, <1>8, <1>9 DEF Requests

(* A good directory stays good when files are lost, when more networks have *)
(* used it, and when it is emptied.                                         *)
LEMMA DirSubset ==
    ASSUME NEW nets, NEW more, nets \subseteq more, DirOK(disk, nets),
           NEW S, NEW files, files = Restricted(disk, S) \/ files = disk
    PROVE  DirOK(files, more)
  BY DEF DirOK, Restricted

LEMMA DirEmptied ==
    ASSUME NEW nets
    PROVE  DirOK(<< >>, nets) /\ EntriesOK(<< >>, nets) /\ IndexOK(<< >>, << >>)
  BY DEF DirOK, EntriesOK, IndexOK

(* A new cache, whatever the directory holds and whether or not it could be *)
(* emptied.                                                                 *)
LEMMA NewCacheKeeps ==
    ASSUME CacheInv, NEW u \in Networks, NEW c, NEW removed \in RemovalOutcomes(c),
           NewCache(u, c, removed), head' = head, url' = u, config' = c
    PROVE  CacheInv'
<1>1. PICK files \in IF removed THEN {AfterReset(c)}
                     ELSE {Restricted(disk, S) : S \in SUBSET DOMAIN disk} :
        /\ disk' = files
        /\ used' = IF c.kind = "disk"
                     THEN {u} \cup (IF c.reset /\ removed THEN {} ELSE used)
                     ELSE used
        /\ IF c.kind = "disk"
             THEN \E entries \in read_all_from_disk(files) :
                    \E index \in IndexOf(entries) :
                        cache' = [block_hashes |-> index, entries |-> entries]
             ELSE cache' = EmptyCache
  BY DEF NewCache
<1>2. DirOK(disk, used)
  BY DEF CacheInv
<1>3. DirOK(files, used')
  <2>1. CASE ~removed
    <3>1. PICK S : files = Restricted(disk, S)
      BY <1>1, <2>1
    <3>2. used \subseteq used'
      BY <1>1, <2>1
    <3> QED BY <1>2, <3>1, <3>2, DirSubset
  <2>2. CASE removed /\ c.kind = "disk" /\ c.reset
    <3>1. files = << >>
      BY <1>1, <2>2 DEF AfterReset
    <3> QED BY <3>1, DirEmptied
  <2>3. CASE removed /\ ~(c.kind = "disk" /\ c.reset)
    <3>1. files = disk /\ used \subseteq used'
      BY <1>1, <2>3 DEF AfterReset
    <3> QED BY <1>2, <3>1, DirSubset
  <2> QED BY <2>1, <2>2, <2>3
<1>4. \A f, x : Filed(f, x)' <=> Filed(f, x)
  BY DEF Filed, OnceTrue
<1>5. /\ EntriesOK(cache'.entries, Serves')
      /\ IndexOK(cache'.block_hashes, cache'.entries)
  <2>1. CASE c.kind = "disk"
    <3>1. PICK entries \in read_all_from_disk(files) :
             \E index \in IndexOf(entries) :
                 cache' = [block_hashes |-> index, entries |-> entries]
      BY <1>1, <2>1
    <3>2. PICK index \in IndexOf(entries) :
             cache' = [block_hashes |-> index, entries |-> entries]
      BY <3>1
    <3>3. cache'.block_hashes = index /\ cache'.entries = entries
      BY <3>2
    <3>4. EntriesOK(entries, used')
      BY <1>3, ReadsGoodEntries
    <3>5. IndexOK(index, entries)
      BY <3>4, IndexRebuilt
    <3>6. Serves' = used'
      BY <2>1 DEF Serves
    <3> QED BY <3>3, <3>4, <3>5, <3>6
  <2>2. CASE c.kind # "disk"
    <3>1. cache'.block_hashes = << >> /\ cache'.entries = << >>
      BY <1>1, <2>2 DEF EmptyCache
    <3> QED BY <3>1, DirEmptied
  <2> QED BY <2>1, <2>2
<1>6. EntriesOK(cache.entries, Serves)' /\ DirOK(disk, used)'
  BY <1>1, <1>3, <1>4, <1>5 DEF EntriesOK, DirOK
<1>7. IndexOK(cache.block_hashes, cache.entries)'
  BY <1>5 DEF IndexOK
<1>8. u \in Networks /\ (c.kind = "disk" => u \in used')
  BY <1>1
<1> QED BY <1>6, <1>7, <1>8 DEF CacheInv

LEMMA CacheStep ==
    ASSUME CacheInv, [Next]_vars
    PROVE  CacheInv'
<1>1. ASSUME NEW u \in Remotes, RemoteAdvances(u)
      PROVE  CacheInv'
  <2>1. head \in [Remotes -> 0 .. MaxHead]
    BY DEF CacheInv
  <2>2. head' = [head EXCEPT ![u] = @ + 1] /\ head[u] < MaxHead /\ MaxHead \in Nat
    BY <1>1, CacheAssumption DEF RemoteAdvances
  <2>3. head' \in [Remotes -> 0 .. MaxHead] /\ \A x \in Remotes : head[x] <= head'[x]
    BY <2>1, <2>2
  <2>4. head \in [Remotes -> Nat] /\ head' \in [Remotes -> Nat]
    BY <2>1, <2>3
  <2>5. UNCHANGED << url, config, cache, disk, used >>
    BY <1>1 DEF RemoteAdvances
  <2>6. \A k, v : Filed(k, v) => Filed(k, v)'
    BY <2>3, <2>4, StaysFiled
  <2>7. EntriesOK(cache.entries, Serves)'
    BY <2>5, <2>6 DEF CacheInv, EntriesOK, Serves
  <2>8. DirOK(disk, used)'
    BY <2>5, <2>6 DEF CacheInv, DirOK
  <2> QED BY <2>3, <2>5, <2>7, <2>8 DEF CacheInv, IndexOK
<1>2. ASSUME NEW u \in Networks, NEW c \in CacheConfigs, Start(u, c)
      PROVE  CacheInv'
  BY <1>2, NewCacheKeeps DEF Start
<1>3. ASSUME NEW u \in Networks, Refork(u)
      PROVE  CacheInv'
  BY <1>3, NewCacheKeeps DEF Refork
<1>4. CASE Stop
  <2>1. /\ cache'.block_hashes = << >> /\ cache'.entries = << >> /\ url' = None
        /\ UNCHANGED << head, disk, used >>
    BY <1>4 DEF Stop, EmptyCache
  <2>2. DirOK(disk, used)'
    BY <2>1 DEF CacheInv, DirOK, Filed, OnceTrue
  <2>3. EntriesOK(cache.entries, Serves)' /\ IndexOK(cache.block_hashes, cache.entries)'
    BY <2>1 DEF EntriesOK, IndexOK
  <2> QED BY <2>1, <2>2, <2>3 DEF CacheInv
<1>5. CASE UNCHANGED vars
  <2>1. UNCHANGED << head, url, config, cache, disk, used >>
    BY <1>5 DEF vars
  <2>2. \A f, x : Filed(f, x)' <=> Filed(f, x)
    BY <2>1 DEF Filed, OnceTrue
  <2>3. EntriesOK(cache.entries, Serves)' /\ DirOK(disk, used)'
    BY <2>1, <2>2 DEF CacheInv, EntriesOK, DirOK, Serves
  <2> QED BY <2>1, <2>3 DEF CacheInv, IndexOK
<1> QED BY <1>1, <1>2, <1>3, <1>4, <1>5, RequestsKeep DEF Next, Remotes

LEMMA CacheInit ==
    ASSUME Init
    PROVE  CacheInv
<1>1. cache.block_hashes = << >> /\ cache.entries = << >> /\ disk = << >> /\ url = None
  BY DEF Init, EmptyCache
<1>2. head \in [Remotes -> 0 .. MaxHead]
  BY CacheAssumption DEF Init, Remotes
<1> QED BY <1>1, <1>2, DirEmptied DEF CacheInv

LEMMA CacheAlways == Spec => []CacheInv
  BY CacheInit, CacheStep, PTL DEF Spec

-----------------------------------------------------------------------------
(* What follows. *)

(* A hit returns an answer filed under the key it was looked up by.         *)
LEMMA HitFiled ==
    ASSUME CacheInv, NEW k, Lookup(k) # None
    PROVE  Filed(k, Lookup(k)) /\ k \in DOMAIN cache.entries /\ Lookup(k) = cache.entries[k]
  BY DEF Lookup, CacheInv, EntriesOK

(* Cache::get_block and its siblings, and the resolver's lookup, return     *)
(* only what was once the remote chain's answer to that very request,       *)
(* whatever was stopped, restarted or left half written before.             *)
THEOREM HitsAreOnceTrue == Spec => []HitsOnceTrue
<1>1. ASSUME CacheInv PROVE HitsOnceTrue
  <2>1. \A k : Lookup(k) # None => OnceTrue(k, Lookup(k))
    BY <1>1, HitFiled DEF Filed
  <2>2. ASSUME NEW n, NEW name \in get_resolver_selector(n) \ {None}
        PROVE  OnceTrue(<< "resolver_selectors", n >>, name)
    <3> DEFINE k == << "resolver_selectors", n >>
    <3>1. k = Entry("resolver_selectors", Selectors, n)
      BY DEF Entry
    <3>2. PICK entries \in read_all_from_disk(disk) :
             k \in DOMAIN entries /\ name = entries[k]
      BY <2>2, <3>1 DEF get_resolver_selector
    <3>3. EntriesOK(entries, used)
      BY <1>1, ReadsGoodEntries DEF CacheInv
    <3> QED BY <3>2, <3>3 DEF EntriesOK, Filed
  <2>3. \A hash \in Hash, full \in BOOLEAN :
          get_block(hash, full) # None =>
              OnceTrue(<< BlockType(full), hash[1], hash[2] >>, get_block(hash, full))
    BY <2>1 DEF get_block
  <2>4. \A n \in Numbers : get_block_raw_transactions(n) # None =>
          OnceTrue(<< "block_raw_transactions", n >>, get_block_raw_transactions(n))
    BY <2>1 DEF get_block_raw_transactions
  <2>5. \A hash \in Hash : get_transaction(hash) # None =>
          OnceTrue(<< "transactions", hash[1], hash[2] >>, get_transaction(hash))
    BY <2>1 DEF get_transaction
  <2>6. /\ get_bridge_addresses # None =>
              OnceTrue(<< "key_value", 0 >>, get_bridge_addresses)
        /\ get_confirmed_tokens # None =>
              OnceTrue(<< "confirmed_tokens", 0 >>, get_confirmed_tokens)
    BY <2>1 DEF get_bridge_addresses, get_confirmed_tokens
  <2>7. \A n \in 0 .. 2 : \A name \in get_resolver_selector(n) \ {None} :
          OnceTrue(<< "resolver_selectors", n >>, name)
    BY <2>2
  <2> QED BY <2>3, <2>4, <2>5, <2>6, <2>7 DEF HitsOnceTrue
<1> QED BY <1>1, CacheAlways, PTL

(* block_hashes, filled by insert_block and rebuilt from the files, leads   *)
(* from a number to a cached block of that number.                          *)
THEOREM IndexIsExact == Spec => []IndexExact
<1>1. ASSUME CacheInv PROVE IndexExact
  <2> SUFFICES ASSUME NEW n \in Numbers, get_block_hash(n) # None
               PROVE  \E full \in BOOLEAN :
                         /\ get_block(get_block_hash(n), full) # None
                         /\ get_block(get_block_hash(n), full).number = n
    BY DEF IndexExact
  <2> DEFINE hash == get_block_hash(n)
  <2>1. /\ config.kind # "none" /\ n \in DOMAIN cache.block_hashes
        /\ hash = cache.block_hashes[n]
    BY DEF get_block_hash
  <2>2. PICK full \in BOOLEAN :
           << BlockType(full), hash[1], hash[2] >> \in DOMAIN cache.entries
    BY <1>1, <2>1 DEF CacheInv, IndexOK
  <2>3. hash[2] = n
    BY <1>1, <2>1 DEF CacheInv, IndexOK
  <2> DEFINE k == << BlockType(full), hash[1], hash[2] >>
             v == cache.entries[k]
  <2>4. get_block(hash, full) = v
    BY <2>1, <2>2 DEF get_block, Lookup
  <2>5. Filed(k, v)
    BY <1>1, <2>2 DEF CacheInv, EntriesOK
  <2>6. k[1] \in {"blocks_full", "blocks_min"} /\ k[3] = n
    BY <2>3 DEF BlockType
  <2> HIDE DEF k, v, hash
  <2>7. v.number = n
    BY <2>5, <2>6, KeyParts
  <2>8. v # None
    BY <2>5, NoneAssumption DEF Filed, Answers, TypeNames, Remotes
  <2> QED BY <2>4, <2>7, <2>8 DEF hash
<1> QED BY <1>1, CacheAlways, PTL

(* What Cache::new loads and the lookups file comes from a network forked   *)
(* since the directory was last emptied, and with a cache in memory from    *)
(* the network that is forked now.                                          *)
THEOREM NetworksAreServed == Spec => []ServedNetworks
<1>1. CacheInv => ServedNetworks
  BY DEF CacheInv, EntriesOK, Serves, ServedNetworks
<1> QED BY <1>1, CacheAlways, PTL

=============================================================================
