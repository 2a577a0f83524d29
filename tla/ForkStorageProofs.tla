-------------------------- MODULE ForkStorageProofs --------------------------
(***************************************************************************)
(* Proofs about ForkStorage, for every set of slots, bytecodes and fork    *)
(* points, every state of the forked chain and of a new node.              *)
(***************************************************************************)
EXTENDS ForkStorage, SequenceTheorems, TLAPS

-----------------------------------------------------------------------------
(* The words of the nonce holder. *)

(* A number is its remainder and its quotient.                              *)
LEMMA NonceParts ==
    ASSUME NEW w \in Nat
    PROVE  /\ account_nonce(w) \in Nat /\ account_nonce(w) < NONCE_RADIX
           /\ deployment_nonce(w) \in Nat
           /\ w = full_nonce(account_nonce(w), deployment_nonce(w))
<1>1. NONCE_RADIX \in Nat /\ NONCE_RADIX > 0
  BY StorageAssumption
<1>2. /\ w % NONCE_RADIX \in 0 .. NONCE_RADIX - 1
      /\ w \div NONCE_RADIX \in Nat
      /\ w = (w % NONCE_RADIX) + NONCE_RADIX * (w \div NONCE_RADIX)
  BY <1>1
<1> QED BY <1>1, <1>2 DEF account_nonce, deployment_nonce, full_nonce

(* It has no other remainder and quotient.                                  *)
LEMMA NoncesDetermined ==
    ASSUME NEW a \in Nat, NEW d \in Nat, NEW b \in Nat, NEW e \in Nat,
           a < NONCE_RADIX, b < NONCE_RADIX,
           full_nonce(a, d) = full_nonce(b, e)
    PROVE  a = b /\ d = e
<1> DEFINE R == NONCE_RADIX
<1>1. R \in Nat /\ a + R * d = b + R * e
  BY StorageAssumption DEF full_nonce
<1>2. a < R /\ b < R
  OBVIOUS
<1> HIDE DEF R
<1>3. R * (d - e) = b - a
  BY <1>1
<1>4. CASE d - e > 0
  <2>1. R * (d - e) >= R
    BY <1>1, <1>4
  <2> QED BY <1>1, <1>2, <1>3, <2>1
<1>5. CASE d - e < 0
  <2>1. R * (e - d) >= R
    BY <1>1, <1>5
  <2>2. R * (e - d) = a - b
    BY <1>1
  <2> QED BY <1>1, <1>2, <2>1, <2>2
<1>6. CASE d - e = 0
  BY <1>1, <1>6
<1> QED BY <1>4, <1>5, <1>6

(* Packing and unpacking the two nonces.                                    *)
LEMMA NonceRoundTrip ==
    ASSUME NEW a \in Nat, NEW d \in Nat, a < NONCE_RADIX
    PROVE  /\ full_nonce(a, d) \in Nat
           /\ account_nonce(full_nonce(a, d)) = a
           /\ deployment_nonce(full_nonce(a, d)) = d
<1> DEFINE w == full_nonce(a, d)
<1>1. w \in Nat
  BY StorageAssumption DEF full_nonce
<1> HIDE DEF w
<1>2. /\ account_nonce(w) \in Nat /\ account_nonce(w) < NONCE_RADIX
      /\ deployment_nonce(w) \in Nat
      /\ w = full_nonce(account_nonce(w), deployment_nonce(w))
  BY <1>1, NonceParts
<1>3. account_nonce(w) = a /\ deployment_nonce(w) = d
  BY <1>2, NoncesDetermined DEF w
<1> QED BY <1>1, <1>3 DEF w

(* Counting up one nonce leaves the other alone, and stays within a word    *)
(* the VM may write.                                                        *)
LEMMA NonceCounts ==
    ASSUME NEW w \in Nat,
           account_nonce(w) < MaxNonce, deployment_nonce(w) < MaxNonce,
           NEW step \in {full_nonce(1, 0), full_nonce(0, 1)}
    PROVE  /\ w + step \in Nonces
           /\ account_nonce(w + step) >= account_nonce(w)
           /\ deployment_nonce(w + step) >= deployment_nonce(w)
<1> DEFINE a == account_nonce(w)
           d == deployment_nonce(w)
<1>1. /\ a \in Nat /\ d \in Nat /\ w = full_nonce(a, d)
      /\ a + 1 \in 0 .. MaxNonce /\ d + 1 \in 0 .. MaxNonce
      /\ a \in 0 .. MaxNonce /\ d \in 0 .. MaxNonce
  BY NonceParts, StorageAssumption
<1> HIDE DEF a, d
<1>2. MaxNonce \in Nat /\ NONCE_RADIX \in Nat /\ MaxNonce < NONCE_RADIX
  BY StorageAssumption
<1>3. CASE step = full_nonce(1, 0)
  <2>1. w + step = full_nonce(a + 1, d)
    BY <1>1, <1>2, <1>3 DEF full_nonce
  <2>2. account_nonce(w + step) = a + 1 /\ deployment_nonce(w + step) = d
    BY <1>1, <1>2, <2>1, NonceRoundTrip
  <2>3. w + step \in Nonces
    BY <1>1, <2>1 DEF Nonces
  <2> QED BY <1>1, <2>2, <2>3 DEF a, d
<1>4. CASE step = full_nonce(0, 1)
  <2>1. w + step = full_nonce(a, d + 1)
    BY <1>1, <1>2, <1>4 DEF full_nonce
  <2>2. account_nonce(w + step) = a /\ deployment_nonce(w + step) = d + 1
    BY <1>1, <1>2, <2>1, NonceRoundTrip
  <2>3. w + step \in Nonces
    BY <1>1, <2>1 DEF Nonces
  <2> QED BY <1>1, <2>2, <2>3 DEF a, d
<1> QED BY <1>3, <1>4

(* Every word is a number.                                                  *)
LEMMA WordsAreNumbers ==
    Values \subseteq Nat
<1>1. Nonces \subseteq Nat
  <2> SUFFICES ASSUME NEW a \in 0 .. MaxNonce, NEW d \in 0 .. MaxNonce
               PROVE  full_nonce(a, d) \in Nat
    BY DEF Nonces
  <2>1. a \in Nat /\ d \in Nat /\ a < NONCE_RADIX
    BY StorageAssumption
  <2> QED BY <2>1, NonceRoundTrip
<1> QED BY <1>1, StorageAssumption DEF Values

-----------------------------------------------------------------------------
(* The inductive invariant. *)

(* The word a reader of key is given, whatever is cached.                   *)
Word(st, f, key) ==
    IF key \in DOMAIN st /\ st[key] # 0 THEN st[key]
    ELSE IF f = NoFork THEN 0 ELSE RemoteState[f][key]

(* The bytecode with that hash is kept or served by the fork point.         *)
Known(deps, f, hash) ==
    hash \in DOMAIN deps \/ (f # NoFork /\ hash \in RemoteDeps[f])

(* The words are numbers; the code slot holds the hash of a known bytecode, *)
(* or a word a client wrote there itself.                                   *)
WordsOK(st, deps, f) ==
    /\ \A k \in DOMAIN st : k \in Keys /\ st[k] \in Nat
    /\ \A h \in DOMAIN deps : deps[h] = Code(h)
    /\ CodeKey \in DOMAIN st =>
          st[CodeKey] \in EditedHashes \cup {0} \/ Known(deps, f, st[CodeKey])

(* The caches hold what f serves.                                           *)
CachesOK(words, deps, f) ==
    /\ f = NoFork => words = << >> /\ deps = << >>
    /\ \A k \in DOMAIN words : words[k] = RemoteState[f][k]
    /\ \A h \in DOMAIN deps :
          deps[h] = IF h \in RemoteDeps[f] THEN Code(h) ELSE NoCode

StoreOK(s, f) ==
    /\ WordsOK(s.state, s.factory_deps, f)
    /\ CachesOK(s.value_read_cache, s.factory_dep_cache, f)

Present == [state |-> state, factory_deps |-> factory_deps,
            value_read_cache |-> value_read_cache,
            factory_dep_cache |-> factory_dep_cache]

(* What a VM run has read is still what the storage holds; the code hash it *)
(* has written is that of a known bytecode, or of one it brings; and it has *)
(* not taken a nonce back.                                                  *)
RunOK ==
    /\ \A k \in DOMAIN view.read : view.read[k] = Word(state, fork, k)
    /\ \A k \in DOMAIN view.modified : k \in Keys /\ view.modified[k] \in Values
    /\ CodeKey \in DOMAIN view.modified =>
          \/ Known(factory_deps, fork, view.modified[CodeKey])
          \/ view.modified[CodeKey] \in view.deps
    /\ NonceKey \in DOMAIN view.modified =>
          LET old == Word(state, fork, NonceKey)
              now == view.modified[NonceKey]
          IN  /\ account_nonce(now) >= account_nonce(old)
              /\ deployment_nonce(now) >= deployment_nonce(old)

ViewOK ==
    /\ view = [modified |-> view.modified, read |-> view.read, deps |-> view.deps,
               open |-> view.open, commits |-> view.commits]
    /\ view.open => RunOK

IsList(s) == s \in Seq({s[i] : i \in DOMAIN s})

SavedOK ==
    /\ IsList(snapshots)
    /\ \A i \in DOMAIN snapshots : StoreOK(snapshots[i], fork)

StorageInv ==
    /\ fork \in Forks \cup {NoFork}
    /\ StoreOK(Present, fork)
    /\ SavedOK
    /\ ViewOK

-----------------------------------------------------------------------------
(* Reading and caching. *)

(* With caches that match the fork point, what is cached does not show.     *)
LEMMA ReadsWord ==
    ASSUME CachesOK(value_read_cache, factory_dep_cache, fork), NEW key
    PROVE  read_value(key) = Word(state, fork, key)
  BY DEF read_value, LocalValue, Word, CachesOK

(* A loaded bytecode is the kept one, or the one the fork point serves.     *)
LEMMA LoadsKnown ==
    ASSUME StoreOK(Present, fork), NEW hash
    PROVE  load_factory_dep(hash) =
              IF Known(factory_deps, fork, hash) THEN Code(hash) ELSE NoCode
  BY DEF load_factory_dep, RemoteCode, Known, StoreOK, Present, WordsOK, CachesOK

(* Reading words caches what the fork point holds, and nothing without one. *)
LEMMA WordsCached ==
    ASSUME CachesOK(value_read_cache, factory_dep_cache, fork),
           NEW keys, ReadThroughAll(keys)
    PROVE  CachesOK(value_read_cache', factory_dep_cache, fork)
<1>1. CASE fork = NoFork
  <2>1. value_read_cache = << >> /\ DOMAIN value_read_cache = {}
    BY <1>1 DEF CachesOK
  <2>2. DOMAIN value_read_cache' = {} /\ value_read_cache' = << >>
    BY <1>1, <2>1 DEF ReadThroughAll
  <2> QED BY <2>2 DEF CachesOK
<1>2. CASE fork # NoFork
  BY <1>2 DEF ReadThroughAll, CachesOK
<1> QED BY <1>1, <1>2

(* So does loading a bytecode.                                              *)
LEMMA DepsCached ==
    ASSUME NEW words, CachesOK(words, factory_dep_cache, fork),
           NEW hash, LoadThrough(hash)
    PROVE  CachesOK(words, factory_dep_cache', fork)
  BY DEF LoadThrough, CachesOK, Insert, RemoteCode

(* The bytecode for a code slot nobody edited can be had.                   *)
LEMMA CodeKnown ==
    ASSUME WordsOK(state, factory_deps, fork), fork \in Forks \cup {NoFork},
           Word(state, fork, CodeKey) \notin EditedHashes \cup {0}
    PROVE  Known(factory_deps, fork, Word(state, fork, CodeKey))
  BY CodeAssumption DEF WordsOK, Word, Known

(* Words are numbers.                                                       *)
LEMMA WordIsNumber ==
    ASSUME NEW st, NEW deps, NEW f \in Forks \cup {NoFork}, WordsOK(st, deps, f),
           NEW key \in Keys
    PROVE  Word(st, f, key) \in Nat
  BY StorageAssumption, WordsAreNumbers DEF WordsOK, Word

(* An inserted word is the one that is read, or uncovers the fork point's.  *)
LEMMA InsertedWord ==
    ASSUME NEW st, NEW f, NEW key, NEW value, NEW other
    PROVE  Word(Insert(st, key, value), f, other) =
              IF other # key THEN Word(st, f, other)
              ELSE IF value # 0 THEN value
              ELSE IF f = NoFork THEN 0 ELSE RemoteState[f][other]
  BY DEF Word, Insert

(* Lists. *)
LEMMA ListAppended ==
    ASSUME NEW s, IsList(s), NEW e
    PROVE  /\ IsList(Append(s, e))
           /\ DOMAIN Append(s, e) = 1 .. Len(s) + 1
           /\ DOMAIN s = 1 .. Len(s) /\ Len(s) \in Nat
           /\ Append(s, e)[Len(s) + 1] = e
           /\ \A i \in DOMAIN s : Append(s, e)[i] = s[i]
<1> DEFINE R == {s[i] : i \in DOMAIN s}
           t == Append(s, e)
           Q == {t[i] : i \in DOMAIN t}
<1>1. s \in Seq(R \cup {e})
  BY SeqDef DEF IsList
<1>2. Len(s) \in Nat /\ DOMAIN s = 1 .. Len(s)
  BY LenProperties DEF IsList
<1>3. /\ t \in Seq(R \cup {e}) /\ Len(t) = Len(s) + 1
      /\ \A i \in 1 .. Len(s) : t[i] = s[i]
      /\ t[Len(s) + 1] = e
  BY <1>1, AppendProperties
<1> HIDE DEF t
<1>4. DOMAIN t = 1 .. Len(s) + 1
  BY <1>3, LenProperties
<1>5. t \in Seq(Q)
  <2>1. t \in [1 .. Len(s) + 1 -> Q]
    BY <1>3, <1>4, SeqDef
  <2> QED BY <1>2, <2>1, SeqDef
<1> QED BY <1>2, <1>3, <1>4, <1>5 DEF IsList, t

LEMMA ListCut ==
    ASSUME NEW s, IsList(s), NEW j \in DOMAIN s
    PROVE  /\ IsList(SubSeq(s, 1, j - 1))
           /\ DOMAIN SubSeq(s, 1, j - 1) = 1 .. j - 1
           /\ DOMAIN s = 1 .. Len(s) /\ Len(s) \in Nat
           /\ \A i \in 1 .. j - 1 : i \in DOMAIN s /\ SubSeq(s, 1, j - 1)[i] = s[i]
<1> DEFINE t == SubSeq(s, 1, j - 1)
           Q == {t[i] : i \in DOMAIN t}
<1>1. Len(s) \in Nat /\ DOMAIN s = 1 .. Len(s)
  BY LenProperties DEF IsList
<1>2. j \in 1 .. Len(s)
  BY <1>1
<1>3. t = [i \in 1 .. j - 1 |-> s[i]]
  <2>1. t = [i \in 1 .. (j - 1) + 1 - 1 |-> s[i + 1 - 1]]
    BY <1>1, <1>2
  <2> QED BY <1>2, <2>1
<1> HIDE DEF t
<1>4. j - 1 \in Nat /\ t \in [1 .. j - 1 -> Q] /\ DOMAIN t = 1 .. j - 1
  BY <1>2, <1>3
<1>5. t \in Seq(Q)
  BY <1>4, SeqDef
<1>6. \A i \in 1 .. j - 1 : i \in DOMAIN s /\ t[i] = s[i]
  BY <1>1, <1>2, <1>3
<1>7. IsList(t)
  BY <1>5 DEF IsList
<1> QED BY <1>1, <1>4, <1>6, <1>7 DEF t

-----------------------------------------------------------------------------
(* The steps. *)

(* A step that shows no reader anything: at most something is cached, or a  *)
(* VM run goes on.                                                          *)
Quiet ==
    /\ UNCHANGED << state, factory_deps, fork, snapshots >>
    /\ CachesOK(value_read_cache', factory_dep_cache', fork)
    /\ ViewOK'

(* Queries cache. *)
LEMMA QueriesAreQuiet ==
    ASSUME StorageInv, Queries
    PROVE  Quiet
<1>1. CachesOK(value_read_cache, factory_dep_cache, fork) /\ ViewOK
  BY DEF StorageInv, StoreOK, Present
<1>2. ASSUME Served, UNCHANGED view
      PROVE  ViewOK'
  BY <1>1, <1>2 DEF Served, ViewOK
<1>3. ASSUME NEW keys, QueryWords(keys)
      PROVE  Quiet
  <2>1. CachesOK(value_read_cache', factory_dep_cache, fork)
    BY <1>1, <1>3, WordsCached DEF QueryWords
  <2> QED BY <1>2, <1>3, <2>1 DEF QueryWords, Quiet, storage
<1>4. ASSUME QueryCode
      PROVE  Quiet
  <2>1. CachesOK(value_read_cache', factory_dep_cache, fork)
    BY <1>1, <1>4, WordsCached DEF QueryCode, ReadThrough
  <2>2. CachesOK(value_read_cache', factory_dep_cache', fork)
    BY <1>4, <2>1, DepsCached DEF QueryCode
  <2> QED BY <1>2, <1>4, <2>2 DEF QueryCode, Quiet, storage
<1>5. ASSUME NEW h, QueryBytecode(h)
      PROVE  Quiet
  <2>1. CachesOK(value_read_cache, factory_dep_cache', fork)
    BY <1>1, <1>5, DepsCached DEF QueryBytecode
  <2> QED BY <1>2, <1>5, <2>1 DEF QueryBytecode, Quiet, storage
<1> QED BY <1>3, <1>4, <1>5 DEF Queries

(* A run's first look at a slot is remembered as what the storage holds.    *)
LEMMA ReadIsWord ==
    ASSUME CachesOK(value_read_cache, factory_dep_cache, fork), ViewOK, view.open,
           NEW key
    PROVE  \A k \in DOMAIN AfterRead(key) : AfterRead(key)[k] = Word(state, fork, k)
<1>1. read_value(key) = Word(state, fork, key)
  BY ReadsWord
<1> QED BY <1>1 DEF AfterRead, Insert, ViewOK, RunOK

(* What a run sees in a slot it has not written.                            *)
LEMMA ViewSees ==
    ASSUME CachesOK(value_read_cache, factory_dep_cache, fork), ViewOK, view.open,
           NEW key
    PROVE  ViewValue(key) = IF key \in DOMAIN view.modified THEN view.modified[key]
                            ELSE Word(state, fork, key)
<1>1. read_value(key) = Word(state, fork, key)
  BY ReadsWord
<1> QED BY <1>1 DEF ViewValue, ViewOK, RunOK

(* Looking at a slot caches as a query does.                                *)
LEMMA ViewCaches ==
    ASSUME CachesOK(value_read_cache, factory_dep_cache, fork), NEW key, ViewThrough(key)
    PROVE  CachesOK(value_read_cache', factory_dep_cache, fork)
<1>1. CASE UNCHANGED value_read_cache
  BY <1>1
<1>2. CASE ReadThrough(key)
  BY <1>2, WordsCached DEF ReadThrough
<1> QED BY <1>1, <1>2 DEF ViewThrough

(* A run writes a slot.                                                     *)
LEMMA ViewPut ==
    ASSUME StorageInv, view.open, UNCHANGED << state, factory_deps, fork >>,
           NEW key \in Keys, NEW value \in Values,
           view' = [modified |-> Insert(view.modified, key, value),
                    read |-> AfterRead(key), deps |-> view'.deps,
                    open |-> view.open, commits |-> view.commits],
           view.deps \subseteq view'.deps,
           key = CodeKey => Known(factory_deps, fork, value) \/ value \in view'.deps,
           key = NonceKey =>
              /\ account_nonce(value) >= account_nonce(Word(state, fork, NonceKey))
              /\ deployment_nonce(value) >= deployment_nonce(Word(state, fork, NonceKey))
    PROVE  ViewOK'
<1>1. ViewOK /\ RunOK /\ CachesOK(value_read_cache, factory_dep_cache, fork)
  BY DEF StorageInv, StoreOK, Present, ViewOK
<1>2. /\ view'.modified = Insert(view.modified, key, value)
      /\ view'.read = AfterRead(key)
      /\ view' = [modified |-> view'.modified, read |-> view'.read, deps |-> view'.deps,
                  open |-> view'.open, commits |-> view'.commits]
  OBVIOUS
<1>3. /\ DOMAIN view'.modified = DOMAIN view.modified \cup {key}
      /\ view'.modified[key] = value
      /\ \A k \in DOMAIN view.modified : k # key => view'.modified[k] = view.modified[k]
  BY <1>2 DEF Insert
<1>4. \A k \in DOMAIN view'.read : view'.read[k] = Word(state', fork', k)
  BY <1>1, <1>2, ReadIsWord
<1>5. \A k \in DOMAIN view'.modified : k \in Keys /\ view'.modified[k] \in Values
  BY <1>1, <1>3 DEF RunOK
<1>6. CodeKey \in DOMAIN view'.modified =>
          \/ Known(factory_deps', fork', view'.modified[CodeKey])
          \/ view'.modified[CodeKey] \in view'.deps
  BY <1>1, <1>3 DEF RunOK
<1>7. NonceKey \in DOMAIN view'.modified =>
          /\ account_nonce(view'.modified[NonceKey])
               >= account_nonce(Word(state', fork', NonceKey))
          /\ deployment_nonce(view'.modified[NonceKey])
               >= deployment_nonce(Word(state', fork', NonceKey))
  BY <1>1, <1>3 DEF RunOK
<1> QED BY <1>2, <1>4, <1>5, <1>6, <1>7 DEF ViewOK, RunOK

(* A run counts up a nonce.                                                 *)
LEMMA NonceStep ==
    ASSUME StorageInv, view.open,
           account_nonce(ViewValue(NonceKey)) < MaxNonce,
           deployment_nonce(ViewValue(NonceKey)) < MaxNonce,
           NEW step \in {full_nonce(1, 0), full_nonce(0, 1)}
    PROVE  LET value == ViewValue(NonceKey) + step
           IN  /\ value \in Values
               /\ account_nonce(value) >= account_nonce(Word(state, fork, NonceKey))
               /\ deployment_nonce(value) >= deployment_nonce(Word(state, fork, NonceKey))
<1> DEFINE old == Word(state, fork, NonceKey)
           now == ViewValue(NonceKey)
<1>1. /\ ViewOK /\ RunOK /\ CachesOK(value_read_cache, factory_dep_cache, fork)
      /\ WordsOK(state, factory_deps, fork) /\ fork \in Forks \cup {NoFork}
  BY DEF StorageInv, StoreOK, Present, ViewOK
<1>2. old \in Nat
  BY <1>1, WordIsNumber DEF Keys
<1>3. now \in Nat /\ account_nonce(now) >= account_nonce(old)
      /\ deployment_nonce(now) >= deployment_nonce(old)
  <2>1. CASE NonceKey \in DOMAIN view.modified
    BY <1>1, <2>1, ViewSees, WordsAreNumbers DEF RunOK
  <2>2. CASE NonceKey \notin DOMAIN view.modified
    <3>1. now = old
      BY <1>1, <2>2, ViewSees
    <3> QED BY <1>2, <3>1, NonceParts
  <2> QED BY <2>1, <2>2
<1> HIDE DEF now, old
<1>4. /\ now + step \in Nonces
      /\ account_nonce(now + step) >= account_nonce(now)
      /\ deployment_nonce(now + step) >= deployment_nonce(now)
  BY <1>3, NonceCounts DEF now
<1>5. now + step \in Values /\ now + step \in Nat
  BY <1>4, WordsAreNumbers DEF Values
<1>6. /\ account_nonce(now) \in Nat /\ deployment_nonce(now) \in Nat
      /\ account_nonce(old) \in Nat /\ deployment_nonce(old) \in Nat
      /\ account_nonce(now + step) \in Nat /\ deployment_nonce(now + step) \in Nat
  BY <1>2, <1>3, <1>5, NonceParts
<1> QED BY <1>3, <1>4, <1>5, <1>6 DEF now, old

(* A run shows nothing before it is committed. *)
LEMMA RunsAreQuiet ==
    ASSUME StorageInv, VmRun
    PROVE  Quiet \/ Commit
<1>1. ViewOK /\ CachesOK(value_read_cache, factory_dep_cache, fork)
  BY DEF StorageInv, StoreOK, Present
<1>2. ASSUME NEW c, OpenView(c)
      PROVE  Quiet
  <2>1. view' = [modified |-> << >>, read |-> << >>, deps |-> {},
                 open |-> TRUE, commits |-> c]
    BY <1>2 DEF OpenView, NoView
  <2>2. DOMAIN view'.modified = {} /\ DOMAIN view'.read = {}
    BY <2>1
  <2>3. ViewOK'
    BY <2>1, <2>2 DEF ViewOK, RunOK
  <2> QED BY <1>1, <1>2, <2>3 DEF OpenView, Quiet, storage, caches
<1>3. ASSUME NEW k \in Keys, ViewRead(k)
      PROVE  Quiet
  <2>1. CachesOK(value_read_cache', factory_dep_cache', fork)
    BY <1>1, <1>3, ViewCaches DEF ViewRead
  <2>2. /\ view.open /\ RunOK /\ UNCHANGED << state, factory_deps, fork >>
        /\ view' = [view EXCEPT !.read = AfterRead(k)]
    BY <1>1, <1>3 DEF ViewRead, Touches, ViewOK, storage
  <2>3. /\ view'.modified = view.modified /\ view'.read = AfterRead(k)
        /\ view'.deps = view.deps
        /\ view' = [modified |-> view'.modified, read |-> view'.read, deps |-> view'.deps,
                    open |-> view'.open, commits |-> view'.commits]
    BY <1>1, <2>2 DEF ViewOK
  <2>4. \A x \in DOMAIN view'.read : view'.read[x] = Word(state', fork', x)
    BY <1>1, <2>2, <2>3, ReadIsWord
  <2>5. ViewOK'
    BY <2>2, <2>3, <2>4 DEF ViewOK, RunOK
  <2> QED BY <1>3, <2>1, <2>5 DEF ViewRead, Quiet, storage
<1>4. ASSUME NEW k \in Keys, ViewInitial(k)
      PROVE  Quiet
  <2>1. CachesOK(value_read_cache', factory_dep_cache', fork)
    BY <1>1, <1>4, WordsCached DEF ViewInitial, ReadThrough
  <2>2. ViewOK'
    BY <1>1, <1>4 DEF ViewInitial, ViewOK, RunOK, storage
  <2> QED BY <1>4, <2>1, <2>2 DEF ViewInitial, Quiet, storage
<1>5. ASSUME NEW k \in Keys \ {CodeKey}, NEW v \in Values, ViewWrite(k, v),
             k = NonceKey =>
               /\ account_nonce(v) >= account_nonce(Word(state, fork, NonceKey))
               /\ deployment_nonce(v) >= deployment_nonce(Word(state, fork, NonceKey))
      PROVE  Quiet
  <2>1. CachesOK(value_read_cache', factory_dep_cache', fork)
    BY <1>1, <1>5, ViewCaches DEF ViewWrite
  <2>2. /\ view.open /\ UNCHANGED << state, factory_deps, fork >>
        /\ view' = [view EXCEPT !.read = AfterRead(k),
                                !.modified = Insert(@, k, v)]
    BY <1>5 DEF ViewWrite, Touches, storage
  <2>3. /\ view' = [modified |-> Insert(view.modified, k, v),
                    read |-> AfterRead(k), deps |-> view'.deps,
                    open |-> view.open, commits |-> view.commits]
        /\ view.deps = view'.deps
    BY <1>1, <2>2 DEF ViewOK
  <2>4. ViewOK'
    BY <1>5, <2>2, <2>3, ViewPut
  <2> QED BY <1>5, <2>1, <2>4 DEF ViewWrite, Quiet, storage
<1>6. ASSUME NEW h \in CodeHashes, ViewDeploy(h)
      PROVE  Quiet
  <2>1. CachesOK(value_read_cache', factory_dep_cache', fork)
    <3>1. CachesOK(value_read_cache', factory_dep_cache, fork)
      BY <1>1, <1>6, ViewCaches DEF ViewDeploy
    <3> QED BY <1>6, <3>1, DepsCached DEF ViewDeploy
  <2> DEFINE ds == IF load_factory_dep(h) = NoCode THEN view.deps \cup {h} ELSE view.deps
  <2>2. /\ view.open /\ UNCHANGED << state, factory_deps, fork >>
        /\ view' = [view EXCEPT !.read = AfterRead(CodeKey),
                                !.modified = Insert(@, CodeKey, h),
                                !.deps = ds]
    BY <1>6 DEF ViewDeploy, Touches, storage
  <2>3. Known(factory_deps, fork, h) \/ h \in ds
    <3>1. load_factory_dep(h) # NoCode => Known(factory_deps, fork, h)
      BY LoadsKnown DEF StorageInv
    <3> QED BY <3>1
  <2>4. view.deps \subseteq ds
    OBVIOUS
  <2> HIDE DEF ds
  <2>5. /\ view' = [modified |-> Insert(view.modified, CodeKey, h),
                    read |-> AfterRead(CodeKey), deps |-> view'.deps,
                    open |-> view.open, commits |-> view.commits]
        /\ view'.deps = ds
    BY <1>1, <2>2 DEF ViewOK
  <2>6. h \in Values /\ CodeKey \in Keys /\ CodeKey # NonceKey
    BY KeyAssumption DEF Values, Keys
  <2>7. ViewOK'
    BY <2>2, <2>3, <2>4, <2>5, <2>6, ViewPut
  <2> QED BY <1>6, <2>1, <2>7 DEF ViewDeploy, Quiet, storage
<1>7. ASSUME ViewNonce
      PROVE  Quiet
  <2>1. PICK step \in {full_nonce(1, 0), full_nonce(0, 1)} :
             ViewWrite(NonceKey, ViewValue(NonceKey) + step)
    BY <1>7 DEF ViewNonce
  <2>2. view.open
    BY <2>1 DEF ViewWrite, Touches
  <2>3. LET value == ViewValue(NonceKey) + step
        IN  /\ value \in Values
            /\ account_nonce(value) >= account_nonce(Word(state, fork, NonceKey))
            /\ deployment_nonce(value) >= deployment_nonce(Word(state, fork, NonceKey))
    BY <1>7, <2>2, NonceStep DEF ViewNonce
  <2>4. NonceKey \in Keys \ {CodeKey}
    BY KeyAssumption DEF Keys
  <2> QED BY <1>5, <2>1, <2>3, <2>4
<1>8. ASSUME Discard
      PROVE  Quiet
  <2>1. ViewOK'
    BY <1>8 DEF Discard, NoView, ViewOK
  <2> QED BY <1>1, <1>8, <2>1 DEF Discard, Quiet, storage, caches
<1>9. ASSUME NEW k \in SlotKeys, NEW v \in SlotValues, ViewWrite(k, v)
      PROVE  Quiet
  <2>1. k \in Keys \ {CodeKey} /\ k # NonceKey /\ v \in Values
    BY KeyAssumption DEF Keys, Values
  <2> QED BY <1>5, <1>9, <2>1
<1> QED BY <1>2, <1>3, <1>4, <1>6, <1>7, <1>8, <1>9
        DEF VmRun, call, trace_call, run_l2_tx

(* A control method writes value to the slot key. *)
Puts(key, value) ==
    /\ Served
    /\ state' = Insert(state, key, value)
    /\ WordsOK(state', factory_deps', fork)
    /\ CachesOK(value_read_cache', factory_dep_cache', fork)
    /\ UNCHANGED << fork, snapshots, view >>
    /\ key = NonceKey =>
          \/ /\ account_nonce(value) >= account_nonce(Word(state, fork, NonceKey))
             /\ deployment_nonce(value) >= deployment_nonce(Word(state, fork, NonceKey))
          \/ value \in EditedNonces /\ set_storage_at(NonceKey, value)

(* Slots that hold no code hash. *)
LEMMA WordsInserted ==
    ASSUME WordsOK(state, factory_deps, fork), NEW key \in Keys \ {CodeKey}, NEW value \in Nat
    PROVE  WordsOK(Insert(state, key, value), factory_deps, fork)
  BY DEF WordsOK, Insert

(* The control methods that write, each to one slot. *)
LEMMA MethodsPut ==
    ASSUME StorageInv, BalanceAndNonceMethods \/ CodeAndSlotMethods
    PROVE  Quiet \/ \E key \in Keys, value \in Values : Puts(key, value)
<1>1. /\ WordsOK(state, factory_deps, fork) /\ fork \in Forks \cup {NoFork}
      /\ CachesOK(value_read_cache, factory_dep_cache, fork) /\ ViewOK
  BY DEF StorageInv, StoreOK, Present
<1>2. ASSUME NEW k \in SlotKeys, NEW v \in SlotValues, set_storage_at(k, v)
      PROVE  k \in Keys /\ v \in Values /\ Puts(k, v)
  <2>1. k \in Keys \ {CodeKey} /\ k # NonceKey /\ v \in Values /\ v \in Nat
    BY KeyAssumption, StorageAssumption DEF Keys, Values
  <2>2. WordsOK(Insert(state, k, v), factory_deps, fork)
    BY <1>1, <2>1, WordsInserted
  <2> QED BY <1>1, <1>2, <2>1, <2>2 DEF set_storage_at, set_value, Puts, caches
<1>3. ASSUME NEW k \in SlotKeys, set_rich_account(k)
      PROVE  k \in Keys /\ RichBalance \in Values /\ Puts(k, RichBalance)
  <2>1. /\ k \in Keys \ {CodeKey} /\ k # NonceKey
        /\ RichBalance \in Values /\ RichBalance \in Nat
    BY KeyAssumption, StorageAssumption DEF Keys, Values
  <2>2. WordsOK(Insert(state, k, RichBalance), factory_deps, fork)
    BY <1>1, <2>1, WordsInserted
  <2>3. CachesOK(value_read_cache', factory_dep_cache, fork)
    BY <1>1, <1>3, WordsCached DEF set_rich_account, ReadThrough
  <2> QED BY <1>3, <2>1, <2>2, <2>3 DEF set_rich_account, Puts
<1>4. ASSUME NEW n \in (0 .. MaxNonce) \cup {NONCE_RADIX}, set_nonce(n)
      PROVE  \/ Quiet
             \/ /\ NonceKey \in Keys /\ full_nonce(n, n) \in Values
                /\ Puts(NonceKey, full_nonce(n, n))
  <2> DEFINE word == read_value(NonceKey)
  <2>1. word = Word(state, fork, NonceKey)
    BY <1>1, ReadsWord
  <2>2. NonceKey \in Keys \ {CodeKey}
    BY KeyAssumption DEF Keys
  <2>3. word \in Nat
    BY <1>1, <2>1, <2>2, WordIsNumber
  <2>4. /\ Served /\ ReadThrough(NonceKey)
        /\ state' = IF \/ account_nonce(word) >= n \/ deployment_nonce(word) >= n
                       \/ n >= NONCE_RADIX
                      THEN state ELSE Insert(state, NonceKey, full_nonce(n, n))
        /\ UNCHANGED << factory_deps, factory_dep_cache, fork, snapshots, view >>
    BY <1>4 DEF set_nonce
  <2> HIDE DEF word
  <2>5. CachesOK(value_read_cache', factory_dep_cache', fork)
    BY <1>1, <2>4, WordsCached DEF ReadThrough
  <2>6. CASE account_nonce(word) >= n \/ deployment_nonce(word) >= n \/ n >= NONCE_RADIX
    <3>1. ViewOK'
      BY <1>1, <2>4 DEF Served, ViewOK
    <3> QED BY <2>4, <2>5, <2>6, <3>1 DEF Quiet
  <2>7. CASE ~(account_nonce(word) >= n \/ deployment_nonce(word) >= n \/ n >= NONCE_RADIX)
    <3>1. n \in 0 .. MaxNonce /\ n \in Nat /\ n < NONCE_RADIX
      BY <2>7, StorageAssumption
    <3>2. /\ full_nonce(n, n) \in Nat /\ full_nonce(n, n) \in Values
          /\ account_nonce(full_nonce(n, n)) = n
          /\ deployment_nonce(full_nonce(n, n)) = n
      BY <3>1, NonceRoundTrip DEF Nonces, Values
    <3>3. account_nonce(word) \in Nat /\ deployment_nonce(word) \in Nat
      BY <2>3, NonceParts
    <3>4. account_nonce(word) <= n /\ deployment_nonce(word) <= n
      BY <2>7, <3>1, <3>3
    <3>5. WordsOK(Insert(state, NonceKey, full_nonce(n, n)), factory_deps, fork)
      BY <1>1, <2>2, <3>2, WordsInserted
    <3> HIDE DEF full_nonce
    <3>6. Puts(NonceKey, full_nonce(n, n))
      BY <2>1, <2>4, <2>5, <2>7, <3>1, <3>2, <3>3, <3>4, <3>5 DEF Puts
    <3> QED BY <2>2, <3>2, <3>6
  <2> QED BY <2>6, <2>7
<1>5. ASSUME NEW h \in CodeHashes, set_code(h)
      PROVE  CodeKey \in Keys /\ h \in Values /\ Puts(CodeKey, h)
  <2>1. CodeKey \in Keys /\ CodeKey # NonceKey /\ h \in Values /\ h \in Nat
    BY KeyAssumption, StorageAssumption DEF Keys, Values
  <2>2. WordsOK(Insert(state, CodeKey, h), Insert(factory_deps, h, Code(h)), fork)
    BY <1>1, <2>1 DEF WordsOK, Insert, Known
  <2> QED BY <1>1, <1>5, <2>1, <2>2
          DEF set_code, store_factory_dep, set_value, Puts, caches
<1>6. ASSUME NEW v \in EditedHashes, set_storage_at(CodeKey, v)
      PROVE  CodeKey \in Keys /\ v \in Values /\ Puts(CodeKey, v)
  <2>1. CodeKey \in Keys /\ CodeKey # NonceKey /\ v \in Values /\ v \in Nat
    BY KeyAssumption, StorageAssumption DEF Keys, Values
  <2>2. WordsOK(Insert(state, CodeKey, v), factory_deps, fork)
    BY <1>1, <1>6, <2>1 DEF WordsOK, Insert
  <2> QED BY <1>1, <1>6, <2>1, <2>2 DEF set_storage_at, set_value, Puts, caches
<1>7. ASSUME NEW v \in EditedNonces, set_storage_at(NonceKey, v)
      PROVE  NonceKey \in Keys /\ v \in Values /\ Puts(NonceKey, v)
  <2>1. NonceKey \in Keys \ {CodeKey} /\ v \in Values
    BY KeyAssumption, StorageAssumption DEF Keys, Values
  <2>2. WordsOK(Insert(state, NonceKey, v), factory_deps, fork)
    BY <1>1, <2>1, WordsInserted, WordsAreNumbers
  <2>3. /\ Served /\ state' = Insert(state, NonceKey, v) /\ factory_deps' = factory_deps
        /\ UNCHANGED << caches, fork, snapshots, view >>
    BY <1>7 DEF set_storage_at, set_value
  <2> QED BY <1>1, <1>7, <2>1, <2>2, <2>3 DEF Puts, caches
<1> QED BY <1>2, <1>3, <1>4, <1>5, <1>6, <1>7
        DEF BalanceAndNonceMethods, CodeAndSlotMethods, set_balance, override_bytecode

(* A commit merges what the run wrote. *)
LEMMA CommitMerges ==
    ASSUME StorageInv, Commit
    PROVE  /\ WordsOK(state', factory_deps', fork)
           /\ \A k \in Keys :
                 Word(state', fork', k) =
                    IF k \notin DOMAIN view.modified THEN Word(state, fork, k)
                    ELSE IF view.modified[k] # 0 THEN view.modified[k]
                    ELSE Underlying(fork)[k]
           /\ \A k \in Keys : k \in DOMAIN state' <=> k \in DOMAIN state \cup DOMAIN view.modified
           /\ RunOK /\ ViewOK' /\ fork' = fork /\ snapshots' = snapshots
           /\ CachesOK(value_read_cache', factory_dep_cache', fork)
<1>1. /\ WordsOK(state, factory_deps, fork) /\ RunOK /\ ViewOK
      /\ CachesOK(value_read_cache, factory_dep_cache, fork)
  BY DEF StorageInv, StoreOK, Present, ViewOK, Commit
<1>2. /\ state' = Merge(state, view.modified)
      /\ factory_deps' = Merge(factory_deps, [h \in view.deps |-> Code(h)])
      /\ view' = NoView /\ fork' = fork /\ snapshots' = snapshots
      /\ CachesOK(value_read_cache', factory_dep_cache', fork)
  BY <1>1 DEF Commit, caches
<1>3. /\ DOMAIN state' = DOMAIN state \cup DOMAIN view.modified
      /\ \A k \in DOMAIN state' :
            state'[k] = IF k \in DOMAIN view.modified THEN view.modified[k] ELSE state[k]
  BY <1>2 DEF Merge
<1>4. /\ DOMAIN factory_deps' = DOMAIN factory_deps \cup view.deps
      /\ \A h \in DOMAIN factory_deps' : factory_deps'[h] = Code(h)
  <2>1. /\ DOMAIN [h \in view.deps |-> Code(h)] = view.deps
        /\ \A h \in view.deps : [x \in view.deps |-> Code(x)][h] = Code(h)
    OBVIOUS
  <2> HIDE DEF Code
  <2> QED BY <1>1, <1>2, <2>1 DEF Merge, WordsOK
<1>5. WordsOK(state', factory_deps', fork)
  <2>1. \A k \in DOMAIN state' : k \in Keys /\ state'[k] \in Nat
    BY <1>1, <1>3, WordsAreNumbers DEF WordsOK, RunOK
  <2>2. CodeKey \in DOMAIN state' =>
           \/ state'[CodeKey] \in EditedHashes \cup {0}
           \/ Known(factory_deps', fork, state'[CodeKey])
    BY <1>1, <1>3, <1>4 DEF WordsOK, RunOK, Known
  <2> QED BY <1>4, <2>1, <2>2 DEF WordsOK
<1>6. \A k \in Keys :
         Word(state', fork', k) =
            IF k \notin DOMAIN view.modified THEN Word(state, fork, k)
            ELSE IF view.modified[k] # 0 THEN view.modified[k]
            ELSE Underlying(fork)[k]
  BY <1>2, <1>3 DEF Word, Underlying
<1>7. ViewOK'
  BY <1>2 DEF NoView, ViewOK
<1> QED BY <1>1, <1>2, <1>3, <1>5, <1>6, <1>7

(* A new node's storage. *)
LEMMA FreshOK ==
    ASSUME NEW f \in Forks \cup {NoFork}
    PROVE  /\ WordsOK(GenesisState, [h \in GenesisDeps |-> Code(h)], f)
           /\ CachesOK(<< >>, << >>, f)
<1>1. CachesOK(<< >>, << >>, f)
  BY DEF CachesOK
<1>2. \A k \in DOMAIN GenesisState : k \in Keys /\ GenesisState[k] \in Nat
  BY StorageAssumption, WordsAreNumbers
<1>3. CodeKey \in DOMAIN GenesisState =>
         Known([h \in GenesisDeps |-> Code(h)], f, GenesisState[CodeKey])
  BY CodeAssumption DEF Known
<1> QED BY <1>1, <1>2, <1>3 DEF WordsOK

(* Snapshots, reverts and resets. *)
LEMMA SnapshotsKeep ==
    ASSUME StorageInv, SnapshotMethods
    PROVE  StorageInv'
<1>1. /\ WordsOK(state, factory_deps, fork) /\ fork \in Forks \cup {NoFork}
      /\ CachesOK(value_read_cache, factory_dep_cache, fork) /\ ViewOK /\ SavedOK
  BY DEF StorageInv, StoreOK, Present
<1>2. ASSUME Served, UNCHANGED view
      PROVE  ViewOK'
  BY <1>1, <1>2 DEF Served, ViewOK
<1>3. CASE TakeSnapshot
  <2>1. /\ snapshots' = Append(snapshots, Present) /\ fork' = fork
        /\ UNCHANGED << storage, caches >> /\ Served /\ UNCHANGED view
    BY <1>3 DEF TakeSnapshot, Present
  <2>2. StoreOK(Present, fork)
    BY DEF StorageInv
  <2>3. StoreOK(Present', fork)
    BY <2>1, <2>2 DEF Present, StoreOK, storage, caches
  <2> HIDE DEF Present
  <2>4. SavedOK'
    BY <1>1, <2>1, <2>2, ListAppended DEF SavedOK
  <2> QED BY <1>1, <1>2, <2>1, <2>3, <2>4 DEF StorageInv
<1>4. ASSUME NEW j \in DOMAIN snapshots, revert_snapshot(j)
      PROVE  StorageInv'
  <2>1. StoreOK(snapshots[j], fork)
    BY <1>1 DEF SavedOK
  <2>2. StoreOK(Present', fork) /\ fork' = fork /\ Served /\ UNCHANGED view
        /\ snapshots' = SubSeq(snapshots, 1, j - 1)
    BY <1>4, <2>1 DEF revert_snapshot, Present, StoreOK
  <2>3. SavedOK'
    BY <1>1, <2>2, ListCut DEF SavedOK
  <2> QED BY <1>1, <1>2, <2>2, <2>3 DEF StorageInv
<1>5. ASSUME NEW f \in Forks \cup {NoFork}, reset(f)
      PROVE  StorageInv'
  <2>1. /\ WordsOK(state', factory_deps', f) /\ fork' = f /\ Served /\ UNCHANGED view
        /\ CachesOK(value_read_cache', factory_dep_cache', f) /\ snapshots' = << >>
    BY <1>5, FreshOK DEF reset, Fresh
  <2>2. SavedOK'
    BY <2>1 DEF SavedOK, IsList
  <2> QED BY <1>2, <2>1, <2>2 DEF StorageInv, StoreOK, Present
<1> QED BY <1>3, <1>4, <1>5 DEF SnapshotMethods

(* What a step can be. *)
LEMMA StepKinds ==
    ASSUME StorageInv, [Next]_vars
    PROVE  \/ Quiet
           \/ Commit
           \/ \E key \in Keys, value \in Values : Puts(key, value)
           \/ SnapshotMethods
<1>1. CASE UNCHANGED vars
  <2>1. ViewOK' /\ CachesOK(value_read_cache', factory_dep_cache', fork)
    BY <1>1 DEF StorageInv, StoreOK, Present, vars, storage, caches, ViewOK, RunOK
  <2> QED BY <1>1, <2>1 DEF Quiet, vars, storage, caches
<1> QED BY <1>1, QueriesAreQuiet, RunsAreQuiet, MethodsPut DEF Next

LEMMA StorageStep ==
    ASSUME StorageInv, [Next]_vars
    PROVE  StorageInv'
<1>1. /\ WordsOK(state, factory_deps, fork) /\ fork \in Forks \cup {NoFork} /\ SavedOK
      /\ ViewOK
  BY DEF StorageInv, StoreOK, Present
<1>2. ASSUME fork' = fork, snapshots' = snapshots, ViewOK',
             WordsOK(state', factory_deps', fork),
             CachesOK(value_read_cache', factory_dep_cache', fork)
      PROVE  StorageInv'
  BY <1>1, <1>2 DEF StorageInv, StoreOK, Present, SavedOK
<1>3. CASE Quiet
  BY <1>1, <1>2, <1>3 DEF Quiet
<1>4. CASE Commit
  BY <1>2, <1>4, CommitMerges
<1>5. ASSUME NEW key \in Keys, NEW value \in Values, Puts(key, value)
      PROVE  StorageInv'
  <2>1. ViewOK'
    BY <1>1, <1>5 DEF Puts, Served, ViewOK
  <2> QED BY <1>2, <1>5, <2>1 DEF Puts
<1> QED BY <1>3, <1>4, <1>5, StepKinds, SnapshotsKeep

LEMMA StorageInit ==
    ASSUME Init
    PROVE  StorageInv
<1>1. /\ WordsOK(state, factory_deps, fork) /\ fork \in Forks \cup {NoFork}
      /\ CachesOK(value_read_cache, factory_dep_cache, fork)
  BY FreshOK DEF Init
<1>2. SavedOK
  BY DEF Init, SavedOK, IsList
<1>3. ViewOK
  BY DEF Init, NoView, ViewOK
<1> QED BY <1>1, <1>2, <1>3 DEF StorageInv, StoreOK, Present

LEMMA StorageAlways == Spec => []StorageInv
  BY StorageInit, StorageStep, PTL DEF Spec

(* Whatever the read-through of ForkStorage has cached is what the present  *)
(* fork point holds: no query, VM run, revert or reset leaves a cached word *)
(* or bytecode of another chain behind.                                     *)
THEOREM CachesAlwaysMatch == Spec => []CachesMatchFork
<1>1. StorageInv => CachesMatchFork
  BY DEF StorageInv, StoreOK, Present, CachesOK, CachesMatchFork, RemoteCode
<1> QED BY <1>1, StorageAlways, PTL

(* Where get_code finds a code hash that no client wrote into the slot with *)
(* hardhat_setStorageAt it finds the bytecode, although hash and bytecode   *)
(* are written, cached, saved and reverted apart; and a second look at the  *)
(* fork point tells get_bytecode_by_hash nothing more.                      *)
THEOREM CodeAlwaysAvailable == Spec => []CodeAvailable
<1>1. ASSUME StorageInv PROVE CodeAvailable
  <2>1. /\ WordsOK(state, factory_deps, fork) /\ fork \in Forks \cup {NoFork}
        /\ CachesOK(value_read_cache, factory_dep_cache, fork) /\ StoreOK(Present, fork)
    BY <1>1 DEF StorageInv, StoreOK, Present
  <2> DEFINE hash == read_value(CodeKey)
  <2>2. hash = Word(state, fork, CodeKey)
    BY <2>1, ReadsWord
  <2>3. hash \notin EditedHashes \cup {0} => Known(factory_deps, fork, hash)
    BY <2>1, <2>2, CodeKnown
  <2>4. load_factory_dep(hash) =
           IF Known(factory_deps, fork, hash) THEN Code(hash) ELSE NoCode
    BY <2>1, LoadsKnown
  <2> HIDE DEF hash
  <2>5. Code(hash) # NoCode
    BY DEF Code, NoCode
  <2>6. fork # NoFork /\ ~Known(factory_deps, fork, hash) => RemoteCode(hash) = NoCode
    BY DEF Known, RemoteCode
  <2>7. get_bytecode_by_hash(hash) = load_factory_dep(hash)
    BY <2>4, <2>5, <2>6 DEF get_bytecode_by_hash
  <2> QED BY <2>3, <2>4, <2>5, <2>7 DEF CodeAvailable, get_code, hash
<1> QED BY <1>1, StorageAlways, PTL

-----------------------------------------------------------------------------
(* What a step may do to a slot. *)

LEMMA ReadsWordNext ==
    ASSUME StorageInv', NEW key
    PROVE  read_value(key)' = Word(state', fork', key)
  BY DEF StorageInv, StoreOK, Present, read_value, LocalValue, Word, CachesOK

(* A word with higher nonces, and the fork point's nonces where it is zero, *)
(* takes no nonce back.                                                     *)
LEMMA NonceForward ==
    ASSUME WordsOK(state, factory_deps, fork), fork \in Forks \cup {NoFork},
           NEW value \in Nat,
           account_nonce(value) >= account_nonce(Word(state, fork, NonceKey)),
           deployment_nonce(value) >= deployment_nonce(Word(state, fork, NonceKey)),
           NEW now, now = IF value # 0 THEN value ELSE Underlying(fork)[NonceKey]
    PROVE  /\ account_nonce(now) >= account_nonce(Word(state, fork, NonceKey))
           /\ deployment_nonce(now) >= deployment_nonce(Word(state, fork, NonceKey))
<1> DEFINE old == Word(state, fork, NonceKey)
<1>1. NonceKey \in Keys
  BY DEF Keys
<1>2. old \in Nat
  BY <1>1, WordIsNumber
<1>3. CASE value # 0
  BY <1>3
<1>4. CASE value = 0
  <2>1. 0 < NONCE_RADIX
    BY StorageAssumption
  <2>2. full_nonce(0, 0) = 0
    BY StorageAssumption DEF full_nonce
  <2>3. account_nonce(0) = 0 /\ deployment_nonce(0) = 0
    BY <2>1, <2>2, NonceRoundTrip
  <2> HIDE DEF old
  <2>4. /\ account_nonce(old) \in Nat /\ deployment_nonce(old) \in Nat
        /\ old = full_nonce(account_nonce(old), deployment_nonce(old))
    BY <1>2, NonceParts
  <2>5. account_nonce(old) = 0 /\ deployment_nonce(old) = 0
    BY <1>4, <2>3, <2>4 DEF old
  <2>6. old = 0
    BY <2>2, <2>4, <2>5
  <2>7. now = 0
    BY <1>1, <1>4, <2>6 DEF old, Word, Underlying
  <2> QED BY <2>6, <2>7, <2>3 DEF old
<1> QED BY <1>3, <1>4

(* The word in an inserted slot. *)
LEMMA PutsWord ==
    ASSUME NEW key, NEW value, Puts(key, value)
    PROVE  /\ \A k \in Keys :
                 Word(state', fork', k) =
                    IF k # key THEN Word(state, fork, k)
                    ELSE IF value # 0 THEN value ELSE Underlying(fork)[k]
           /\ DOMAIN state' = DOMAIN state \cup {key}
<1>1. state' = Insert(state, key, value) /\ fork' = fork
  BY DEF Puts
<1>2. DOMAIN state' = DOMAIN state \cup {key}
  BY <1>1 DEF Insert
<1>3. \A k \in Keys : Word(state', fork', k) =
         IF k # key THEN Word(state, fork, k)
         ELSE IF value # 0 THEN value ELSE Underlying(fork)[k]
  BY <1>1 DEF Insert, Word, Underlying
<1> QED BY <1>2, <1>3

(* Queries, runs, commits and control methods alike: neither nonce of the   *)
(* account goes down, unless a client edits the slot that holds them, and   *)
(* no written slot becomes initial again, except by a revert or a reset.    *)
THEOREM NodesMoveForward == Spec => OnlyForward
<1> DEFINE Moves ==
      \/ /\ NoncesForward \/ \E v \in EditedNonces : set_storage_at(NonceKey, v)
         /\ \A k \in Keys : is_write_initial(k)' => is_write_initial(k)
      \/ \E i \in DOMAIN snapshots : revert_snapshot(i)
      \/ \E f \in Forks \cup {NoFork} : reset(f)
<1>1. ASSUME StorageInv, StorageInv', [Next]_vars
      PROVE  Moves
  <2> DEFINE old == Word(state, fork, NonceKey)
             now == Word(state', fork', NonceKey)
  <2>1. /\ WordsOK(state, factory_deps, fork) /\ fork \in Forks \cup {NoFork}
        /\ CachesOK(value_read_cache, factory_dep_cache, fork)
        /\ NonceKey \in Keys
    BY <1>1 DEF StorageInv, StoreOK, Present, Keys
  <2>2. /\ read_value(NonceKey) = old /\ read_value(NonceKey)' = now
        /\ \A k \in Keys : read_value(k) = Word(state, fork, k)
                           /\ read_value(k)' = Word(state', fork', k)
    BY <1>1, <2>1, ReadsWord, ReadsWordNext
  <2>3. account_nonce(old) \in Nat /\ deployment_nonce(old) \in Nat
    BY <2>1, WordIsNumber, NonceParts
  <2>4. ASSUME account_nonce(now) >= account_nonce(old),
               deployment_nonce(now) >= deployment_nonce(old),
               \A k \in Keys : Word(state', fork', k) = 0 /\ k \notin DOMAIN state'
                                 => Word(state, fork, k) = 0 /\ k \notin DOMAIN state
        PROVE  Moves
    BY <2>2, <2>4 DEF NoncesForward, get_transaction_count, is_write_initial
  <2> HIDE DEF old, now
  <2>5. ASSUME state' = state, fork' = fork
        PROVE  Moves
    <3>1. now = old
      BY <2>5 DEF now, old
    <3>2. account_nonce(now) >= account_nonce(old) /\ deployment_nonce(now) >= deployment_nonce(old)
      BY <2>3, <3>1
    <3> QED BY <2>4, <2>5, <3>2
  <2>6. CASE Quiet
    BY <2>5, <2>6 DEF Quiet
  <2>7. CASE Commit
    <3>1. /\ \A k \in Keys :
                Word(state', fork', k) =
                   IF k \notin DOMAIN view.modified THEN Word(state, fork, k)
                   ELSE IF view.modified[k] # 0 THEN view.modified[k]
                   ELSE Underlying(fork)[k]
          /\ \A k \in Keys : k \in DOMAIN state' <=> k \in DOMAIN state \cup DOMAIN view.modified
          /\ RunOK
      BY <1>1, <2>7, CommitMerges
    <3>2. account_nonce(now) >= account_nonce(old) /\ deployment_nonce(now) >= deployment_nonce(old)
      <4>1. CASE NonceKey \notin DOMAIN view.modified
        BY <2>1, <2>3, <3>1, <4>1 DEF now, old
      <4>2. CASE NonceKey \in DOMAIN view.modified
        <5>1. /\ account_nonce(view.modified[NonceKey]) >= account_nonce(old)
              /\ deployment_nonce(view.modified[NonceKey]) >= deployment_nonce(old)
              /\ view.modified[NonceKey] \in Nat
          BY <3>1, <4>2, WordsAreNumbers DEF RunOK, old
        <5>2. now = IF view.modified[NonceKey] # 0 THEN view.modified[NonceKey]
                    ELSE Underlying(fork)[NonceKey]
          BY <2>1, <3>1, <4>2 DEF now
        <5> QED BY <2>1, <5>1, <5>2, NonceForward DEF old
      <4> QED BY <4>1, <4>2
    <3>3. \A k \in Keys : Word(state', fork', k) = 0 /\ k \notin DOMAIN state'
                            => Word(state, fork, k) = 0 /\ k \notin DOMAIN state
      BY <3>1
    <3> QED BY <2>4, <3>2, <3>3
  <2>8. ASSUME NEW key \in Keys, NEW value \in Values, Puts(key, value)
        PROVE  Moves
    <3>1. /\ \A k \in Keys :
                Word(state', fork', k) =
                   IF k # key THEN Word(state, fork, k)
                   ELSE IF value # 0 THEN value ELSE Underlying(fork)[k]
          /\ DOMAIN state' = DOMAIN state \cup {key}
      BY <2>8, PutsWord
    <3>2. ASSUME ~ \E v \in EditedNonces : set_storage_at(NonceKey, v)
          PROVE  /\ account_nonce(now) >= account_nonce(old)
                 /\ deployment_nonce(now) >= deployment_nonce(old)
      <4>1. CASE key # NonceKey
        BY <2>1, <2>3, <3>1, <4>1 DEF now, old
      <4>2. CASE key = NonceKey
        <5>1. /\ account_nonce(value) >= account_nonce(old)
              /\ deployment_nonce(value) >= deployment_nonce(old) /\ value \in Nat
          BY <2>8, <3>2, <4>2, WordsAreNumbers DEF Puts, old
        <5>2. now = IF value # 0 THEN value ELSE Underlying(fork)[NonceKey]
          BY <2>1, <3>1, <4>2 DEF now
        <5> QED BY <2>1, <5>1, <5>2, NonceForward DEF old
      <4> QED BY <4>1, <4>2
    <3>3. \A k \in Keys : Word(state', fork', k) = 0 /\ k \notin DOMAIN state'
                            => Word(state, fork, k) = 0 /\ k \notin DOMAIN state
      BY <3>1
    <3>4. CASE \E v \in EditedNonces : set_storage_at(NonceKey, v)
      <4>1. \A k \in Keys : is_write_initial(k)' => is_write_initial(k)
        BY <2>2, <3>3 DEF is_write_initial
      <4> QED BY <3>4, <4>1
    <3>5. CASE ~ \E v \in EditedNonces : set_storage_at(NonceKey, v)
      BY <2>4, <3>2, <3>3, <3>5
    <3> QED BY <3>4, <3>5
  <2>9. CASE SnapshotMethods
    <3>1. TakeSnapshot => state' = state /\ fork' = fork
      BY DEF TakeSnapshot, storage
    <3> QED BY <2>5, <2>9, <3>1 DEF SnapshotMethods
  <2> QED BY <1>1, <2>6, <2>7, <2>8, <2>9, StepKinds
<1>2. StorageInv /\ StorageInv' /\ [Next]_vars => [Moves]_vars
  BY <1>1
<1> QED BY <1>2, StorageAlways, PTL DEF Spec, OnlyForward

-----------------------------------------------------------------------------
(* The refinement: the node's storage is a key-value store. *)

Words(st, f) == [k \in Keys |-> Word(st, f, k)]
Saved(ss, f) == [i \in DOMAIN ss |-> Words(ss[i].state, f)]

(* The refinement mapping, in terms of Word. *)
LEMMA WordsVisible ==
    ASSUME NEW st, NEW f
    PROVE  Visible(st, f) = Words(st, f)
  BY DEF Visible, Words, Word, Underlying

LEMMA ReadingsAreWords ==
    ASSUME CachesOK(value_read_cache, factory_dep_cache, fork)
    PROVE  Readings = Words(state, fork)
<1>1. \A k \in Keys : read_value(k) = Word(state, fork, k)
  BY ReadsWord
<1> QED BY <1>1 DEF Readings, Words, get_balance

LEMMA ReadingsAreWordsNext ==
    ASSUME StorageInv'
    PROVE  Readings' = Words(state', fork')
<1>1. \A k \in Keys : read_value(k)' = Word(state', fork', k)
  BY ReadsWordNext
<1>2. Readings' = [k \in Keys |-> IF k \in SlotKeys THEN read_value(k)' ELSE read_value(k)']
  BY DEF Readings, get_balance
<1> HIDE DEF Readings
<1> QED BY <1>1, <1>2 DEF Words

LEMMA SavedVariable ==
    ASSUME NEW ss, NEW f
    PROVE  [i \in DOMAIN ss |-> Visible(ss[i].state, f)] = Saved(ss, f)
<1>1. \A i \in DOMAIN ss : Visible(ss[i].state, f) = Words(ss[i].state, f)
  BY WordsVisible
<1> QED BY <1>1, Zenon DEF Saved

(* The saved stores are a list like the snapshots. *)
LEMMA SavedList ==
    ASSUME NEW ss, IsList(ss), NEW f
    PROVE  IsList(Saved(ss, f)) /\ Len(Saved(ss, f)) = Len(ss)
<1> DEFINE n == Len(ss)
           q == Saved(ss, f)
           R == {q[i] : i \in DOMAIN q}
<1>1. n \in Nat /\ DOMAIN ss = 1 .. n
  BY LenProperties DEF IsList
<1>2. DOMAIN q = 1 .. n /\ q \in [1 .. n -> R]
  BY <1>1 DEF Saved
<1> HIDE DEF q, R, n
<1>3. q \in Seq(R) /\ Len(q) = n
  BY <1>1, <1>2
<1> QED BY <1>2, <1>3 DEF q, n, R, IsList

(* A list is told by its length and elements. *)
LEMMA SameLists ==
    ASSUME NEW s, IsList(s), NEW t, IsList(t), Len(s) = Len(t),
           \A i \in 1 .. Len(s) : s[i] = t[i]
    PROVE  s = t
<1> DEFINE S == {s[i] : i \in DOMAIN s}
           T == {t[i] : i \in DOMAIN t}
<1>1. s \in Seq(S \cup T) /\ t \in Seq(S \cup T)
  <2>1. s \in Seq(S) /\ t \in Seq(T)
    BY DEF IsList
  <2> HIDE DEF S, T
  <2>2. s \in Seq(S \cup T)
    BY <2>1, SeqDef
  <2>3. t \in Seq(S \cup T)
    BY <2>1, SeqDef
  <2> QED BY <2>2, <2>3
<1> HIDE DEF S, T
<1> QED BY <1>1, SeqEqual

(* Taking a snapshot saves the store. *)
LEMMA SavedAppended ==
    ASSUME NEW ss, IsList(ss), NEW s, NEW f
    PROVE  Saved(Append(ss, s), f) = Append(Saved(ss, f), Words(s.state, f))
<1> DEFINE n == Len(ss)
           w == Words(s.state, f)
           q == Saved(ss, f)
           t == Append(ss, s)
           p == Saved(t, f)
<1>1. /\ IsList(t) /\ DOMAIN t = 1 .. n + 1 /\ DOMAIN ss = 1 .. n /\ n \in Nat
      /\ t[n + 1] = s /\ \A i \in 1 .. n : t[i] = ss[i]
  BY ListAppended
<1>2. IsList(q) /\ Len(q) = n
  BY SavedList
<1>3. Len(t) = n + 1
  BY <1>1, LenProperties DEF IsList
<1> HIDE DEF t
<1>4. IsList(p) /\ Len(p) = n + 1
  BY <1>1, <1>3, SavedList
<1>5. /\ \A i \in 1 .. n + 1 : p[i] = Words(t[i].state, f)
      /\ \A i \in 1 .. n : q[i] = Words(ss[i].state, f)
  BY <1>1 DEF Saved
<1> HIDE DEF p, q, n, w
<1>6. /\ IsList(Append(q, w)) /\ DOMAIN Append(q, w) = 1 .. n + 1
      /\ Append(q, w)[n + 1] = w
      /\ \A i \in 1 .. n : Append(q, w)[i] = q[i]
  BY <1>2, ListAppended
<1>7. Len(Append(q, w)) = n + 1
  BY <1>1, <1>6, LenProperties DEF IsList
<1>8. p[n + 1] = w
  BY <1>1, <1>5 DEF w
<1>9. \A i \in 1 .. n : p[i] = q[i]
  <2> SUFFICES ASSUME NEW i \in 1 .. n PROVE p[i] = q[i]
    OBVIOUS
  <2>1. i \in 1 .. n + 1
    BY <1>1
  <2> QED BY <1>1, <1>5, <2>1
<1>10. \A i \in 1 .. n + 1 : p[i] = Append(q, w)[i]
  BY <1>1, <1>6, <1>8, <1>9
<1>11. p = Append(q, w)
  BY <1>4, <1>6, <1>7, <1>10, SameLists
<1> QED BY <1>11 DEF p, q, w, t

(* Going back to a snapshot uses it and the later ones up. *)
LEMMA SavedCut ==
    ASSUME NEW ss, IsList(ss), NEW j \in DOMAIN ss, NEW f
    PROVE  Saved(SubSeq(ss, 1, j - 1), f) = SubSeq(Saved(ss, f), 1, j - 1)
<1> DEFINE q == Saved(ss, f)
           t == SubSeq(ss, 1, j - 1)
           p == Saved(t, f)
           u == SubSeq(q, 1, j - 1)
<1>1. /\ IsList(t) /\ DOMAIN t = 1 .. j - 1 /\ DOMAIN ss = 1 .. Len(ss) /\ Len(ss) \in Nat
      /\ \A i \in 1 .. j - 1 : i \in DOMAIN ss /\ t[i] = ss[i]
  BY ListCut
<1>2. IsList(q) /\ DOMAIN q = DOMAIN ss
  BY SavedList DEF Saved
<1> HIDE DEF t, q
<1>3. /\ IsList(u) /\ DOMAIN u = 1 .. j - 1
      /\ \A i \in 1 .. j - 1 : u[i] = q[i]
  BY <1>2, ListCut
<1> HIDE DEF u
<1>4. j - 1 \in Nat
  BY <1>1
<1>5. IsList(p) /\ DOMAIN p = 1 .. j - 1
  BY <1>1, SavedList DEF Saved
<1>6. \A i \in 1 .. j - 1 : p[i] = u[i]
  <2> SUFFICES ASSUME NEW i \in 1 .. j - 1 PROVE p[i] = u[i]
    OBVIOUS
  <2>1. i \in DOMAIN ss /\ i \in DOMAIN t /\ t[i] = ss[i]
    BY <1>1
  <2>2. p[i] = Words(t[i].state, f) /\ q[i] = Words(ss[i].state, f)
    BY <2>1 DEF Saved, q
  <2> QED BY <1>3, <2>1, <2>2
<1> HIDE DEF p
<1>7. Len(p) = j - 1 /\ Len(u) = j - 1
  BY <1>3, <1>4, <1>5, LenProperties DEF IsList
<1>8. p = u
  BY <1>3, <1>5, <1>6, <1>7, SameLists
<1> QED BY <1>8 DEF p, u, t, q

(* The abstract variables before and after a step. *)
LEMMA AbstractVariables ==
    ASSUME StorageInv, StorageInv'
    PROVE  /\ Readings = Words(state, fork)
           /\ Readings' = Words(state', fork')
           /\ [i \in DOMAIN snapshots |-> Visible(snapshots[i].state, fork)]
                = Saved(snapshots, fork)
           /\ [i \in DOMAIN snapshots |-> Visible(snapshots[i].state, fork)]'
                = Saved(snapshots', fork')
           /\ Underlying(fork)' = Underlying(fork')
<1>1. Readings = Words(state, fork)
  BY ReadingsAreWords DEF StorageInv, StoreOK, Present
<1>2. Readings' = Words(state', fork')
  BY ReadingsAreWordsNext
<1>3. [i \in DOMAIN snapshots |-> Visible(snapshots[i].state, fork)]
        = Saved(snapshots, fork)
  BY SavedVariable
<1>4. [i \in DOMAIN snapshots |-> Visible(snapshots[i].state, fork)]'
        = Saved(snapshots', fork')
  <2>1. [i \in DOMAIN snapshots' |-> Visible(snapshots'[i].state, fork')]
          = Saved(snapshots', fork')
    BY SavedVariable
  <2> QED BY <2>1 DEF Visible, Underlying
<1>5. Underlying(fork)' = Underlying(fork')
  BY DEF Underlying
<1> QED BY <1>1, <1>2, <1>3, <1>4, <1>5

(* Every step is one operation of the store, or invisible. *)
LEMMA StoreStep ==
    ASSUME StorageInv, StorageInv', [Next]_vars
    PROVE  \/ Abstract!Next
           \/ UNCHANGED << Underlying(fork), Readings,
                           [i \in DOMAIN snapshots |-> Visible(snapshots[i].state, fork)] >>
<1> DEFINE words  == Words(state, fork)
           words1 == Words(state', fork')
           saved  == Saved(snapshots, fork)
           saved1 == Saved(snapshots', fork')
<1>1. /\ Readings = words /\ Readings' = words1
      /\ [i \in DOMAIN snapshots |-> Visible(snapshots[i].state, fork)] = saved
      /\ [i \in DOMAIN snapshots |-> Visible(snapshots[i].state, fork)]' = saved1
      /\ Underlying(fork)' = Underlying(fork')
  BY AbstractVariables
<1>2. IsList(snapshots)
  BY DEF StorageInv, SavedOK
<1>3. ASSUME fork' = fork, snapshots' = snapshots,
             \A k \in Keys : words1[k] \in {words[k], Underlying(fork)[k]} \cup (Values \ {0})
      PROVE  Abstract!Next
  <2>1. DOMAIN words1 = Keys
    BY DEF Words
  <2>2. saved1 = saved
    BY <1>3
  <2> HIDE DEF words, words1, saved, saved1
  <2>3. Abstract!Put
    BY <1>1, <1>3, <2>1, <2>2 DEF Abstract!Put
  <2> QED BY <2>3 DEF Abstract!Next
<1>4. CASE Quiet
  <2>1. words1 = words /\ saved1 = saved /\ fork' = fork
    BY <1>4 DEF Quiet
  <2> QED BY <1>1, <2>1
<1>5. CASE Commit
  <2>1. /\ \A k \in Keys :
              Word(state', fork', k) =
                 IF k \notin DOMAIN view.modified THEN Word(state, fork, k)
                 ELSE IF view.modified[k] # 0 THEN view.modified[k]
                 ELSE Underlying(fork)[k]
        /\ RunOK /\ fork' = fork /\ snapshots' = snapshots
    BY <1>5, CommitMerges
  <2>2. \A k \in Keys : words1[k] \in {words[k], Underlying(fork)[k]} \cup (Values \ {0})
    BY <2>1 DEF Words, RunOK
  <2> QED BY <1>3, <2>1, <2>2
<1>6. ASSUME NEW key \in Keys, NEW value \in Values, Puts(key, value)
      PROVE  Abstract!Next
  <2>1. /\ \A k \in Keys :
              Word(state', fork', k) =
                 IF k # key THEN Word(state, fork, k)
                 ELSE IF value # 0 THEN value ELSE Underlying(fork)[k]
        /\ fork' = fork /\ snapshots' = snapshots
    <3>1. fork' = fork /\ snapshots' = snapshots
      BY <1>6 DEF Puts
    <3> QED BY <1>6, <3>1, PutsWord
  <2>2. \A k \in Keys : words1[k] \in {words[k], Underlying(fork)[k]} \cup (Values \ {0})
    BY <2>1 DEF Words
  <2> QED BY <1>3, <2>1, <2>2
<1>7. CASE TakeSnapshot
  <2>1. /\ snapshots' = Append(snapshots, Present) /\ fork' = fork /\ state' = state
    BY <1>7 DEF TakeSnapshot, Present, storage
  <2>2. Words(Present.state, fork) = words
    BY DEF Present
  <2> HIDE DEF Present
  <2>3. saved1 = Append(saved, words) /\ words1 = words
    BY <1>2, <2>1, <2>2, SavedAppended
  <2> HIDE DEF words, words1, saved, saved1
  <2>4. Abstract!Save
    BY <1>1, <2>1, <2>3 DEF Abstract!Save
  <2> QED BY <2>4 DEF Abstract!Next
<1>8. ASSUME NEW j \in DOMAIN snapshots, revert_snapshot(j)
      PROVE  Abstract!Next
  <2>1. /\ state' = snapshots[j].state /\ fork' = fork
        /\ snapshots' = SubSeq(snapshots, 1, j - 1)
    BY <1>8 DEF revert_snapshot
  <2>2. saved1 = SubSeq(saved, 1, j - 1)
    BY <1>2, <2>1, SavedCut
  <2>3. j \in DOMAIN saved /\ saved[j] = words1
    BY <2>1 DEF Saved
  <2> HIDE DEF words, words1, saved, saved1
  <2>4. Abstract!Revert
    BY <1>1, <2>1, <2>2, <2>3 DEF Abstract!Revert
  <2> QED BY <2>4 DEF Abstract!Next
<1>9. ASSUME NEW f \in Forks \cup {NoFork}, reset(f)
      PROVE  Abstract!Next
  <2>1. state' = GenesisState /\ fork' = f /\ snapshots' = << >>
    BY <1>9 DEF reset, Fresh
  <2>2. words1 = Visible(GenesisState, f)
    BY <2>1, WordsVisible
  <2>3. saved1 = << >>
    BY <2>1 DEF Saved
  <2> HIDE DEF words, words1, saved, saved1
  <2> DEFINE store == [base |-> Underlying(f), store |-> Visible(GenesisState, f)]
  <2>4. /\ store \in {[base |-> Underlying(g), store |-> Visible(GenesisState, g)] :
                        g \in Forks \cup {NoFork}}
        /\ store.base = Underlying(fork') /\ store.store = words1
    BY <1>9, <2>1, <2>2
  <2> HIDE DEF store
  <2>5. Abstract!Renew
    BY <1>1, <2>3, <2>4, Zenon DEF Abstract!Renew
  <2> QED BY <2>5 DEF Abstract!Next
<1> QED BY <1>4, <1>5, <1>6, <1>7, <1>8, <1>9, StepKinds DEF SnapshotMethods

LEMMA StoreInit ==
    ASSUME Init, StorageInv
    PROVE  Abstract!Init
<1>1. state = GenesisState /\ fork \in Forks \cup {NoFork} /\ snapshots = << >>
  BY DEF Init
<1>2. Readings = Visible(GenesisState, fork)
  BY <1>1, ReadingsAreWords, WordsVisible DEF StorageInv, StoreOK, Present
<1>3. [i \in DOMAIN snapshots |-> Visible(snapshots[i].state, fork)] = << >>
  BY <1>1
<1> DEFINE store == [base |-> Underlying(fork), store |-> Visible(GenesisState, fork)]
<1>4. /\ store \in {[base |-> Underlying(g), store |-> Visible(GenesisState, g)] :
                      g \in Forks \cup {NoFork}}
      /\ store.base = Underlying(fork) /\ store.store = Readings
  BY <1>1, <1>2
<1> HIDE DEF store
<1> QED BY <1>3, <1>4, Zenon DEF Abstract!Init

(* Readers cannot tell local words, the fork point and the caches from one  *)
(* key-value store: every request is one of its operations or invisible; no *)
(* read changes what is read; and a commit shows what its run wrote and no  *)
(* more.                                                                    *)
THEOREM StorageIsKeyValueStore == Spec => IsKeyValueStore
<1> DEFINE Shows ==
      /\ UNCHANGED << state, fork >> => UNCHANGED Readings
      /\ Commit => \A k \in Keys :
            Readings'[k] = IF k \notin DOMAIN view.modified THEN Readings[k]
                           ELSE IF view.modified[k] = 0 THEN Underlying(fork)[k]
                           ELSE view.modified[k]
<1>1. Init /\ StorageInv => Abstract!Init
  BY StoreInit
<1>2. StorageInv /\ StorageInv' /\ [Next]_vars
        => [Abstract!Next]_<< Underlying(fork), Readings,
                              [i \in DOMAIN snapshots |->
                                 Visible(snapshots[i].state, fork)] >>
  BY StoreStep
<1>3. ASSUME StorageInv, StorageInv'
      PROVE  Shows
  <2>1. Readings = Words(state, fork) /\ Readings' = Words(state', fork')
    BY <1>3, AbstractVariables
  <2>2. ASSUME Commit
        PROVE  \A k \in Keys :
            Readings'[k] = IF k \notin DOMAIN view.modified THEN Readings[k]
                           ELSE IF view.modified[k] = 0 THEN Underlying(fork)[k]
                           ELSE view.modified[k]
    <3>1. \A k \in Keys :
              Word(state', fork', k) =
                 IF k \notin DOMAIN view.modified THEN Word(state, fork, k)
                 ELSE IF view.modified[k] # 0 THEN view.modified[k]
                 ELSE Underlying(fork)[k]
      BY <1>3, <2>2, CommitMerges
    <3> QED BY <2>1, <3>1 DEF Words
  <2>3. UNCHANGED << state, fork >> => UNCHANGED Readings
    BY <2>1
  <2> QED BY <2>2, <2>3
<1>4. StorageInv /\ StorageInv' /\ [Next]_vars => [Shows]_vars
  BY <1>3
<1> QED BY <1>1, <1>2, <1>4, StorageAlways, PTL 
        DEF Spec, IsKeyValueStore, Abstract!Spec, Abstract!vars

=============================================================================
