----------------------------- MODULE EthFilters -----------------------------
(***************************************************************************)
(* The filter registry of the node (src/src/filters.rs): which filters are *)
(* installed, which of them a new block, log or pending transaction is     *)
(* queued for, and what a poll returns.                                    *)
(*                                                                         *)
(* The registry is a value, not a process: InMemoryNodeInner owns one,     *)
(* snapshots copy it and a reset replaces it.  It is therefore modelled by *)
(* operators on a record                                                   *)
(*     [id_counter |-> last id handed out, filters |-> id -> filter]       *)
(* that the modules owning a registry apply to their own variable.         *)
(***************************************************************************)
EXTENDS Naturals, Sequences

CONSTANT MAX_FILTER_ID   \* U256::MAX: the last id the counter can hold

ASSUME MaxFilterIdAssumption == MAX_FILTER_ID \in Nat

-----------------------------------------------------------------------------
(* Block numbers as requests name them.  Finalized, Pending, Committed and *)
(* L1Committed are resolved like Latest, so one tag stands for the five.   *)
Latest    == [tag |-> "latest",   n |-> 0]
Earliest  == [tag |-> "earliest", n |-> 0]
Number(k) == [tag |-> "number",   n |-> k]

to_real_block_number(block_number, latest_block_number) ==
    CASE block_number.tag = "latest"   -> latest_block_number
      [] block_number.tag = "earliest" -> 0
      [] block_number.tag = "number"   -> block_number.n

(* Faulty variant: the topics are not looked at. *)
MatchesAnyTopics(f, log, latest) ==
    /\ log.block_number \in to_real_block_number(f.from_block, latest)
                              .. to_real_block_number(f.to_block, latest)
    /\ f.addresses = {} \/ log.address \in f.addresses

(* A log filter's criteria: from_block, to_block, a set of addresses (empty *)
(* for any) and four topic positions, each a set of accepted topics.  The   *)
(* code's None and Some(empty set) both accept anything: here the empty set.*)
Matches(f, log, latest) ==
    /\ log.block_number \in to_real_block_number(f.from_block, latest)
                              .. to_real_block_number(f.to_block, latest)
    /\ f.addresses = {} \/ log.address \in f.addresses
    /\ \A i \in DOMAIN log.topics :
          i <= 4 => f.topics[i] = {} \/ log.topics[i] \in f.topics[i]

-----------------------------------------------------------------------------
EmptyRegistry == [id_counter |-> 0, filters |-> << >>]

Installed(ef) == DOMAIN ef.filters

AddFilter(ef, f) ==
    LET id == ef.id_counter + 1
    IN  IF ef.id_counter = MAX_FILTER_ID
          THEN ef                                  \* checked_add: "overflow"
          ELSE [id_counter |-> id,
                filters |-> [i \in Installed(ef) \cup {id} |->
                               IF i = id THEN f ELSE ef.filters[i]]]

add_block_filter(ef) == AddFilter(ef, [type |-> "block", updates |-> << >>])

add_pending_transaction_filter(ef) ==
    AddFilter(ef, [type |-> "pending", updates |-> << >>])

add_log_filter(ef, criteria) ==
    AddFilter(ef, [type |-> "log", updates |-> << >>, criteria |-> criteria])

remove_filter(ef, id) ==
    [ef EXCEPT !.filters = [i \in Installed(ef) \ {id} |-> ef.filters[i]]]

(* A poll hands out the queued updates and clears the queue. *)
get_new_changes(ef, id) == [ef EXCEPT !.filters[id].updates = << >>]

-----------------------------------------------------------------------------
(* Queue items on every filter of one type. *)
Queue(ef, type, ItemsFor(_)) ==
    [ef EXCEPT !.filters =
        [i \in Installed(ef) |->
            IF ef.filters[i].type = type
              THEN [ef.filters[i] EXCEPT !.updates = @ \o ItemsFor(ef.filters[i])]
              ELSE ef.filters[i]]]

(* Faulty variant: a filter holds only the newest block. *)
NotifyReplacing(ef, hash) ==
    [ef EXCEPT !.filters =
        [i \in Installed(ef) |->
            IF ef.filters[i].type = "block"
              THEN [ef.filters[i] EXCEPT !.updates = << hash >>] ELSE ef.filters[i]]]

notify_new_block(ef, hash) == Queue(ef, "block", LAMBDA f : << hash >>)

notify_new_pending_transaction(ef, hash) ==
    Queue(ef, "pending", LAMBDA f : << hash >>)

(* The logs of a sequence that match, in order. *)
MatchingLogs(f, logs, latest) ==
    LET upTo[n \in 0 .. Len(logs)] ==
            IF n = 0 THEN << >>
            ELSE IF Matches(f.criteria, logs[n], latest) THEN Append(upTo[n - 1], logs[n])
            ELSE upTo[n - 1]
    IN  upTo[Len(logs)]

(* run_l2_tx calls notify_new_log once per event, in order; a filter queues *)
(* the ones it matches.                                                     *)
notify_new_logs(ef, logs, latest) ==
    Queue(ef, "log", LAMBDA f : MatchingLogs(f, logs, latest))
=============================================================================
