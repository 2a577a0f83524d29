---------------------------- MODULE GasEstimate ----------------------------
(***************************************************************************)
(* estimate_gas_impl of the in-memory node (src/src/node/in_memory.rs): a  *)
(* trial run that measures pubdata, a binary search over gas limits, and a *)
(* last trial run with the scaled limit that is then suggested.            *)
(*                                                                         *)
(* The trial runs are the VM's: a request carries the set of gas limits at *)
(* which its transaction fails.  Nothing says that this set is an initial  *)
(* segment (a contract may look at the gas it has left).                   *)
(*                                                                         *)
(* A behaviour is one call: it only reads the node, and two calls share    *)
(* nothing.                                                                *)
(***************************************************************************)
EXTENDS Integers

CONSTANTS
    Requests,              \* what clients ask an estimate for
    MAX_L2_TX_GAS_LIMIT,
    ESTIMATE_GAS_ACCEPTABLE_OVERESTIMATION,
    MAX_VM_PUBDATA_PER_BATCH,
    U64_MAX,
    ScaleNum, ScaleDen,    \* estimate_gas_scale_factor, as a fraction
    F32_PRECISION          \* an f32 product is off by at most one part in this

ASSUME RequestAssumption ==
    \A r \in Requests : /\ r.pubdata \in Nat
                        /\ r.gas_per_pubdata_byte \in Nat
                        /\ r.overhead \in Nat
ASSUME GasAssumption ==
    /\ MAX_L2_TX_GAS_LIMIT \in Nat
    /\ ESTIMATE_GAS_ACCEPTABLE_OVERESTIMATION \in Nat \ {0}
    /\ MAX_VM_PUBDATA_PER_BATCH \in Nat
    /\ U64_MAX \in Nat
    /\ ScaleNum \in Nat /\ ScaleDen \in Nat \ {0}
    /\ F32_PRECISION \in Nat \ {0}

VARIABLES
    pc,                    \* where the handler is
    request,
    additional_gas_for_pubdata,
    lower_bound, upper_bound,
    outcome                \* the answer: [kind, gas_limit]

vars == << pc, request, additional_gas_for_pubdata, lower_bound, upper_bound,
           outcome >>

NoAnswer == [kind |-> "none", gas_limit |-> 0]
Error    == [kind |-> "error", gas_limit |-> 0]
Fee(g)   == [kind |-> "fee", gas_limit |-> g]

Init ==
    /\ pc = "probe"
    /\ request \in Requests
    /\ additional_gas_for_pubdata = 0
    /\ lower_bound = 0
    /\ upper_bound = MAX_L2_TX_GAS_LIMIT
    /\ outcome = NoAnswer

-----------------------------------------------------------------------------
(* estimate_gas_step: does the transaction fail at this limit? *)
estimate_gas_step_fails(tx_gas_limit) == tx_gas_limit \in request.fails

(* The run with BATCH_GAS_LIMIT, whose own failure is ignored. *)
ProbePubdata ==
    /\ pc = "probe"
    /\ IF request.pubdata > MAX_VM_PUBDATA_PER_BATCH
         THEN /\ pc' = "done"
              /\ outcome' = Error
              /\ UNCHANGED additional_gas_for_pubdata
         ELSE /\ pc' = "search"
              /\ additional_gas_for_pubdata' = request.pubdata * request.gas_per_pubdata_byte
              /\ UNCHANGED outcome
    /\ UNCHANGED << request, lower_bound, upper_bound >>

(* Faulty variant: the search stops too early. *)
SearchingHalf ==
    lower_bound + 2 * ESTIMATE_GAS_ACCEPTABLE_OVERESTIMATION < upper_bound

Searching == lower_bound + ESTIMATE_GAS_ACCEPTABLE_OVERESTIMATION < upper_bound

mid == (lower_bound + upper_bound) \div 2

(* Faulty variants: the limit that succeeded is left out of the search; it  *)
(* does not become the bound, so the search may stand still.                *)
AttemptTooLow ==
    /\ pc = "search" /\ Searching
    /\ IF estimate_gas_step_fails(additional_gas_for_pubdata + mid)
         THEN lower_bound' = mid + 1 /\ UNCHANGED upper_bound
         ELSE upper_bound' = mid - 1 /\ UNCHANGED lower_bound
    /\ UNCHANGED << pc, request, additional_gas_for_pubdata, outcome >>

AttemptStandingStill ==
    /\ pc = "search" /\ Searching
    /\ IF estimate_gas_step_fails(additional_gas_for_pubdata + mid)
         THEN lower_bound' = mid + 1 /\ UNCHANGED upper_bound
         ELSE upper_bound' = mid + 1 /\ UNCHANGED lower_bound
    /\ UNCHANGED << pc, request, additional_gas_for_pubdata, outcome >>

(* One iteration of the search. *)
Attempt ==
    /\ pc = "search" /\ Searching
    /\ IF estimate_gas_step_fails(additional_gas_for_pubdata + mid)
         THEN lower_bound' = mid + 1 /\ UNCHANGED upper_bound
         ELSE upper_bound' = mid /\ UNCHANGED lower_bound
    /\ UNCHANGED << pc, request, additional_gas_for_pubdata, outcome >>

(* What (x as f32 * estimate_gas_scale_factor) as u64 may be: the exact     *)
(* product, off by the roundings of the conversion and of the product, and  *)
(* truncated.                                                               *)
Scaled(x) ==
    (x * ScaleNum * (F32_PRECISION - 1)) \div (ScaleDen * F32_PRECISION)
      .. (x * ScaleNum * (F32_PRECISION + 1)) \div (ScaleDen * F32_PRECISION)

(* Faulty variant: the other bound is suggested. *)
FinishWithLower ==
    /\ pc = "search" /\ ~Searching
    /\ \E suggested \in Scaled(lower_bound + additional_gas_for_pubdata) :
          outcome' = IF \/ estimate_gas_step_fails(suggested)
                        \/ suggested + request.overhead > U64_MAX
                       THEN Error
                       ELSE Fee(suggested + request.overhead)
    /\ pc' = "done"
    /\ UNCHANGED << request, additional_gas_for_pubdata, lower_bound, upper_bound >>

(* The last run and the answer.  When the sum with the overhead exceeds a   *)
(* u64 it already does so inside the run: a build with overflow checks      *)
(* panics there, and without them the sum is checked afterwards.  In both   *)
(* cases, and when the run fails, the client gets an error.                 *)
Finish ==
    /\ pc = "search" /\ ~Searching
    /\ \E suggested \in Scaled(upper_bound + additional_gas_for_pubdata) :
          outcome' = IF \/ estimate_gas_step_fails(suggested)
                        \/ suggested + request.overhead > U64_MAX
                       THEN Error
                       ELSE Fee(suggested + request.overhead)
    /\ pc' = "done"
    /\ UNCHANGED << request, additional_gas_for_pubdata, lower_bound, upper_bound >>

Next == ProbePubdata \/ Attempt \/ Finish

(* The handler runs to its end once it has been called. *)
Spec == Init /\ [][Next]_vars /\ WF_vars(Next)

-----------------------------------------------------------------------------
(* Properties. *)

(* Whatever the VM does, the bounds bracket a limit at which the            *)
(* transaction starts to succeed: the upper one has been seen to succeed,   *)
(* or is the maximum; the limit under the lower one has been seen to fail.  *)
SearchBracket ==
    pc \in {"search", "done"} =>
        /\ lower_bound <= upper_bound /\ upper_bound <= MAX_L2_TX_GAS_LIMIT
        /\ \/ lower_bound = 0
           \/ (additional_gas_for_pubdata + lower_bound - 1) \in request.fails
        /\ \/ upper_bound = MAX_L2_TX_GAS_LIMIT
           \/ (additional_gas_for_pubdata + upper_bound) \notin request.fails

(* A transaction that fails at a limit fails at every smaller one. *)
Monotone(r) == \A g \in r.fails : \A h \in 0 .. g : h \in r.fails

(* For such a transaction "the minimal values of gas_limit under which the  *)
(* transaction succeeds" is found up to the accepted overestimation.        *)
TightEstimate ==
    outcome.kind = "fee" /\ Monotone(request) =>
        \A g \in 0 .. MAX_L2_TX_GAS_LIMIT :
            g + ESTIMATE_GAS_ACCEPTABLE_OVERESTIMATION < upper_bound
                => (additional_gas_for_pubdata + g) \in request.fails

(* The factor is far enough above 1 to outweigh the roundings of an f32. *)
ScaleCovers == ScaleNum * (F32_PRECISION - 1) >= ScaleDen * F32_PRECISION

(* No transaction that the maximal limit suffices for is refused: scaling   *)
(* in floating point never falls below the limit that the search found.     *)
NoFalseRejection ==
    /\ pc = "done"
    /\ ScaleCovers
    /\ Monotone(request)
    /\ request.pubdata <= MAX_VM_PUBDATA_PER_BATCH
    /\ (additional_gas_for_pubdata + MAX_L2_TX_GAS_LIMIT) \notin request.fails
    /\ \A s \in Scaled(upper_bound + additional_gas_for_pubdata) :
          s + request.overhead <= U64_MAX
    => outcome.kind = "fee"

(* Every call is answered. *)
Answered == <>(pc = "done")
=============================================================================
