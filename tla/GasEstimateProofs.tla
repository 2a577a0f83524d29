------------------------- MODULE GasEstimateProofs -------------------------
(***************************************************************************)
(* The binary search of estimate_gas_impl, proved for every limit, every   *)
(* overestimation that is accepted, every scale factor and every VM.       *)
(***************************************************************************)
EXTENDS GasEstimate, TLAPS

ACC == ESTIMATE_GAS_ACCEPTABLE_OVERESTIMATION

(* The types of the search's variables. *)
TypeInv ==
    /\ pc \in {"probe", "search", "done"}
    /\ request \in Requests
    /\ additional_gas_for_pubdata \in Nat
    /\ lower_bound \in Nat
    /\ upper_bound \in Nat

(* An answer is the outcome of the last run, at the end of the search. *)
AnswerInv ==
    /\ pc # "done" => outcome = NoAnswer
    /\ pc = "done" =>
          \/ /\ request.pubdata > MAX_VM_PUBDATA_PER_BATCH
             /\ outcome = Error
          \/ /\ ~Searching
             /\ \E s \in Scaled(upper_bound + additional_gas_for_pubdata) :
                   outcome = IF s \in request.fails \/ s + request.overhead > U64_MAX
                               THEN Error ELSE Fee(s + request.overhead)

(* Before the search the bounds are the outermost ones. *)
StartInv ==
    pc = "probe" => lower_bound = 0 /\ upper_bound = MAX_L2_TX_GAS_LIMIT

SearchInv == TypeInv /\ StartInv /\ AnswerInv /\ SearchBracket

(* The midpoint lies between the bounds while the search goes on. *)
LEMMA MidBetween ==
    ASSUME TypeInv, Searching
    PROVE  mid \in Nat /\ lower_bound <= mid /\ mid < upper_bound
  BY GasAssumption DEF TypeInv, Searching, mid

(* SearchInv holds when the handler is called. *)
LEMMA SearchInit == Init => SearchInv
  BY GasAssumption DEF Init, SearchInv, TypeInv, StartInv, AnswerInv, SearchBracket

(* Every step of the handler preserves SearchInv. *)
LEMMA SearchStep ==
    ASSUME SearchInv, [Next]_vars
    PROVE  SearchInv'
<1> USE GasAssumption
<1>1. TypeInv /\ StartInv /\ AnswerInv /\ SearchBracket
  BY DEF SearchInv
<1>2. CASE ProbePubdata
  <2>1. request.pubdata \in Nat /\ request.gas_per_pubdata_byte \in Nat
    BY <1>1, RequestAssumption DEF TypeInv
  <2>2. request.pubdata * request.gas_per_pubdata_byte \in Nat
    BY <2>1
  <2>3. TypeInv'
    BY <1>1, <1>2, <2>2 DEF TypeInv, ProbePubdata
  <2>4. StartInv'
    BY <1>2 DEF StartInv, ProbePubdata
  <2>5. AnswerInv'
    BY <1>1, <1>2 DEF AnswerInv, ProbePubdata
  <2>6. SearchBracket'
    BY <1>1, <1>2 DEF SearchBracket, StartInv, ProbePubdata
  <2> QED BY <2>3, <2>4, <2>5, <2>6 DEF SearchInv
<1>3. CASE Attempt
  <2>1. /\ mid \in Nat /\ lower_bound <= mid /\ mid < upper_bound
    BY <1>1, <1>3, MidBetween DEF Attempt
  <2>2. TypeInv'
    BY <1>1, <1>3, <2>1 DEF TypeInv, Attempt
  <2>3. StartInv'
    BY <1>3 DEF StartInv, Attempt
  <2>4. AnswerInv'
    BY <1>1, <1>3 DEF AnswerInv, Attempt
  <2>5. SearchBracket'
    <3>1. CASE (additional_gas_for_pubdata + mid) \in request.fails
      <4>1. /\ lower_bound' = mid + 1 /\ upper_bound' = upper_bound
            /\ request' = request /\ pc' = pc /\ pc = "search"
            /\ additional_gas_for_pubdata' = additional_gas_for_pubdata
        BY <1>3, <3>1 DEF Attempt, estimate_gas_step_fails
      <4>2. additional_gas_for_pubdata + (mid + 1) - 1 = additional_gas_for_pubdata + mid
        BY <1>1, <2>1 DEF TypeInv
      <4> QED BY <1>1, <2>1, <3>1, <4>1, <4>2 DEF SearchBracket, TypeInv
    <3>2. CASE (additional_gas_for_pubdata + mid) \notin request.fails
      <4>1. /\ lower_bound' = lower_bound /\ upper_bound' = mid
            /\ request' = request /\ pc' = pc /\ pc = "search"
            /\ additional_gas_for_pubdata' = additional_gas_for_pubdata
        BY <1>3, <3>2 DEF Attempt, estimate_gas_step_fails
      <4> QED BY <1>1, <2>1, <3>2, <4>1 DEF SearchBracket, TypeInv
    <3> QED BY <3>1, <3>2
  <2> QED BY <2>2, <2>3, <2>4, <2>5 DEF SearchInv
<1>4. CASE Finish
  <2>1. /\ pc = "search" /\ pc' = "done" /\ ~Searching
        /\ UNCHANGED << request, additional_gas_for_pubdata, lower_bound, upper_bound >>
    BY <1>4 DEF Finish
  <2>2. TypeInv' /\ StartInv'
    BY <1>1, <2>1 DEF TypeInv, StartInv
  <2>3. AnswerInv'
    BY <1>4, <2>1 DEF AnswerInv, Finish, Searching, Scaled, estimate_gas_step_fails
  <2>4. SearchBracket'
    BY <1>1, <2>1 DEF SearchBracket
  <2> QED BY <2>2, <2>3, <2>4 DEF SearchInv
<1>5. CASE UNCHANGED vars
  BY <1>1, <1>5 DEF vars, SearchInv, TypeInv, StartInv, AnswerInv, SearchBracket, Searching, Scaled
<1> QED BY <1>2, <1>3, <1>4, <1>5 DEF Next

(* SearchInv is an invariant of every call. *)
LEMMA SearchAlways == Spec => []SearchInv
  BY SearchInit, SearchStep, PTL DEF Spec

(* Whatever the VM does at which limit, the two bounds of the search always *)
(* bracket a limit at which the transaction starts to succeed.              *)
THEOREM BoundsBracket == Spec => []SearchBracket
<1>1. SearchInv => SearchBracket
  BY DEF SearchInv
<1> QED BY <1>1, SearchAlways, PTL

(* When a fee is answered for a monotone transaction, every limit that is   *)
(* lower by more than the accepted overestimation would have failed.        *)
THEOREM EstimateIsTight == Spec => []TightEstimate
<1>1. SearchInv => TightEstimate
  <2> SUFFICES ASSUME SearchInv, outcome.kind = "fee", Monotone(request),
                      NEW g \in 0 .. MAX_L2_TX_GAS_LIMIT, g + ACC < upper_bound
               PROVE  (additional_gas_for_pubdata + g) \in request.fails
    BY DEF TightEstimate, ACC
  <2>1. TypeInv /\ AnswerInv /\ SearchBracket
    BY DEF SearchInv
  <2>2. pc = "done" /\ ~Searching
    BY <2>1 DEF TypeInv, AnswerInv, NoAnswer, Error
  <2>3. g \in Nat /\ g < lower_bound
    BY <2>1, <2>2, GasAssumption DEF TypeInv, Searching, ACC
  <2>4. (additional_gas_for_pubdata + lower_bound - 1) \in request.fails
    BY <2>1, <2>2, <2>3 DEF SearchBracket, TypeInv
  <2>5. (additional_gas_for_pubdata + g)
            \in 0 .. (additional_gas_for_pubdata + lower_bound - 1)
    BY <2>1, <2>3 DEF TypeInv
  <2> QED BY <2>4, <2>5 DEF Monotone
<1> QED BY <1>1, SearchAlways, PTL

(* Division rounds down to no less than a multiple it is given. *)
LEMMA DivAbove ==
    ASSUME NEW a \in Nat, NEW b \in Nat \ {0}, NEW x \in Nat, a >= x * b
    PROVE  a \div b >= x
<1> DEFINE q == a \div b
<1>1. q \in Int /\ a = b * q + (a % b) /\ a % b < b
  OBVIOUS
<1>2. SUFFICES ASSUME q < x PROVE FALSE
  BY <1>1
<1> HIDE DEF q
<1>3. q + 1 <= x
  BY <1>1, <1>2
<1>4. b * (q + 1) <= b * x
  BY <1>1, <1>3
<1>5. b * (q + 1) = b * q + b /\ b * x = x * b
  BY <1>1
<1> QED BY <1>1, <1>4, <1>5

(* A factor that outweighs the roundings never scales below the limit. *)
LEMMA ScaledAbove ==
    ASSUME NEW x \in Nat, ScaleCovers
    PROVE  \A s \in Scaled(x) : s \in Int /\ s >= x
<1> USE GasAssumption
<1> DEFINE n == ScaleNum * (F32_PRECISION - 1)
           b == ScaleDen * F32_PRECISION
           a == x * ScaleNum * (F32_PRECISION - 1)
<1>1. n \in Nat /\ b \in Nat \ {0} /\ n >= b
  BY DEF ScaleCovers
<1>2. a = x * n
  OBVIOUS
<1>3. \A s \in Scaled(x) : s \in Int /\ s >= a \div b
  BY DEF Scaled
<1> HIDE DEF n, b, a
<1>4. x * n >= x * b /\ x * n \in Nat
  BY <1>1
<1>5. a \in Nat /\ a >= x * b
  BY <1>2, <1>4
<1>6. a \div b >= x
  BY <1>1, <1>5, DivAbove
<1>7. a \div b \in Int
  BY <1>1, <1>5
<1> QED BY <1>3, <1>6, <1>7

(* With a factor that outweighs the roundings of an f32, a monotone         *)
(* transaction that the maximal limit suffices for gets its estimate.       *)
THEOREM NobodyFalselyRejected == Spec => []NoFalseRejection
<1>1. SearchInv => NoFalseRejection
  <2> DEFINE Found == upper_bound + additional_gas_for_pubdata
  <2> SUFFICES ASSUME SearchInv, pc = "done", ScaleCovers, Monotone(request),
                      request.pubdata <= MAX_VM_PUBDATA_PER_BATCH,
                      (additional_gas_for_pubdata + MAX_L2_TX_GAS_LIMIT) \notin request.fails,
                      \A s \in Scaled(Found) : s + request.overhead <= U64_MAX
               PROVE  outcome.kind = "fee"
    BY DEF NoFalseRejection
  <2>1. TypeInv /\ AnswerInv /\ SearchBracket
    BY DEF SearchInv
  <2>2. request.pubdata \in Nat /\ request.overhead \in Nat /\ Found \in Nat
    BY <2>1, RequestAssumption DEF TypeInv
  <2>3. PICK s \in Scaled(Found) :
            outcome = IF s \in request.fails \/ s + request.overhead > U64_MAX
                        THEN Error ELSE Fee(s + request.overhead)
    BY <2>1, <2>2, GasAssumption DEF AnswerInv
  <2>4. Found \notin request.fails
    <3>1. Found = additional_gas_for_pubdata + upper_bound
      BY <2>1 DEF TypeInv
    <3> QED BY <2>1, <3>1 DEF SearchBracket
  <2>5. s \in Int /\ s >= Found
    BY <2>2, ScaledAbove
  <2>6. s \notin request.fails
    <3>1. Found \in 0 .. s
      BY <2>2, <2>5
    <3> QED BY <2>4, <3>1 DEF Monotone
  <2>7. ~(s + request.overhead > U64_MAX)
    BY <2>2, <2>5, GasAssumption
  <2> QED BY <2>3, <2>6, <2>7 DEF Fee
<1> QED BY <1>1, SearchAlways, PTL
=============================================================================
