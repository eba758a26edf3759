---------------------------- MODULE PairingContext ----------------------------
(***************************************************************************)
(* blst's pairing contexts (src/aggregate.c): signatures and pairs of      *)
(* public keys and hashes go in, one call after the other, and a context   *)
(* of another thread can be merged; the verdict is whether the pairings of *)
(* the pairs multiply up to that of the signatures.                        *)
(*                                                                         *)
(* A point is the multiple of the generator that it is, modulo the order,  *)
(* or Outside the group; the pairing of two multiples is their product.    *)
(* PairingLoop has the pairing itself.                                     *)
(***************************************************************************)
EXTENDS Naturals, Sequences

CONSTANTS
    Contexts,
    GroupSize,    \* the order
    PendingMax,   \* N_MAX: pairs that are multiplied in one go
    Points,       \* public keys and signatures that callers pass
    Factors,      \* scalars, with NoArgument for a call without one
    Hashes,       \* what Hash_to_G1, Hash_to_G2 make of the messages
    RawPairs,     \* pairs <<q, p>> given to blst_pairing_raw_aggregate
    Outside, NoArgument,   \* a point outside the group, NULL
    ZeroProduct,         \* not in the pairing's group: a product with it stays zero
    MaxCalls      \* bound: calls in a behaviour

ASSUME PairingContextAssumption ==
    /\ GroupSize \in Nat \ {0, 1} /\ PendingMax \in Nat \ {0, 1} /\ MaxCalls \in Nat
    /\ Points \subseteq 0 .. GroupSize - 1 \cup {Outside}
    /\ Hashes \subseteq 1 .. GroupSize - 1
    /\ Factors \subseteq Nat \cup {NoArgument}
    /\ RawPairs \subseteq (0 .. GroupSize - 1) \X (0 .. GroupSize - 1)
    /\ Outside \notin Nat /\ ZeroProduct \notin Nat /\ NoArgument \notin Nat \cup {Outside}

VARIABLES
    contexts,
    given,     \* what each context was given: the sums of the pairs' and of the
               \* signatures' pairings, whether there was any pair, and whether an
               \* infinite Q was paired with a finite P
    calls

contextVars == <<contexts, given, calls>>

Multiples == 0 .. GroupSize - 1

TimesModulo(a, b) == (a * b) % GroupSize

GtMul(a, b) == IF a = ZeroProduct \/ b = ZeroProduct THEN ZeroProduct ELSE (a + b) % GroupSize

LoopProduct(pairs) ==
    LET upto[n \in 0 .. Len(pairs)] ==
            IF n = 0 THEN 0 ELSE GtMul(upto[n - 1], TimesModulo(pairs[n][1], pairs[n][2]))
    IN upto[Len(pairs)]

\* Of several pairs an infinite Q, which the loop does not except, makes zero.
MillerLoop(pairs) ==
    IF Len(pairs) > 1 /\ \E i \in DOMAIN pairs : pairs[i][1] = 0 THEN ZeroProduct
    ELSE LoopProduct(pairs)

\* ctrl's flags, the pending pairs (Q, P) and the product GT and the
\* signature, which are read only if their flags are set.
Fresh ==
    [type |-> {}, signSet |-> FALSE, gtSet |-> FALSE, pending |-> << >>, GT |-> 0, sign |-> 0]

NothingGiven == [pairs |-> 0, signatures |-> 0, any |-> FALSE, infiniteQ |-> FALSE]

ContextInit ==
    /\ contexts = [c \in Contexts |-> Fresh]
    /\ given = [c \in Contexts |-> NothingGiven]
    /\ calls = 0

(* (mutant: a first product replaces the one that is there)                *)
MultiplyInOverwritten(ctx) ==
    [ctx EXCEPT !.GT = MillerLoop(ctx.pending), !.gtSet = TRUE, !.pending = << >>]

MultiplyIn(ctx) ==
    LET product == MillerLoop(ctx.pending)
    IN [ctx EXCEPT !.GT = IF ctx.gtSet THEN GtMul(@, product) ELSE product,
                   !.gtSet = TRUE, !.pending = << >>]

AddPair(ctx, q, p) ==
    LET added == [ctx EXCEPT !.pending = Append(@, <<q, p>>)]
    IN IF Len(added.pending) = PendingMax THEN MultiplyIn(added) ELSE added

AddSignature(ctx, s) ==
    [ctx EXCEPT !.sign = IF ctx.signSet THEN (@ + s) % GroupSize ELSE s, !.signSet = TRUE]

Commit(ctx) == IF ctx.pending = << >> THEN ctx ELSE MultiplyIn(ctx)

Scale(factor, x) == IF factor = NoArgument THEN x ELSE TimesModulo(factor, x)

\* PAIRING_Aggregate_PK_in_G1 (type "min_pk") and _in_G2 ("min_sig"): the
\* scalar multiplies the key and the hash respectively.
\* The signature stays in the context when the key is then refused.
Aggregate(ctx, type, pk, pkCheck, sig, sigCheck, factor, hash) ==
    LET typed == [ctx EXCEPT !.type = @ \cup {type}]
        signed == IF sig \in {NoArgument, 0} THEN typed ELSE AddSignature(typed, Scale(factor, sig))
        scaled == IF type = "min_pk" THEN <<hash, Scale(factor, pk)>>
                  ELSE <<pk, Scale(factor, hash)>>
    IN IF ctx.type \ {type} # {} THEN [ctx |-> ctx, err |-> "AGGR_TYPE_MISMATCH"]
       ELSE IF sig = Outside /\ sigCheck THEN [ctx |-> typed, err |-> "POINT_NOT_IN_GROUP"]
       ELSE IF pk = NoArgument THEN [ctx |-> signed, err |-> "SUCCESS"]
       ELSE IF pk = 0 THEN [ctx |-> signed, err |-> "PK_IS_INFINITY"]
       ELSE IF pk = Outside /\ pkCheck THEN [ctx |-> signed, err |-> "POINT_NOT_IN_GROUP"]
       ELSE [ctx |-> AddPair(signed, scaled[1], scaled[2]), err |-> "SUCCESS"]

Merge(ctx, other) ==
    LET summed == IF ~other.signSet THEN ctx
                  ELSE IF ctx.signSet THEN [ctx EXCEPT !.sign = (@ + other.sign) % GroupSize]
                  ELSE [ctx EXCEPT !.sign = other.sign, !.signSet = TRUE]
        multiplied == IF ~other.gtSet THEN summed
                      ELSE IF ctx.gtSet THEN [summed EXCEPT !.GT = GtMul(@, other.GT)]
                      ELSE [summed EXCEPT !.GT = other.GT, !.gtSet = TRUE]
    IN IF \/ ctx.type # {} /\ other.type # {} /\ ctx.type \cap other.type = {}
          \/ ctx.pending # << >> \/ other.pending # << >>
       THEN [ctx |-> ctx, err |-> "AGGR_TYPE_MISMATCH"]
       ELSE [ctx |-> [multiplied EXCEPT !.type = @ \cup other.type], err |-> "SUCCESS"]

\* gtsig is NoArgument or what blst_aggregated_in_g1, _in_g2 make of a signature;
\* pending pairs are not looked at.
FinalVerify(ctx, gtsig) ==
    LET signature == IF gtsig # NoArgument THEN gtsig ELSE IF ctx.signSet THEN ctx.sign ELSE 0
    IN /\ ctx.gtSet
       /\ gtsig # NoArgument \/ (ctx.signSet => ctx.type # {})
       /\ ctx.GT # ZeroProduct
       /\ signature = ctx.GT

\* blst_core_verify_pk_in_g1, _in_g2: a context of its own.
CoreVerify(type, pk, sig, hash) ==
    LET aggregated == Aggregate(Fresh, type, pk, TRUE, sig, TRUE, NoArgument, hash)
    IN IF aggregated.err # "SUCCESS" THEN aggregated.err
       ELSE IF FinalVerify(Commit(aggregated.ctx), NoArgument) THEN "SUCCESS" ELSE "VERIFY_FAIL"

----------------------------------------------------------------------------
(* The calls                                                               *)

Called == calls < MaxCalls /\ calls' = calls + 1

\* A caller that does without the checks has made them before.
CallAggregate(c) ==
    \E type \in {"min_pk", "min_sig"}, pk, sig \in Points \cup {NoArgument}, factor \in Factors,
       hash \in Hashes :
        LET answer == Aggregate(contexts[c], type, pk, TRUE, sig, TRUE, factor, hash)
            accepted == answer.err # "AGGR_TYPE_MISMATCH"
            signature == IF accepted /\ sig \in Multiples THEN Scale(factor, sig) ELSE 0
            paired == answer.err = "SUCCESS" /\ pk # NoArgument
            pairing == IF paired THEN TimesModulo(Scale(factor, pk), hash) ELSE 0
        IN /\ Called
           /\ contexts' = [contexts EXCEPT ![c] = answer.ctx]
           /\ given' = [given EXCEPT ![c].signatures = (@ + signature) % GroupSize,
                                     ![c].pairs = (@ + pairing) % GroupSize,
                                     ![c].any = @ \/ paired]

CallRawAggregate(c) ==
    \E pair \in RawPairs :
        /\ Called
        /\ contexts' = [contexts EXCEPT
                ![c] = IF pair = <<0, 0>> THEN @ ELSE AddPair(@, pair[1], pair[2])]
        /\ given' = [given EXCEPT
                ![c].pairs = (@ + TimesModulo(pair[1], pair[2])) % GroupSize,
                ![c].any = @ \/ pair # <<0, 0>>,
                ![c].infiniteQ = @ \/ (pair[1] = 0 /\ pair[2] # 0)]

\* blst_pairing_commit; blst_pairing_as_fp12 does the same.
CallCommit(c) ==
    /\ Called
    /\ contexts' = [contexts EXCEPT ![c] = Commit(@)]
    /\ UNCHANGED given

\* The other context is not used afterwards.
CallMerge(c, other) ==
    LET answer == Merge(contexts[c], contexts[other])
        a == given[c]
        b == given[other]
    IN /\ Called
       /\ answer.err = "SUCCESS"
       /\ contexts' = [contexts EXCEPT ![c] = answer.ctx, ![other] = Fresh]
       /\ given' = [given EXCEPT
            ![c] = [pairs |-> (a.pairs + b.pairs) % GroupSize,
                    signatures |-> (a.signatures + b.signatures) % GroupSize,
                    any |-> a.any \/ b.any, infiniteQ |-> a.infiniteQ \/ b.infiniteQ],
            ![other] = NothingGiven]

ContextNext ==
    \E c \in Contexts :
        \/ CallAggregate(c)
        \/ CallRawAggregate(c)
        \/ CallCommit(c)
        \/ \E other \in Contexts \ {c} : CallMerge(c, other)

ContextSpec == ContextInit /\ [][ContextNext]_contextVars

----------------------------------------------------------------------------

\* blst_pairing_finalverify says of a context with nothing pending whether it
\* was given a pair and its pairs multiply up to the signatures (or to gtsig),
\* however the calls were batched, scaled and merged, and whichever of them were
\* refused; except that an infinite Q with a finite P may turn it down.
ContextVerdict(c) ==
    \A gtsig \in Multiples \cup {NoArgument} :
        LET answer == FinalVerify(contexts[c], gtsig)
            asked == IF gtsig = NoArgument THEN given[c].signatures ELSE gtsig
            product == given[c].any /\ given[c].pairs = asked
        IN /\ answer => product
           /\ product /\ ~given[c].infiniteQ => answer

\* blst_core_verify_pk_in_g1 and _in_g2 succeed exactly if the key is a finite
\* point of its group and the signature is the hash times the secret key.
LoneVerdict ==
    \A type \in {"min_pk", "min_sig"}, pk, sig \in Points \cup Multiples, hash \in Hashes :
        CoreVerify(type, pk, sig, hash) = "SUCCESS" <=>
            /\ pk \in Multiples \ {0} /\ sig \in Multiples
            /\ sig = TimesModulo(pk, hash)

VerdictIsProduct ==
    /\ \A c \in Contexts : contexts[c].pending = << >> => ContextVerdict(c)
    /\ calls = 0 => LoneVerdict
=============================================================================
