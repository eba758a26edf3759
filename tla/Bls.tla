---------------------------------- MODULE Bls ---------------------------------
(***************************************************************************)
(* The signature library as its callers use it: one call of an arithmetic  *)
(* routine of any of its layers, whose loops take a step for every round;  *)
(* or a sequence of calls on pairing contexts; or one on a tree of         *)
(* messages.  The layers' modules say what each call must return.          *)
(*                                                                         *)
(* No field that TLC's integers reach has both of the curves' groups, both *)
(* endomorphisms and both maps, so each curve has a large instance for     *)
(* points and a small one for encodings and maps.                          *)
(***************************************************************************)
EXTENDS FieldCalls, AdditionChains, PairingContext, UniquenessTree

CONSTANTS
    FullModulus, FullOperands,  \* a modulus that fills its top limb
    PairingField, Chain, MillerLoopNMax, Order, Multiples1, Multiples2,
    Exponents, Elements, Elements2,   \* PairingCalls' constants
    LargeField, SmallField,
    LargeCurve1, SmallCurve1, LargeInputs1, SmallInputs1,
    LargeCurve2, SmallCurve2, LargeInputs2, SmallInputs2,
    HalfBits1, DigitBits2,      \* bits of the scalars' digits
    ShortScalar, LongScalar     \* numbers of bits at which the method changes

VARIABLES
    call,    \* the call under way: its kind and arguments
    work,    \* [n, s]: rounds its loop has taken and what the loop holds
    result   \* << >> until the call returns

vars == <<call, work, result, contexts, given, calls, tree, inserted>>

Full == INSTANCE FieldCalls WITH Modulus <- FullModulus, Operands <- FullOperands

Pairing == INSTANCE PairingCalls WITH Q <- PairingField

Large1 == INSTANCE CurveE1
    WITH Q <- LargeField, Curve <- LargeCurve1, Inputs <- LargeInputs1,
         HalfBits <- HalfBits1, W4Bits <- ShortScalar, WideBits <- LongScalar

Small1 == INSTANCE CurveE1
    WITH Q <- SmallField, Curve <- SmallCurve1, Inputs <- SmallInputs1,
         HalfBits <- HalfBits1, W4Bits <- ShortScalar, WideBits <- LongScalar

Large2 == INSTANCE CurveE2
    WITH Q <- LargeField, Curve2 <- LargeCurve2, Inputs2 <- LargeInputs2,
         DigitBits <- DigitBits2, W4Bits2 <- ShortScalar, WideBits2 <- LongScalar

Small2 == INSTANCE CurveE2
    WITH Q <- SmallField, Curve2 <- SmallCurve2, Inputs2 <- SmallInputs2,
         DigitBits <- DigitBits2, W4Bits2 <- ShortScalar, WideBits2 <- LongScalar

\* The top limb has no bit to spare, but is small enough for the column above it
\* in a step of MulMont.
ASSUME FullAssumption ==
    /\ FullModulus \in Nat /\ FullModulus % 2 = 1
    /\ 2 * FullModulus > Base^Limbs
    /\ (Base + 1) * FullModulus < Base^(Limbs + 1)
    /\ FullOperands \subseteq 0 .. FullModulus - 1

ASSUME FieldsAssumption ==
    /\ Pairing!QAssumption /\ Pairing!ChainAssumption /\ Pairing!OrderAssumption
    /\ Large1!QAssumption /\ Small1!QAssumption

WorkStart ==
    CASE call.kind = "field" /\ Looping(call.of) -> FieldLoopStart(call.of)
      [] call.kind = "chain" -> ChainStart(call.of)
      [] call.kind = "pairing" /\ Pairing!PairingLooping(call.of) -> Pairing!PairingLoopStart(call.of)
      [] OTHER -> << >>

Done ==
    CASE call.kind = "field" -> Looping(call.of) => work.n = Wide!Rounds
      [] call.kind = "chain" -> work.n = Steps(call.of)
      [] call.kind = "pairing" -> Pairing!PairingLooping(call.of) => Pairing!PairingLoopDone(call.of, work.s)
      [] OTHER -> TRUE

Init ==
    /\ \/ call \in [kind : {"field"}, of : FieldCall]
       \/ call \in [kind : {"full"}, of : {c \in Full!FieldCall : c.op \in AnyModulus}]
       \/ call \in [kind : {"chain"}, of : {"recip", "sqrt", "pentaroot"}]
       \/ call \in [kind : {"pairing"}, of : Pairing!PairingCall]
       \/ call \in [kind : {"points1"}, of : Large1!E1PointCall]
       \/ call \in [kind : {"points2"}, of : Large2!E2PointCall]
       \/ call \in [kind : {"map2"}, of : Small2!E2MapCall]
       \/ call \in [kind : {"codes1"}, of : Small1!E1CodeCall]
       \/ call \in [kind : {"codes2"}, of : Small2!E2CodeCall]
       \/ call \in [kind : {"contexts", "tree"}]
    /\ work = [n |-> 0, s |-> WorkStart]
    /\ result = << >>
    /\ ContextInit
    /\ UniqInit

\* A round of a loop.
Turn(kind, next) ==
    /\ call.kind = kind /\ ~Done
    /\ work' = [n |-> work.n + 1, s |-> next]
    /\ UNCHANGED <<call, result, contextVars, treeVars>>

FieldRound == Turn("field", FieldLoopStep(call.of, work.s))

ChainRound == Turn("chain", ChainStep(call.of, work.n + 1, work.s))

PairingRound == Turn("pairing", Pairing!PairingLoopStep(call.of, work.s))

Return(kind, value) ==
    /\ call.kind = kind /\ Done /\ result = << >>
    /\ result' = <<value>>
    /\ UNCHANGED <<call, work, contextVars, treeVars>>

ReturnFromField ==
    \/ Return("field", FieldReturn(call.of, work.s))
    \/ Return("full", Full!FieldReturn(call.of, work.s))

ReturnFromChain == Return("chain", work.s[0])

ReturnFromPairing == Return("pairing", Pairing!PairingReturn(call.of, work.s))

ReturnFromE1 ==
    \/ Return("points1", Large1!E1Point(call.of))
    \/ Return("codes1", Small1!E1Code(call.of))

ReturnFromE2 ==
    \/ Return("points2", Large2!E2Point(call.of))
    \/ Return("map2", Small2!E2Map(call.of))
    \/ Return("codes2", Small2!E2Code(call.of))

UseContexts ==
    /\ call.kind = "contexts"
    /\ ContextNext
    /\ UNCHANGED <<call, work, result, treeVars>>

TestUniqueness ==
    /\ call.kind = "tree"
    /\ UniqTest
    /\ UNCHANGED <<call, work, result, contextVars>>

Next ==
    \/ FieldRound \/ ChainRound \/ PairingRound
    \/ ReturnFromField \/ ReturnFromChain \/ ReturnFromPairing
    \/ ReturnFromE1 \/ ReturnFromE2
    \/ UseContexts \/ TestUniqueness

Spec == Init /\ [][Next]_vars

----------------------------------------------------------------------------

Returned(kind) == call.kind = kind /\ result # << >>

\* The limb routines return the residues that integer arithmetic says, with
\* every carry and final subtraction, those for any modulus also when carries
\* leave the top limb; the inverse and the residue symbol, which
\* follow Euclid on approximations of their operands, too; and the addition
\* chains, with the program's own moduli, raise to the exponents P - 2,
\* (P - 3)/4 and 1/5 modulo r - 1.
FieldAgrees ==
    /\ Returned("field") => FieldCallAgrees(call.of, result[1])
    /\ Returned("full") => Full!FieldCallAgrees(call.of, result[1])
    /\ Returned("chain") => ChainAgrees(call.of, result[1])

\* The shortcuts of the extension fields (sparse and cyclotomic products, roots,
\* Frobenius maps) are the schoolbook's operations, and Miller's loop, alone,
\* over several pairs, in batches or with lines computed beforehand, leads to
\* the generators' pairing to the sum of the products of the multiples.
PairingAgrees == Returned("pairing") => Pairing!PairingCallAgrees(call.of, result[1])

\* Sums, products with scalars by every method, tables and tests on points of
\* either curve are those of the chord and tangent law: at infinity, of equal
\* and of opposite points too, and whatever the denominators.
PointsAgree ==
    /\ Returned("points1") => Large1!E1PointsAgree(call.of, result[1])
    /\ Returned("points2") => Large2!E2PointsAgree(call.of, result[1])
    /\ Returned("map2") => Small2!MapAgrees2(call.of.us, result[1])

\* A point's encodings decode to the point, and nothing that decodes differs
\* from what its point is encoded as: no signature has a second form.
EncodingsAgree ==
    /\ Returned("codes1") => Small1!E1EncodingsAgree(call.of, result[1])
    /\ Returned("codes2") => Small2!E2EncodingsAgree(call.of, result[1])
=============================================================================
