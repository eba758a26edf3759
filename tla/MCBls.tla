--------------------------------- MODULE MCBls --------------------------------
EXTENDS Bls, TLC

\* LimbArithmetic: residues around the limbs' and the modulus's edges.
SomeOperands ==
    {0, 1, 2, 15, 16, 255, 256, 3328, 3329, 3330, 4095, 4096, 5407, 6643, 6657, 6658}

SomeFull ==
    {0, 1, 2, 15, 16, 4096, 13570, 19199, 23168, 23169, 32767, 32768, 36864, 46335, 46336}

SomeWide ==
    {0, 1, 2, 3, 255, 256, 65537, 16777216, 218138879, 218138880, 436277757, 436277758,
     271828182, 314159265}

SomeDivisors ==
    << {<<8>>, <<9>>, <<15>>},
       {<<0, 8>>, <<15, 8>>, <<1, 12>>, <<15, 15>>, <<0, 15>>} >>

SomeDividends ==
    << {<<x, y>> : x \in 0 .. 15, y \in 0 .. 7},
       {<<w, x, y, z>> : w \in {0, 15}, x \in {0, 8, 15}, y \in {0, 1, 14, 15}, z \in 0 .. 7} >>

----------------------------------------------------------------------------
\* The pairing: z is -26, so that both groups have order 13 in a field of 163.

SomeChain == <<1, 2, 1>>

Point(x, y) == [X |-> x, Y |-> y]

SomeMultiples1 ==
    << Point(0, 0), Point(60, 134), Point(154, 24), Point(46, 134), Point(57, 29),
       Point(130, 24), Point(42, 24), Point(42, 139), Point(130, 139), Point(57, 134),
       Point(46, 29), Point(154, 139), Point(60, 29) >>

SomeMultiples2 ==
    << Point(<<0, 0>>, <<0, 0>>), Point(<<75, 10>>, <<33, 30>>),
       Point(<<72, 51>>, <<27, 85>>), Point(<<112, 91>>, <<33, 30>>),
       Point(<<139, 62>>, <<130, 133>>), Point(<<153, 88>>, <<27, 85>>),
       Point(<<101, 24>>, <<27, 85>>), Point(<<101, 24>>, <<136, 78>>),
       Point(<<153, 88>>, <<136, 78>>), Point(<<139, 62>>, <<33, 30>>),
       Point(<<112, 91>>, <<130, 133>>), Point(<<72, 51>>, <<136, 78>>),
       Point(<<75, 10>>, <<130, 133>>) >>

SomeExponents ==
    {<< <<1, 1>> >>, << <<2, 3>> >>, << <<0, 5>> >>, << <<5, 0>> >>, << <<1, 12>> >>,
     << <<2, 3>>, <<3, 4>> >>, << <<4, 12>>, <<1, 4>>, <<5, 6>> >>,
     << <<0, 3>>, <<7, 5>> >>}

Element(n) ==
    [i \in 1 .. 2 |-> [j \in 1 .. 3 |->
        <<(n * n * (7 * i + 31 * j) + 5 * i * j + 11 * n) % PairingField,
          (n * (3 * i + 17 * j) + i + j * j * n) % PairingField>>]]

Naught == <<0, 0>>

SomeElements ==
    {Element(1), Element(2), << <<<<1, 0>>, Naught, Naught>>, <<Naught, Naught, Naught>> >>}

SomeElements2 ==
    {<<(i * i * 7 + 3 * i) % PairingField, (i * i * i * 5 + i) % PairingField>> : i \in 0 .. 40}
      \cup {<<x, 0>> : x \in 0 .. 5} \cup {<<0, x>> : x \in 1 .. 5}

----------------------------------------------------------------------------
\* The curves.  A large one has order 601 and z = -5, which the 33 points of
\* the longest sums fit; a small one has every encoding enumerated.

Nothing ==
    [zs |-> {}, pairs |-> {}, scalars |-> {}, scalarBits |-> 10, bundles |-> {},
     rows |-> {}, products |-> {}, numbersOfBits |-> {}, points |-> {}, elements |-> {},
     encoded |-> {}, abscissas |-> {}, encodedPoints |-> {}]

Numbers(f(_)) == [i \in 1 .. 33 |-> f(i)]

SomeScalars == {0, 1, 31, 599, 600, 601, 777, 1023}

LargeE1 ==
    [b |-> 1, beta |-> 1838, order |-> 601, generator |-> Point(2587, 5706),
     chain |-> <<0, 0, 0>>, parameter |-> 5, aPrime |-> 1258, bPrime |-> 22,
     nonResidue |-> 3,
     isogeny |-> [xNum |-> <<2225, 4523, 1802>>, xDen |-> <<3678, 1>>,
                  yNum |-> <<3410, 4523, 901>>, yDen |-> <<145, 149, 1>>]]

LargeE1Inputs ==
    [Nothing EXCEPT
        !.zs = {1, 77}, !.pairs = {<<0, 0>>, <<1, 1>>, <<5, 600>>, <<600, 2>>},
        !.scalars = SomeScalars, !.rows = {0, 1, 77},
        !.bundles =
            {<< <<3>>, <<500>> >>, << <<1, 2, 0, 3>>, <<1023, 0, 77, 600>> >>,
             <<Numbers(LAMBDA i : (i * i * 7) % 601),
               Numbers(LAMBDA i : (i * i * 37 + i) % 1024)>>,
             <<Numbers(LAMBDA i : IF i % 3 = 0 THEN 5 ELSE IF i % 3 = 1 THEN 596 ELSE i % 2),
               Numbers(LAMBDA i : (i * 91) % 600)>>},
        !.products = {0, 1, 24, 25, 26, 312, 599, 600}, !.numbersOfBits = {0, 4, 9, 10, 11},
        !.points =
            {Point(0, 0), Point(2587, 5706), Point(0, 1), Point(7206, 0), Point(2, 7204),
             Point(4, 190), Point(7, 1490), Point(8, 2102), Point(9, 6052),
             Point(10, 1201), Point(13, 4192), Point(15, 4193), Point(18, 6104)},
        !.elements = {<<0>>, <<5>>, <<7, 4000>>, <<9, 9>>, <<9, 7198>>, <<0, 3>>}]

LargeE2 ==
    [b |-> <<3, 1>>, order |-> 601, generator |-> Point(<<5652, 712>>, <<2781, 1712>>),
     chain |-> <<0, 0, 0>>, parameter |-> 5, psiX |-> <<1017, 5313>>,
     psiY |-> <<1649, 2260>>, aPrime |-> <<0, 0>>, bPrime |-> <<0, 0>>,
     nonResidue |-> <<0, 0>>, isogeny |-> << >>]

LargeE2Inputs ==
    [Nothing EXCEPT
        !.zs = {<<1, 0>>, <<77, 5>>}, !.pairs = {<<0, 0>>, <<1, 1>>, <<5, 600>>, <<600, 2>>},
        !.scalars = {0, 1, 600, 1023}, !.rows = {0, 77},
        !.bundles = {<< <<1, 2, 0, 3>>, <<1023, 0, 77, 600>> >>},
        !.products = {0, 1, 24, 25, 26, 312, 599, 600}, !.numbersOfBits = {0, 4, 9, 10, 11},
        !.points = {Point(<<5652, 712>>, <<2781, 1712>>), Point(<<0, 0>>, <<0, 0>>),
                    Point(<<3, 3>>, <<4989, 541>>)}]

SmallE1 ==
    [LargeE1 EXCEPT !.b = 4, !.chain = <<2, 3>>, !.parameter = 104]

SmallE1Inputs ==
    [Nothing EXCEPT
        !.zs = {1, 7}, !.encoded = 0 .. 31,
        !.encodedPoints = {Point(0, 0)} \cup
            {p \in [X : 0 .. 18, Y : 0 .. 18] : (p.Y^2) % 19 = (p.X^3 + 4) % 19}]

SmallE2 ==
    [b |-> <<1, 3>>, order |-> 373, generator |-> << >>, chain |-> <<2, 3>>,
     parameter |-> 104, psiX |-> <<13, 3>>, psiY |-> <<18, 13>>,
     aPrime |-> <<18, 10>>, bPrime |-> <<6, 18>>, nonResidue |-> <<18, 1>>,
     isogeny |->
        [xNum |-> << <<0, 0>>, <<15, 2>>, <<13, 4>>, <<17, 0>> >>,
         xDen |-> << <<6, 16>>, <<3, 17>>, <<1, 0>> >>,
         yNum |-> << <<5, 15>>, <<17, 1>>, <<16, 2>>, <<12, 0>> >>,
         yDen |-> << <<6, 18>>, <<18, 10>>, <<14, 16>>, <<1, 0>> >>]]

Cubed2(x) ==
    <<(x[1]^3 - 3 * x[1] * x[2]^2) % 19, (3 * x[1]^2 * x[2] - x[2]^3) % 19>>

SmallE2Inputs ==
    [Nothing EXCEPT
        !.zs = {<<1, 0>>, <<7, 5>>},
        !.elements =
            {<< <<0, 0>> >>, << <<1, 0>> >>, << <<0, 1>> >>, << <<7, 2>> >>, << <<5, 5>> >>,
             << <<3, 2>>, <<8, 11>> >>, << <<3, 2>>, <<3, 2>> >>,
             << <<3, 2>>, <<16, 17>> >>},
        !.encoded = (0 .. 20) \X (0 .. 20),
        !.abscissas = {<<0, 0>>, <<1, 0>>, <<2, 5>>, <<18, 7>>, <<19, 0>>},
        !.encodedPoints =
            {Point(<<0, 0>>, <<0, 0>>)} \cup
            {p \in [X : (0 .. 3) \X (0 .. 3), Y : (0 .. 18) \X (0 .. 18)] :
                <<(p.Y[1]^2 - p.Y[2]^2) % 19, (2 * p.Y[1] * p.Y[2]) % 19>>
                  = <<(Cubed2(p.X)[1] + 1) % 19, (Cubed2(p.X)[2] + 3) % 19>>}]

----------------------------------------------------------------------------
\* Contexts and messages.

SomePoints == {0, 1, Outside}

SomeRawPairs == {<<0, 0>>, <<1, 1>>, <<0, 1>>, <<1, 0>>}

SomeMessages == {<< >>, <<0>>, <<1>>, <<0, 0>>, <<0, 1>>, <<1, 0>>, <<1, 1>>}
===============================================================================
