------------------------------ MODULE GcodeMC ------------------------------
(***************************************************************************)
(* The g-code parser with small vocabularies, one for each concern: a      *)
(* program uses the blocks of one of them in any order.                    *)
(***************************************************************************)
EXTENDS Gcode

LOCAL G(n) == <<"G", n>>
LOCAL M(n) == <<"M", n>>
LOCAL X(n) == <<"X", n>>
LOCAL Y(n) == <<"Y", n>>
LOCAL Z(n) == <<"Z", n>>
LOCAL F(n) == <<"F", n>>
LOCAL P(n) == <<"P", n>>
LOCAL L(n) == <<"L", n>>
LOCAL R(n) == <<"R", n>>

Coordinates == {<<G(540), X(1)>>, <<G(550), X(0)>>, <<G(100), L(2), P(2), X(1)>>,
                <<G(100), L(20), P(0), X(1)>>, <<G(0), X(1)>>, <<M(2)>>}
Offsets == {<<G(920), X(1)>>, <<G(921)>>, <<G(922)>>, <<G(923)>>, <<G(0), X(1)>>,
            <<G(530), X(0)>>, <<M(30)>>, <<G(910)>>}
Homes == {<<G(280)>>, <<G(280), X(1)>>, <<G(281)>>, <<G(0), X(2)>>, <<G(910)>>, <<M(8)>>, <<M(50), P(0)>>}
Feeds == {<<G(930)>>, <<G(940)>>, <<G(10), X(1), F(1)>>, <<X(0)>>, <<G(0), X(1)>>,
          <<F(2), M(9)>>, <<M(2)>>, <<G(200)>>, <<F(-1)>>}
Drilling == {<<G(810), X(1), Z(0), R(1), F(1)>>, <<X(0)>>, <<G(830), Z(0), R(2), <<"Q", 1>>, F(1)>>,
             <<X(1), Z(-1), L(2)>>, <<G(910)>>, <<G(990), G(0), Z(1)>>}
ToolWords == {<<M(6), <<"T", 1>>>>, <<G(430)>>, <<G(490)>>, <<G(100), L(10), P(1), Z(1)>>,
              <<G(0), Z(1)>>, <<G(431), Z(2)>>, <<M(61), <<"Q", 0>>>>}
Modes == {<<G(180)>>, <<G(200), G(910)>>, <<M(3), <<"S", 1>>>>, <<M(49)>>,
          <<M(5), M(9)>>, <<G(20), X(1), Y(1), <<"I", 1>>, F(1)>>, <<M(2)>>}
Scales == {<<G(510), X(2)>>, <<G(500)>>, <<G(0), X(1)>>, <<G(910)>>, <<G(382), X(1), F(1)>>,
           <<M(4), <<"S", 2>>>>, <<M(8), G(40), P(1)>>, <<M(62), P(0)>>,
           <<G(50), X(1), P(1), <<"Q", 0>>, <<"I", 1>>, <<"J", 0>>, F(1)>>}
Jogs == {<<X(1), F(1)>>, <<G(910), X(-1), F(2)>>, <<G(530), Y(0), F(1)>>,
         <<G(180), G(200)>>, <<G(810), Y(0), Z(0), R(0), F(1)>>}

Restores == {<<M(70)>>, <<M(71)>>, <<M(72)>>, <<G(550)>>, <<G(930)>>, <<F(2), M(9)>>, <<G(940), M(8)>>,
             <<G(10), X(1), F(1), M(72)>>, <<G(910), M(2)>>}

MCVocabularies == {Jogs, Coordinates, Offsets, Homes, Feeds, Drilling, ToolWords, Modes, Scales, Restores}
MCPlaces == {[a \in Axes |-> IF a = "Y" THEN 0 ELSE 1]}

\* These programs are such that the invariants are promised for them.
ASSUME RestoresCurrent /\ EndsWithoutFeed /\ MovesAlone
=============================================================================
