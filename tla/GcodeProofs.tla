----------------------------- MODULE GcodeProofs -----------------------------
(***************************************************************************)
(* Proofs about Gcode: for every program, every set of coordinate systems  *)
(* and tools, and a stop in any wait, the parser's state stays consistent. *)
(***************************************************************************)
EXTENDS Gcode, TLAPS

ContextFields == {"ok", "g", "m", "jog", "cycle", "change", "named", "cmd", "nm", "flow", "state",
                  "port", "setTool", "coolant", "override", "off", "scale", "axes", "ijk", "left",
                  "v", "xyz", "wcs", "id", "data", "planned", "cut", "at", "cancel"}
StateFields == {"modes", "cycle", "scaling", "scale", "coolant", "off", "feed", "fed", "rpm",
                "toolChange", "canned", "snapshot", "position", "pending", "wcs", "g92", "tlo",
                "tool", "table", "stored"}

Shape(c) ==
    /\ DOMAIN c = ContextFields
    /\ DOMAIN c.g = StateFields
    /\ DOMAIN c.m = ModeGroups
    /\ DOMAIN c.v = Values

\* A check never writes these fields of the context,
Fixed == {"jog", "named", "nm", "flow", "state", "setTool", "cut", "at", "cancel", "change"}
\* and of the parser state it writes only these.
Written == {"scale", "scaling", "canned", "table"}

\* What every check keeps,
Frame(c, d) ==
    /\ DOMAIN d = DOMAIN c /\ DOMAIN d.g = DOMAIN c.g
    /\ DOMAIN d.m = DOMAIN c.m /\ DOMAIN d.v = DOMAIN c.v
    /\ \A f \in Fixed : d[f] = c[f]
    /\ \A f \in StateFields \ Written : d.g[f] = c.g[f]
    /\ \A x \in ModeGroups \ {"G10"} : d.m[x] = c.m[x]
    /\ \A l \in {"F", "S"} : (l \in d.left) <=> (l \in c.left)

\* and all but those that are about one of the following.
Keeps(c, d) ==
    /\ Frame(c, d)
    /\ d.cmd \in {c.cmd, "none"}
    /\ d.v["F"] = c.v["F"]
    /\ d.v["S"] = c.v["S"]
    /\ d.wcs = c.wcs

-----------------------------------------------------------------------------
(* The checks *)

LEMMA RequireFields ==
    ASSUME NEW c, NEW p
    PROVE  /\ DOMAIN Require(c, p) = DOMAIN c
           /\ \A f \in DOMAIN c \ {"ok"} : Require(c, p)[f] = c[f]
<1> DEFINE ok == c.ok /\ p
<1>1. Require(c, p) = [c EXCEPT !.ok = ok]  BY DEF Require
<1> HIDE DEF ok
<1> QED  BY <1>1

LEMMA UseFields ==
    ASSUME NEW c, NEW letters, "left" \in DOMAIN c
    PROVE  /\ DOMAIN Use(c, letters) = DOMAIN c
           /\ \A f \in DOMAIN c \ {"left"} : Use(c, letters)[f] = c[f]
           /\ Use(c, letters).left = c.left \ letters
BY DEF Use

LEMMA RequireKeeps ==
    ASSUME NEW c, Shape(c), NEW p
    PROVE  Shape(Require(c, p)) /\ Keeps(c, Require(c, p))
<1> DEFINE d == Require(c, p)
<1>1. DOMAIN d = DOMAIN c /\ \A f \in DOMAIN c \ {"ok"} : d[f] = c[f]  BY RequireFields
<1> HIDE DEF d
<1>2. Shape(d) /\ Keeps(c, d)
  BY <1>1 DEF Shape, Keeps, Frame, ContextFields, StateFields, Fixed
<1> QED  BY <1>2 DEF d

LEMMA UseKeeps ==
    ASSUME NEW c, Shape(c), NEW letters, "F" \notin letters, "S" \notin letters
    PROVE  Shape(Use(c, letters)) /\ Keeps(c, Use(c, letters))
<1> DEFINE d == Use(c, letters)
<1>1. /\ DOMAIN d = DOMAIN c /\ d.left = c.left \ letters
      /\ \A f \in DOMAIN c \ {"left"} : d[f] = c[f]
  BY UseFields DEF Shape, ContextFields
<1> HIDE DEF d
<1>2. Shape(d) /\ Keeps(c, d)
  BY <1>1 DEF Shape, Keeps, Frame, ContextFields, StateFields, Fixed
<1> QED  BY <1>2 DEF d

LEMMA KeepsTransitive ==
    ASSUME NEW c, NEW d, NEW e, Keeps(c, d), Keeps(d, e), Shape(c)
    PROVE  Keeps(c, e) /\ Shape(e)
BY DEF Keeps, Frame, Shape, StateFields, Fixed

LEMMA KeepsReflexive ==
    ASSUME NEW c, Shape(c)
    PROVE  Keeps(c, c)
BY DEF Keeps, Frame

\* A check that writes none of the fields a Keeps is about
LEMMA WriteKeeps ==
    ASSUME NEW c, Shape(c), NEW d, DOMAIN d = DOMAIN c,
           \A f \in ContextFields \ {"ok", "override", "off", "scale", "axes", "ijk", "xyz", "id",
                                     "data"} : d[f] = c[f]
    PROVE  Shape(d) /\ Keeps(c, d)
BY DEF Shape, Keeps, Frame, ContextFields, StateFields, Fixed

\* or one that writes values, or the parser state, as the checks do
LEMMA ValueKeeps ==
    ASSUME NEW c, Shape(c), NEW l \in Values \ {"F", "S"}, NEW n
    PROVE  Shape([c EXCEPT !.v[l] = n]) /\ Keeps(c, [c EXCEPT !.v[l] = n])
<1> DEFINE v == [c.v EXCEPT ![l] = n]
           d == [c EXCEPT !.v = v]
<1>1. [c EXCEPT !.v[l] = n] = d  OBVIOUS
<1>2. DOMAIN v = Values /\ v["F"] = c.v["F"] /\ v["S"] = c.v["S"]  BY DEF Shape, Values
<1> HIDE DEF v
<1>3. DOMAIN d = DOMAIN c /\ d.v = v /\ \A f \in ContextFields \ {"v"} : d[f] = c[f]
  BY DEF Shape, ContextFields
<1> HIDE DEF d
<1>4. Shape(d) /\ Keeps(c, d)
  BY <1>2, <1>3 DEF Shape, Keeps, Frame, ContextFields, StateFields, Fixed
<1> QED  BY <1>1, <1>4

LEMMA StateKeeps ==
    ASSUME NEW c, Shape(c), NEW f \in Written, NEW e
    PROVE  Shape([c EXCEPT !.g[f] = e]) /\ Keeps(c, [c EXCEPT !.g[f] = e])
<1> DEFINE s == [c.g EXCEPT ![f] = e]
           d == [c EXCEPT !.g = s]
<1>1. [c EXCEPT !.g[f] = e] = d  OBVIOUS
<1>2. DOMAIN s = StateFields /\ \A x \in StateFields \ Written : s[x] = c.g[x]
  BY DEF Shape, Written, StateFields
<1> HIDE DEF s
<1>3. DOMAIN d = DOMAIN c /\ d.g = s /\ \A x \in ContextFields \ {"g"} : d[x] = c[x]
  BY DEF Shape, ContextFields
<1> HIDE DEF d
<1>4. Shape(d) /\ Keeps(c, d)
  BY <1>2, <1>3 DEF Shape, Keeps, Frame, ContextFields, StateFields, Fixed
<1> QED  BY <1>1, <1>4

LEMMA SelectToolKeeps ==
    ASSUME NEW c, Shape(c)
    PROVE  Shape(SelectTool(c)) /\ Keeps(c, SelectTool(c))
<1> DEFINE p == Given(c, "Q") /\ (Tools # {} => c.v["Q"] \in Tools)
           d == [c EXCEPT !.v["T"] = c.v["Q"]]
           e == [c EXCEPT !.v["T"] = c.g.pending]
<1>1. SelectTool(c) = IF c.setTool THEN Use(Require(d, p), {"Q"})
                      ELSE IF Given(c, "T") THEN c ELSE e
  BY DEF SelectTool
<1>2. Shape(d) /\ Keeps(c, d) /\ Shape(e) /\ Keeps(c, e)  BY ValueKeeps DEF Values
<1> HIDE DEF p, d, e
<1>3. Shape(Require(d, p)) /\ Keeps(c, Require(d, p))  BY <1>2, RequireKeeps, KeepsTransitive
<1>4. Shape(Use(Require(d, p), {"Q"})) /\ Keeps(c, Use(Require(d, p), {"Q"}))
  BY <1>3, UseKeeps, KeepsTransitive
<1> QED  BY <1>1, <1>2, <1>4, KeepsReflexive

\* Requiring and using, as most checks end
LEMMA RequireAfterKeeps ==
    ASSUME NEW c, NEW d, Shape(c), Shape(d), Keeps(c, d), NEW p
    PROVE  Shape(Require(d, p)) /\ Keeps(c, Require(d, p))
BY RequireKeeps, KeepsTransitive

LEMMA UseRequireKeeps ==
    ASSUME NEW c, NEW d, Shape(c), Shape(d), Keeps(c, d), NEW p, NEW letters,
           "F" \notin letters, "S" \notin letters
    PROVE  Shape(Use(Require(d, p), letters)) /\ Keeps(c, Use(Require(d, p), letters))
<1>1. Shape(Require(d, p)) /\ Keeps(c, Require(d, p))  BY RequireAfterKeeps
<1>2. Keeps(Require(d, p), Use(Require(d, p), letters))  BY <1>1, UseKeeps
<1> QED  BY <1>1, <1>2, KeepsTransitive

LEMMA OutputPortKeeps ==
    ASSUME NEW c, Shape(c)
    PROVE  Shape(OutputPort(c)) /\ Keeps(c, OutputPort(c))
<1> DEFINE p == Given(c, "P") /\ c.v["P"] \in 0 .. Ports-1
           q == (Given(c, "E") \/ Given(c, "Q")) /\ c.v["E"] \in 0 .. Ports-1
<1>1. OutputPort(c) \in {Use(Require(c, p), {"P"}), Use(Require(c, q), {"E", "Q"}), c}
  BY DEF OutputPort
<1> HIDE DEF p, q
<1>2. Keeps(c, c)  BY KeepsReflexive
<1> QED  BY <1>1, <1>2, UseRequireKeeps

LEMMA OverrideControlKeeps ==
    ASSUME NEW c, Shape(c)
    PROVE  Shape(OverrideControl(c)) /\ Keeps(c, OverrideControl(c))
<1> DEFINE zero == Given(c, "P") /\ c.v["P"] = 0
           set(x) == IF zero THEN c.off \cup x ELSE c.off \ x
           off == CASE c.override = 48 -> c.off \ {"feed", "speed"}
                    [] c.override = 49 -> c.off \cup {"feed", "speed"}
                    [] c.override = 50 -> set({"feed"})
                    [] c.override = 51 -> set({"speed"})
                    [] c.override = 53 -> set({"hold"})
                    [] c.override = 56 -> set({"parking"})
           n == IF Given(c, "P") THEN c.v["P"] ELSE 1
           p == Given(c, "P") => c.v["P"] >= 0
<1>1. \/ OverrideControl(c) = c
      \/ OverrideControl(c) = Use(Require([c EXCEPT !.off = off, !.v["P"] = n], p), {"P"})
  <2>1. [c EXCEPT !.off = off, !.v["P"] = n]
          = [c EXCEPT !.off = off, !.v["P"] = IF Given(c, "P") THEN @ ELSE 1]
    OBVIOUS
  <2> QED  BY <2>1 DEF OverrideControl
<1> HIDE DEF off, n, p
<1> DEFINE d == [c EXCEPT !.off = off]
           e == [d EXCEPT !.v["P"] = n]
<1>2. Shape(d) /\ Keeps(c, d)
  <2>1. DOMAIN d = DOMAIN c /\ \A f \in ContextFields \ {"off"} : d[f] = c[f]  BY DEF Shape
  <2> HIDE DEF d
  <2> QED  BY <2>1, WriteKeeps
<1>3. [c EXCEPT !.off = off, !.v["P"] = n] = e  OBVIOUS
<1> HIDE DEF d
<1>4. Shape(e) /\ Keeps(d, e)  BY <1>2, ValueKeeps DEF Values
<1> HIDE DEF e
<1>5. Keeps(c, e)  BY <1>2, <1>4, KeepsTransitive
<1>6. Keeps(c, c)  BY KeepsReflexive
<1> QED  BY <1>1, <1>3, <1>4, <1>5, <1>6, UseRequireKeeps

LEMMA DwellKeeps ==
    ASSUME NEW c, Shape(c)
    PROVE  Shape(Dwell(c)) /\ Keeps(c, Dwell(c))
<1> DEFINE p == Given(c, "P") /\ c.v["P"] >= 0
<1>1. Dwell(c) \in {c, Use(Require(c, p), {"P"})}  BY DEF Dwell
<1> HIDE DEF p
<1>2. Keeps(c, c)  BY KeepsReflexive
<1> QED  BY <1>1, <1>2, UseRequireKeeps

LEMMA XyzKeeps ==
    ASSUME NEW c, Shape(c), NEW n
    PROVE  Shape([c EXCEPT !.xyz = n]) /\ Keeps(c, [c EXCEPT !.xyz = n])
<1> DEFINE d == [c EXCEPT !.xyz = n]
<1>1. DOMAIN d = DOMAIN c /\ \A f \in ContextFields \ {"xyz"} : d[f] = c[f]  BY DEF Shape
<1> HIDE DEF d
<1>2. Shape(d) /\ Keeps(c, d)  BY <1>1, WriteKeeps
<1> QED  BY <1>2 DEF d

LEMMA UnitsKeeps ==
    ASSUME NEW c, Shape(c)
    PROVE  Shape(Units(c)) /\ Keeps(c, Units(c))
<1> DEFINE n == [a \in Axes |-> IF a \in c.axes THEN InMm(c, c.xyz[a]) ELSE c.xyz[a]]
<1>1. Units(c) = [c EXCEPT !.xyz = n]  BY DEF Units
<1> HIDE DEF n
<1> QED  BY <1>1, XyzKeeps

LEMMA ScalingKeeps ==
    ASSUME NEW c, Shape(c)
    PROVE  Shape(Scaling(c)) /\ Keeps(c, Scaling(c))
<1> DEFINE factors == [a \in Axes |-> IF a \in c.axes THEN c.xyz[a] ELSE c.g.scale[a]]
           active == c.g.scaling \/ c.axes # {}
           set == [c EXCEPT !.g.scale = factors, !.g.scaling = active, !.axes = {}]
           d == CASE c.cmd # "scaling" -> c
                  [] c.cmd = "scaling" /\ c.scale = 500 ->
                       [c EXCEPT !.g.scale = [a \in Axes |-> 1], !.g.scaling = FALSE]
                  [] OTHER -> Use(Require(set, c.axes # {}), Axes)
           n == [a \in Axes |-> IF a \in d.axes /\ d.g.scaling
                                THEN d.xyz[a] * d.g.scale[a] ELSE d.xyz[a]]
<1>1. Scaling(c) = [d EXCEPT !.xyz = n]  BY DEF Scaling
<1>2. ASSUME NEW s, NEW b
      PROVE  /\ Shape([c EXCEPT !.g.scale = s, !.g.scaling = b])
             /\ Keeps(c, [c EXCEPT !.g.scale = s, !.g.scaling = b])
  <2> DEFINE e == [c EXCEPT !.g["scale"] = s]
             f == [e EXCEPT !.g["scaling"] = b]
  <2>1. [c EXCEPT !.g.scale = s, !.g.scaling = b] = f  OBVIOUS
  <2>2. Shape(e) /\ Keeps(c, e)  BY StateKeeps DEF Written
  <2> HIDE DEF e
  <2>3. Shape(f) /\ Keeps(e, f)  BY <2>2, StateKeeps DEF Written
  <2> HIDE DEF f
  <2> QED  BY <2>1, <2>2, <2>3, KeepsTransitive
<1>3. ASSUME NEW s, NEW b
      PROVE  /\ Shape([c EXCEPT !.g.scale = s, !.g.scaling = b, !.axes = {}])
             /\ Keeps(c, [c EXCEPT !.g.scale = s, !.g.scaling = b, !.axes = {}])
  <2> DEFINE e == [c EXCEPT !.g.scale = s, !.g.scaling = b]
             f == [e EXCEPT !.axes = {}]
  <2>1. [c EXCEPT !.g.scale = s, !.g.scaling = b, !.axes = {}] = f  OBVIOUS
  <2>2. Shape(e) /\ Keeps(c, e)  BY <1>2
  <2> HIDE DEF e
  <2>3. DOMAIN f = DOMAIN e /\ \A x \in ContextFields \ {"axes"} : f[x] = e[x]
    BY <2>2 DEF Shape
  <2> HIDE DEF f
  <2>4. Shape(f) /\ Keeps(e, f)  BY <2>2, <2>3, WriteKeeps
  <2> QED  BY <2>1, <2>2, <2>4, KeepsTransitive
<1>4. "F" \notin Axes /\ "S" \notin Axes  BY DEF Axes
<1> HIDE DEF n, factors, active
<1>5. Shape(d) /\ Keeps(c, d)
  <2> DEFINE one == [a \in Axes |-> 1]
             p == c.axes # {}
  <2>1. Shape(set) /\ Keeps(c, set)  BY <1>3
  <2>2. /\ Shape([c EXCEPT !.g.scale = one, !.g.scaling = FALSE])
        /\ Keeps(c, [c EXCEPT !.g.scale = one, !.g.scaling = FALSE])
    BY <1>2
  <2>3. Shape(c) /\ Keeps(c, c)  BY KeepsReflexive
  <2>4. /\ Shape(Use(Require(set, p), Axes)) /\ Keeps(c, Use(Require(set, p), Axes))
    <3> HIDE DEF set, p
    <3> QED  BY <2>1, <1>4, UseRequireKeeps
  <2>5. \/ d = c \/ d = [c EXCEPT !.g.scale = one, !.g.scaling = FALSE]
        \/ d = Use(Require(set, p), Axes)
    <3> HIDE DEF set
    <3> QED  OBVIOUS
  <2> HIDE DEF d, set, one, p
  <2> QED  BY <2>1, <2>2, <2>3, <2>4, <2>5
<1> HIDE DEF d
<1> QED  BY <1>1, <1>5, XyzKeeps, KeepsTransitive

LEMMA ToolLengthKeeps ==
    ASSUME NEW c, Shape(c)
    PROVE  Shape(ToolLength(c)) /\ Keeps(c, ToolLength(c))
<1> DEFINE h == IF Given(c, "H") /\ c.v["H"] # 0 THEN c.v["H"] ELSE c.v["T"]
           d == [c EXCEPT !.v["H"] = h]
           p == c.axes # {}
           q == Given(c, "H") => h \in Tools
           r == Given(c, "H") /\ c.v["H"] \in Tools \ {0}
           other == CASE "G8" \notin c.named -> c
                      [] c.m["G8"] = 431 -> Require(c, p)
                      [] c.m["G8"] = 430 -> Use(Require(d, q), {"H"})
                      [] c.m["G8"] = 432 -> Use(Require(c, r), {"H"})
                      [] OTHER -> c
<1>1. ToolLength(c) = other  BY DEF ToolLength
<1>2. Shape(d) /\ Keeps(c, d)  BY ValueKeeps DEF Values
<1>3. Keeps(c, c)  BY KeepsReflexive
<1> HIDE DEF h, d, p, q, r
<1>4. /\ Shape(Require(c, p)) /\ Keeps(c, Require(c, p))
      /\ Shape(Use(Require(d, q), {"H"})) /\ Keeps(c, Use(Require(d, q), {"H"}))
      /\ Shape(Use(Require(c, r), {"H"})) /\ Keeps(c, Use(Require(c, r), {"H"}))
  BY <1>2, <1>3, UseRequireKeeps, RequireAfterKeeps
<1> QED  BY <1>1, <1>3, <1>4

LEMMA CoordSystemKeeps ==
    ASSUME NEW c, Shape(c)
    PROVE  LET d == CoordSystem(c)
           IN /\ Shape(d) /\ Frame(c, d) /\ d.cmd = c.cmd /\ d.v = c.v
              /\ d.wcs = IF c.m["G12"] = c.g.modes["G12"] THEN c.wcs ELSE c.g.stored[c.m["G12"]]
<1>1. CASE c.m["G12"] = c.g.modes["G12"]  BY <1>1 DEF CoordSystem, Frame
<1>2. CASE c.m["G12"] # c.g.modes["G12"]
  <2> DEFINE n == c.g.stored[c.m["G12"]]
             d == [c EXCEPT !.wcs = n]
  <2>1. CoordSystem(c) = d  BY <1>2 DEF CoordSystem
  <2> HIDE DEF n
  <2>2. DOMAIN d = DOMAIN c /\ d.wcs = n /\ \A f \in ContextFields \ {"wcs"} : d[f] = c[f]
    BY DEF Shape, ContextFields
  <2> HIDE DEF d
  <2>3. Shape(d) /\ Frame(c, d) /\ d.cmd = c.cmd /\ d.v = c.v
    BY <2>2 DEF Shape, Frame, ContextFields, StateFields, Fixed
  <2> QED  BY <1>2, <2>1, <2>2, <2>3 DEF n
<1> QED  BY <1>1, <1>2

\* The fields of which SetCoordinateData keeps the result
LEMMA DataKeeps ==
    ASSUME NEW c, Shape(c), NEW i, NEW n
    PROVE  Shape([c EXCEPT !.id = i, !.data = n]) /\ Keeps(c, [c EXCEPT !.id = i, !.data = n])
<1> DEFINE d == [c EXCEPT !.id = i, !.data = n]
<1>1. DOMAIN d = DOMAIN c /\ \A f \in ContextFields \ {"id", "data"} : d[f] = c[f]
  BY Zenon DEF Shape
<1> HIDE DEF d
<1>2. Shape(d) /\ Keeps(c, d)  BY <1>1, WriteKeeps
<1> QED  BY <1>2 DEF d

LEMMA SetCoordinateDataKeeps ==
    ASSUME NEW c, Shape(c)
    PROVE  Shape(SetCoordinateData(c)) /\ Keeps(c, SetCoordinateData(c))
<1> DEFINE p == c.v["P"]
           l == c.v["L"]
           here(a) == c.g.position[a] - c.g.g92[a] - c.xyz[a]
           good == /\ c.axes # {} \/ (l # 20 /\ Given(c, "R"))
                   /\ Given(c, "P") \/ Given(c, "L")
                   /\ p >= 0
                   /\ l \in {2, 20} => System(c) \in Systems
                   /\ l = 2 => ~Given(c, "R")
                   /\ l \in {1, 10} => p \in Tools
                   /\ l \in {1, 2, 10, 20}
           d == Require(c, good)
           offsets == [a \in Axes |->
                          IF a \notin c.axes THEN c.g.stored[System(c)][a]
                          ELSE IF l = 2 THEN c.xyz[a] ELSE here(a) - c.g.tlo[a]]
           tool == [a \in Axes |->
                       IF a \notin c.axes THEN (IF l = 10 THEN c.g.tlo[a] ELSE d.g.table[p][a])
                       ELSE IF l = 1 THEN c.xyz[a] ELSE here(a) - c.g.wcs[a]]
           table == [d.g.table EXCEPT ![p] = tool]
           e == [d EXCEPT !.id = System(c), !.data = offsets]
           f == [d EXCEPT !.g["table"] = table]
<1>1. SetCoordinateData(c) \in {d, Use(e, {"L", "P"}), Use(f, {"L", "P", "R"})}
  BY Zenon DEF SetCoordinateData
<1>2. Shape(d) /\ Keeps(c, d)
  <2> HIDE DEF good
  <2> QED  BY RequireKeeps
<1> HIDE DEF good, d, offsets, table
<1>3. Shape(e) /\ Keeps(d, e)  BY <1>2, DataKeeps
<1>4. Shape(f) /\ Keeps(d, f)  BY <1>2, StateKeeps DEF Written
<1> HIDE DEF e, f
<1>5. Keeps(e, Use(e, {"L", "P"})) /\ Keeps(f, Use(f, {"L", "P", "R"}))  BY <1>3, <1>4, UseKeeps
<1>6. Keeps(c, e) /\ Keeps(c, f)  BY <1>2, <1>3, <1>4, KeepsTransitive
<1> QED  BY <1>1, <1>2, <1>3, <1>4, <1>5, <1>6, KeepsTransitive

LEMMA SetCoordinateOffsetKeeps ==
    ASSUME NEW c, Shape(c)
    PROVE  Shape(SetCoordinateOffset(c)) /\ Keeps(c, SetCoordinateOffset(c))
<1> DEFINE n == [a \in Axes |-> IF a \in c.axes
                                THEN c.g.position[a] - c.wcs[a] - c.xyz[a] - c.g.tlo[a]
                                ELSE c.g.g92[a]]
           d == [c EXCEPT !.xyz = n]
           p == c.axes # {}
<1>1. SetCoordinateOffset(c) = Require(d, p)  BY DEF SetCoordinateOffset
<1> HIDE DEF n
<1>2. Shape(d) /\ Keeps(c, d)  BY XyzKeeps
<1> HIDE DEF d, p
<1> QED  BY <1>1, <1>2, RequireAfterKeeps

LEMMA TargetKeeps ==
    ASSUME NEW c, Shape(c)
    PROVE  Shape(Target(c)) /\ Keeps(c, Target(c))
<1> DEFINE n == [a \in Axes |->
                    IF a \notin c.axes THEN c.g.position[a]
                    ELSE IF c.nm = 530 THEN c.xyz[a]
                    ELSE c.xyz[a] + (IF Incremental(c) THEN c.g.position[a] ELSE BlockOffset(c, a))]
<1>1. Target(c) \in {c, [c EXCEPT !.xyz = n]}  BY DEF Target
<1> HIDE DEF n
<1> QED  BY <1>1, XyzKeeps, KeepsReflexive

LEMMA GoHomeTargetKeeps ==
    ASSUME NEW c, Shape(c)
    PROVE  Shape(GoHomeTarget(c)) /\ Keeps(c, GoHomeTarget(c))
<1> DEFINE home == c.g.stored[c.nm]
           n == [a \in Axes |-> IF a \in c.axes THEN home[a] ELSE c.g.position[a]]
           d == [c EXCEPT !.data = home, !.cmd = "none"]
           e == [c EXCEPT !.data = n]
<1>1. GoHomeTarget(c) \in {d, e}  BY DEF GoHomeTarget
<1> HIDE DEF home, n
<1>2. /\ DOMAIN d = DOMAIN c /\ d.cmd = "none"
      /\ \A f \in ContextFields \ {"data", "cmd"} : d[f] = c[f]
  BY DEF Shape, ContextFields
<1>3. DOMAIN e = DOMAIN c /\ \A f \in ContextFields \ {"data"} : e[f] = c[f]  BY DEF Shape
<1> HIDE DEF d, e
<1>4. Shape(d) /\ Keeps(c, d)
  BY <1>2 DEF Shape, Keeps, Frame, ContextFields, StateFields, Fixed
<1>5. Shape(e) /\ Keeps(c, e)  BY <1>3, WriteKeeps
<1> QED  BY <1>1, <1>4, <1>5

LEMMA NonModalKeeps ==
    ASSUME NEW c, Shape(c)
    PROVE  Shape(NonModal(c)) /\ Keeps(c, NonModal(c))
<1> DEFINE p == Motion(c) \in {0, 10}
<1>1. \/ NonModal(c) = SetCoordinateData(c)
      \/ NonModal(c) = SetCoordinateOffset(c)
      \/ NonModal(c) = GoHomeTarget(Target(c))
      \/ NonModal(c) = Require(Target(c), p)
      \/ NonModal(c) = Target(c)
  BY DEF NonModal
<1>2. Shape(Target(c)) /\ Keeps(c, Target(c))  BY TargetKeeps
<1> HIDE DEF p
<1>3. Shape(GoHomeTarget(Target(c))) /\ Keeps(c, GoHomeTarget(Target(c)))
  BY <1>2, GoHomeTargetKeeps, KeepsTransitive
<1>4. Shape(Require(Target(c), p)) /\ Keeps(c, Require(Target(c), p))
  BY <1>2, RequireAfterKeeps
<1>5. /\ Shape(SetCoordinateData(c)) /\ Keeps(c, SetCoordinateData(c))
      /\ Shape(SetCoordinateOffset(c)) /\ Keeps(c, SetCoordinateOffset(c))
  BY SetCoordinateDataKeeps, SetCoordinateOffsetKeeps
<1> QED  BY <1>1, <1>2, <1>3, <1>4, <1>5

LEMMA EnterCycleKeeps ==
    ASSUME NEW c, Shape(c)
    PROVE  Shape(EnterCycle(c)) /\ Keeps(c, EnterCycle(c))
<1> DEFINE p == Plane(c)
           good == c.change => /\ c.g.modes["G5"] # 930
                               /\ Given(c, "R")
                               /\ p.linear \in c.axes
           d == Require(c, good)
           e == [d EXCEPT !.g["canned"] = [d.g.canned EXCEPT !.xyz[p.axis_0] = 0]]
           f == [e EXCEPT !.g["canned"] = [e.g.canned EXCEPT !.xyz[p.axis_1] = 0]]
           h == [f EXCEPT !.g["canned"] = [f.g.canned EXCEPT !.dwell = 0]]
<1>1. EnterCycle(c) \in {d, h}
  <2> HIDE DEF good
  <2> QED  BY ZenonT(60) DEF EnterCycle, good
<1>2. Shape(d) /\ Keeps(c, d)
  <2> HIDE DEF good
  <2> QED  BY RequireKeeps
<1> HIDE DEF d, p
<1>3. Shape(e) /\ Keeps(d, e)  BY <1>2, StateKeeps DEF Written
<1> HIDE DEF e
<1>4. Shape(f) /\ Keeps(e, f)  BY <1>3, StateKeeps DEF Written
<1> HIDE DEF f
<1>5. Shape(h) /\ Keeps(f, h)  BY <1>4, StateKeeps DEF Written
<1> HIDE DEF h
<1> QED  BY <1>1, <1>2, <1>3, <1>4, <1>5, KeepsTransitive, SMTT(30)

LEMMA CycleHoleKeeps ==
    ASSUME NEW c, Shape(c)
    PROVE  Shape(CycleHole(c)) /\ Keeps(c, CycleHole(c))
<1> DEFINE z == Plane(c).linear
           retract == IF Given(c, "R")
                      THEN InMm(c, c.v["R"]) + (IF Incremental(c) THEN c.g.position[z]
                                                ELSE BlockOffset(c, z))
                      ELSE c.g.canned.retract
           xyz == [a \in Axes |->
                      IF a \notin c.axes THEN c.g.canned.xyz[a]
                      ELSE IF a # z THEN c.xyz[a] - c.g.position[a]
                      ELSE IF Incremental(c) THEN retract + c.xyz[a] - c.g.position[a]
                      ELSE c.xyz[a]]
           n == IF Given(c, "L") THEN c.v["L"] ELSE 1
           good == Given(c, "L") => c.v["L"] > 0
           repeat == [c EXCEPT !.v["L"] = n]
           d == Require(repeat, good)
           e == [d EXCEPT !.g["canned"] = [d.g.canned EXCEPT !.retract = retract]]
           f == [e EXCEPT !.g["canned"] = [e.g.canned EXCEPT !.xyz = xyz]]
           deep == retract >= xyz[z]
<1>1. CycleHole(c) \in {d, Use(Require(f, deep), {"R", "L"})}
  <2> HIDE DEF retract, xyz, good, z
  <2> QED  BY DEF CycleHole, retract, xyz, good, z
<1>2. Shape(repeat) /\ Keeps(c, repeat)
  <2> HIDE DEF n
  <2> QED  BY ValueKeeps DEF Values
<1> HIDE DEF z, retract, xyz, n, good, repeat, deep
<1>3. Shape(d) /\ Keeps(c, d)  BY <1>2, RequireAfterKeeps
<1> HIDE DEF d
<1>4. Shape(e) /\ Keeps(d, e)  BY <1>3, StateKeeps DEF Written
<1> HIDE DEF e
<1>5. Shape(f) /\ Keeps(e, f)  BY <1>4, StateKeeps DEF Written
<1> HIDE DEF f
<1>6. Keeps(c, f)  BY <1>3, <1>4, <1>5, KeepsTransitive
<1> QED  BY SMTT(30), <1>1, <1>3, <1>5, <1>6, UseRequireKeeps

LEMMA CycleKindKeeps ==
    ASSUME NEW c, Shape(c)
    PROVE  Shape(CycleKind(c)) /\ Keeps(c, CycleKind(c))
<1> DEFINE peck  == Motion(c) \in {730, 830}
           dwell == Motion(c) \in {820, 840, 860, 890}
           depth == c.g.canned.retract - c.g.canned.xyz[Plane(c).linear]
           good == /\ peck => IF Given(c, "Q") THEN c.v["Q"] > 0 ELSE ~c.change
                   /\ dwell => IF Given(c, "P") THEN c.v["P"] >= 0 ELSE ~c.change
           d == Require(c, good)
           delta == IF Given(c, "Q") THEN InMm(c, c.v["Q"]) ELSE d.g.canned.delta
           wait == IF dwell /\ Given(c, "P") THEN c.v["P"] ELSE d.g.canned.dwell
           letters == IF dwell THEN {"P"} ELSE {}
           pecked == [d EXCEPT !.g.canned.delta = delta, !.g.canned.dwell = 1]
           drilled == [d EXCEPT !.g.canned.delta = depth, !.g.canned.dwell = wait]
<1>1. \/ CycleKind(c) = d
      \/ CycleKind(c) = Use(pecked, {"Q"})
      \/ CycleKind(c) = Use(drilled, letters)
  <2>1. [d EXCEPT !.g.canned.delta = depth, !.g.canned.dwell = wait]
          = [d EXCEPT !.g.canned.delta = depth,
                      !.g.canned.dwell = IF dwell /\ Given(c, "P") THEN c.v["P"] ELSE @]
    <3> HIDE DEF good, dwell, depth, d
    <3> QED  OBVIOUS
  <2>2. [d EXCEPT !.g.canned.delta = delta, !.g.canned.dwell = 1]
          = [d EXCEPT !.g.canned.delta = IF Given(c, "Q") THEN InMm(c, c.v["Q"]) ELSE @,
                      !.g.canned.dwell = 1]
    BY SMTT(30)
  <2> DEFINE kind ==
               CASE ~d.ok \/ Motion(c) \notin Cycles -> d
                 [] d.ok /\ peck ->
                      Use([d EXCEPT !.g.canned.delta = IF Given(c, "Q") THEN InMm(c, c.v["Q"]) ELSE @,
                                    !.g.canned.dwell = 1], {"Q"})
                 [] OTHER ->
                      Use([d EXCEPT !.g.canned.delta = depth,
                                    !.g.canned.dwell = IF dwell /\ Given(c, "P") THEN c.v["P"] ELSE @],
                          letters)
  <2>3. CycleKind(c) = kind  BY Zenon DEF CycleKind
  <2> HIDE DEF d, peck, dwell, depth, letters
  <2> QED  BY <2>1, <2>2, <2>3
<1>2. Shape(d) /\ Keeps(c, d)
  <2> HIDE DEF good
  <2> QED  BY RequireKeeps
<1>3. "F" \notin letters /\ "S" \notin letters  OBVIOUS
<1> HIDE DEF peck, dwell, depth, good, d, delta, wait, letters
<1>4. ASSUME NEW m, NEW n
      PROVE  /\ Shape([d EXCEPT !.g.canned.delta = m, !.g.canned.dwell = n])
             /\ Keeps(c, [d EXCEPT !.g.canned.delta = m, !.g.canned.dwell = n])
  <2> DEFINE e == [d EXCEPT !.g["canned"] = [d.g.canned EXCEPT !.delta = m]]
             f == [e EXCEPT !.g["canned"] = [e.g.canned EXCEPT !.dwell = n]]
  <2>1. [d EXCEPT !.g.canned.delta = m, !.g.canned.dwell = n] = f  OBVIOUS
  <2>2. Shape(e) /\ Keeps(d, e)  BY <1>2, StateKeeps DEF Written
  <2> HIDE DEF e
  <2>3. Shape(f) /\ Keeps(e, f)  BY <2>2, StateKeeps DEF Written
  <2> HIDE DEF f
  <2> QED  BY <1>2, <2>1, <2>2, <2>3, KeepsTransitive
<1>5. Shape(pecked) /\ Keeps(c, pecked) /\ Shape(drilled) /\ Keeps(c, drilled)  BY <1>4
<1> HIDE DEF pecked, drilled
<1>6. Keeps(pecked, Use(pecked, {"Q"})) /\ Shape(Use(pecked, {"Q"}))  BY <1>5, UseKeeps
<1>7. Keeps(drilled, Use(drilled, letters)) /\ Shape(Use(drilled, letters))
  BY <1>3, <1>5, UseKeeps
<1> QED  BY <1>1, <1>2, <1>5, <1>6, <1>7, KeepsTransitive

LEMMA CycleKeeps ==
    ASSUME NEW c, Shape(c)
    PROVE  Shape(Cycle(c)) /\ Keeps(c, Cycle(c))
<1> DEFINE d == EnterCycle(c)
           e == IF d.ok THEN CycleHole(d) ELSE d
<1>1. Cycle(c) \in {e, CycleKind(e)}  BY DEF Cycle
<1>2. Shape(d) /\ Keeps(c, d)  BY EnterCycleKeeps
<1> HIDE DEF d
<1>3. Shape(e) /\ Keeps(c, e)  BY <1>2, CycleHoleKeeps, KeepsTransitive
<1> HIDE DEF e
<1> QED  BY <1>1, <1>3, CycleKindKeeps, KeepsTransitive

LEMMA ArcKeeps ==
    ASSUME NEW c, Shape(c)
    PROVE  Shape(Arc(c)) /\ Keeps(c, Arc(c))
<1>1. ASSUME NEW n, NEW p, NEW letters, letters \in {{"P", "R"}, {"P", "I", "J", "K"}}
      PROVE  LET d == Use(Require(Require(c, n), p), letters) IN Shape(d) /\ Keeps(c, d)
  <2>1. Shape(Require(c, n)) /\ Keeps(c, Require(c, n))  BY RequireKeeps
  <2>2. "F" \notin letters /\ "S" \notin letters  BY <1>1
  <2> QED  BY <2>1, <2>2, UseRequireKeeps
<1> DEFINE p  == Plane(c)
           letter == [X |-> "I", Y |-> "J", Z |-> "K"]
           factor(a) == IF c.g.scaling THEN c.g.scale[a] ELSE 1
           x  == c.xyz[p.axis_0] - c.g.position[p.axis_0]
           y  == c.xyz[p.axis_1] - c.g.position[p.axis_1]
           i  == InMm(c, c.v[letter[p.axis_0]]) * factor(p.axis_0)
           j  == InMm(c, c.v[letter[p.axis_1]]) * factor(p.axis_1)
           f0 == factor(p.axis_0)
           f1 == factor(p.axis_1)
           r  == InMm(c, c.v["R"]) * (IF f0 > f1 THEN f0 ELSE f1)
           named == /\ c.axes \cap {p.axis_0, p.axis_1} # {}
                    /\ Given(c, "P") => c.v["P"] > 0
           radius == c.xyz # c.g.position /\ 4 * r * r >= x * x + y * y
           centre == /\ c.ijk \cap {letter[p.axis_0], letter[p.axis_1]} # {}
                     /\ (x - i) * (x - i) + (y - j) * (y - j) = i * i + j * j
           d == Require(c, named)
<1>2. \/ Arc(c) = Use(Require(d, radius), {"P", "R"})
      \/ Arc(c) = Use(Require(d, centre), {"P", "I", "J", "K"})
  BY Zenon DEF Arc
<1> HIDE DEF named, radius, centre
<1> QED  BY <1>1, <1>2

LEMMA SplineKeeps ==
    ASSUME NEW c, Shape(c)
    PROVE  Shape(Spline(c)) /\ Keeps(c, Spline(c))
<1> DEFINE flat == c.m["G2"] = 170 /\ c.axes \subseteq {"X", "Y"}
           d == Require(c, flat)
           cubic == /\ Given(c, "P") /\ Given(c, "Q")
                    /\ Motion(c) # c.g.modes["G1"] => Given(c, "I") /\ Given(c, "J")
           quadratic == Given(c, "I") /\ Given(c, "J") /\ c.v["I"] # 0
<1>1. \/ Spline(c) = Use(Require(d, cubic), {"P", "Q", "I", "J"})
      \/ Spline(c) = Use(Require(d, quadratic), {"I", "J"})
  BY Zenon DEF Spline
<1> HIDE DEF flat, cubic, quadratic
<1>2. Shape(d) /\ Keeps(c, d)  BY RequireKeeps
<1> HIDE DEF d
<1> QED  BY <1>1, <1>2, UseRequireKeeps

LEMMA RetractModeKeeps ==
    ASSUME NEW c, Shape(c), NEW n
    PROVE  Shape([c EXCEPT !.m["G10"] = n]) /\ Keeps(c, [c EXCEPT !.m["G10"] = n])
<1> DEFINE m == [c.m EXCEPT !["G10"] = n]
           d == [c EXCEPT !.m = m]
<1>1. [c EXCEPT !.m["G10"] = n] = d  OBVIOUS
<1>2. DOMAIN m = ModeGroups /\ \A x \in ModeGroups \ {"G10"} : m[x] = c.m[x]
  BY DEF Shape, ModeGroups
<1> HIDE DEF m
<1>3. DOMAIN d = DOMAIN c /\ d.m = m /\ \A f \in ContextFields \ {"m"} : d[f] = c[f]
  BY DEF Shape, ContextFields
<1> HIDE DEF d
<1>4. Shape(d) /\ Keeps(c, d)
  BY <1>2, <1>3 DEF Shape, Keeps, Frame, ContextFields, StateFields, Fixed
<1> QED  BY <1>1, <1>4

LEMMA NoCommandKeeps ==
    ASSUME NEW c, Shape(c)
    PROVE  Shape([c EXCEPT !.cmd = "none"]) /\ Keeps(c, [c EXCEPT !.cmd = "none"])
<1> DEFINE d == [c EXCEPT !.cmd = "none"]
<1>1. /\ DOMAIN d = DOMAIN c /\ d.cmd = "none"
      /\ \A f \in ContextFields \ {"cmd"} : d[f] = c[f]
  BY DEF Shape, ContextFields
<1> HIDE DEF d
<1>2. Shape(d) /\ Keeps(c, d)
  BY <1>1 DEF Shape, Keeps, Frame, ContextFields, StateFields, Fixed
<1> QED  BY <1>2 DEF d

LEMMA FeedMotionKeeps ==
    ASSUME NEW c, Shape(c)
    PROVE  Shape(FeedMotion(c)) /\ Keeps(c, FeedMotion(c))
<1> DEFINE n == IF c.cycle THEN c.m["G10"] ELSE 980
           p == Motion(c) \notin {330, 760} /\ c.v["F"] # 0
           e == [c EXCEPT !.m["G10"] = n]
           d == Require(e, p)
           q == c.axes # {} /\ c.xyz # c.g.position
<1>1. [c EXCEPT !.m["G10"] = IF c.cycle THEN @ ELSE 980] = e  OBVIOUS
<1>2. \/ FeedMotion(c) \in {d, Cycle(d), Arc(d), Spline(d), [d EXCEPT !.cmd = "none"]}
      \/ FeedMotion(c) = Require(d, q)
  BY <1>1 DEF FeedMotion
<1>3. Shape(e) /\ Keeps(c, e)
  <2> HIDE DEF n
  <2> QED  BY RetractModeKeeps
<1> HIDE DEF e, p, q
<1>4. Shape(d) /\ Keeps(c, d)  BY <1>3, RequireAfterKeeps
<1> HIDE DEF d
<1>5. /\ Shape(Cycle(d)) /\ Keeps(c, Cycle(d))
      /\ Shape(Arc(d)) /\ Keeps(c, Arc(d))
      /\ Shape(Spline(d)) /\ Keeps(c, Spline(d))
  BY <1>4, CycleKeeps, ArcKeeps, SplineKeeps, KeepsTransitive
<1>6. Shape([d EXCEPT !.cmd = "none"]) /\ Keeps(c, [d EXCEPT !.cmd = "none"])
  BY <1>4, NoCommandKeeps, KeepsTransitive
<1>7. Shape(Require(d, q)) /\ Keeps(c, Require(d, q))  BY <1>4, RequireAfterKeeps
<1> QED  BY <1>2, <1>4, <1>5, <1>6, <1>7

LEMMA MotionModeKeeps ==
    ASSUME NEW c, Shape(c)
    PROVE  Shape(MotionMode(c)) /\ Keeps(c, MotionMode(c))
<1> DEFINE p == c.axes # {} => c.cmd = "nonmodal"
           d == [c EXCEPT !.m["G10"] = 980]
<1>1. \/ MotionMode(c) = Require(d, p)
      \/ MotionMode(c) \in {c, [c EXCEPT !.cmd = "none"], FeedMotion(c)}
  BY DEF MotionMode
<1>2. Shape(d) /\ Keeps(c, d)  BY RetractModeKeeps
<1> HIDE DEF d, p
<1>3. Shape(Require(d, p)) /\ Keeps(c, Require(d, p))  BY <1>2, RequireAfterKeeps
<1> QED  BY <1>1, <1>3, NoCommandKeeps, FeedMotionKeeps, KeepsReflexive

LEMMA UnusedKeeps ==
    ASSUME NEW c, Shape(c)
    PROVE  Shape(Unused(c)) /\ Keeps(c, Unused(c))
<1> DEFINE taken == {"N", "F"} \cup (IF c.jog THEN {} ELSE {"S", "T"})
                    \cup (IF c.cmd # "none" THEN Axes ELSE {})
           p == /\ c.left \subseteq taken
                /\ c.jog => /\ c.named \subseteq {"G0", "G3", "G6", "State"}
                            /\ c.nm \in {0, 530}
<1>1. Unused(c) = Require(c, p)  BY Zenon DEF Unused
<1> HIDE DEF p
<1> QED  BY <1>1, RequireKeeps

-----------------------------------------------------------------------------
(* The first checks, which settle the command, the feed rate and the speed *)

LEMMA CommonFrame ==
    ASSUME NEW c, Shape(c)
    PROVE  LET d == Common(c)
           IN /\ Shape(d) /\ Frame(c, d) /\ d.v = c.v /\ d.wcs = c.wcs /\ d.left = c.left
              /\ d.cmd = "motion" => c.cmd = "motion" \/ c.axes # {}
<1> DEFINE cmd == IF c.axes # {} /\ c.cmd = "none" THEN "motion" ELSE c.cmd
           p == c.g.toolChange /\ cmd = "motion" => c.jog
           e == [c EXCEPT !.cmd = cmd]
           d == Require(e, p)
<1>1. Common(c) = d  BY Zenon DEF Common
<1>2. cmd = "motion" => c.cmd = "motion" \/ c.axes # {}  OBVIOUS
<1> HIDE DEF cmd, p
<1>3. DOMAIN e = DOMAIN c /\ e.cmd = cmd /\ \A f \in ContextFields \ {"cmd"} : e[f] = c[f]
  BY DEF Shape, ContextFields
<1> HIDE DEF e
<1>4. DOMAIN d = DOMAIN e /\ \A f \in DOMAIN e \ {"ok"} : d[f] = e[f]  BY RequireFields
<1> HIDE DEF d
<1>5. Shape(d) /\ Frame(c, d) /\ d.v = c.v /\ d.wcs = c.wcs /\ d.left = c.left /\ d.cmd = cmd
  BY <1>3, <1>4 DEF Shape, Frame, ContextFields, StateFields, Fixed
<1> QED  BY <1>1, <1>2, <1>5

LEMMA FeedRateFrame ==
    ASSUME NEW c, Shape(c)
    PROVE  LET d == FeedRate(c)
           IN /\ Shape(d) /\ Frame(c, d) /\ d.wcs = c.wcs /\ d.cmd = c.cmd /\ d.left = c.left
              /\ "F" \notin c.left => d.v["F"] = LastFeed(c)
              /\ d.v["S"] = c.v["S"]
<1> DEFINE f == CASE Given(c, "F") /\ c.m["G5"] = 930 -> c.v["F"]
                  [] Given(c, "F") -> InMm(c, c.v["F"])
                  [] OTHER -> LastFeed(c)
           p == /\ c.m["G5"] # 950
                /\ c.jog => Given(c, "F")
                /\ c.m["G5"] = 930 /\ c.cmd = "motion" /\ Motion(c) \notin {0, 800}
                      => Given(c, "F")
           v == [c.v EXCEPT !["F"] = f]
           e == [c EXCEPT !.v = v]
           d == Require(e, p)
<1>1. FeedRate(c) = d
  <2>1. e = [c EXCEPT !.v["F"] = f]  OBVIOUS
  <2>2. FeedRate(c) = Require([c EXCEPT !.v["F"] = f], p)  BY Zenon DEF FeedRate
  <2> HIDE DEF e, f, p
  <2> QED  BY <2>1, <2>2
<1>2. "F" \notin c.left => f = LastFeed(c)  BY DEF Given
<1> HIDE DEF f, p
<1>3. DOMAIN v = Values /\ v["F"] = f /\ v["S"] = c.v["S"]  BY DEF Shape, Values
<1> HIDE DEF v
<1>4. DOMAIN e = DOMAIN c /\ e.v = v /\ \A x \in ContextFields \ {"v"} : e[x] = c[x]
  BY DEF Shape, ContextFields
<1> HIDE DEF e
<1>5. DOMAIN d = DOMAIN e /\ \A x \in DOMAIN e \ {"ok"} : d[x] = e[x]  BY RequireFields
<1> HIDE DEF d
<1>6. Shape(d) /\ Frame(c, d) /\ d.v = v /\ d.wcs = c.wcs /\ d.left = c.left /\ d.cmd = c.cmd
  BY <1>3, <1>4, <1>5 DEF Shape, Frame, ContextFields, StateFields, Fixed
<1> QED  BY <1>1, <1>2, <1>3, <1>6

LEMMA SpindleSpeedFrame ==
    ASSUME NEW c, Shape(c)
    PROVE  LET d == SpindleSpeed(c)
           IN /\ Shape(d) /\ Frame(c, d) /\ d.wcs = c.wcs /\ d.cmd = c.cmd
              /\ "S" \notin c.left => d.v["S"] = c.g.rpm
              /\ d.v["F"] = c.v["F"]
<1>1. CASE Given(c, "S")  BY <1>1 DEF SpindleSpeed, Given, Frame
<1>2. CASE ~Given(c, "S")
  <2> DEFINE n == c.g.rpm
             v == [c.v EXCEPT !["S"] = n]
             d == [c EXCEPT !.v = v]
  <2>1. SpindleSpeed(c) = d  BY <1>2 DEF SpindleSpeed
  <2> HIDE DEF n
  <2>2. DOMAIN v = Values /\ v["S"] = n /\ v["F"] = c.v["F"]  BY DEF Shape, Values
  <2> HIDE DEF v
  <2>3. DOMAIN d = DOMAIN c /\ d.v = v /\ \A x \in ContextFields \ {"v"} : d[x] = c[x]
    BY DEF Shape, ContextFields
  <2> HIDE DEF d
  <2>4. Shape(d) /\ Frame(c, d) /\ d.wcs = c.wcs /\ d.cmd = c.cmd
    BY <2>2, <2>3 DEF Shape, Frame, ContextFields, StateFields, Fixed
  <2> QED  BY <2>1, <2>2, <2>3, <2>4 DEF n
<1> QED  BY <1>1, <1>2

-----------------------------------------------------------------------------
(* The checks together *)

\* What the context c of a block b, checked in the state s, says of both.
Passed(s, b, jog, c) ==
    LET before == Context(s, b, jog)
    IN /\ Shape(c)
       /\ \A f \in StateFields \ Written : c.g[f] = s[f]
       /\ \A x \in ModeGroups \ {"G10"} : c.m[x] = before.m[x]
       /\ \A f \in Fixed : c[f] = before[f]
       /\ c.cmd = "motion" => b.cmd = "motion" \/ Axes \cap b.letters # {}
       /\ c.ok => /\ "F" \notin b.letters => c.v["F"] = LastFeed(before)
                  /\ "F" \in c.left <=> "F" \in b.letters
                  /\ "S" \notin b.letters => c.v["S"] = s.rpm
                  /\ c.wcs = IF before.m["G12"] = s.modes["G12"] THEN s.wcs
                             ELSE s.stored[before.m["G12"]]

LEMMA ContextShape ==
    ASSUME NEW s, DOMAIN s = StateFields, NEW b, DOMAIN b.v = Values, NEW jog
    PROVE  Shape(Context(s, b, jog))
BY DEF Context, Shape, ContextFields

LEMMA CheckedPassed ==
    ASSUME NEW s, DOMAIN s = StateFields, NEW b, DOMAIN b.v = Values, NEW jog
    PROVE  Passed(s, b, jog, Checked(s, b, jog))
<1> DEFINE c0 == Context(s, b, jog)
           c1 == Then(Common, c0)
           c2 == Then(FeedRate, c1)
           c3 == Then(SpindleSpeed, c2)
           c4 == Then(SelectTool, c3)
           c5 == Then(OutputPort, c4)
           c6 == Then(OverrideControl, c5)
           c7 == Then(Dwell, c6)
           c8 == Then(Units, c7)
           c9 == Then(Scaling, c8)
           c10 == Then(ToolLength, c9)
           c11 == Then(CoordSystem, c10)
           c12 == Then(NonModal, c11)
           c13 == Then(MotionMode, c12)
           c14 == Then(Unused, c13)
<1>0. Checked(s, b, jog) = c14  BY Zenon DEF Checked, Settled, Referred
<1>1. /\ Shape(c0) /\ c0.g = s /\ c0.cmd = b.cmd /\ c0.left = b.letters
      /\ c0.axes = Axes \cap b.letters /\ c0.wcs = s.wcs
  BY ContextShape DEF Context
<1> HIDE DEF c0, c1, c2, c3, c4, c5, c6, c7, c8, c9, c10, c11, c12, c13, c14
<1>2. /\ Shape(c1) /\ Frame(c0, c1) /\ c1.v = c0.v /\ c1.wcs = c0.wcs /\ c1.left = c0.left
      /\ c1.cmd = "motion" => c0.cmd = "motion" \/ c0.axes # {}
      /\ c1.ok => c0.ok
  BY <1>1, CommonFrame DEF Then, c1, Frame
<1>3. /\ Shape(c2) /\ Frame(c1, c2) /\ c2.wcs = c1.wcs /\ c2.cmd = c1.cmd /\ c2.left = c1.left
      /\ c2.v["S"] = c1.v["S"]
      /\ c2.ok => c1.ok /\ ("F" \notin c1.left => c2.v["F"] = LastFeed(c1))
  BY <1>2, FeedRateFrame DEF Then, c2, Frame
<1>4. /\ Shape(c3) /\ Frame(c2, c3) /\ c3.wcs = c2.wcs /\ c3.cmd = c2.cmd
      /\ c3.v["F"] = c2.v["F"]
      /\ c3.ok => c2.ok /\ ("S" \notin c2.left => c3.v["S"] = c2.g.rpm)
  BY <1>3, SpindleSpeedFrame DEF Then, c3, Frame
<1>5. Shape(c4) /\ Keeps(c3, c4) /\ (c4.ok => c3.ok)
  BY <1>4, SelectToolKeeps, KeepsReflexive DEF Then, c4
<1>6. Shape(c5) /\ Keeps(c4, c5) /\ (c5.ok => c4.ok)
  BY <1>5, OutputPortKeeps, KeepsReflexive DEF Then, c5
<1>7. Shape(c6) /\ Keeps(c5, c6) /\ (c6.ok => c5.ok)
  BY <1>6, OverrideControlKeeps, KeepsReflexive DEF Then, c6
<1>8. Shape(c7) /\ Keeps(c6, c7) /\ (c7.ok => c6.ok)
  BY <1>7, DwellKeeps, KeepsReflexive DEF Then, c7
<1>9. Shape(c8) /\ Keeps(c7, c8) /\ (c8.ok => c7.ok)
  BY <1>8, UnitsKeeps, KeepsReflexive DEF Then, c8
<1>10. Shape(c9) /\ Keeps(c8, c9) /\ (c9.ok => c8.ok)
  BY <1>9, ScalingKeeps, KeepsReflexive DEF Then, c9
<1>11. Shape(c10) /\ Keeps(c9, c10) /\ (c10.ok => c9.ok)
  BY <1>10, ToolLengthKeeps, KeepsReflexive DEF Then, c10
<1>12. /\ Shape(c11) /\ Frame(c10, c11) /\ c11.cmd = c10.cmd /\ c11.v = c10.v
       /\ c11.ok => /\ c10.ok
                    /\ c11.wcs = IF c10.m["G12"] = c10.g.modes["G12"] THEN c10.wcs
                                 ELSE c10.g.stored[c10.m["G12"]]
  BY <1>11, CoordSystemKeeps DEF Then, c11, Frame
<1>13. Shape(c12) /\ Keeps(c11, c12) /\ (c12.ok => c11.ok)
  BY <1>12, NonModalKeeps, KeepsReflexive DEF Then, c12
<1>14. Shape(c13) /\ Keeps(c12, c13) /\ (c13.ok => c12.ok)
  BY <1>13, MotionModeKeeps, KeepsReflexive DEF Then, c13
<1>15. Shape(c14) /\ Keeps(c13, c14) /\ (c14.ok => c13.ok)
  BY <1>14, UnusedKeeps, KeepsReflexive DEF Then, c14
\* From the settled speed to the coordinate system, and from there on
<1>16. Keeps(c3, c10) /\ (c10.ok => c3.ok)
  <2>1. Keeps(c3, c5)  BY <1>4, <1>5, <1>6, KeepsTransitive
  <2>2. Keeps(c3, c6)  BY <2>1, <1>4, <1>7, KeepsTransitive
  <2>3. Keeps(c3, c7)  BY <2>2, <1>4, <1>8, KeepsTransitive
  <2>4. Keeps(c3, c8)  BY <2>3, <1>4, <1>9, KeepsTransitive
  <2>5. Keeps(c3, c9)  BY <2>4, <1>4, <1>10, KeepsTransitive
  <2> QED  BY <2>5, <1>4, <1>5, <1>6, <1>7, <1>8, <1>9, <1>10, <1>11, KeepsTransitive
<1>17. Keeps(c11, c14) /\ (c14.ok => c11.ok)
  <2>1. Keeps(c11, c13)  BY <1>12, <1>13, <1>14, KeepsTransitive
  <2> QED  BY <2>1, <1>12, <1>13, <1>14, <1>15, KeepsTransitive
<1>18. ASSUME NEW f \in StateFields \ Written
       PROVE  /\ c1.g[f] = s[f] /\ c2.g[f] = s[f] /\ c3.g[f] = s[f] /\ c10.g[f] = s[f]
              /\ c14.g[f] = s[f]
  BY <1>1, <1>2, <1>3, <1>4, <1>12, <1>16, <1>17 DEF Keeps, Frame
<1>19. ASSUME NEW x \in ModeGroups \ {"G10"}
       PROVE  c1.m[x] = c0.m[x] /\ c10.m[x] = c0.m[x] /\ c14.m[x] = c0.m[x]
  BY <1>2, <1>3, <1>4, <1>12, <1>16, <1>17 DEF Keeps, Frame
<1>20. ASSUME NEW f \in Fixed
       PROVE  c14[f] = c0[f]
  BY <1>2, <1>3, <1>4, <1>12, <1>16, <1>17 DEF Keeps, Frame
<1>21. c14.cmd = "motion" => b.cmd = "motion" \/ Axes \cap b.letters # {}
  BY <1>1, <1>2, <1>3, <1>4, <1>12, <1>16, <1>17 DEF Keeps
<1>22. ASSUME c14.ok
       PROVE  /\ "F" \notin b.letters => c14.v["F"] = LastFeed(c0)
              /\ "F" \in c14.left <=> "F" \in b.letters
              /\ "S" \notin b.letters => c14.v["S"] = s.rpm
              /\ c14.wcs = IF c0.m["G12"] = s.modes["G12"] THEN s.wcs ELSE s.stored[c0.m["G12"]]
  <2>1. c2.ok /\ c3.ok /\ c11.ok  BY <1>22, <1>17, <1>16, <1>12, <1>4
  <2>2. c14.v["F"] = c2.v["F"] /\ c14.v["S"] = c3.v["S"]
    BY <1>4, <1>12, <1>16, <1>17 DEF Keeps
  <2>3. LastFeed(c1) = LastFeed(c0)
    <3>1. /\ c1.g["feed"] = c0.g["feed"] /\ c1.g["modes"] = c0.g["modes"]
          /\ c1.m["G5"] = c0.m["G5"]
      BY <1>1, <1>18, <1>19 DEF StateFields, Written, ModeGroups
    <3> QED  BY <3>1 DEF LastFeed
  <2>4. "F" \in c14.left <=> "F" \in b.letters
    BY <1>1, <1>2, <1>3, <1>4, <1>12, <1>16, <1>17 DEF Keeps, Frame
  <2>5. c2.g["rpm"] = s["rpm"]  BY <1>18 DEF StateFields, Written
  <2>6. /\ c10.m["G12"] = c0.m["G12"] /\ c10.g["modes"] = s["modes"]
        /\ c10.g["stored"] = s["stored"] /\ c10.wcs = s.wcs
    BY <1>1, <1>2, <1>3, <1>4, <1>16, <1>18, <1>19 DEF StateFields, Written, ModeGroups, Keeps
  <2>7. c14.wcs = c11.wcs  BY <1>17 DEF Keeps
  <2> QED  BY <1>1, <1>2, <1>3, <1>4, <1>12, <2>1, <2>2, <2>3, <2>4, <2>5, <2>6, <2>7
<1> QED
  <2>1. Passed(s, b, jog, c14)
    BY <1>15, <1>18, <1>19, <1>20, <1>21, <1>22 DEF Passed, c0
  <2> QED  BY <2>1, <1>0

-----------------------------------------------------------------------------
(* What holds of the parser's state, and of a context that is executed *)

StateShape(s) ==
    /\ DOMAIN s = StateFields
    /\ DOMAIN s.modes = ModeGroups /\ s.modes["G12"] \in Systems
    /\ DOMAIN s.stored = Stored
    /\ s.snapshot.saved => /\ DOMAIN s.snapshot.modes = ModeGroups
                           /\ s.snapshot.modes["G12"] \in Systems

\* The offsets, also those that M72 would restore, are the stored ones.
StateCoords(lines, s) ==
    /\ s.wcs = s.stored[s.modes["G12"]]
    /\ WritesNone(lines) /\ s.snapshot.saved => s.snapshot.wcs = s.stored[s.snapshot.modes["G12"]]

\* The feed rate, also the one that M72 would restore, was given in its mode.
StateFed(s) ==
    /\ s.feed # 0 => s.fed = s.modes["G5"]
    /\ s.snapshot.saved /\ s.snapshot.feed # 0 => s.snapshot.fed = s.snapshot.modes["G5"]

\* The motion modes that programs in which MovesAlone holds may be in
Moves(lines, mode) == mode \notin Cycles \ Drills /\ (NoCycles(lines) => mode \notin Cycles)

StatePlace(lines, s, end) == s.position = end /\ Moves(lines, s.modes["G1"])

RunShape(c) ==
    /\ DOMAIN c = ContextFields
    /\ DOMAIN c.m = ModeGroups /\ c.m["G12"] \in Systems
    /\ StateShape(c.g)

RunCoords(lines, c) ==
    /\ StateCoords(lines, c.g)
    /\ c.wcs = c.g.stored[c.m["G12"]]
    /\ c.state = 72 => WritesNone(lines)
    /\ c.nm = 100 => ~WritesNone(lines)

RunFed(c) ==
    /\ StateFed(c.g)
    /\ c.flow \in {2, 30} => c.state # 72 /\ (c.g.feed # 0 => c.g.fed = 940)

\* A block that is executed after a stop does not go home and does not drill.
Alone(lines, c) == c.nm \notin GoHome /\ (NoCycles(lines) \/ c.cmd # "motion")

RunPlace(lines, c) ==
    /\ StatePlace(lines, c.g, c.planned)
    /\ Moves(lines, c.m["G1"])
    /\ c.cut \notin {"home", "drill"}
    /\ c.cancel \/ c.named \cap {"M6", "M7", "M8", "M9"} # {} \/ c.nm = 40 => Alone(lines, c)

\* The modes are those before the block, or those that the block selects.
RunModes(old, c) ==
    ~c.cancel /\ c.state # 72 => \A x \in ModeGroups : c.g.modes[x] \in {old[x], c.m[x]}

\* The fields that execution only reads
Read == ContextFields \ {"g", "planned", "cancel", "xyz"}

Same(c, d) == DOMAIN d = DOMAIN c /\ \A f \in Read : d[f] = c[f]

\* A stage of the execution keeps all this.
Stage(lines, old, c, d) ==
    /\ Same(c, d)
    /\ RunShape(d)
    /\ RunCoords(lines, c) => RunCoords(lines, d)
    /\ RunFed(c) => RunFed(d)
    /\ RunPlace(lines, c) => RunPlace(lines, d)
    /\ RunModes(old, c) => RunModes(old, d)

LEMMA StageTransitive ==
    ASSUME NEW lines, NEW old, NEW c, NEW d, NEW e,
           Stage(lines, old, c, d), Stage(lines, old, d, e)
    PROVE  Stage(lines, old, c, e)
BY DEF Stage, Same

LEMMA StageReflexive ==
    ASSUME NEW lines, NEW old, NEW c, RunShape(c)
    PROVE  Stage(lines, old, c, c)
BY DEF Stage, Same

\* What an update of the parser's state alone leaves as it is
LEMMA StateUpdate ==
    ASSUME NEW c, RunShape(c), NEW s
    PROVE  LET d == [c EXCEPT !.g = s]
           IN Same(c, d) /\ d.g = s /\ d.planned = c.planned /\ d.cancel = c.cancel
BY DEF RunShape, ContextFields, Same, Read

\* The same for all parts of it that no property is about
Neutral == StateFields \ {"modes", "feed", "fed", "snapshot", "position", "wcs", "stored"}

LEMMA NeutralStage ==
    ASSUME NEW lines, NEW old, NEW c, RunShape(c), NEW s, DOMAIN s = StateFields,
           \A f \in StateFields \ Neutral : s[f] = c.g[f]
    PROVE  Stage(lines, old, c, [c EXCEPT !.g = s])
<1> DEFINE d == [c EXCEPT !.g = s]
<1>1. Same(c, d) /\ d.g = s /\ d.planned = c.planned /\ d.cancel = c.cancel  BY StateUpdate
<1> HIDE DEF d
<1>2. /\ s.modes = c.g.modes /\ s.feed = c.g.feed /\ s.fed = c.g.fed
      /\ s.snapshot = c.g.snapshot /\ s.position = c.g.position /\ s.wcs = c.g.wcs
      /\ s.stored = c.g.stored
  BY DEF Neutral, StateFields
<1>3. /\ d.m = c.m /\ d.state = c.state /\ d.nm = c.nm /\ d.flow = c.flow /\ d.cmd = c.cmd
      /\ d.cut = c.cut /\ d.named = c.named /\ d.wcs = c.wcs
  BY <1>1 DEF Same, Read, ContextFields
<1>4. RunShape(d)  BY <1>1, <1>2, <1>3 DEF RunShape, StateShape, Same
<1>5. RunCoords(lines, c) => RunCoords(lines, d)
  BY <1>1, <1>2, <1>3 DEF RunCoords, StateCoords
<1>6. RunFed(c) => RunFed(d)  BY <1>1, <1>2, <1>3 DEF RunFed, StateFed
<1>7. RunPlace(lines, c) => RunPlace(lines, d)
  BY <1>1, <1>2, <1>3 DEF RunPlace, StatePlace, Alone
<1>8. RunModes(old, c) => RunModes(old, d)  BY <1>1, <1>2, <1>3 DEF RunModes
<1>9. Stage(lines, old, c, d)  BY <1>1, <1>4, <1>5, <1>6, <1>7, <1>8 DEF Stage
<1> QED  BY <1>9 DEF d

-----------------------------------------------------------------------------
(* Restarts and waits *)

LEMMA RestartedFacts ==
    ASSUME NEW s, StateShape(s), NEW keep, NEW at
    PROVE  LET r == Restarted(s, keep, at)
           IN /\ StateShape(r) /\ r.stored = s.stored
              /\ r.modes["G1"] = 0 /\ r.feed = 0 /\ ~r.snapshot.saved
              /\ r.position = at /\ r.wcs = r.stored[r.modes["G12"]]
              /\ keep => r.modes["G12"] = s.modes["G12"]
<1> DEFINE kept == [DefaultModes EXCEPT !["G12"] = s.modes["G12"], !["G8"] = s.modes["G8"]]
           modes == IF keep THEN kept ELSE DefaultModes
           r == Restarted(s, keep, at)
<1>1. /\ DOMAIN DefaultModes = ModeGroups
      /\ DefaultModes["G1"] = 0 /\ DefaultModes["G12"] = 540
  BY DEF DefaultModes, ModeGroups
<1>2. /\ DOMAIN kept = ModeGroups /\ kept["G1"] = 0 /\ kept["G12"] = s.modes["G12"]
  BY <1>1 DEF ModeGroups
<1>3. /\ DOMAIN modes = ModeGroups /\ modes["G1"] = 0 /\ modes["G12"] \in Systems
      /\ keep => modes["G12"] = s.modes["G12"]
  BY <1>1, <1>2, SystemsAssumption DEF StateShape
<1>4. /\ DOMAIN r = StateFields
      /\ r.modes = modes /\ r.feed = 0 /\ r.snapshot = NoSnapshot
      /\ r.position = at /\ r.wcs = s.stored[modes["G12"]] /\ r.stored = s.stored
  BY DEF Restarted, StateFields
<1> HIDE DEF modes, r
<1>5. ~NoSnapshot.saved  BY DEF NoSnapshot
<1>6. StateShape(r)  BY <1>3, <1>4, <1>5 DEF StateShape
<1> QED  BY <1>3, <1>4, <1>5, <1>6 DEF r

\* A wait is passed, or a stop comes and the machine is restarted where it is.
LEMMA WaitFacts ==
    ASSUME NEW c, RunShape(c), NEW point
    PROVE  LET d == Wait(c, point)
               r == Restarted(c.g, TRUE, c.at)
           IN \/ d = c
              \/ /\ c.cut = point /\ Same(c, d)
                 /\ d.g = r /\ d.planned = c.at /\ d.cancel = TRUE
<1> DEFINE r == Restarted(c.g, TRUE, c.at)
           d == [c EXCEPT !.g = r, !.planned = c.at, !.cancel = TRUE]
<1>1. Wait(c, point) = IF c.cut = point THEN d ELSE c  BY Zenon DEF Wait
<1> HIDE DEF r
<1>2. Same(c, d) /\ d.g = r /\ d.planned = c.at /\ d.cancel = TRUE
  BY DEF RunShape, ContextFields, Same, Read
<1> QED  BY <1>1, <1>2 DEF r

LEMMA WaitParts ==
    ASSUME NEW lines, NEW old, NEW c, RunShape(c), NEW point
    PROVE  LET d == Wait(c, point)
           IN /\ Same(c, d)
              /\ RunShape(d)
              /\ RunCoords(lines, c) => RunCoords(lines, d)
              /\ RunFed(c) => RunFed(d)
              /\ RunPlace(lines, c) /\ (point \in {"home", "drill"} \/ Alone(lines, c))
                   => RunPlace(lines, d)
              /\ RunModes(old, c) => RunModes(old, d)
<1> DEFINE d == Wait(c, point)
           r == Restarted(c.g, TRUE, c.at)
<1>1. CASE d = c  BY <1>1 DEF Same
<1>2. CASE c.cut = point /\ Same(c, d) /\ d.g = r /\ d.planned = c.at /\ d.cancel = TRUE
  <2>1. /\ StateShape(r) /\ r.stored = c.g.stored
        /\ r.modes["G1"] = 0 /\ r.feed = 0 /\ ~r.snapshot.saved
        /\ r.position = c.at /\ r.wcs = r.stored[r.modes["G12"]]
    <3>1. StateShape(c.g)  BY DEF RunShape
    <3>2. PICK keep : keep = TRUE  OBVIOUS
    <3> DEFINE q == Restarted(c.g, keep, c.at)
    <3>3. q = r  BY <3>2
    <3>4. /\ StateShape(q) /\ q.stored = c.g.stored
          /\ q.modes["G1"] = 0 /\ q.feed = 0 /\ ~q.snapshot.saved
          /\ q.position = c.at /\ q.wcs = q.stored[q.modes["G12"]]
      BY <3>1, RestartedFacts
    <3> HIDE DEF q, r
    <3> QED  BY <3>3, <3>4
  <2> HIDE DEF d, r
  <2>2. /\ d.m = c.m /\ d.state = c.state /\ d.nm = c.nm /\ d.flow = c.flow /\ d.cmd = c.cmd
        /\ d.cut = c.cut /\ d.named = c.named /\ d.wcs = c.wcs
    BY <1>2 DEF Same, Read, ContextFields
  <2>3. RunShape(d)  BY <1>2, <2>1, <2>2 DEF RunShape, Same
  <2>4. RunCoords(lines, c) => RunCoords(lines, d)
    BY <1>2, <2>1, <2>2 DEF RunCoords, StateCoords
  <2>5. RunFed(c) => RunFed(d)  BY <1>2, <2>1, <2>2 DEF RunFed, StateFed
  <2>6. Moves(lines, 0)  BY DEF Moves, Cycles
  <2>7. RunPlace(lines, c) /\ (point \in {"home", "drill"} \/ Alone(lines, c))
          => RunPlace(lines, d)
    BY <1>2, <2>1, <2>2, <2>6 DEF RunPlace, StatePlace, Alone
  <2>8. RunModes(old, d)  BY <1>2 DEF RunModes
  <2> QED  BY <1>2, <2>3, <2>4, <2>5, <2>7, <2>8 DEF d
<1> QED  BY <1>1, <1>2, WaitFacts

\* A wait before the motion is a stage when the block does not go home or drill.
LEMMA WaitStage ==
    ASSUME NEW lines, NEW old, NEW c, RunShape(c), NEW point,
           RunPlace(lines, c) => point \in {"home", "drill"} \/ Alone(lines, c)
    PROVE  Stage(lines, old, c, Wait(c, point))
BY WaitParts DEF Stage

-----------------------------------------------------------------------------
(* The stages of the execution *)

\* A feed rate that the block does not give is zero, or the last one, in its mode.
GivesFeed(c) ==
    /\ "F" \notin c.left => \/ c.v["F"] = 0
                            \/ /\ c.v["F"] = c.g.feed
                               /\ c.m["G5"] = 940 /\ c.g.modes["G5"] = 940
    /\ c.flow \in {2, 30} => c.state # 72 /\ "F" \notin c.left

LEMMA ExecFeedStage ==
    ASSUME NEW lines, NEW old, NEW c, RunShape(c)
    PROVE  LET d == ExecFeed(c)
           IN /\ Same(c, d) /\ RunShape(d) /\ d.g.rpm = c.g.rpm
              /\ RunCoords(lines, c) => RunCoords(lines, d)
              /\ StateFed(c.g) /\ GivesFeed(c) => RunFed(d)
              /\ RunPlace(lines, c) => RunPlace(lines, d)
              /\ RunModes(old, c) => RunModes(old, d)
<1> DEFINE modes == [c.g.modes EXCEPT !["G5"] = c.m["G5"]]
           fed == IF c.v["F"] = 0 THEN 0 ELSE IF Given(c, "F") THEN c.m["G5"] ELSE c.g.fed
           s == [c.g EXCEPT !.modes = modes, !.feed = c.v["F"], !.fed = fed]
           d == [c EXCEPT !.g = s]
<1>1. ExecFeed(c) = d  BY DEF ExecFeed
<1>2. /\ DOMAIN modes = ModeGroups /\ modes["G5"] = c.m["G5"]
      /\ \A x \in ModeGroups \ {"G5"} : modes[x] = c.g.modes[x]
  BY DEF RunShape, StateShape, ModeGroups
<1>3. /\ c.v["F"] = 0 => fed = 0
      /\ c.v["F"] # 0 => fed = IF "F" \in c.left THEN c.m["G5"] ELSE c.g.fed
  BY DEF Given
<1> HIDE DEF modes, fed
<1>4. /\ DOMAIN s = StateFields /\ s.modes = modes /\ s.feed = c.v["F"] /\ s.fed = fed
      /\ \A f \in StateFields \ {"modes", "feed", "fed"} : s[f] = c.g[f]
  BY DEF RunShape, StateShape, StateFields
<1> HIDE DEF s
<1>5. Same(c, d) /\ d.g = s /\ d.planned = c.planned /\ d.cancel = c.cancel  BY StateUpdate
<1> HIDE DEF d
<1>6. /\ d.m = c.m /\ d.state = c.state /\ d.nm = c.nm /\ d.flow = c.flow /\ d.cmd = c.cmd
      /\ d.cut = c.cut /\ d.named = c.named /\ d.wcs = c.wcs
  BY <1>5 DEF Same, Read, ContextFields
<1>7. /\ s.snapshot = c.g.snapshot /\ s.position = c.g.position /\ s.wcs = c.g.wcs
      /\ s.stored = c.g.stored /\ s.rpm = c.g.rpm
      /\ modes["G12"] = c.g.modes["G12"] /\ modes["G1"] = c.g.modes["G1"]
  BY <1>2, <1>4 DEF StateFields, ModeGroups
<1>8. RunShape(d)  BY <1>2, <1>4, <1>5, <1>6, <1>7 DEF RunShape, StateShape, Same
<1>9. RunCoords(lines, c) => RunCoords(lines, d)
  BY <1>2, <1>4, <1>5, <1>6, <1>7 DEF RunCoords, StateCoords
<1>10. StateFed(c.g) /\ GivesFeed(c) => RunFed(d)
  BY <1>2, <1>3, <1>4, <1>5, <1>6, <1>7 DEF RunFed, StateFed, GivesFeed
<1>11. RunPlace(lines, c) => RunPlace(lines, d)
  BY <1>2, <1>4, <1>5, <1>6, <1>7 DEF RunPlace, StatePlace, Alone
<1>12. RunModes(old, c) => RunModes(old, d)
  BY <1>2, <1>4, <1>5, <1>6 DEF RunModes
<1> QED  BY <1>1, <1>4, <1>5, <1>7, <1>8, <1>9, <1>10, <1>11, <1>12

\* Writing one field of the parser's state that no property is about
LEMMA FieldStage ==
    ASSUME NEW lines, NEW old, NEW c, RunShape(c), NEW f \in Neutral, NEW n
    PROVE  Stage(lines, old, c, [c EXCEPT !.g[f] = n])
<1> DEFINE s == [c.g EXCEPT ![f] = n]
<1>1. [c EXCEPT !.g[f] = n] = [c EXCEPT !.g = s]  OBVIOUS
<1>2. DOMAIN s = StateFields /\ \A x \in StateFields \ Neutral : s[x] = c.g[x]
  BY DEF RunShape, StateShape, Neutral
<1> HIDE DEF s
<1> QED  BY <1>1, <1>2, NeutralStage

LEMMA ExecSpindleSpeedStage ==
    ASSUME NEW lines, NEW old, NEW c, RunShape(c)
    PROVE  LET d == ExecSpindleSpeed(c)
           IN /\ Same(c, d)
              /\ RunShape(d)
              /\ RunCoords(lines, c) => RunCoords(lines, d)
              /\ RunFed(c) => RunFed(d)
              /\ RunPlace(lines, c) /\ (c.g.rpm # c.v["S"] => Alone(lines, c))
                   => RunPlace(lines, d)
              /\ RunModes(old, c) => RunModes(old, d)
<1>1. CASE c.g.rpm = c.v["S"]  BY <1>1 DEF ExecSpindleSpeed, Same
<1>2. CASE c.g.rpm # c.v["S"]
  <2> DEFINE d == IF c.g.modes["M7"] # 5 THEN Wait(c, "rpm") ELSE c
             n == c.v["S"]
             e == [d EXCEPT !.g["rpm"] = n]
  <2>1. ExecSpindleSpeed(c) = e  BY <1>2 DEF ExecSpindleSpeed
  <2> HIDE DEF n
  <2>2. /\ Same(c, d)
        /\ RunShape(d)
        /\ RunCoords(lines, c) => RunCoords(lines, d)
        /\ RunFed(c) => RunFed(d)
        /\ RunPlace(lines, c) /\ Alone(lines, c) => RunPlace(lines, d)
        /\ RunModes(old, c) => RunModes(old, d)
    <3>1. CASE d = c  BY <3>1 DEF Same
    <3>2. CASE d = Wait(c, "rpm")
      <4> HIDE DEF d
      <4> QED  BY <3>2, WaitParts
    <3> QED  BY <3>1, <3>2
  <2> HIDE DEF d
  <2>3. Stage(lines, old, d, e)  BY <2>2, FieldStage DEF Neutral, StateFields
  <2> HIDE DEF e
  <2> QED  BY <1>2, <2>1, <2>2, <2>3 DEF Stage, Same
<1> QED  BY <1>1, <1>2

LEMMA ExecSelectToolStage ==
    ASSUME NEW lines, NEW old, NEW c, RunShape(c)
    PROVE  Stage(lines, old, c, ExecSelectTool(c))
<1>1. CASE c.g.pending = c.v["T"]  BY <1>1, StageReflexive DEF ExecSelectTool
<1>2. CASE c.g.pending # c.v["T"]
  <2> DEFINE tool == IF c.setTool THEN c.v["T"] ELSE c.g.tool
             n == c.v["T"]
             s == [c.g EXCEPT !.pending = n, !.tool = tool]
             d == [c EXCEPT !.g = s]
  <2>1. ExecSelectTool(c) = d  BY <1>2 DEF ExecSelectTool
  <2> HIDE DEF tool, n
  <2>2. DOMAIN s = StateFields /\ \A x \in StateFields \ Neutral : s[x] = c.g[x]
    BY DEF RunShape, StateShape, Neutral
  <2> HIDE DEF s
  <2> QED  BY <2>1, <2>2, NeutralStage
<1> QED  BY <1>1, <1>2

LEMMA ExecToolChangeStage ==
    ASSUME NEW lines, NEW old, NEW c, RunShape(c)
    PROVE  Stage(lines, old, c, ExecToolChange(c))
<1>1. CASE "M6" \notin c.named \/ c.setTool  BY <1>1, StageReflexive DEF ExecToolChange
<1>2. CASE ~("M6" \notin c.named \/ c.setTool)
  <2> DEFINE pending == c.g.pending
             d == Wait(c, "tool")
             s == [d.g EXCEPT !.tool = pending, !.toolChange = TRUE]
             e == [d EXCEPT !.g = s]
  <2>1. ExecToolChange(c) \in {d, e}  BY <1>2 DEF ExecToolChange
  <2>2. RunPlace(lines, c) => Alone(lines, c)  BY <1>2 DEF RunPlace
  <2>3. Stage(lines, old, c, d)  BY <2>2, WaitStage
  <2> HIDE DEF d, pending
  <2>4. DOMAIN s = StateFields /\ \A x \in StateFields \ Neutral : s[x] = d.g[x]
    BY <2>3 DEF Stage, RunShape, StateShape, Neutral
  <2> HIDE DEF s
  <2>5. Stage(lines, old, d, e)  BY <2>3, <2>4, NeutralStage DEF Stage
  <2> HIDE DEF e
  <2> QED  BY <2>1, <2>3, <2>5, StageTransitive
<1> QED  BY <1>1, <1>2

\* Setting a mode that no other state depends on to the block's, or to what it was
LEMMA ModeStage ==
    ASSUME NEW lines, NEW old, NEW c, RunShape(c),
           NEW x \in ModeGroups \ {"G1", "G5", "G12"}, NEW n \in {c.m[x], c.g.modes[x]}
    PROVE  Stage(lines, old, c, [c EXCEPT !.g.modes[x] = n])
<1> DEFINE modes == [c.g.modes EXCEPT ![x] = n]
           s == [c.g EXCEPT !.modes = modes]
           d == [c EXCEPT !.g = s]
<1>1. [c EXCEPT !.g.modes[x] = n] = d  OBVIOUS
<1>2. /\ DOMAIN modes = ModeGroups /\ modes[x] = n
      /\ \A y \in ModeGroups \ {x} : modes[y] = c.g.modes[y]
  BY DEF RunShape, StateShape
<1> HIDE DEF modes
<1>3. /\ DOMAIN s = StateFields /\ s.modes = modes
      /\ \A f \in StateFields \ {"modes"} : s[f] = c.g[f]
  BY DEF RunShape, StateShape, StateFields
<1> HIDE DEF s
<1>4. Same(c, d) /\ d.g = s /\ d.planned = c.planned /\ d.cancel = c.cancel  BY StateUpdate
<1> HIDE DEF d
<1>5. /\ d.m = c.m /\ d.state = c.state /\ d.nm = c.nm /\ d.flow = c.flow /\ d.cmd = c.cmd
      /\ d.cut = c.cut /\ d.named = c.named /\ d.wcs = c.wcs
  BY <1>4 DEF Same, Read, ContextFields
<1>6. /\ s.feed = c.g.feed /\ s.fed = c.g.fed /\ s.snapshot = c.g.snapshot
      /\ s.position = c.g.position /\ s.wcs = c.g.wcs /\ s.stored = c.g.stored
  BY <1>3 DEF StateFields
<1>7. /\ modes["G1"] = c.g.modes["G1"] /\ modes["G5"] = c.g.modes["G5"]
      /\ modes["G12"] = c.g.modes["G12"]
  BY <1>2 DEF ModeGroups
<1>8. RunShape(d)  BY <1>2, <1>3, <1>4, <1>5, <1>6, <1>7 DEF RunShape, StateShape, Same
<1>9. RunCoords(lines, c) => RunCoords(lines, d)
  BY <1>3, <1>4, <1>5, <1>6, <1>7 DEF RunCoords, StateCoords
<1>10. RunFed(c) => RunFed(d)  BY <1>3, <1>4, <1>5, <1>6, <1>7 DEF RunFed, StateFed
<1>11. RunPlace(lines, c) => RunPlace(lines, d)
  BY <1>3, <1>4, <1>5, <1>6, <1>7 DEF RunPlace, StatePlace, Alone
<1>12. RunModes(old, c) => RunModes(old, d)
  BY <1>2, <1>3, <1>4, <1>5 DEF RunModes
<1> QED  BY <1>1, <1>4, <1>8, <1>9, <1>10, <1>11, <1>12 DEF Stage

LEMMA ExecSpindleStage ==
    ASSUME NEW lines, NEW old, NEW c, RunShape(c)
    PROVE  Stage(lines, old, c, ExecSpindle(c))
<1>1. CASE "M7" \notin c.named \/ c.g.modes["M7"] = c.m["M7"]
  BY <1>1, StageReflexive DEF ExecSpindle
<1>2. CASE ~("M7" \notin c.named \/ c.g.modes["M7"] = c.m["M7"])
  <2> DEFINE d == Wait(c, "spindle")
             n == IF d.cancel THEN d.g.modes["M7"] ELSE c.m["M7"]
             e == [d EXCEPT !.g.modes["M7"] = n]
  <2>1. ExecSpindle(c) = e  BY <1>2 DEF ExecSpindle, Unless
  <2>2. RunPlace(lines, c) => Alone(lines, c)  BY <1>2 DEF RunPlace
  <2>3. Stage(lines, old, c, d)  BY <2>2, WaitStage
  <2> HIDE DEF d
  <2>4. d.m = c.m /\ RunShape(d)  BY <2>3 DEF Stage, Same, Read, ContextFields
  <2>5. n \in {d.m["M7"], d.g.modes["M7"]}  BY <2>4
  <2> HIDE DEF n
  <2>6. Stage(lines, old, d, e)  BY <2>4, <2>5, ModeStage DEF ModeGroups
  <2> HIDE DEF e
  <2> QED  BY <2>1, <2>3, <2>6, StageTransitive
<1> QED  BY <1>1, <1>2

LEMMA ExecCoolantStage ==
    ASSUME NEW lines, NEW old, NEW c, RunShape(c)
    PROVE  Stage(lines, old, c, ExecCoolant(c))
<1>1. CASE "M8" \notin c.named \/ c.g.coolant = c.coolant
  BY <1>1, StageReflexive DEF ExecCoolant
<1>2. CASE ~("M8" \notin c.named \/ c.g.coolant = c.coolant)
  <2> DEFINE d == Wait(c, "coolant")
             n == IF d.cancel THEN d.g.coolant ELSE c.coolant
             e == [d EXCEPT !.g["coolant"] = n]
  <2>1. ExecCoolant(c) = e  BY <1>2 DEF ExecCoolant, Unless
  <2>2. RunPlace(lines, c) => Alone(lines, c)  BY <1>2 DEF RunPlace
  <2>3. Stage(lines, old, c, d)  BY <2>2, WaitStage
  <2> HIDE DEF d, n
  <2>4. Stage(lines, old, d, e)  BY <2>3, FieldStage DEF Neutral, StateFields, Stage
  <2> HIDE DEF e
  <2> QED  BY <2>1, <2>3, <2>4, StageTransitive
<1> QED  BY <1>1, <1>2

LEMMA ExecOverridesStage ==
    ASSUME NEW lines, NEW old, NEW c, RunShape(c)
    PROVE  Stage(lines, old, c, ExecOverrides(c))
<1>1. CASE "M9" \notin c.named \/ c.g.off = c.off
  BY <1>1, StageReflexive DEF ExecOverrides
<1>2. CASE ~("M9" \notin c.named \/ c.g.off = c.off)
  <2> DEFINE n == c.off
             d == [c EXCEPT !.g["off"] = n]
             e == Wait(d, "override")
  <2>1. ExecOverrides(c) = e  BY <1>2 DEF ExecOverrides
  <2> HIDE DEF n
  <2>2. Stage(lines, old, c, d)  BY FieldStage DEF Neutral, StateFields
  <2> HIDE DEF d
  <2>3. RunPlace(lines, d) => Alone(lines, d)
    <3>1. d.named = c.named  BY <2>2 DEF Stage, Same, Read, ContextFields
    <3> QED  BY <1>2, <3>1 DEF RunPlace
  <2>4. Stage(lines, old, d, e)  BY <2>2, <2>3, WaitStage DEF Stage
  <2> HIDE DEF e
  <2> QED  BY <2>1, <2>2, <2>4, StageTransitive
<1> QED  BY <1>1, <1>2

LEMMA ExecDwellStage ==
    ASSUME NEW lines, NEW old, NEW c, RunShape(c)
    PROVE  Stage(lines, old, c, ExecDwell(c))
<1>1. CASE c.nm # 40  BY <1>1, StageReflexive DEF ExecDwell
<1>2. CASE c.nm = 40
  <2>1. RunPlace(lines, c) => Alone(lines, c)  BY <1>2 DEF RunPlace
  <2>2. Stage(lines, old, c, Wait(c, "dwell"))  BY <2>1, WaitStage
  <2> QED  BY <1>2, <2>2 DEF ExecDwell
<1> QED  BY <1>1, <1>2

\* M70 saves the modes, M71 forgets them, M72 restores those that were saved.
LEMMA ExecSnapshotStage ==
    ASSUME NEW lines, NEW old, NEW c, RunShape(c)
    PROVE  Stage(lines, old, c, ExecSnapshot(c))
<1> DEFINE new == [saved |-> TRUE, modes |-> c.g.modes, cycle |-> c.g.cycle, feed |-> c.g.feed,
                   fed |-> c.g.fed, rpm |-> c.g.rpm, coolant |-> c.g.coolant, off |-> c.g.off,
                   scaling |-> c.g.scaling, wcs |-> c.g.wcs]
<1>1. ASSUME NEW n,
             \/ ~n.saved
             \/ /\ n.saved /\ n.modes = c.g.modes /\ n.feed = c.g.feed /\ n.fed = c.g.fed
                /\ n.wcs = c.g.wcs
      PROVE  Stage(lines, old, c, [c EXCEPT !.g.snapshot = n])
  <2> DEFINE s == [c.g EXCEPT !.snapshot = n]
             d == [c EXCEPT !.g = s]
  <2>1. [c EXCEPT !.g.snapshot = n] = d  OBVIOUS
  <2>2. /\ DOMAIN s = StateFields /\ s.snapshot = n
        /\ \A f \in StateFields \ {"snapshot"} : s[f] = c.g[f]
    BY DEF RunShape, StateShape, StateFields
  <2> HIDE DEF s
  <2>3. Same(c, d) /\ d.g = s /\ d.planned = c.planned /\ d.cancel = c.cancel  BY StateUpdate
  <2> HIDE DEF d
  <2>4. /\ d.m = c.m /\ d.state = c.state /\ d.nm = c.nm /\ d.flow = c.flow /\ d.cmd = c.cmd
        /\ d.cut = c.cut /\ d.named = c.named /\ d.wcs = c.wcs
    BY <2>3 DEF Same, Read, ContextFields
  <2>5. /\ s.modes = c.g.modes /\ s.feed = c.g.feed /\ s.fed = c.g.fed
        /\ s.position = c.g.position /\ s.wcs = c.g.wcs /\ s.stored = c.g.stored
    BY <2>2 DEF StateFields
  <2>6. RunShape(d)  BY <1>1, <2>2, <2>3, <2>4, <2>5 DEF RunShape, StateShape, Same
  <2>7. RunCoords(lines, c) => RunCoords(lines, d)
    BY <1>1, <2>2, <2>3, <2>4, <2>5 DEF RunCoords, StateCoords
  <2>8. RunFed(c) => RunFed(d)  BY <1>1, <2>2, <2>3, <2>4, <2>5 DEF RunFed, StateFed
  <2>9. RunPlace(lines, c) => RunPlace(lines, d)
    BY <2>3, <2>4, <2>5 DEF RunPlace, StatePlace, Alone
  <2>10. RunModes(old, c) => RunModes(old, d)  BY <2>3, <2>4, <2>5 DEF RunModes
  <2> QED  BY <2>1, <2>3, <2>6, <2>7, <2>8, <2>9, <2>10 DEF Stage
<1>2. CASE c.state = 70
  <2>1. ExecSnapshot(c) = [c EXCEPT !.g.snapshot = new]  BY <1>2 DEF ExecSnapshot
  <2>2. /\ new.saved /\ new.modes = c.g.modes /\ new.feed = c.g.feed /\ new.fed = c.g.fed
        /\ new.wcs = c.g.wcs
    OBVIOUS
  <2> HIDE DEF new
  <2> QED  BY <1>1, <2>1, <2>2
<1>3. CASE c.state = 71
  <2>1. ExecSnapshot(c) = [c EXCEPT !.g.snapshot = NoSnapshot]  BY <1>3 DEF ExecSnapshot
  <2>2. ~NoSnapshot.saved  BY DEF NoSnapshot
  <2> QED  BY <1>1, <2>1, <2>2
<1>4. CASE c.state = 72 /\ c.g.snapshot.saved /\ ~c.cancel
  <2> DEFINE n == c.g.snapshot
             modes == [n.modes EXCEPT !["G1"] = c.g.modes["G1"]]
             s == [c.g EXCEPT !.modes = modes, !.cycle = n.cycle, !.feed = n.feed, !.fed = n.fed,
                              !.rpm = n.rpm, !.coolant = n.coolant, !.off = n.off,
                              !.scaling = n.scaling, !.wcs = n.wcs]
             d == [c EXCEPT !.g = s]
  <2>1. ExecSnapshot(c) = d  BY <1>4 DEF ExecSnapshot
  <2>2. /\ DOMAIN modes = ModeGroups /\ modes["G12"] = n.modes["G12"]
        /\ modes["G5"] = n.modes["G5"] /\ modes["G1"] = c.g.modes["G1"]
    BY <1>4 DEF RunShape, StateShape, ModeGroups
  <2> HIDE DEF modes
  <2>3. /\ DOMAIN s = StateFields
        /\ s.modes = modes /\ s.feed = n.feed /\ s.fed = n.fed /\ s.wcs = n.wcs
        /\ s.snapshot = n /\ s.position = c.g.position /\ s.stored = c.g.stored
    BY DEF RunShape, StateShape, StateFields
  <2> HIDE DEF s
  <2>4. Same(c, d) /\ d.g = s /\ d.planned = c.planned /\ d.cancel = c.cancel  BY StateUpdate
  <2> HIDE DEF d
  <2>5. /\ d.m = c.m /\ d.state = c.state /\ d.nm = c.nm /\ d.flow = c.flow /\ d.cmd = c.cmd
        /\ d.cut = c.cut /\ d.named = c.named /\ d.wcs = c.wcs
    BY <2>4 DEF Same, Read, ContextFields
  <2>6. RunShape(d)  BY <1>4, <2>2, <2>3, <2>4, <2>5 DEF RunShape, StateShape, Same
  <2>7. RunCoords(lines, c) => RunCoords(lines, d)
    BY <1>4, <2>2, <2>3, <2>4, <2>5 DEF RunCoords, StateCoords
  <2>8. RunFed(c) => RunFed(d)  BY <1>4, <2>2, <2>3, <2>4, <2>5 DEF RunFed, StateFed
  <2>9. RunPlace(lines, c) => RunPlace(lines, d)
    BY <2>2, <2>3, <2>4, <2>5 DEF RunPlace, StatePlace, Alone
  <2>10. RunModes(old, d)  BY <1>4, <2>5 DEF RunModes
  <2> QED  BY <2>1, <2>4, <2>6, <2>7, <2>8, <2>9, <2>10 DEF Stage
<1>5. CASE ~(c.state = 70) /\ ~(c.state = 71) /\ ~(c.state = 72 /\ c.g.snapshot.saved /\ ~c.cancel)
  BY <1>5, StageReflexive DEF ExecSnapshot
<1> QED  BY <1>2, <1>3, <1>4, <1>5

LEMMA ExecToolLengthStage ==
    ASSUME NEW lines, NEW old, NEW c, RunShape(c)
    PROVE  Stage(lines, old, c, ExecToolLength(c))
<1>1. CASE "G8" \notin c.named  BY SMTT(30), <1>1, StageReflexive DEF ExecToolLength
<1>2. CASE "G8" \in c.named
  <2> DEFINE tool == c.g.table[c.v["H"]]
             tlo(a) == CASE c.m["G8"] = 490 -> 0
                         [] c.m["G8"] = 430 -> tool[a]
                         [] c.m["G8"] = 432 -> c.g.tlo[a] + tool[a]
                         [] c.m["G8"] = 431 -> IF a \in c.axes THEN c.xyz[a] ELSE c.g.tlo[a]
             n == [a \in Axes |-> tlo(a)]
             d == [c EXCEPT !.g.modes["G8"] = c.m["G8"]]
             e == [d EXCEPT !.g["tlo"] = n]
  <2>1. ExecToolLength(c) = [c EXCEPT !.g.modes["G8"] = c.m["G8"], !.g.tlo = n]
    BY <1>2 DEF ExecToolLength
  <2> HIDE DEF n
  <2>2. ExecToolLength(c) = e  BY <2>1
  <2>3. Stage(lines, old, c, d)  BY ModeStage DEF ModeGroups
  <2> HIDE DEF d
  <2>4. Stage(lines, old, d, e)  BY <2>3, FieldStage DEF Neutral, StateFields, Stage
  <2> HIDE DEF e
  <2> QED  BY <2>2, <2>3, <2>4, StageTransitive
<1> QED  BY <1>1, <1>2

\* The coordinate system of the block, with its offsets as they were checked
LEMMA SystemStage ==
    ASSUME NEW lines, NEW old, NEW c, RunShape(c), NEW offsets, offsets = c.wcs
    PROVE  Stage(lines, old, c, [c EXCEPT !.g.modes["G12"] = c.m["G12"], !.g.wcs = offsets])
<1> DEFINE modes == [c.g.modes EXCEPT !["G12"] = c.m["G12"]]
           s == [c.g EXCEPT !.modes = modes, !.wcs = offsets]
           d == [c EXCEPT !.g = s]
<1>1. [c EXCEPT !.g.modes["G12"] = c.m["G12"], !.g.wcs = offsets] = d  OBVIOUS
<1>2. /\ DOMAIN modes = ModeGroups /\ modes["G12"] = c.m["G12"]
      /\ \A y \in ModeGroups \ {"G12"} : modes[y] = c.g.modes[y]
  BY DEF RunShape, StateShape, ModeGroups
<1> HIDE DEF modes
<1>3. /\ DOMAIN s = StateFields /\ s.modes = modes /\ s.wcs = offsets
      /\ \A f \in StateFields \ {"modes", "wcs"} : s[f] = c.g[f]
  BY DEF RunShape, StateShape, StateFields
<1> HIDE DEF s
<1>4. Same(c, d) /\ d.g = s /\ d.planned = c.planned /\ d.cancel = c.cancel  BY StateUpdate
<1> HIDE DEF d
<1>5. /\ d.m = c.m /\ d.state = c.state /\ d.nm = c.nm /\ d.flow = c.flow /\ d.cmd = c.cmd
      /\ d.cut = c.cut /\ d.named = c.named /\ d.wcs = c.wcs
  BY <1>4 DEF Same, Read, ContextFields
<1>6. /\ s.feed = c.g.feed /\ s.fed = c.g.fed /\ s.snapshot = c.g.snapshot
      /\ s.position = c.g.position /\ s.stored = c.g.stored
      /\ modes["G1"] = c.g.modes["G1"] /\ modes["G5"] = c.g.modes["G5"]
  BY <1>2, <1>3 DEF StateFields, ModeGroups
<1>7. RunShape(d)  BY <1>2, <1>3, <1>4, <1>5, <1>6 DEF RunShape, StateShape, Same
<1>8. RunCoords(lines, c) => RunCoords(lines, d)
  BY <1>2, <1>3, <1>4, <1>5, <1>6 DEF RunCoords, StateCoords
<1>9. RunFed(c) => RunFed(d)  BY <1>3, <1>4, <1>5, <1>6 DEF RunFed, StateFed
<1>10. RunPlace(lines, c) => RunPlace(lines, d)
  BY <1>3, <1>4, <1>5, <1>6 DEF RunPlace, StatePlace, Alone
<1>11. RunModes(old, c) => RunModes(old, d)  BY <1>2, <1>3, <1>4, <1>5 DEF RunModes
<1> QED  BY <1>1, <1>4, <1>7, <1>8, <1>9, <1>10, <1>11 DEF Stage

LEMMA ExecModesStage ==
    ASSUME NEW lines, NEW old, NEW c, RunShape(c)
    PROVE  Stage(lines, old, c, ExecModes(c))
<1> DEFINE d1 == [c EXCEPT !.g.modes["G2"] = c.m["G2"]]
           d2 == [d1 EXCEPT !.g.modes["G6"] = c.m["G6"]]
           d3 == ExecToolLength(d2)
           d4 == IF d3.g.modes["G12"] = c.m["G12"] THEN d3
                 ELSE [d3 EXCEPT !.g.modes["G12"] = c.m["G12"], !.g.wcs = c.wcs]
           d5 == [d4 EXCEPT !.g.modes["G3"] = c.m["G3"]]
           d6 == [d5 EXCEPT !.g.modes["G10"] = c.m["G10"]]
<1>1. ExecModes(c) = d6
  <2> DEFINE first == [c EXCEPT !.g.modes["G2"] = c.m["G2"], !.g.modes["G6"] = c.m["G6"]]
             tool == ExecToolLength(first)
             system == IF tool.g.modes["G12"] = c.m["G12"] THEN tool
                       ELSE [tool EXCEPT !.g.modes["G12"] = c.m["G12"], !.g.wcs = c.wcs]
  <2>1. ExecModes(c)
          = [system EXCEPT !.g.modes["G3"] = c.m["G3"], !.g.modes["G10"] = c.m["G10"]]
    BY Zenon DEF ExecModes
  <2>2. first = d2  OBVIOUS
  <2> HIDE DEF first, d2
  <2>3. system = d4  BY <2>2
  <2> HIDE DEF system, d4
  <2> QED  BY <2>1, <2>3
<1>2. Stage(lines, old, c, d1)  BY ModeStage DEF ModeGroups
<1> HIDE DEF d1
<1>3. Stage(lines, old, c, d2)
  <2>1. RunShape(d1) /\ d1.m = c.m  BY <1>2 DEF Stage, Same, Read, ContextFields
  <2>2. Stage(lines, old, d1, d2)  BY <2>1, ModeStage DEF ModeGroups
  <2> HIDE DEF d2
  <2> QED  BY <1>2, <2>2, StageTransitive
<1> HIDE DEF d2
<1>4. Stage(lines, old, c, d3)  BY <1>3, ExecToolLengthStage, StageTransitive DEF Stage
<1> HIDE DEF d3
<1>5. Stage(lines, old, c, d4)
  <2>1. RunShape(d3) /\ d3.m = c.m /\ d3.wcs = c.wcs
    BY <1>4 DEF Stage, Same, Read, ContextFields
  <2>2. Stage(lines, old, d3, [d3 EXCEPT !.g.modes["G12"] = d3.m["G12"], !.g.wcs = c.wcs])
    BY <2>1, SystemStage
  <2>3. Stage(lines, old, d3, d4)
    <3>1. d4 = d3 \/ d4 = [d3 EXCEPT !.g.modes["G12"] = d3.m["G12"], !.g.wcs = c.wcs]
      BY <2>1
    <3> HIDE DEF d4
    <3> QED  BY <2>1, <2>2, <3>1, StageReflexive
  <2> HIDE DEF d4
  <2> QED  BY <1>4, <2>3, StageTransitive
<1> HIDE DEF d4
<1>6. Stage(lines, old, c, d5)
  <2>1. RunShape(d4) /\ d4.m = c.m  BY <1>5 DEF Stage, Same, Read, ContextFields
  <2>2. Stage(lines, old, d4, d5)  BY <2>1, ModeStage DEF ModeGroups
  <2> HIDE DEF d5
  <2> QED  BY <1>5, <2>2, StageTransitive
<1> HIDE DEF d5
<1>7. Stage(lines, old, c, d6)
  <2>1. RunShape(d5) /\ d5.m = c.m  BY <1>6 DEF Stage, Same, Read, ContextFields
  <2>2. Stage(lines, old, d5, d6)  BY <2>1, ModeStage DEF ModeGroups
  <2> HIDE DEF d6
  <2> QED  BY <1>6, <2>2, StageTransitive
<1> QED  BY <1>1, <1>7

-----------------------------------------------------------------------------
(* The last stages: coordinate data, the motion and the program flow *)

\* From here on the offsets of the block may be older than those in storage.
LateCoords(lines, c) == StateCoords(lines, c.g) /\ (c.nm = 100 => ~WritesNone(lines))

\* What these stages keep, whatever they do to the position
Late(lines, old, c, d) ==
    /\ Same(c, d)
    /\ RunShape(d)
    /\ LateCoords(lines, c) => LateCoords(lines, d)
    /\ RunFed(c) => RunFed(d)
    /\ RunModes(old, c) => RunModes(old, d)

LEMMA LateTransitive ==
    ASSUME NEW lines, NEW old, NEW c, NEW d, NEW e,
           Late(lines, old, c, d), Late(lines, old, d, e)
    PROVE  Late(lines, old, c, e)
BY DEF Late, Same

LEMMA LateReflexive ==
    ASSUME NEW lines, NEW old, NEW c, RunShape(c)
    PROVE  Late(lines, old, c, c)
BY DEF Late, Same

\* The parts of the parser's state that it is about
Lasting == {"modes", "feed", "fed", "snapshot", "wcs", "stored"}

LEMMA LateUpdate ==
    ASSUME NEW lines, NEW old, NEW c, RunShape(c), NEW d, Same(c, d), d.cancel = c.cancel,
           DOMAIN d.g = StateFields, \A f \in Lasting : d.g[f] = c.g[f]
    PROVE  Late(lines, old, c, d)
<1>1. /\ d.m = c.m /\ d.state = c.state /\ d.nm = c.nm /\ d.flow = c.flow
  BY DEF Same, Read, ContextFields
<1>2. /\ d.g.modes = c.g.modes /\ d.g.feed = c.g.feed /\ d.g.fed = c.g.fed
      /\ d.g.snapshot = c.g.snapshot /\ d.g.wcs = c.g.wcs /\ d.g.stored = c.g.stored
  BY DEF Lasting
<1>3. RunShape(d)  BY <1>1, <1>2 DEF RunShape, StateShape, Same
<1>4. LateCoords(lines, c) => LateCoords(lines, d)  BY <1>1, <1>2 DEF LateCoords, StateCoords
<1>5. RunFed(c) => RunFed(d)  BY <1>1, <1>2 DEF RunFed, StateFed
<1>6. RunModes(old, c) => RunModes(old, d)  BY <1>1, <1>2 DEF RunModes
<1> QED  BY <1>3, <1>4, <1>5, <1>6 DEF Late

\* Whatever the position was, it is the planner's after a restart.
LEMMA WaitLate ==
    ASSUME NEW lines, NEW old, NEW c, RunShape(c), NEW point
    PROVE  LET d == Wait(c, point)
           IN /\ Late(lines, old, c, d)
              /\ StatePlace(lines, c.g, c.planned) => StatePlace(lines, d.g, d.planned)
              /\ c.cut # point => d = c
<1> DEFINE d == Wait(c, point)
           r == Restarted(c.g, TRUE, c.at)
<1>1. CASE d = c  BY <1>1, LateReflexive
<1>2. CASE c.cut = point /\ Same(c, d) /\ d.g = r /\ d.planned = c.at /\ d.cancel = TRUE
  <2>1. /\ StateShape(r) /\ r.stored = c.g.stored
        /\ r.modes["G1"] = 0 /\ r.feed = 0 /\ ~r.snapshot.saved
        /\ r.position = c.at /\ r.wcs = r.stored[r.modes["G12"]]
    <3>1. StateShape(c.g)  BY DEF RunShape
    <3>2. PICK keep : keep = TRUE  OBVIOUS
    <3> DEFINE q == Restarted(c.g, keep, c.at)
    <3>3. q = r  BY <3>2
    <3>4. /\ StateShape(q) /\ q.stored = c.g.stored
          /\ q.modes["G1"] = 0 /\ q.feed = 0 /\ ~q.snapshot.saved
          /\ q.position = c.at /\ q.wcs = q.stored[q.modes["G12"]]
      BY <3>1, RestartedFacts
    <3> HIDE DEF q, r
    <3> QED  BY <3>3, <3>4
  <2> HIDE DEF d, r
  <2>2. /\ d.m = c.m /\ d.state = c.state /\ d.nm = c.nm /\ d.flow = c.flow
    BY <1>2 DEF Same, Read, ContextFields
  <2>3. RunShape(d)  BY <1>2, <2>1, <2>2 DEF RunShape, Same
  <2>4. LateCoords(lines, c) => LateCoords(lines, d)
    BY <1>2, <2>1, <2>2 DEF LateCoords, StateCoords
  <2>5. RunFed(c) => RunFed(d)  BY <1>2, <2>1, <2>2 DEF RunFed, StateFed
  <2>6. StatePlace(lines, d.g, d.planned)  BY <1>2, <2>1 DEF StatePlace, Moves, Cycles
  <2>7. RunModes(old, d)  BY <1>2 DEF RunModes
  <2> QED  BY <1>2, <2>3, <2>4, <2>5, <2>6, <2>7 DEF Late, d
<1> QED  BY <1>1, <1>2, WaitFacts

\* Storing offsets that belong to no coordinate system
LEMMA StoredLate ==
    ASSUME NEW lines, NEW old, NEW c, RunShape(c), NEW d, Same(c, d), d.cancel = c.cancel,
           DOMAIN d.g = StateFields, \A f \in Lasting \ {"stored"} : d.g[f] = c.g[f],
           DOMAIN d.g.stored = Stored, \A k \in Systems : d.g.stored[k] = c.g.stored[k]
    PROVE  Late(lines, old, c, d)
<1>1. /\ d.m = c.m /\ d.state = c.state /\ d.nm = c.nm /\ d.flow = c.flow
  BY DEF Same, Read, ContextFields
<1>2. /\ d.g.modes = c.g.modes /\ d.g.feed = c.g.feed /\ d.g.fed = c.g.fed
      /\ d.g.snapshot = c.g.snapshot /\ d.g.wcs = c.g.wcs
  BY DEF Lasting
<1>3. RunShape(d)  BY <1>1, <1>2 DEF RunShape, StateShape, Same
<1>4. LateCoords(lines, c) => LateCoords(lines, d)
  BY <1>1, <1>2 DEF LateCoords, StateCoords, RunShape, StateShape
<1>5. RunFed(c) => RunFed(d)  BY <1>1, <1>2 DEF RunFed, StateFed
<1>6. RunModes(old, c) => RunModes(old, d)  BY <1>1, <1>2 DEF RunModes
<1> QED  BY <1>3, <1>4, <1>5, <1>6 DEF Late

\* and writing them with an offset of the machine
LEMMA OffsetLate ==
    ASSUME NEW lines, NEW old, NEW c, RunShape(c), NEW s, DOMAIN s = StateFields,
           DOMAIN s.stored = Stored, \A k \in Systems : s.stored[k] = c.g.stored[k],
           \A f \in StateFields \ {"g92", "stored"} : s[f] = c.g[f]
    PROVE  LET d == [c EXCEPT !.g = s]
           IN /\ Late(lines, old, c, d)
              /\ RunPlace(lines, c) => RunPlace(lines, d)
<1> DEFINE d == [c EXCEPT !.g = s]
<1>1. Same(c, d) /\ d.g = s /\ d.planned = c.planned /\ d.cancel = c.cancel  BY StateUpdate
<1> HIDE DEF d
<1>2. \A f \in Lasting \ {"stored"} : s[f] = c.g[f]  BY DEF Lasting, StateFields
<1>3. Late(lines, old, c, d)  BY <1>1, <1>2, StoredLate
<1>4. s.position = c.g.position /\ s.modes = c.g.modes  BY DEF StateFields
<1>5. /\ d.m = c.m /\ d.nm = c.nm /\ d.cmd = c.cmd /\ d.cut = c.cut /\ d.named = c.named
  BY <1>1 DEF Same, Read, ContextFields
<1>6. RunPlace(lines, c) => RunPlace(lines, d)
  BY <1>1, <1>4, <1>5 DEF RunPlace, StatePlace, Alone
<1> QED  BY <1>3, <1>6 DEF d

\* G10 L2 and L20 write the offsets, and those in use when they are of that system.
LEMMA SetStoredLate ==
    ASSUME NEW lines, NEW old, NEW c, RunShape(c), c.nm = 100
    PROVE  LET d == SetStored(c)
           IN /\ Late(lines, old, c, d)
              /\ RunPlace(lines, c) => RunPlace(lines, d)
<1> DEFINE stored == [c.g.stored EXCEPT ![c.id] = c.data]
           wcs == IF c.g.modes["G12"] = c.id THEN c.data ELSE c.g.wcs
           s == [c.g EXCEPT !.stored = stored, !.wcs = wcs]
           d == [c EXCEPT !.g = s]
<1>1. SetStored(c) = d
  <2> DEFINE h == [c.g EXCEPT !.stored = stored]
             k == [c EXCEPT !.g = h]
             e == [k EXCEPT !.g = [k.g EXCEPT !.wcs = wcs]]
  <2>1. SetStored(c) = e  BY Zenon DEF SetStored
  <2> HIDE DEF stored, wcs
  <2>2. k.g = h  BY DEF RunShape, ContextFields
  <2>3. [h EXCEPT !.wcs = wcs] = s  OBVIOUS
  <2> HIDE DEF h, s
  <2> QED  BY <2>1, <2>2, <2>3
<1>2. /\ DOMAIN stored = Stored
      /\ c.g.wcs = c.g.stored[c.g.modes["G12"]] => wcs = stored[c.g.modes["G12"]]
  BY DEF RunShape, StateShape, Stored
<1> HIDE DEF stored, wcs
<1>3. /\ DOMAIN s = StateFields /\ s.stored = stored /\ s.wcs = wcs
      /\ \A f \in StateFields \ {"wcs", "stored"} : s[f] = c.g[f]
  BY DEF RunShape, StateShape, StateFields
<1> HIDE DEF s
<1>4. Same(c, d) /\ d.g = s /\ d.planned = c.planned /\ d.cancel = c.cancel  BY StateUpdate
<1> HIDE DEF d
<1>5. /\ s.modes = c.g.modes /\ s.feed = c.g.feed /\ s.fed = c.g.fed
      /\ s.snapshot = c.g.snapshot /\ s.position = c.g.position
  BY <1>3 DEF StateFields
<1>6. /\ d.m = c.m /\ d.state = c.state /\ d.nm = c.nm /\ d.flow = c.flow /\ d.cmd = c.cmd
      /\ d.cut = c.cut /\ d.named = c.named
  BY <1>4 DEF Same, Read, ContextFields
<1>7. RunShape(d)  BY <1>2, <1>3, <1>4, <1>5, <1>6 DEF RunShape, StateShape, Same
<1>8. LateCoords(lines, c) => LateCoords(lines, d)
  BY <1>2, <1>3, <1>4, <1>5, <1>6 DEF LateCoords, StateCoords
<1>9. RunFed(c) => RunFed(d)  BY <1>4, <1>5, <1>6 DEF RunFed, StateFed
<1>10. RunModes(old, c) => RunModes(old, d)  BY <1>4, <1>5, <1>6 DEF RunModes
<1>11. RunPlace(lines, c) => RunPlace(lines, d)
  BY <1>4, <1>5, <1>6 DEF RunPlace, StatePlace, Alone
<1> QED  BY <1>1, <1>4, <1>7, <1>8, <1>9, <1>10, <1>11 DEF Late

\* G28 and G30 leave the planner where they set the position, unless they are cut.
LEMMA ExecGoHomeLate ==
    ASSUME NEW lines, NEW old, NEW c, RunShape(c), c.nm \in GoHome
    PROVE  LET d == ExecGoHome(c)
           IN /\ Late(lines, old, c, d)
              /\ RunPlace(lines, c) => RunPlace(lines, d)
<1> DEFINE w == Wait(c, "home")
           end == IF w.cancel THEN w.planned ELSE c.data
           s == [w.g EXCEPT !.position = c.data, !.scale = Ones, !.scaling = FALSE]
           d == [w EXCEPT !.g = s, !.planned = end]
<1>1. ExecGoHome(c) = d
  <2>1. ExecGoHome(c) = [w EXCEPT !.g.position = c.data, !.planned = Unless(w, c.data, @),
                                  !.g.scale = Ones, !.g.scaling = FALSE]
    BY Zenon DEF ExecGoHome
  <2>2. Unless(w, c.data, w.planned) = end  BY DEF Unless
  <2>3. RunShape(w)  BY WaitLate DEF Late
  <2> HIDE DEF w, end
  <2>4. [w EXCEPT !.g.position = c.data, !.planned = Unless(w, c.data, @),
                  !.g.scale = Ones, !.g.scaling = FALSE]
          = [w EXCEPT !.g.position = c.data, !.planned = end,
                      !.g.scale = Ones, !.g.scaling = FALSE]
    <3>1. DOMAIN w = ContextFields  BY <2>3 DEF RunShape
    <3> QED  BY <2>2, <3>1 DEF ContextFields
  <2>5. [w EXCEPT !.g.position = c.data, !.planned = end, !.g.scale = Ones, !.g.scaling = FALSE] = d
    <3>1. DOMAIN w = ContextFields  BY <2>3 DEF RunShape
    <3> QED  BY <3>1 DEF ContextFields
  <2> QED  BY <2>1, <2>4, <2>5
<1>2. /\ Late(lines, old, c, w)
      /\ c.cut # "home" => w = c
  BY WaitLate
<1>3. ~w.cancel => end = c.data  OBVIOUS
<1> HIDE DEF w, end
<1>4. RunShape(w)  BY <1>2 DEF Late
<1>5. /\ DOMAIN s = StateFields /\ s.position = c.data /\ s.modes = w.g.modes
      /\ \A f \in Lasting : s[f] = w.g[f]
  BY <1>4 DEF RunShape, StateShape, StateFields, Lasting
<1> HIDE DEF s
<1>6. Same(w, d) /\ d.g = s /\ d.planned = end /\ d.cancel = w.cancel
  BY <1>4 DEF RunShape, ContextFields, Same, Read
<1> HIDE DEF d
<1>7. Late(lines, old, w, d)  BY <1>4, <1>5, <1>6, LateUpdate
<1>8. Late(lines, old, c, d)  BY <1>2, <1>7, LateTransitive
<1>9. ASSUME RunPlace(lines, c)
      PROVE  RunPlace(lines, d)
  <2>1. w = c /\ ~c.cancel  BY <1>2, <1>9 DEF RunPlace, Alone
  <2>2. d.g.position = d.planned /\ d.g.modes = c.g.modes /\ ~d.cancel
    BY <1>3, <1>5, <1>6, <2>1
  <2>3. /\ d.m = c.m /\ d.nm = c.nm /\ d.cmd = c.cmd /\ d.cut = c.cut /\ d.named = c.named
    BY <1>8 DEF Late, Same, Read, ContextFields
  <2> QED  BY <1>9, <2>1, <2>2, <2>3 DEF RunPlace, StatePlace, Alone
<1> QED  BY <1>1, <1>8, <1>9

LEMMA ExecNonModalLate ==
    ASSUME NEW lines, NEW old, NEW c, RunShape(c)
    PROVE  LET d == ExecNonModal(c)
           IN /\ Late(lines, old, c, d)
              /\ RunPlace(lines, c) => RunPlace(lines, d)
<1> DEFINE Goal(d) == Late(lines, old, c, d) /\ (RunPlace(lines, c) => RunPlace(lines, d))
<1>0. /\ DOMAIN c = ContextFields /\ DOMAIN c.g = StateFields /\ DOMAIN c.g.stored = Stored
  BY DEF RunShape, StateShape
<1>1. ASSUME NEW offset, NEW save
      PROVE  Goal(Offset(c, offset, save))
  <2> DEFINE n == IF save THEN offset ELSE c.g.stored[920]
             stored == [c.g.stored EXCEPT ![920] = n]
             s == [c.g EXCEPT !.g92 = offset, !.stored = stored]
  <2>1. Offset(c, offset, save) = [c EXCEPT !.g = s]
    <3>1. Offset(c, offset, save) = [c EXCEPT !.g.g92 = offset, !.g.stored[920] = n]
      BY Zenon DEF Offset
    <3> HIDE DEF n
    <3>2. [c EXCEPT !.g.g92 = offset, !.g.stored[920] = n] = [c EXCEPT !.g = s]
      <4> DEFINE s0 == [c.g EXCEPT !.g92 = offset]
                 c0 == [c EXCEPT !.g = s0]
                 s1 == [s0 EXCEPT !.stored = stored]
      <4>1. s0.stored = c.g.stored  BY <1>0 DEF StateFields
      <4>2. c0.g = s0  BY <1>0 DEF ContextFields
      <4>3. [c EXCEPT !.g.g92 = offset, !.g.stored[920] = n]
              = [c0 EXCEPT !.g = [c0.g EXCEPT !.stored = [c0.g.stored EXCEPT ![920] = n]]]
        OBVIOUS
      <4> HIDE DEF s0, c0
      <4>4. [c0.g EXCEPT !.stored = [c0.g.stored EXCEPT ![920] = n]] = s1  BY <4>1, <4>2
      <4> HIDE DEF s1
      <4>5. [c0 EXCEPT !.g = s1] = [c EXCEPT !.g = s1]  BY DEF c0
      <4> QED  BY <4>3, <4>4, <4>5 DEF s1, s0
    <3> QED  BY <3>1, <3>2
  <2>2. DOMAIN stored = Stored /\ \A i \in Systems : stored[i] = c.g.stored[i]
    BY <1>0, SystemsAssumption
  <2> HIDE DEF stored
  <2>3. /\ DOMAIN s = StateFields /\ s.stored = stored
        /\ \A f \in StateFields \ {"g92", "stored"} : s[f] = c.g[f]
    BY <1>0 DEF StateFields
  <2> HIDE DEF s
  <2>4. Goal([c EXCEPT !.g = s])  BY <2>2, <2>3, OffsetLate
  <2> HIDE DEF Goal
  <2> QED  BY <2>1, <2>4
<1>2. ASSUME NEW k \in GoHome
      PROVE  Goal([c EXCEPT !.g.stored[k] = c.g.position])
  <2> DEFINE stored == [c.g.stored EXCEPT ![k] = c.g.position]
             s == [c.g EXCEPT !.stored = stored]
  <2>1. [c EXCEPT !.g.stored[k] = c.g.position] = [c EXCEPT !.g = s]  OBVIOUS
  <2>2. DOMAIN stored = Stored /\ \A i \in Systems : stored[i] = c.g.stored[i]
    BY <1>0, SystemsAssumption DEF GoHome
  <2> HIDE DEF stored
  <2>3. /\ DOMAIN s = StateFields /\ s.stored = stored
        /\ \A f \in StateFields \ {"g92", "stored"} : s[f] = c.g[f]
    BY <1>0 DEF StateFields
  <2> HIDE DEF s
  <2>4. Goal([c EXCEPT !.g = s])  BY <2>2, <2>3, OffsetLate
  <2> HIDE DEF Goal
  <2> QED  BY <2>1, <2>4
<1> DEFINE set == SetStored(c)
           home == ExecGoHome(c)
           here28 == [c EXCEPT !.g.stored[280] = c.g.position]
           here30 == [c EXCEPT !.g.stored[300] = c.g.position]
           offset == Offset(c, c.xyz, TRUE)
           none == Offset(c, Origin, TRUE)
           away == Offset(c, Origin, FALSE)
           again == Offset(c, c.g.stored[920], FALSE)
<1>3. ExecNonModal(c) =
        CASE c.nm = 100 /\ c.v["L"] \in {2, 20} -> set
          [] c.nm \in GoHome -> home
          [] c.nm = 281 -> here28
          [] c.nm = 301 -> here30
          [] c.nm = 920 -> offset
          [] c.nm = 921 -> none
          [] c.nm = 922 -> away
          [] c.nm = 923 -> again
          [] OTHER -> c
  BY Zenon DEF ExecNonModal
<1>4. c.nm = 100 => Goal(set)  BY SetStoredLate
<1>5. c.nm \in GoHome => Goal(home)  BY ExecGoHomeLate
<1>6. Goal(c)  BY LateReflexive
<1> HIDE DEF Goal
<1>7. Goal(here28) /\ Goal(here30)
  <2>1. 280 \in GoHome /\ 300 \in GoHome  BY DEF GoHome
  <2> QED  BY <2>1, <1>2
<1>8. Goal(offset) /\ Goal(none)
  <2>1. PICK save : save = TRUE  OBVIOUS
  <2>2. Goal(Offset(c, c.xyz, save)) /\ Goal(Offset(c, Origin, save))  BY <1>1
  <2> QED  BY <2>1, <2>2
<1>9. Goal(away) /\ Goal(again)
  <2>1. PICK save : save = FALSE  OBVIOUS
  <2>2. Goal(Offset(c, Origin, save)) /\ Goal(Offset(c, c.g.stored[920], save))  BY <1>1
  <2> QED  BY <2>1, <2>2, ZenonT(60)
<1> HIDE DEF set, home, here28, here30, offset, none, away, again
<1>10. Goal(ExecNonModal(c))
  <2>1. \/ c.nm = 100 /\ ExecNonModal(c) = set
        \/ c.nm \in GoHome /\ ExecNonModal(c) = home
        \/ ExecNonModal(c) \in {here28, here30, offset, none, away, again, c}
    BY <1>3
  <2> QED  BY <2>1, <1>4, <1>5, <1>6, <1>7, <1>8, <1>9
<1> QED  BY <1>10 DEF Goal

\* The motion mode of the block
LEMMA MotionModeLate ==
    ASSUME NEW lines, NEW old, NEW c, RunShape(c), NEW cycle
    PROVE  LET d == [c EXCEPT !.g.modes["G1"] = c.m["G1"], !.g.cycle = cycle]
           IN /\ Late(lines, old, c, d)
              /\ RunPlace(lines, c) => RunPlace(lines, d)
<1> DEFINE modes == [c.g.modes EXCEPT !["G1"] = c.m["G1"]]
           s == [c.g EXCEPT !.modes = modes, !.cycle = cycle]
           d == [c EXCEPT !.g = s]
<1>1. [c EXCEPT !.g.modes["G1"] = c.m["G1"], !.g.cycle = cycle] = d  OBVIOUS
<1>2. /\ DOMAIN modes = ModeGroups /\ modes["G1"] = c.m["G1"]
      /\ \A y \in ModeGroups \ {"G1"} : modes[y] = c.g.modes[y]
  BY DEF RunShape, StateShape, ModeGroups
<1> HIDE DEF modes
<1>3. /\ DOMAIN s = StateFields /\ s.modes = modes
      /\ \A f \in StateFields \ {"modes", "cycle"} : s[f] = c.g[f]
  BY DEF RunShape, StateShape, StateFields
<1> HIDE DEF s
<1>4. Same(c, d) /\ d.g = s /\ d.planned = c.planned /\ d.cancel = c.cancel  BY StateUpdate
<1> HIDE DEF d
<1>5. /\ d.m = c.m /\ d.state = c.state /\ d.nm = c.nm /\ d.flow = c.flow /\ d.cmd = c.cmd
      /\ d.cut = c.cut /\ d.named = c.named
  BY <1>4 DEF Same, Read, ContextFields
<1>6. /\ s.feed = c.g.feed /\ s.fed = c.g.fed /\ s.snapshot = c.g.snapshot
      /\ s.position = c.g.position /\ s.stored = c.g.stored /\ s.wcs = c.g.wcs
      /\ modes["G12"] = c.g.modes["G12"] /\ modes["G5"] = c.g.modes["G5"]
  BY <1>2, <1>3 DEF StateFields, ModeGroups
<1>7. RunShape(d)  BY <1>2, <1>3, <1>4, <1>5, <1>6 DEF RunShape, StateShape, Same
<1>8. LateCoords(lines, c) => LateCoords(lines, d)
  BY <1>3, <1>4, <1>5, <1>6 DEF LateCoords, StateCoords
<1>9. RunFed(c) => RunFed(d)  BY <1>3, <1>4, <1>5, <1>6 DEF RunFed, StateFed
<1>10. RunPlace(lines, c) => RunPlace(lines, d)
  BY <1>2, <1>3, <1>4, <1>5, <1>6 DEF RunPlace, StatePlace, Alone
<1>11. RunModes(old, c) => RunModes(old, d)  BY <1>2, <1>3, <1>4, <1>5 DEF RunModes
<1> QED  BY <1>1, <1>4, <1>7, <1>8, <1>9, <1>10, <1>11 DEF Late

\* Where a motion is to end is no part of the state.
LEMMA TargetLate ==
    ASSUME NEW lines, NEW old, NEW c, RunShape(c), NEW xyz
    PROVE  LET d == [c EXCEPT !.xyz = xyz]
           IN Late(lines, old, c, d) /\ d.g = c.g /\ d.planned = c.planned
<1> DEFINE d == [c EXCEPT !.xyz = xyz]
<1>1. Same(c, d) /\ d.g = c.g /\ d.planned = c.planned /\ d.cancel = c.cancel
  BY DEF RunShape, ContextFields, Same, Read
<1> HIDE DEF d
<1>2. DOMAIN d.g = StateFields  BY <1>1 DEF RunShape, StateShape
<1>3. Late(lines, old, c, d)  BY <1>1, <1>2, LateUpdate
<1> QED  BY <1>1, <1>3 DEF d

\* A cycle that is not interrupted has its holes drilled before it arrives.
LEMMA ExecDrillLate ==
    ASSUME NEW lines, NEW old, NEW c, RunShape(c)
    PROVE  LET d == ExecDrill(c)
           IN /\ Late(lines, old, c, d)
              /\ StatePlace(lines, c.g, c.planned) /\ c.cut # "drill" /\ ~c.cancel
                   => StatePlace(lines, d.g, d.planned)
<1> DEFINE d == IF c.g.canned.dwell > 0 THEN Wait(c, "drill") ELSE c
           e == IF d.cancel THEN d ELSE Wait(d, "motion")
           position == [d.g.position EXCEPT ![Plane(c).linear] = RetractTo(c)]
           s == [d.g EXCEPT !.position = position]
           xyz == Drilled(c)
           cut == [d EXCEPT !.g = s]
           whole == [e EXCEPT !.xyz = xyz]
<1>1. ExecDrill(c) = IF d.cancel THEN cut ELSE whole
  <2>1. ExecDrill(c) = IF d.cancel THEN [d EXCEPT !.g.position[Plane(c).linear] = RetractTo(c)]
                       ELSE whole
    BY Zenon DEF ExecDrill
  <2>2. [d EXCEPT !.g.position[Plane(c).linear] = RetractTo(c)] = cut  OBVIOUS
  <2> QED  BY <2>1, <2>2
<1>2. /\ Late(lines, old, c, d)
      /\ c.cut # "drill" => d = c
  BY WaitLate, LateReflexive
<1> HIDE DEF d, position, xyz
<1>3. RunShape(d)  BY <1>2 DEF Late
<1>4. /\ Late(lines, old, d, e)
      /\ StatePlace(lines, d.g, d.planned) => StatePlace(lines, e.g, e.planned)
  BY <1>3, WaitLate, LateReflexive
<1> HIDE DEF e
<1>5. RunShape(e)  BY <1>4 DEF Late
<1>6. Late(lines, old, e, whole) /\ whole.g = e.g /\ whole.planned = e.planned
  BY <1>5, TargetLate
<1> HIDE DEF whole
<1>7. Late(lines, old, d, cut)
  <2>1. DOMAIN s = StateFields /\ \A f \in Lasting : s[f] = d.g[f]
    BY <1>3 DEF RunShape, StateShape, StateFields, Lasting
  <2> HIDE DEF s
  <2>2. Same(d, cut) /\ cut.g = s /\ cut.cancel = d.cancel  BY <1>3, StateUpdate
  <2> HIDE DEF cut
  <2> QED  BY <1>3, <2>1, <2>2, LateUpdate
<1> HIDE DEF cut
<1>8. Late(lines, old, c, whole)
  <2>1. Late(lines, old, c, e)  BY <1>2, <1>4, LateTransitive
  <2> QED  BY <2>1, <1>6, LateTransitive
<1>9. Late(lines, old, c, cut)  BY <1>2, <1>7, LateTransitive
<1>10. StatePlace(lines, c.g, c.planned) /\ c.cut # "drill" /\ ~c.cancel
         => ~d.cancel /\ StatePlace(lines, whole.g, whole.planned)
  BY <1>2, <1>4, <1>6
<1> QED  BY <1>1, <1>8, <1>9, <1>10

LEMMA ArriveLate ==
    ASSUME NEW lines, NEW old, NEW c, RunShape(c)
    PROVE  LET d == Arrive(c)
           IN /\ Late(lines, old, c, d)
              /\ StatePlace(lines, c.g, c.planned) /\ c.m["G1"] \notin Cycles \ Drills
                   => StatePlace(lines, d.g, d.planned)
<1>1. CASE c.cancel  BY <1>1, LateReflexive DEF Arrive
<1>2. CASE ~c.cancel
  <2> DEFINE end == Planned(c)
             s == [c.g EXCEPT !.position = c.xyz]
             d == [c EXCEPT !.g = s, !.planned = end]
  <2>1. Arrive(c) = d
    <3>1. Arrive(c) = [c EXCEPT !.g.position = c.xyz, !.planned = end]  BY <1>2, Zenon DEF Arrive
    <3>2. [c EXCEPT !.g.position = c.xyz, !.planned = end] = d  OBVIOUS
    <3> QED  BY <3>1, <3>2
  <2>2. c.m["G1"] \notin Cycles \ Drills => end = c.xyz  BY DEF Planned, Motion
  <2> HIDE DEF end
  <2>3. /\ DOMAIN s = StateFields /\ s.position = c.xyz /\ s.modes = c.g.modes
        /\ \A f \in Lasting : s[f] = c.g[f]
    BY DEF RunShape, StateShape, StateFields, Lasting
  <2> HIDE DEF s
  <2>4. Same(c, d) /\ d.g = s /\ d.planned = end /\ d.cancel = c.cancel
    BY DEF RunShape, ContextFields, Same, Read
  <2> HIDE DEF d
  <2>5. Late(lines, old, c, d)  BY <2>3, <2>4, LateUpdate
  <2>6. StatePlace(lines, c.g, c.planned) /\ c.m["G1"] \notin Cycles \ Drills
          => StatePlace(lines, d.g, d.planned)
    BY <2>2, <2>3, <2>4 DEF StatePlace
  <2> QED  BY <2>1, <2>5, <2>6
<1> QED  BY <1>1, <1>2

LEMMA ExecMotionLate ==
    ASSUME NEW lines, NEW old, NEW c, RunShape(c)
    PROVE  LET d == ExecMotion(c)
           IN /\ Late(lines, old, c, d)
              /\ RunPlace(lines, c) => StatePlace(lines, d.g, d.planned)
<1> DEFINE cycle == c.cycle
           contact == Contact(c)
           d == [c EXCEPT !.g.modes["G1"] = c.m["G1"], !.g.cycle = cycle]
           probed == [d EXCEPT !.xyz = contact]
           e == CASE c.m["G1"] \in Drills -> ExecDrill(d)
                  [] c.m["G1"] \in Probes /\ c.cut = "none" -> probed
                  [] c.m["G1"] \in Cycles \ Drills -> d
                  [] OTHER -> Wait(d, "motion")
<1>1. ExecMotion(c) = IF c.m["G1"] = 800 \/ c.cmd # "motion" THEN d ELSE Arrive(e)
  BY Zenon DEF ExecMotion, Motion
<1> HIDE DEF cycle, contact
<1>2. /\ Late(lines, old, c, d)
      /\ RunPlace(lines, c) => RunPlace(lines, d)
  BY MotionModeLate
<1> HIDE DEF d
<1>3. RunShape(d)  BY <1>2 DEF Late
<1>4. d.m = c.m /\ d.cmd = c.cmd  BY <1>2 DEF Late, Same, Read, ContextFields
<1>5. ASSUME c.cmd = "motion"
      PROVE  /\ Late(lines, old, d, e)
             /\ RunPlace(lines, d) => StatePlace(lines, e.g, e.planned)
  <2>1. /\ Late(lines, old, d, ExecDrill(d))
        /\ RunPlace(lines, d) /\ c.m["G1"] \in Drills
             => StatePlace(lines, ExecDrill(d).g, ExecDrill(d).planned)
    <3>1. RunPlace(lines, d) /\ c.m["G1"] \in Drills
            => StatePlace(lines, d.g, d.planned) /\ d.cut # "drill" /\ ~d.cancel
      BY <1>4, <1>5 DEF RunPlace, Alone, Moves, Drills, Cycles
    <3> QED  BY <1>3, <3>1, ExecDrillLate
  <2>2. Late(lines, old, d, probed) /\ probed.g = d.g /\ probed.planned = d.planned
    BY <1>3, TargetLate
  <2>3. /\ Late(lines, old, d, Wait(d, "motion"))
        /\ StatePlace(lines, d.g, d.planned)
             => StatePlace(lines, Wait(d, "motion").g, Wait(d, "motion").planned)
    BY <1>3, WaitLate
  <2>4. Late(lines, old, d, d)  BY <1>3, LateReflexive
  <2>5. RunPlace(lines, d) => StatePlace(lines, d.g, d.planned)  BY DEF RunPlace
  <2> HIDE DEF probed
  <2>6. \/ e = ExecDrill(d) /\ c.m["G1"] \in Drills
        \/ e = probed \/ e = d \/ e = Wait(d, "motion")
    OBVIOUS
  <2> HIDE DEF e
  <2> QED  BY <2>1, <2>2, <2>3, <2>4, <2>5, <2>6
<1> HIDE DEF e
<1>6. ASSUME c.cmd = "motion"
      PROVE  /\ Late(lines, old, c, Arrive(e))
             /\ RunPlace(lines, c) => StatePlace(lines, Arrive(e).g, Arrive(e).planned)
  <2>1. Late(lines, old, d, e)  BY <1>5, <1>6
  <2>2. RunShape(e) /\ e.m = d.m  BY <2>1 DEF Late, Same, Read, ContextFields
  <2>3. /\ Late(lines, old, e, Arrive(e))
        /\ StatePlace(lines, e.g, e.planned) /\ e.m["G1"] \notin Cycles \ Drills
             => StatePlace(lines, Arrive(e).g, Arrive(e).planned)
    BY <2>2, ArriveLate
  <2>4. Late(lines, old, d, Arrive(e))  BY <2>1, <2>3, LateTransitive
  <2>5. Late(lines, old, c, Arrive(e))  BY <1>2, <2>4, LateTransitive
  <2>6. RunPlace(lines, c) => c.m["G1"] \notin Cycles \ Drills  BY DEF RunPlace, Moves
  <2> QED  BY <1>2, <1>4, <1>5, <1>6, <2>2, <2>3, <2>5, <2>6
<1>7. RunPlace(lines, d) => StatePlace(lines, d.g, d.planned)  BY DEF RunPlace
<1> QED  BY <1>1, <1>2, <1>6, <1>7

\* What is left when a block has been executed
Done(lines, old, c, d) ==
    /\ StateShape(d.g)
    /\ LateCoords(lines, c) => StateCoords(lines, d.g)
    /\ RunFed(c) => StateFed(d.g)
    /\ StatePlace(lines, c.g, c.planned) => StatePlace(lines, d.g, d.planned)
    /\ RunModes(old, c) /\ ~d.cancel /\ c.state # 72 /\ c.flow \notin {2, 30}
         => \A x \in ModeGroups : d.g.modes[x] \in {old[x], c.m[x]}

\* A program end selects the first coordinate system and feed per minute.
LEMMA ProgramEndDone ==
    ASSUME NEW lines, NEW old, NEW c, RunShape(c), c.flow \in {2, 30}
    PROVE  Done(lines, old, c, ProgramEnd(c))
<1> DEFINE modes == [c.g.modes EXCEPT !["G1"] = 10, !["G2"] = 170, !["G3"] = 900, !["G5"] = 940,
                                      !["G12"] = 540, !["M7"] = 5]
           off == c.g.off \ {"feed", "speed", "parking"}
           stored == [c.g.stored EXCEPT ![920] = c.g.g92]
           wcs == c.g.stored[540]
           s == [c.g EXCEPT !.modes = modes, !.coolant = {}, !.off = off, !.wcs = wcs,
                            !.stored = stored, !.snapshot = NoSnapshot]
           d == [c EXCEPT !.g = s]
<1>0. DOMAIN c = ContextFields /\ DOMAIN c.g = StateFields /\ DOMAIN c.g.stored = Stored
  BY DEF RunShape, StateShape
<1>1. /\ DOMAIN modes = ModeGroups
      /\ modes["G1"] = 10 /\ modes["G5"] = 940 /\ modes["G12"] = 540
  BY DEF RunShape, StateShape, ModeGroups
<1>2. DOMAIN stored = Stored /\ stored[540] = wcs  BY <1>0, SystemsAssumption
<1>3. ProgramEnd(c) = d
  <2>1. ProgramEnd(c) = [c EXCEPT !.g.modes = modes, !.g.coolant = {}, !.g.off = off,
                                  !.g.wcs = wcs, !.g.stored[920] = c.g.g92,
                                  !.g.snapshot = NoSnapshot]
    BY Zenon DEF ProgramEnd
  <2> HIDE DEF modes, off, wcs
  <2> DEFINE s0 == [c.g EXCEPT !.modes = modes, !.coolant = {}, !.off = off, !.wcs = wcs]
             c0 == [c EXCEPT !.g.modes = modes, !.g.coolant = {}, !.g.off = off, !.g.wcs = wcs]
             s1 == [s0 EXCEPT !.stored = [s0.stored EXCEPT ![920] = c.g.g92]]
  <2>2. c0 = [c EXCEPT !.g = s0]  BY <1>0 DEF ContextFields, StateFields
  <2>3. [c EXCEPT !.g.modes = modes, !.g.coolant = {}, !.g.off = off, !.g.wcs = wcs,
                  !.g.stored[920] = c.g.g92, !.g.snapshot = NoSnapshot]
          = [c0 EXCEPT !.g.stored[920] = c.g.g92, !.g.snapshot = NoSnapshot]
    OBVIOUS
  <2>4. s0.stored = c.g.stored  BY <1>0 DEF StateFields
  <2>5. c0.g = s0 /\ DOMAIN c0 = ContextFields  BY <1>0, <2>2 DEF ContextFields
  <2> HIDE DEF c0, s0
  <2>6. [c0 EXCEPT !.g.stored[920] = c.g.g92, !.g.snapshot = NoSnapshot]
          = [c0 EXCEPT !.g = [s1 EXCEPT !.snapshot = NoSnapshot]]
    <3> DEFINE c1 == [c0 EXCEPT !.g = s1]
    <3>1. c1 = [c0 EXCEPT !.g.stored[920] = c.g.g92]  BY <2>5
    <3>2. c1.g = s1  BY <2>5 DEF ContextFields
    <3>3. [c0 EXCEPT !.g.stored[920] = c.g.g92, !.g.snapshot = NoSnapshot]
            = [c1 EXCEPT !.g = [c1.g EXCEPT !.snapshot = NoSnapshot]]
      BY <3>1, ZenonT(60)
    <3> DEFINE s2 == [s1 EXCEPT !.snapshot = NoSnapshot]
    <3>4. [c1.g EXCEPT !.snapshot = NoSnapshot] = s2  BY <3>2
    <3> HIDE DEF s1, s2
    <3>5. [c1 EXCEPT !.g = s2] = [c0 EXCEPT !.g = s2]  BY <2>5 DEF ContextFields
    <3> QED  BY <3>3, <3>4, <3>5 DEF s2
  <2>7. [s1 EXCEPT !.snapshot = NoSnapshot] = s  BY <2>4 DEF s0
  <2> HIDE DEF s1, s
  <2>8. [c0 EXCEPT !.g = s] = d  BY <2>2
  <2> QED  BY <2>1, <2>3, <2>6, <2>7, <2>8, SMTT(30)
<1> HIDE DEF modes, off, stored, wcs
<1>4. /\ DOMAIN s = StateFields /\ s.modes = modes /\ s.stored = stored /\ s.wcs = wcs
      /\ s.snapshot = NoSnapshot /\ s.feed = c.g.feed /\ s.fed = c.g.fed
      /\ s.position = c.g.position
  BY <1>0 DEF StateFields
<1> HIDE DEF s
<1>5. d.g = s /\ d.planned = c.planned  BY StateUpdate
<1> HIDE DEF d
<1>6. ~NoSnapshot.saved  BY DEF NoSnapshot
<1>7. StateShape(d.g)  BY <1>1, <1>2, <1>4, <1>5, <1>6, SystemsAssumption DEF StateShape
<1>8. StateCoords(lines, d.g)  BY <1>1, <1>2, <1>4, <1>5, <1>6 DEF StateCoords
<1>9. RunFed(c) => StateFed(d.g)  BY <1>1, <1>4, <1>5, <1>6 DEF RunFed, StateFed
<1>10. StatePlace(lines, c.g, c.planned) => StatePlace(lines, d.g, d.planned)
  BY <1>1, <1>4, <1>5 DEF StatePlace, Moves, Cycles
<1> QED  BY <1>3, <1>7, <1>8, <1>9, <1>10 DEF Done

LEMMA ExecFlowDone ==
    ASSUME NEW lines, NEW old, NEW c, RunShape(c)
    PROVE  Done(lines, old, c, ExecFlow(c))
<1> DEFINE d == Wait(c, "flow")
<1>1. ASSUME NEW e, Late(lines, old, c, e),
             StatePlace(lines, c.g, c.planned) => StatePlace(lines, e.g, e.planned)
      PROVE  Done(lines, old, c, e)
  BY <1>1 DEF Done, Late, LateCoords, RunFed, RunShape, RunModes, Same, Read, ContextFields
<1>2. /\ Late(lines, old, c, d)
      /\ StatePlace(lines, c.g, c.planned) => StatePlace(lines, d.g, d.planned)
  BY WaitLate
<1>3. ExecFlow(c) = CASE c.flow = -1 -> c
                      [] c.flow \in {2, 30} -> ProgramEnd(d)
                      [] OTHER -> d
  BY Zenon DEF ExecFlow
<1> HIDE DEF d
<1>4. Done(lines, old, c, c) /\ Done(lines, old, c, d)  BY <1>1, <1>2, LateReflexive
<1>5. ASSUME c.flow \in {2, 30}
      PROVE  Done(lines, old, c, ProgramEnd(d))
  <2>1. /\ RunShape(d) /\ d.flow = c.flow
    BY <1>2 DEF Late, Same, Read, ContextFields
  <2>2. Done(lines, old, d, ProgramEnd(d))  BY <1>5, <2>1, ProgramEndDone
  <2> QED  BY <1>2, <1>5, <2>2 DEF Done, Late
<1> QED  BY <1>3, <1>4, <1>5

-----------------------------------------------------------------------------
(* The execution of a block *)

LEMMA ExecutedDone ==
    ASSUME NEW lines, NEW old, NEW c, RunShape(c)
    PROVE  LET d == Executed(c)
           IN /\ StateShape(d.g)
              /\ RunCoords(lines, c) => StateCoords(lines, d.g)
              /\ StateFed(c.g) /\ GivesFeed(c) => StateFed(d.g)
              /\ RunPlace(lines, c) /\ (c.g.rpm # c.v["S"] => Alone(lines, c))
                   => StatePlace(lines, d.g, d.planned)
              /\ RunModes(old, c) /\ ~d.cancel /\ c.state # 72 /\ c.flow \notin {2, 30}
                   => \A x \in ModeGroups : d.g.modes[x] \in {old[x], c.m[x]}
<1> DEFINE fed == ExecFeed(c)
           speed == ExecSpindleSpeed(fed)
           chosen == ExecSelectTool(speed)
           tool == ExecToolChange(chosen)
           spindle == ExecSpindle(tool)
           saved == ExecSnapshot(spindle)
           states == ExecCoolant(saved)
           off == ExecOverrides(states)
           dwelt == ExecDwell(off)
           modes == ExecModes(dwelt)
           data == ExecNonModal(modes)
           moved == ExecMotion(data)
           d == ExecFlow(moved)
<1>0. Executed(c) = d  BY Zenon DEF Executed
<1>1. /\ Same(c, fed) /\ RunShape(fed) /\ fed.g.rpm = c.g.rpm
      /\ RunCoords(lines, c) => RunCoords(lines, fed)
      /\ StateFed(c.g) /\ GivesFeed(c) => RunFed(fed)
      /\ RunPlace(lines, c) => RunPlace(lines, fed)
      /\ RunModes(old, c) => RunModes(old, fed)
  BY ExecFeedStage
<1>2. /\ Same(fed, speed) /\ RunShape(speed)
      /\ RunCoords(lines, fed) => RunCoords(lines, speed)
      /\ RunFed(fed) => RunFed(speed)
      /\ RunPlace(lines, fed) /\ (fed.g.rpm # fed.v["S"] => Alone(lines, fed))
           => RunPlace(lines, speed)
      /\ RunModes(old, fed) => RunModes(old, speed)
  <2> HIDE DEF fed
  <2> QED  BY <1>1, ExecSpindleSpeedStage
<1>3. Stage(lines, old, speed, chosen)
  <2> HIDE DEF speed
  <2> QED  BY <1>2, ExecSelectToolStage
<1> HIDE DEF d, moved, data, modes, dwelt, off, states, saved, spindle, tool, chosen, speed, fed
<1>4. Stage(lines, old, chosen, tool)  BY <1>3, ExecToolChangeStage DEF Stage, tool
<1>5. Stage(lines, old, tool, spindle)  BY <1>4, ExecSpindleStage DEF Stage, spindle
<1>6. Stage(lines, old, spindle, saved)  BY <1>5, ExecSnapshotStage DEF Stage, saved
<1>7. Stage(lines, old, saved, states)  BY <1>6, ExecCoolantStage DEF Stage, states
<1>8. Stage(lines, old, states, off)  BY <1>7, ExecOverridesStage DEF Stage, off
<1>9. Stage(lines, old, off, dwelt)  BY <1>8, ExecDwellStage DEF Stage, dwelt
<1>10. Stage(lines, old, dwelt, modes)  BY <1>9, ExecModesStage DEF Stage, modes
<1>11. Stage(lines, old, speed, modes)
  <2>1. Stage(lines, old, speed, tool)  BY <1>3, <1>4, StageTransitive
  <2>2. Stage(lines, old, speed, spindle)  BY <2>1, <1>5, StageTransitive
  <2>3. Stage(lines, old, speed, saved)  BY <2>2, <1>6, StageTransitive
  <2>4. Stage(lines, old, speed, states)  BY <2>3, <1>7, StageTransitive
  <2>5. Stage(lines, old, speed, off)  BY <2>4, <1>8, StageTransitive
  <2>6. Stage(lines, old, speed, dwelt)  BY <2>5, <1>9, StageTransitive
  <2> QED  BY <2>6, <1>10, StageTransitive
<1>12. /\ Late(lines, old, modes, data)
       /\ RunPlace(lines, modes) => RunPlace(lines, data)
  BY <1>10, ExecNonModalLate DEF Stage, data
<1>13. /\ Late(lines, old, data, moved)
       /\ RunPlace(lines, data) => StatePlace(lines, moved.g, moved.planned)
  BY <1>12, ExecMotionLate DEF Late, moved
<1>14. Late(lines, old, modes, moved)  BY <1>12, <1>13, LateTransitive
<1>15. Done(lines, old, moved, d)  BY <1>14, ExecFlowDone DEF Late, d
<1>16. /\ Same(c, speed) /\ RunShape(speed)
       /\ RunPlace(lines, c) /\ (c.g.rpm # c.v["S"] => Alone(lines, c))
            => RunPlace(lines, speed)
  <2>1. fed.v = c.v /\ fed.nm = c.nm /\ fed.cmd = c.cmd  BY <1>1 DEF Same, Read, ContextFields
  <2> QED  BY <1>1, <1>2, <2>1 DEF Same, Alone
<1>17. Same(c, moved)  BY <1>11, <1>14, <1>16 DEF Stage, Late, Same
<1>18. moved.m = c.m /\ moved.state = c.state /\ moved.flow = c.flow /\ moved.nm = c.nm
  BY <1>17 DEF Same, Read, ContextFields
<1>19. StateShape(d.g)  BY <1>15 DEF Done
<1>20. RunCoords(lines, c) => StateCoords(lines, d.g)
  <2>1. RunCoords(lines, c) => RunCoords(lines, modes)  BY <1>1, <1>2, <1>11 DEF Stage
  <2>2. RunCoords(lines, modes) => LateCoords(lines, modes)  BY DEF RunCoords, LateCoords
  <2> QED  BY <2>1, <2>2, <1>14, <1>15 DEF Late, Done
<1>21. StateFed(c.g) /\ GivesFeed(c) => StateFed(d.g)
  BY <1>1, <1>2, <1>11, <1>14, <1>15 DEF Stage, Late, Done
<1>22. RunPlace(lines, c) /\ (c.g.rpm # c.v["S"] => Alone(lines, c))
         => StatePlace(lines, d.g, d.planned)
  BY <1>11, <1>12, <1>13, <1>15, <1>16 DEF Stage, Done
<1>23. RunModes(old, c) /\ ~d.cancel /\ c.state # 72 /\ c.flow \notin {2, 30}
         => \A x \in ModeGroups : d.g.modes[x] \in {old[x], c.m[x]}
  BY <1>1, <1>2, <1>11, <1>14, <1>15, <1>18 DEF Stage, Late, Done
<1> QED  BY <1>0, <1>19, <1>20, <1>21, <1>22, <1>23

-----------------------------------------------------------------------------
(* Blocks, and the context in which one is executed *)

\* A code that a block names is of its group.
LEMMA NamedCodes ==
    ASSUME NEW l
    PROVE  LET b == Sorted(l)
           IN /\ DOMAIN b.v = Values
              /\ b.named = Named(l)
              /\ \A x \in Groups : x \notin Named(l) => b.number[x] = -1
              /\ b.number["G12"] \in Systems \cup {-1}
<1> DEFINE b == Sorted(l)
<1>1. /\ DOMAIN b.v = Values /\ b.named = Named(l)
      /\ \A x \in Groups : x \notin Named(l) => b.number[x] = -1
  BY DEF Sorted
<1>2. CASE "G12" \notin Named(l)
  <2>1. "G12" \in Groups  BY DEF Groups, GGroup
  <2> QED  BY <1>1, <1>2, <2>1
<1>3. CASE "G12" \in Named(l)
  <2> DEFINE i == CHOOSE j \in Codes(l) : Group(l, j) = "G12"
             n == l[i][2]
             table == IF l[i][1] = "G" THEN GGroup ELSE MGroup
             groups == {x \in DOMAIN table : n \in table[x]}
  <2>1. i \in Codes(l) /\ Group(l, i) = "G12"  BY <1>3 DEF Named
  <2>2. b.number["G12"] = n
    <3>1. "G12" \in Groups  BY DEF Groups, GGroup
    <3> QED  BY <1>3, <3>1 DEF Sorted
  <2> HIDE DEF i
  <2>3. Group(l, i) = IF groups = {} THEN "" ELSE CHOOSE x \in groups : TRUE
    BY Zenon DEF Group
  <2>4. "G12" \in groups
    <3> HIDE DEF groups
    <3> QED  BY <2>1, <2>3
  <2>5. table = GGroup
    <3>1. "G12" \notin DOMAIN MGroup  BY DEF MGroup
    <3> QED  BY <2>4, <3>1
  <2>6. n \in Systems  BY <2>4, <2>5 DEF GGroup
  <2> QED  BY <1>1, <2>2, <2>6
<1> QED  BY <1>1, <1>2, <1>3

\* What a block was checked against stays in place, also when it is refused.
LEMMA CheckedState ==
    ASSUME NEW lines \in Vocabularies, NEW line \in lines, NEW s, StateShape(s), NEW jog, NEW end
    PROVE  LET c == Checked(s, Blocks[line], jog)
           IN /\ Passed(s, Blocks[line], jog, c)
              /\ StateShape(c.g) /\ c.g.modes = s.modes /\ c.g.position = s.position
              /\ StateCoords(lines, s) => StateCoords(lines, c.g)
              /\ StateFed(s) => StateFed(c.g)
              /\ StatePlace(lines, s, end) => StatePlace(lines, c.g, end)
<1> DEFINE b == Blocks[line]
           c == Checked(s, b, jog)
<1>1. b = Sorted(line)  BY DEF Blocks
<1>2. DOMAIN b.v = Values  BY <1>1, NamedCodes
<1> HIDE DEF b
<1>3. Passed(s, b, jog, c)  BY <1>2, CheckedPassed DEF StateShape
<1> HIDE DEF c
<1>4. DOMAIN c.g = StateFields  BY <1>3 DEF Passed, Shape
<1>5. /\ c.g.modes = s.modes /\ c.g.position = s.position /\ c.g.feed = s.feed /\ c.g.fed = s.fed
      /\ c.g.snapshot = s.snapshot /\ c.g.wcs = s.wcs /\ c.g.stored = s.stored
  <2>1. \A f \in StateFields \ Written : c.g[f] = s[f]  BY <1>3 DEF Passed
  <2> QED  BY <2>1 DEF StateFields, Written
<1>6. StateShape(c.g)  BY <1>4, <1>5 DEF StateShape
<1>7. StateCoords(lines, s) => StateCoords(lines, c.g)  BY <1>5 DEF StateCoords
<1>8. StateFed(s) => StateFed(c.g)  BY <1>5 DEF StateFed
<1>9. StatePlace(lines, s, end) => StatePlace(lines, c.g, end)  BY <1>5 DEF StatePlace
<1> QED  BY <1>3, <1>5, <1>6, <1>7, <1>8, <1>9 DEF c, b

\* A block that passed is ready for the execution.
LEMMA BlockReady ==
    ASSUME NEW lines \in Vocabularies, NEW line \in lines, NEW s, StateShape(s), NEW end,
           NEW cut \in Waits \cup {"none"}, NEW at, NEW checked,
           Passed(s, Blocks[line], FALSE, checked), checked.ok
    PROVE  LET c == [[checked EXCEPT !.planned = end] EXCEPT !.cut = cut, !.at = at]
           IN /\ RunShape(c)
              /\ RestoresCurrent /\ StateCoords(lines, s) => RunCoords(lines, c)
              /\ StateFed(s) => StateFed(c.g)
              /\ EndsWithoutFeed => GivesFeed(c)
              /\ MovesAlone /\ StatePlace(lines, s, end)
                   => RunPlace(lines, c) /\ (c.g.rpm # c.v["S"] => Alone(lines, c))
              /\ RunModes(s.modes, c)
<1> DEFINE b == Blocks[line]
           c == [[checked EXCEPT !.planned = end] EXCEPT !.cut = cut, !.at = at]
           before == Context(s, b, FALSE)
<1>1. /\ DOMAIN c = ContextFields
      /\ c.planned = end /\ c.cut = cut /\ c.at = at
      /\ \A f \in ContextFields \ {"planned", "cut", "at"} : c[f] = checked[f]
  BY DEF Passed, Shape, ContextFields
<1> HIDE DEF c
<1>2. /\ c.g = checked.g /\ c.m = checked.m /\ c.v = checked.v /\ c.left = checked.left
      /\ c.wcs = checked.wcs /\ c.named = checked.named /\ c.nm = checked.nm
      /\ c.flow = checked.flow /\ c.state = checked.state /\ c.cmd = checked.cmd
      /\ c.cancel = checked.cancel
  BY <1>1 DEF ContextFields
<1>3. /\ b = Sorted(line)
      /\ \A x \in Groups : x \notin b.named => b.number[x] = -1
      /\ b.number["G12"] \in Systems \cup {-1}
  <2>1. b = Sorted(line)  BY DEF Blocks
  <2> QED  BY <2>1, NamedCodes
<1> HIDE DEF b
<1>4. /\ before.nm = Pick(b, "G0", 0) /\ before.flow = Pick(b, "M4", -1)
      /\ before.state = Pick(b, "State", 0) /\ before.cancel = FALSE
      /\ before.named = b.named
      /\ \A x \in ModeGroups : before.m[x] = Pick(b, x, s.modes[x])
  BY DEF Context
<1>5. LastFeed(before) = IF before.m["G5"] = 940 /\ s.modes["G5"] = 940 THEN s.feed ELSE 0
  BY DEF LastFeed, Context
<1> HIDE DEF before
<1>6. Passed(s, b, FALSE, checked)  BY DEF b
<1>7. /\ DOMAIN c.g = StateFields /\ DOMAIN c.m = ModeGroups
      /\ c.nm = before.nm /\ c.flow = before.flow /\ c.state = before.state
      /\ c.cancel = FALSE /\ c.named = b.named
      /\ \A x \in ModeGroups \ {"G10"} : c.m[x] = before.m[x]
      /\ c.cmd = "motion" => b.cmd = "motion" \/ Axes \cap b.letters # {}
  BY <1>2, <1>4, <1>6, ZenonT(60) DEF Passed, Shape, Fixed, before
<1>8. /\ "F" \notin b.letters => c.v["F"] = LastFeed(before)
      /\ "F" \in c.left <=> "F" \in b.letters
      /\ "S" \notin b.letters => c.v["S"] = s.rpm
      /\ c.wcs = IF before.m["G12"] = s.modes["G12"] THEN s.wcs ELSE s.stored[before.m["G12"]]
  BY <1>2, <1>6 DEF Passed, before
<1>9. /\ c.g.modes = s.modes /\ c.g.position = s.position /\ c.g.feed = s.feed /\ c.g.fed = s.fed
      /\ c.g.snapshot = s.snapshot /\ c.g.wcs = s.wcs /\ c.g.stored = s.stored
      /\ c.g.rpm = s.rpm
  <2>1. \A f \in StateFields \ Written : c.g[f] = s[f]  BY <1>2, <1>6 DEF Passed
  <2> QED  BY <2>1 DEF StateFields, Written
<1>10. /\ c.m["G12"] = before.m["G12"] /\ c.m["G5"] = before.m["G5"]
       /\ c.m["G1"] = Pick(b, "G1", s.modes["G1"]) /\ c.m["G12"] \in Systems
  <2>1. before.m["G12"] \in Systems  BY <1>3, <1>4 DEF Pick, StateShape, ModeGroups
  <2> QED  BY <1>4, <1>7, <2>1 DEF ModeGroups
<1>11. RunShape(c)  BY <1>1, <1>7, <1>9, <1>10 DEF RunShape, StateShape
<1>12. ASSUME RestoresCurrent, StateCoords(lines, s)
       PROVE  RunCoords(lines, c)
  <2>1. c.wcs = c.g.stored[c.m["G12"]]  BY <1>8, <1>9, <1>10, <1>12 DEF StateCoords
  <2>2. c.nm = 100 => ~WritesNone(lines)  BY <1>4, <1>7 DEF WritesNone, Pick, b
  <2>3. c.state = 72 => WritesNone(lines)  BY <1>4, <1>7, <1>12 DEF RestoresCurrent, Pick, b
  <2> QED  BY <1>9, <1>12, <2>1, <2>2, <2>3 DEF RunCoords, StateCoords
<1>13. StateFed(s) => StateFed(c.g)  BY <1>9 DEF StateFed
<1>14. ASSUME EndsWithoutFeed
       PROVE  GivesFeed(c)
  <2>1. "F" \notin c.left => \/ c.v["F"] = 0
                             \/ /\ c.v["F"] = c.g.feed
                                /\ c.m["G5"] = 940 /\ c.g.modes["G5"] = 940
    BY <1>5, <1>8, <1>9, <1>10
  <2>2. c.flow \in {2, 30} => c.state # 72 /\ "F" \notin c.left
    BY <1>4, <1>7, <1>8, <1>14 DEF EndsWithoutFeed, Pick, b
  <2> QED  BY <2>1, <2>2 DEF GivesFeed
<1>15. ASSUME MovesAlone, StatePlace(lines, s, end)
       PROVE  RunPlace(lines, c) /\ (c.g.rpm # c.v["S"] => Alone(lines, c))
  <2>1. /\ b.number["G1"] \notin Cycles \ Drills
        /\ WaitsFirst(b) => /\ b.number["G0"] \notin GoHome
                            /\ \/ NoCycles(lines)
                               \/ b.cmd # "motion" /\ b.letters \cap Axes = {}
    BY <1>15 DEF MovesAlone, b
  <2>2. NoCycles(lines) => b.number["G1"] \notin Cycles  BY DEF NoCycles, b
  <2>3. Moves(lines, c.m["G1"])  BY <1>10, <1>15, <2>1, <2>2 DEF Moves, Pick, StatePlace
  <2>4. WaitsFirst(b) => Alone(lines, c)
    BY <1>4, <1>7, <2>1 DEF Alone, Pick, GoHome
  <2>5. c.named \cap {"M6", "M7", "M8", "M9"} # {} \/ c.nm = 40 => WaitsFirst(b)
    BY <1>4, <1>7 DEF WaitsFirst, Pick
  <2>6. c.g.rpm # c.v["S"] => WaitsFirst(b)  BY <1>8, <1>9 DEF WaitsFirst
  <2>7. c.cut \notin {"home", "drill"}  BY <1>1, <1>15 DEF MovesAlone
  <2>8. StatePlace(lines, c.g, c.planned)  BY <1>1, <1>9, <1>15 DEF StatePlace
  <2> QED  BY <1>7, <2>3, <2>4, <2>5, <2>6, <2>7, <2>8 DEF RunPlace
<1>16. RunModes(s.modes, c)  BY <1>9 DEF RunModes
<1> QED  BY <1>11, <1>12, <1>13, <1>14, <1>15, <1>16 DEF c
-----------------------------------------------------------------------------
(* The actions *)

\* Each part holds of the programs that it is promised for.
GcodeInv ==
    /\ words \in Vocabularies
    /\ StateShape(g)
    /\ RestoresCurrent => StateCoords(words, g)
    /\ EndsWithoutFeed => StateFed(g)
    /\ MovesAlone => StatePlace(words, g, planned)

LEMMA InitInv ==
    ASSUME Init
    PROVE  GcodeInv
<1> DEFINE s == [tool |-> 0, g92 |-> Origin, tlo |-> Origin, table |-> [t \in Tools |-> Origin],
                 stored |-> [k \in Stored |-> Origin]]
<1>1. words \in Vocabularies /\ g = Restarted(s, FALSE, Origin) /\ planned = Origin
  BY DEF Init
<1>2. DefaultModes["G1"] = 0 /\ DefaultModes["G12"] = 540 /\ DOMAIN DefaultModes = ModeGroups
  BY DEF DefaultModes, ModeGroups
<1>3. DOMAIN s.stored = Stored  OBVIOUS
<1> HIDE DEF s
<1>4. /\ DOMAIN g = StateFields /\ g.modes = DefaultModes /\ g.feed = 0
      /\ g.snapshot = NoSnapshot /\ g.position = planned
      /\ g.wcs = g.stored[g.modes["G12"]] /\ g.stored = s.stored
  BY <1>1 DEF Restarted, StateFields
<1>5. ~NoSnapshot.saved  BY DEF NoSnapshot
<1>6. StateShape(g)  BY <1>2, <1>3, <1>4, <1>5, SystemsAssumption DEF StateShape
<1>7. StateCoords(words, g)  BY <1>4, <1>5 DEF StateCoords
<1>8. StateFed(g)  BY <1>4, <1>5 DEF StateFed
<1>9. StatePlace(words, g, planned)  BY <1>2, <1>4 DEF StatePlace, Moves, Cycles
<1> QED  BY <1>1, <1>6, <1>7, <1>8, <1>9 DEF GcodeInv

\* A block that is refused leaves the modes, the position and the offsets alone.
LEMMA RefusedKeeps ==
    ASSUME GcodeInv, NEW line \in words, NEW jog, NEW checked,
           checked = Checked(g, Blocks[line], jog),
           NEW c, c = [checked EXCEPT !.planned = planned], Outcome(line, c, c)
    PROVE  GcodeInv' /\ ChangesItsModes
<1>1. /\ Passed(g, Blocks[line], jog, checked)
      /\ StateShape(checked.g) /\ checked.g.modes = g.modes
      /\ StateCoords(words, g) => StateCoords(words, checked.g)
      /\ StateFed(g) => StateFed(checked.g)
      /\ StatePlace(words, g, planned) => StatePlace(words, checked.g, planned)
  BY CheckedState DEF GcodeInv
<1>2. c.g = checked.g /\ c.planned = planned
  BY <1>1 DEF Passed, Shape, ContextFields
<1>3. g' = checked.g /\ planned' = planned /\ words' = words  BY <1>2 DEF Outcome
<1>4. ChangesItsModes  BY <1>1, <1>3 DEF ChangesItsModes
<1>5. GcodeInv'  BY <1>1, <1>3 DEF GcodeInv
<1> QED  BY <1>4, <1>5

LEMMA PickOther ==
    ASSUME NEW b
    PROVE  /\ b.number["State"] # 72 => Pick(b, "State", 0) # 72
           /\ b.number["M4"] \notin {2, 30} => Pick(b, "M4", -1) \notin {2, 30}
BY DEF Pick

LEMMA ExecutedKeeps ==
    ASSUME GcodeInv, NEW line \in words, NEW checked,
           checked = Checked(g, Blocks[line], FALSE),
           NEW c, c = [checked EXCEPT !.planned = planned], c.ok,
           NEW cut \in Waits \cup {"none"}, NEW at,
           NEW d, d = Executed([c EXCEPT !.cut = cut, !.at = at]), Outcome(line, c, d)
    PROVE  GcodeInv' /\ ChangesItsModes
<1> DEFINE b == Blocks[line]
           begun == [c EXCEPT !.cut = cut, !.at = at]
<1>0. words \in Vocabularies /\ StateShape(g)  BY DEF GcodeInv
<1>1. Passed(g, b, FALSE, checked)  BY <1>0, CheckedState
<1>2. /\ checked.ok /\ c.ok = checked.ok /\ c.jog = checked.jog /\ c.cancel = checked.cancel
  BY <1>1 DEF Passed, Shape, ContextFields
<1>3. /\ RunShape(begun)
      /\ RestoresCurrent /\ StateCoords(words, g) => RunCoords(words, begun)
      /\ StateFed(g) => StateFed(begun.g)
      /\ EndsWithoutFeed => GivesFeed(begun)
      /\ MovesAlone /\ StatePlace(words, g, planned)
           => RunPlace(words, begun) /\ (begun.g.rpm # begun.v["S"] => Alone(words, begun))
      /\ RunModes(g.modes, begun)
  BY <1>0, <1>1, <1>2, BlockReady
<1>4. /\ \A f \in ContextFields \ {"planned", "cut", "at"} : begun[f] = checked[f]
  BY <1>1 DEF Passed, Shape, ContextFields
<1>5. d = Executed(begun)  OBVIOUS
<1> HIDE DEF begun
<1>6. /\ StateShape(d.g)
      /\ RunCoords(words, begun) => StateCoords(words, d.g)
      /\ StateFed(begun.g) /\ GivesFeed(begun) => StateFed(d.g)
      /\ RunPlace(words, begun) /\ (begun.g.rpm # begun.v["S"] => Alone(words, begun))
           => StatePlace(words, d.g, d.planned)
      /\ RunModes(g.modes, begun) /\ ~d.cancel /\ begun.state # 72 /\ begun.flow \notin {2, 30}
           => \A x \in ModeGroups : d.g.modes[x] \in {g.modes[x], begun.m[x]}
  BY ZenonT(60), <1>3, <1>5, ExecutedDone
<1>7. /\ g' = d.g /\ planned' = d.planned /\ words' = words
      /\ last' = [line |-> line, jog |-> c.jog, ok |-> c.ok, cancel |-> d.cancel]
  BY DEF Outcome
<1>8. GcodeInv'  BY <1>3, <1>6, <1>7 DEF GcodeInv
<1>9. ASSUME NEW x \in ModeGroups, g'.modes[x] # g.modes[x], ~last'.cancel,
             LastCode("M4")' \notin {2, 30}, LastCode("State")' # 72
      PROVE  last'.ok /\ ~last'.jog /\ x \in Blocks[last'.line].named \cup {"G10"}
  <2>1. last'.line = line /\ last'.ok /\ last'.jog = checked.jog /\ ~d.cancel
    BY <1>2, <1>7, <1>9
  <2>2. b.number["M4"] \notin {2, 30} /\ b.number["State"] # 72
    BY <1>9, <2>1 DEF LastCode, Blocks
  <2>3. /\ checked.state = Pick(b, "State", 0) /\ checked.flow = Pick(b, "M4", -1)
        /\ checked.jog = FALSE
        /\ \A y \in ModeGroups \ {"G10"} : checked.m[y] = Pick(b, y, g.modes[y])
    BY <1>1, Zenon DEF Passed, Context, Fixed
  <2>4. begun.state # 72 /\ begun.flow \notin {2, 30} /\ begun.m = checked.m
    <3>1. begun.state = checked.state /\ begun.flow = checked.flow /\ begun.m = checked.m
      BY <1>4 DEF ContextFields
    <3>2. checked.state # 72 /\ checked.flow \notin {2, 30}
      <4> HIDE DEF b
      <4> QED  BY <2>2, <2>3, PickOther
    <3> QED  BY <3>1, <3>2
  <2>5. g'.modes[x] = checked.m[x]
    <3>1. d.g.modes[x] \in {g.modes[x], begun.m[x]}  BY <1>3, <1>6, <1>9, <2>1, <2>4
    <3> QED  BY <1>7, <1>9, <2>4, <3>1
  <2>6. CASE x = "G10"  BY <2>1, <2>3, <2>6
  <2>7. CASE x # "G10"
    <3>1. b.number[x] # -1  BY <1>9, <2>3, <2>5, <2>7 DEF Pick
    <3>2. x \in Groups  BY DEF Groups, GGroup, MGroup, ModeGroups
    <3>3. b.named = Named(line) /\ (x \notin Named(line) => b.number[x] = -1)
      <4>1. b = Sorted(line)  BY <1>0 DEF Blocks
      <4> HIDE DEF b
      <4> QED  BY <3>2, <4>1, NamedCodes
    <3> QED  BY <2>1, <2>3, <3>1, <3>3
  <2> QED  BY <2>6, <2>7
<1>10. ChangesItsModes  BY <1>9 DEF ChangesItsModes
<1> QED  BY <1>8, <1>10

LEMMA BlockKeeps ==
    ASSUME GcodeInv, Block
    PROVE  GcodeInv' /\ ChangesItsModes
<1>1. PICK line \in words :
        LET c == [Checked(g, Blocks[line], FALSE) EXCEPT !.planned = planned]
            d(cut, at) == Executed([c EXCEPT !.cut = cut, !.at = at])
        IN \/ ~c.ok /\ Outcome(line, c, c)
           \/ c.ok /\ Motion(c) \notin Probes /\ Outcome(line, c, d("none", Origin))
           \/ c.ok /\ Motion(c) \in Probes /\ \E at \in Places : Outcome(line, c, d("none", at))
           \/ /\ c.ok
              /\ \E cut \in Waits : /\ d(cut, Origin).cancel
                                    /\ \E at \in Places : Outcome(line, c, d(cut, at))
  BY Zenon DEF Block
<1> DEFINE checked == Checked(g, Blocks[line], FALSE)
           c == [checked EXCEPT !.planned = planned]
           d(cut, at) == Executed([c EXCEPT !.cut = cut, !.at = at])
<1>2. \/ Outcome(line, c, c)
      \/ c.ok /\ \E cut \in Waits \cup {"none"}, at \in Places \cup {Origin} :
                   Outcome(line, c, d(cut, at))
  <2> HIDE DEF c, d
  <2> QED  BY <1>1 DEF c, d
<1>3. CASE Outcome(line, c, c)  BY <1>3, RefusedKeeps
<1>4. ASSUME c.ok, NEW cut \in Waits \cup {"none"}, NEW at, Outcome(line, c, d(cut, at))
      PROVE  GcodeInv' /\ ChangesItsModes
  BY <1>4, ExecutedKeeps
<1> QED  BY <1>2, <1>3, <1>4

LEMMA JogKeeps ==
    ASSUME GcodeInv, Jog
    PROVE  GcodeInv' /\ ChangesItsModes
<1>1. PICK line \in words :
        LET c == [Checked(g, Blocks[line], TRUE) EXCEPT !.planned = planned]
        IN Outcome(line, c, IF c.ok THEN Jogged(c) ELSE c)
  BY Zenon DEF Jog
<1> DEFINE checked == Checked(g, Blocks[line], TRUE)
           c == [checked EXCEPT !.planned = planned]
<1>2. Outcome(line, c, c) \/ Outcome(line, c, Jogged(c))  BY <1>1
<1>3. CASE Outcome(line, c, c)
  <2>1. PICK jog : jog = TRUE  OBVIOUS
  <2>2. checked = Checked(g, Blocks[line], jog)  BY <2>1
  <2> QED  BY <1>3, <2>2, RefusedKeeps
<1>4. CASE Outcome(line, c, Jogged(c))
  <2>1. PICK jog : jog = TRUE  OBVIOUS
  <2> DEFINE q == Checked(g, Blocks[line], jog)
  <2>2. checked = q  BY <2>1
  <2>3. /\ Passed(g, Blocks[line], jog, q)
        /\ StateShape(q.g) /\ q.g.modes = g.modes
        /\ StateCoords(words, g) => StateCoords(words, q.g)
        /\ StateFed(g) => StateFed(q.g)
        /\ StatePlace(words, g, planned) => StatePlace(words, q.g, planned)
    BY CheckedState DEF GcodeInv
  <2> HIDE DEF q, checked
  <2> DEFINE s == [c.g EXCEPT !.position = c.xyz]
  <2>4. c.g = q.g /\ DOMAIN c = ContextFields
    BY <2>2, <2>3 DEF Passed, Shape, ContextFields
  <2> HIDE DEF c
  <2>5. Jogged(c).g = s /\ Jogged(c).planned = c.xyz  BY <2>4 DEF Jogged, ContextFields
  <2>6. /\ DOMAIN s = StateFields /\ s.position = c.xyz
        /\ \A f \in Lasting : s[f] = q.g[f]
    BY <2>3, <2>4 DEF StateShape, StateFields, Lasting
  <2> HIDE DEF s
  <2>7. /\ s.modes = q.g.modes /\ s.feed = q.g.feed /\ s.fed = q.g.fed
        /\ s.snapshot = q.g.snapshot /\ s.wcs = q.g.wcs /\ s.stored = q.g.stored
    BY <2>6 DEF Lasting
  <2>8. g' = s /\ planned' = c.xyz /\ words' = words  BY <1>4, <2>5 DEF Outcome
  <2>9. StateShape(s)  BY <2>3, <2>6, <2>7 DEF StateShape
  <2>10. StateCoords(words, g) => StateCoords(words, s)  BY <2>3, <2>7 DEF StateCoords
  <2>11. StateFed(g) => StateFed(s)  BY <2>3, <2>7 DEF StateFed
  <2>12. StatePlace(words, g, planned) => StatePlace(words, s, c.xyz)
    BY <2>3, <2>6, <2>7 DEF StatePlace
  <2>13. GcodeInv'  BY <2>8, <2>9, <2>10, <2>11, <2>12 DEF GcodeInv
  <2>14. ChangesItsModes  BY <2>3, <2>7, <2>8 DEF ChangesItsModes
  <2> QED  BY <2>13, <2>14
<1> QED  BY <1>2, <1>3, <1>4

LEMMA ToolChangedKeeps ==
    ASSUME GcodeInv, ToolChanged
    PROVE  GcodeInv' /\ ChangesItsModes
<1>1. g' = [g EXCEPT !.toolChange = FALSE] /\ planned' = planned /\ words' = words
  BY DEF ToolChanged
<1>2. DOMAIN g' = StateFields /\ \A f \in StateFields \ {"toolChange"} : g'[f] = g[f]
  BY <1>1 DEF GcodeInv, StateShape
<1>3. /\ g'.modes = g.modes /\ g'.feed = g.feed /\ g'.fed = g.fed /\ g'.snapshot = g.snapshot
      /\ g'.wcs = g.wcs /\ g'.stored = g.stored /\ g'.position = g.position
  BY <1>2 DEF StateFields
<1>4. GcodeInv'
  BY <1>1, <1>2, <1>3 DEF GcodeInv, StateShape, StateCoords, StateFed, StatePlace
<1>5. ChangesItsModes  BY <1>3 DEF ChangesItsModes
<1> QED  BY <1>4, <1>5

LEMMA RestartKeeps ==
    ASSUME GcodeInv, NEW keep, Restart(keep)
    PROVE  GcodeInv' /\ ChangesItsModes
<1>1. PICK at \in Places : /\ g' = Restarted(g, keep, at) /\ planned' = at
                          /\ last' = NoBlock /\ words' = words
  BY Zenon DEF Restart
<1>2. /\ StateShape(g')
      /\ g'.modes["G1"] = 0 /\ g'.feed = 0 /\ ~g'.snapshot.saved
      /\ g'.position = at /\ g'.wcs = g'.stored[g'.modes["G12"]]
  BY <1>1, RestartedFacts DEF GcodeInv
<1>3. StateCoords(words', g')  BY <1>2 DEF StateCoords
<1>4. StateFed(g')  BY <1>2 DEF StateFed
<1>5. StatePlace(words', g', planned')  BY <1>1, <1>2 DEF StatePlace, Moves, Cycles
<1>6. GcodeInv'  BY <1>1, <1>2, <1>3, <1>4, <1>5 DEF GcodeInv
<1>7. ChangesItsModes  BY <1>1 DEF ChangesItsModes
<1> QED  BY <1>6, <1>7

LEMMA StepKeeps ==
    ASSUME GcodeInv, [Next]_vars
    PROVE  GcodeInv' /\ [ChangesItsModes]_vars
<1>1. CASE Block  BY <1>1, BlockKeeps
<1>2. CASE Jog  BY <1>2, JogKeeps
<1>3. CASE ToolChanged  BY <1>3, ToolChangedKeeps
<1>4. CASE Stop
  <2>1. PICK keep : keep = TRUE  OBVIOUS
  <2>2. Restart(keep)  BY <1>4, <2>1 DEF Stop
  <2> QED  BY <2>2, RestartKeeps
<1>5. CASE Reset  BY <1>5, RestartKeeps DEF Reset
<1>6. CASE UNCHANGED vars  BY <1>6 DEF vars, GcodeInv
<1> QED  BY <1>1, <1>2, <1>3, <1>4, <1>5, <1>6 DEF Next

-----------------------------------------------------------------------------
(* The theorems *)

LEMMA AlwaysInv == Spec => []GcodeInv
<1>1. Init => GcodeInv  BY InitInv
<1>2. GcodeInv /\ [Next]_vars => GcodeInv'  BY StepKeeps
<1> QED  BY <1>1, <1>2, PTL DEF Spec

\* While no vocabulary holds a G10 besides an M72, the data of the work coordinate system
\* in use is always what is stored for it: after every block, accepted or refused, jog, stop
\* in a wait and restart, whichever system was selected, saved, restored or written.
THEOREM CoordsStayFresh ==
    ASSUME RestoresCurrent
    PROVE  Spec => []CoordsFresh
<1>1. GcodeInv => CoordsFresh  BY DEF GcodeInv, StateCoords, CoordsFresh
<1> QED  BY <1>1, AlwaysInv, PTL

\* In programs that end without a feed rate, a feed rate is only used in the
\* mode it was given in, whatever modes are selected, restored or reset since.
THEOREM FeedStaysInMode ==
    ASSUME EndsWithoutFeed
    PROVE  Spec => []FeedInMode
<1>1. GcodeInv => FeedInMode  BY DEF GcodeInv, StateFed, FeedInMode
<1> QED  BY <1>1, AlwaysInv, PTL

\* In programs whose blocks wait, go home and drill separately, the parser's
\* position is the planner's after every block, jog, stop and reset.
THEOREM PositionIsTracked ==
    ASSUME MovesAlone
    PROVE  Spec => []PositionTracks
<1>1. GcodeInv => PositionTracks  BY DEF GcodeInv, StatePlace, PositionTracks
<1> QED  BY <1>1, AlwaysInv, PTL

\* No block changes a mode that it does not name, but for the retract mode,
\* program ends and M72; no jog and no block that is refused changes any.
THEOREM ModesAreNamed == Spec => ModesNamed
<1>1. GcodeInv /\ [Next]_vars => [ChangesItsModes]_vars  BY StepKeeps
<1> QED  BY <1>1, AlwaysInv, PTL DEF Spec, ModesNamed
=============================================================================
