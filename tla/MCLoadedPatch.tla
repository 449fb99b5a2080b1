---------------------------- MODULE MCLoadedPatch ----------------------------
(***************************************************************************)
(* LoadedPatch with patches: their files, what the host may send to each,  *)
(* and what it must hear.                                                  *)
(***************************************************************************)
EXTENDS LoadedPatch

-----------------------------------------------------------------------------
(* The patches, as lines of their files.  Objects that a connection names  *)
(* are counted from 0, as in a file.                                       *)

Line(hash, type, x, words) == [hash |-> hash, type |-> type, x |-> x, words |-> words]
Canvas0 == Line("#N", "canvas", 0, <<>>)
Object(words) == Line("#X", "obj", 10, words)
ObjectAt(x, words) == Line("#X", "obj", x, words)
Box(words) == Line("#X", "msg", 10, words)
Cord(from, outlet, to, inlet) ==
    Line("#X", "connect", 0, <<from, outlet, to, inlet>>)
Restored == Line("#X", "restore", 0, <<>>)
Continued(words) == Line("", "", 0, words)
NumberBox == Line("#X", "floatatom", 0, <<>>)
Comment == Line("#X", "text", 0, <<>>)
Coords == Line("#X", "coords", 0, <<>>)

T(text) == Literal(Symbol(text))
I(n) == Literal(Whole(n))
S(text) == Symbol(text)
One(label) == Object(<<T(label)>>)
ObjectFor(label, name) == Object(<<T(label), T(name)>>)
WithNumber(label, n) == Object(<<T(label), I(n)>>)

\* A chain of connections from the first outlet to the left inlet of the next.
Chain(objects) ==
    [i \in 1..(Len(objects) - 1) |-> Cord(objects[i], 0, objects[i + 1], 0)]

\* One receiver whose messages go through an object to a sender each.
Fan(name, operations) ==
    LET n == Len(operations) IN
    <<ObjectFor("r", name)>>
    \o [i \in 1..n |-> operations[i][1]]
    \o [i \in 1..n |-> ObjectFor("s", operations[i][2])]
    \o [i \in 1..n |-> Cord(0, 0, i, 0)]
    \o [i \in 1..n |-> Cord(i, 0, n + i, 0)]

-----------------------------------------------------------------------------
Counter ==
    <<Canvas0, ObjectFor("r", "in"), WithNumber("f", 0), One("+"), Continued(<<I(1)>>),
      Comment, ObjectFor("s", "out"), Cord(0, 0, 1, 0), Cord(1, 0, 2, 0),
      Cord(1, 0, 4, 0), Cord(2, 0, 1, 1)>>

\* [until] runs a counter until it has come to 3; it is set to 0 before.
Loop ==
    <<Canvas0, ObjectFor("r", "in"), Object(<<T("t"), T("a"), T("b")>>),
      Box(<<I(0)>>), One("until"), One("f"), WithNumber("+", 1),
      WithNumber("sel", 3), ObjectFor("s", "out"),
      Cord(0, 0, 1, 0), Cord(1, 1, 2, 0), Cord(2, 0, 4, 1), Cord(1, 0, 3, 0),
      Cord(3, 0, 4, 0), Cord(4, 0, 5, 0), Cord(5, 0, 4, 1), Cord(5, 0, 6, 0),
      Cord(6, 0, 3, 1), Cord(4, 0, 7, 0)>>

\* A cycle that [change] ends, and what has changed.
Cycle ==
    <<Canvas0, ObjectFor("r", "in"), One("change"), One("f"), ObjectFor("s", "out"),
      NumberBox, Cord(0, 0, 1, 0), Cord(1, 0, 2, 0), Cord(2, 0, 1, 0),
      Cord(1, 0, 4, 0), Cord(1, 0, 3, 0)>>

Operators == <<"+", "-", "*", "/", "div", "mod", "%", "min", "max", "==", "!=",
               "<", "<=", ">", ">=", "&&", "||">>
Calculations ==
    LET n == Len(Operators) IN
    <<Canvas0>>
    \o Fan("x", [i \in 1..n |-> <<One(Operators[i]), Operators[i]>>])
    \o <<ObjectFor("r", "c")>>
    \o [i \in 1..n |-> Cord(2 * n + 1, 0, i, 1)]

\* A list for "range" sets the bounds of [clip] and of [wrap].
Ranges ==
    <<Canvas0>>
    \o Fan("x", <<<<Object(<<T("clip"), I(0), I(0)>>), "clip">>,
                  <<WithNumber("wrap", 1), "wrap">>>>)
    \o <<ObjectFor("r", "range"), Object(<<T("unpack"), T("f"), T("f")>>),
         Cord(5, 0, 6, 0), Cord(6, 0, 1, 1), Cord(6, 1, 1, 2), Cord(5, 0, 2, 1),
         WithNumber("moses", 0), ObjectFor("s", "below"), ObjectFor("s", "above"),
         Cord(0, 0, 7, 0), Cord(7, 0, 8, 0), Cord(7, 1, 9, 0)>>

\* A list that is taken apart and put together again, in three ways.
Lists ==
    <<Canvas0, ObjectFor("r", "in"),
      Object(<<T("unpack"), T("f"), T("s"), T("f")>>),
      Object(<<T("pack"), T("f"), T("s"), T("f")>>), ObjectFor("s", "unpacked"),
      Cord(0, 0, 1, 0), Cord(1, 0, 2, 0), Cord(1, 1, 2, 1), Cord(1, 2, 2, 2),
      Chain(<<2, 3>>)[1],
      Object(<<T("pack"), T("f"), T("s"), T("f")>>), ObjectFor("s", "distributed"),
      Cord(0, 0, 4, 0), Cord(4, 0, 5, 0),
      Object(<<T("list"), T("append"), I(9)>>),
      Object(<<T("list"), T("length")>>), ObjectFor("s", "length"),
      Cord(0, 0, 6, 0), Cord(6, 0, 7, 0), Cord(7, 0, 8, 0),
      Object(<<T("list"), T("trim")>>), ObjectFor("s", "trimmed"),
      Cord(0, 0, 9, 0), Cord(9, 0, 10, 0)>>

\* An atom before, after and between.
Atoms1 ==
    <<Canvas0, ObjectFor("r", "in"), One("swap"),
      Object(<<T("pack"), T("f"), T("f")>>), ObjectFor("s", "swapped"),
      Cord(0, 0, 1, 0), Cord(1, 0, 2, 0), Cord(1, 1, 2, 1), Cord(2, 0, 3, 0),
      Object(<<T("list"), T("prepend"), I(8)>>), ObjectFor("s", "prepended"),
      Cord(0, 0, 4, 0), Cord(4, 0, 5, 0),
      Object(<<T("list"), T("split"), I(1)>>), ObjectFor("s", "split"),
      Cord(0, 0, 6, 0), Cord(6, 2, 7, 0)>>

Choice ==
    <<Canvas0, ObjectFor("r", "in"), Object(<<T("route"), I(1), I(2), T("a")>>),
      Object(<<T("sel"), I(1), I(2), T("a")>>)>>
    \o [i \in 1..4 |-> ObjectFor("s", <<"r0", "r1", "r2", "r3">>[i])]
    \o [i \in 1..4 |-> ObjectFor("s", <<"s0", "s1", "s2", "s3">>[i])]
    \o <<Cord(0, 0, 1, 0), Cord(0, 0, 2, 0)>>
    \o [i \in 1..4 |-> Cord(1, i - 1, i + 2, 0)]
    \o [i \in 1..4 |-> Cord(2, i - 1, i + 6, 0)]

\* Two instances of an abstraction, each with a value of its own, that is set
\* by the instance and read by a subpatch of it.
Shared ==
    <<Canvas0, ObjectFor("cell", "a"), ObjectFor("cell", "b")>>
Cell ==
    <<Canvas0, Object(<<T("r"), Joined(1, "-set")>>),
      Object(<<T("v"), Joined(0, "-value")>>), Cord(0, 0, 1, 0),
      Object(<<T("r"), Joined(1, "-get")>>),
      Canvas0, One("inlet"), Object(<<T("v"), Joined(0, "-value")>>), One("outlet"),
      Cord(0, 0, 1, 0), Cord(1, 0, 2, 0), Restored,
      Object(<<T("s"), Joined(1, "-out")>>), Cord(2, 0, 3, 0), Cord(3, 0, 4, 0)>>

Table ==
    <<Canvas0, Object(<<T("table"), T("t"), I(2)>>), ObjectFor("tabwrite", "t"),
      ObjectFor("tabread", "t"), ObjectFor("r", "write"), ObjectFor("r", "index"),
      ObjectFor("r", "read"), ObjectFor("s", "out"), Cord(3, 0, 1, 0), Cord(4, 0, 1, 1),
      Cord(5, 0, 2, 0), Cord(2, 0, 6, 0)>>

Sound ==
    <<Canvas0, Object(<<T("table"), T("t"), I(2)>>), ObjectFor("r", "load"),
      One("soundfiler"), ObjectFor("s", "frames"), Cord(1, 0, 2, 0), Cord(2, 0, 3, 0),
      ObjectFor("r", "read"), ObjectFor("tabread", "t"), ObjectFor("s", "out"),
      Cord(4, 0, 5, 0), Cord(5, 0, 6, 0)>>

\* The elements go past the end of the array.
ArrayFile ==
    <<Canvas0, Line("#X", "array", 0, <<T("t"), I(3)>>),
      Line("#A", "", 0, <<0, 1, 3>>), Line("#A", "", 0, <<2, 0, 9>>), Coords, Coords,
      ObjectFor("tabread", "t"), ObjectFor("r", "read"), ObjectFor("s", "out"),
      Cord(2, 0, 1, 0), Cord(1, 0, 3, 0)>>

\* The directories of abstractions are declared by the patch and by a subpatch.
Library ==
    <<Canvas0, Line("#X", "declare", 0, <<T("-path"), T("lib")>>),
      Canvas0, Line("#X", "declare", 0, <<T("-path"), T("/common/")>>), Restored,
      ObjectFor("r", "in"), WithNumber("plus", 4), ObjectFor("s", "plus"),
      WithNumber("times", 3), ObjectFor("s", "times"), Cord(1, 0, 2, 0), Cord(2, 0, 3, 0),
      Cord(1, 0, 4, 0), Cord(4, 0, 5, 0), One("absent")>>
Operation(label) ==
    <<Canvas0, One("inlet"), Object(<<T(label), Dollar(1)>>), One("outlet"),
      Cord(0, 0, 1, 0), Cord(1, 0, 2, 0)>>

\* Lists for the outlet, and then for "out".
Boxes ==
    <<Canvas0, ObjectFor("r", "in"),
      Box(<<Dollar(2), T("x"), Dollar(1), Comma, Dollar(3), Semicolon,
            T("remote"), Dollar(1)>>),
      ObjectFor("s", "local"), Cord(0, 0, 1, 0), Cord(1, 0, 2, 0)>>

\* The left inlet is made after the right one, and the right one first set.
Inlets ==
    <<Canvas0, One("loadbang"), Box(<<I(1)>>), ObjectFor("s", "right"),
      Cord(0, 0, 1, 0), Cord(1, 0, 2, 0),
      Canvas0, ObjectAt(50, <<T("inlet")>>), ObjectAt(10, <<T("inlet")>>),
      One("-"), One("outlet"),
      Cord(0, 0, 2, 1), Cord(1, 0, 2, 0), Cord(2, 0, 3, 0), Restored,
      ObjectFor("r", "right"), ObjectFor("r", "left"), ObjectFor("s", "out"),
      Cord(4, 0, 3, 1), Cord(5, 0, 3, 0), Cord(3, 0, 6, 0)>>

\* There and back again.
Path(name, objects) ==
    <<ObjectFor("r", name)>> \o objects \o <<ObjectFor("s", name \o "-back")>>
Inverses ==
    <<Canvas0>>
    \o Path("note", <<One("mtof"), One("ftom")>>) \o Chain(<<0, 1, 2, 3>>)
    \o Path("rms", <<One("dbtorms"), One("rmstodb")>>) \o Chain(<<4, 5, 6, 7>>)
    \o Path("power", <<One("dbtopow"), One("powtodb")>>) \o Chain(<<8, 9, 10, 11>>)
    \o Path("root", <<One("abs"), WithNumber("pow", 2), One("sqrt")>>)
    \o Chain(<<12, 13, 14, 15, 16>>)
    \o Path("exponent", <<One("exp"), One("log")>>) \o Chain(<<17, 18, 19, 20>>)
    \o Path("angle", <<One("tan"), One("atan"), One("sin"), WithNumber("atan2", 1)>>)
    \o Chain(<<21, 22, 23, 24, 25, 26>>)
    \o <<One("cos"), ObjectFor("s", "cosine"), Cord(25, 0, 27, 0), Cord(27, 0, 28, 0),
         ObjectFor("r", "rate"), One("samplerate"), ObjectFor("s", "rate-back"),
         Cord(29, 0, 30, 0), Cord(30, 0, 31, 0)>>

Notes ==
    <<Canvas0, One("notein"), Object(<<T("pack"), T("f"), T("f"), T("f")>>),
      ObjectFor("s", "omni"), Cord(0, 2, 1, 2), Cord(0, 1, 1, 1), Cord(0, 0, 1, 0),
      Cord(1, 0, 2, 0), WithNumber("notein", 2), One("stripnote"),
      ObjectFor("s", "channel"), Cord(3, 0, 5, 0), Cord(3, 0, 4, 0),
      ObjectFor("s", "stripped"), Cord(4, 0, 6, 0),
      ObjectFor("makefilename", "note"), Cord(3, 0, 7, 0), ObjectFor("s", "file"),
      Cord(7, 0, 8, 0)>>

\* A switch lets messages through, in whole numbers and as a symbol.
Gate ==
    <<Canvas0, ObjectFor("r", "gate"), One("tgl"), One("spigot"), ObjectFor("r", "in"),
      One("i"), ObjectFor("s", "out"), Cord(0, 0, 1, 0), Cord(1, 0, 2, 1),
      Cord(3, 0, 4, 0), Cord(4, 0, 2, 0), Cord(2, 0, 5, 0),
      One("symbol"), ObjectFor("s", "word"), Cord(3, 0, 6, 0), Cord(6, 0, 7, 0)>>

Clock ==
    <<Canvas0, ObjectFor("r", "start"), ObjectFor("r", "stop"), One("timer"),
      ObjectFor("s", "elapsed"), Cord(0, 0, 2, 0), Cord(1, 0, 2, 1), Cord(2, 0, 3, 0),
      WithNumber("random", 3), ObjectFor("s", "random"), One("bng"), Cord(1, 0, 6, 0),
      Cord(6, 0, 4, 0), Cord(4, 0, 5, 0)>>

-----------------------------------------------------------------------------
(* What the host may send to each, and what it must hear.                  *)

Directory == "/patches/"
MCPatches == {"counter", "loop", "cycle", "numbers", "ranges", "lists", "atoms",
              "choice", "shared", "table", "array", "library", "boxes", "inlets",
              "inverses", "notes", "gate", "clock", "sound"}
MCFiles ==
    LET inRoot == [counter |-> Counter, loop |-> Loop, cycle |-> Cycle,
                   numbers |-> Calculations, ranges |-> Ranges, lists |-> Lists,
                   atoms |-> Atoms1, choice |-> Choice, shared |-> Shared,
                   cell |-> Cell, table |-> Table, array |-> ArrayFile,
                   library |-> Library, boxes |-> Boxes, inlets |-> Inlets,
                   inverses |-> Inverses, notes |-> Notes, gate |-> Gate,
                   clock |-> Clock, sound |-> Sound]
    IN  [path \in {Directory \o name : name \in DOMAIN inRoot} |->
            inRoot[SubSeq(path, Len(Directory) + 1, Len(path))]]
        @@ ("/patches/lib/plus" :> Operation("+"))
        @@ ("/common/times" :> Operation("*"))

\* Three frames of two channels, and one of one.
MCSounds ==
    ("/patches/tone" :> <<<<1, 11>>, <<2, 12>>, <<3, 13>>>>)
    @@ ("/patches/click" :> <<<<7>>>>)

Input(name, atoms) == [name |-> name, atoms |-> atoms]
InputsOf(name, lists) == {Input(name, atoms) : atoms \in lists}
Numbers(set) == {<<Whole(n)>> : n \in set}
LoadInto(flags, file, table) ==
    LET words == <<"read">> \o flags \o <<file, table>> IN
    Input("load", [i \in DOMAIN words |-> Symbol(words[i])])
Half(n) == Float((n * Unit) \div 2)

MCInputs(patch) ==
    CASE patch \in {"counter", "loop"} -> InputsOf("in", {<<Bang>>} \cup Numbers({2, 5}))
      [] patch = "cycle" -> InputsOf("in", {<<Bang>>} \cup Numbers({0, 1, 2}))
      [] patch = "numbers" -> InputsOf("x", {<<Bang>>} \cup Numbers({-7, -3, 0, 4}))
                              \cup InputsOf("c", Numbers({-3, 0, 2}))
      [] patch = "ranges" -> InputsOf("x", {<<Half(n)>> : n \in {-5, -2, 1, 2, 6}})
                             \cup InputsOf("range", {<<Whole(-1), Whole(1)>>,
                                                     <<Whole(2), Whole(-1)>>})
      [] patch = "lists" -> InputsOf("in", {<<Whole(1), Symbol("a"), Whole(2)>>,
                                            <<Whole(3), Symbol("b"), Whole(4)>>})
      [] patch = "atoms" -> InputsOf("in", {<<Whole(1), Whole(2)>>, <<Whole(3)>>, <<Bang>>})
      [] patch = "choice" -> InputsOf("in", {<<Whole(1), Whole(5)>>, <<Whole(2)>>,
                                             <<Symbol("a"), Whole(1)>>,
                                             <<Whole(7), Whole(1)>>, <<Bang>>})
      [] patch = "shared" -> InputsOf("a-set", Numbers({1})) \cup InputsOf("b-set", Numbers({2}))
                             \cup InputsOf("a-get", {<<Bang>>})
                             \cup InputsOf("b-get", {<<Bang>>})
      [] patch = "table" -> InputsOf("index", Numbers({0, 2}))
                            \cup InputsOf("write", Numbers({5, 7}))
                            \cup InputsOf("read", Numbers({0, 2}))
                            \cup InputsOf("t", {<<Symbol("resize"), Whole(3)>>})
      [] patch = "sound" -> InputsOf("read", Numbers(0..3))
                            \cup {LoadInto(flags, file, table) : flags \in {<<>>, <<"-resize">>},
                                     file \in {"click"}, table \in {"t"}}
                            \cup {LoadInto(<<"-resize">>, "tone", "t"),
                                  LoadInto(<<"-resize">>, "tone", "absent"),
                                  LoadInto(<<"-resize">>, "absent", "t")}
      [] patch = "array" -> InputsOf("read", Numbers(0..3))
                            \cup InputsOf("t", {<<Symbol("normalize")>>})
      [] patch = "library" -> InputsOf("in", Numbers({1, 2}))
      [] patch = "boxes" -> InputsOf("in", {<<Whole(3), Whole(4)>>, <<Symbol("a")>>,
                                            <<Bang, Symbol("b"), Whole(1)>>})
      [] patch = "inlets" -> InputsOf("left", Numbers({5})) \cup InputsOf("right", Numbers({2}))
      [] patch = "inverses" -> InputsOf("note", Numbers({57, 69, 81}))
                               \cup InputsOf("rms", Numbers({80, 100, 120}))
                               \cup InputsOf("power", Numbers({100, 120}))
                               \cup InputsOf("root", Numbers({-3, 0, 2}))
                               \cup InputsOf("exponent", Numbers({0}))
                               \cup InputsOf("angle", Numbers({0}))
                               \cup InputsOf("rate", {<<Bang>>})
      [] patch = "notes" -> {Input(to, <<Whole(note), Whole(velocity), Whole(1)>>) :
                                 to \in {"zg_notein_1", "zg_notein_omni"},
                                 note \in {60}, velocity \in {0, 100}}
      [] patch = "gate" -> InputsOf("gate", {<<Bang>>} \cup Numbers({0, 3}))
                           \cup InputsOf("in", {<<Half(3)>>, <<Symbol("a")>>})
      [] patch = "clock" -> InputsOf("start", {<<Bang>>}) \cup InputsOf("stop", {<<Bang>>})
MCRequests(patch) ==
    CASE patch = "table" -> 5
      [] patch \in {"counter", "cycle", "shared", "gate", "sound"} -> 4
      [] patch \in {"numbers", "clock"} -> 3
      [] OTHER -> 2

MCExternalReceivers ==
    {"out", "clip", "wrap", "below", "above", "unpacked", "distributed", "length",
     "trimmed", "swapped", "prepended", "split", "r0", "r1", "r2", "r3", "s0", "s1",
     "s2", "s3", "a-out", "b-out", "plus", "times", "local", "remote", "note-back",
     "rms-back", "power-back", "root-back", "exponent-back", "angle-back", "cosine",
     "rate-back", "omni", "channel", "stripped", "file", "word", "elapsed", "random",
     "frames"}
    \cup {Operators[i] : i \in DOMAIN Operators}

\* The C library, at the points that these patches compute.
MCLibM(function, x, y) ==
    LET Power(base, n) == base ^ (n \div Unit) * Unit
        Exponent(base, value) ==
            Unit * CHOOSE n \in 0..9 : base ^ n * Unit = value
    IN  CASE function = "exp2f" -> IF x < 0 THEN Unit \div (2 ^ (-(x \div Unit)))
                                   ELSE Power(2, x)
          [] function = "log2f" -> IF x < Unit THEN -Exponent(2, (Unit * Unit) \div x)
                                   ELSE Exponent(2, x)
          [] function = "exp10f" -> Power(10, x)
          [] function = "log10f" -> Exponent(10, x)
          [] function = "powf" -> Power(x \div Unit, y)
          [] function = "sqrtf" -> Unit * CHOOSE r \in 0..9 : r * r * Unit = x
          [] function \in {"expf", "cosf"} /\ x = 0 -> Unit
          [] function = "logf" /\ x = Unit -> 0
          [] function \in {"tanf", "atanf", "sinf", "atan2f"} /\ x = 0 -> 0

-----------------------------------------------------------------------------
\* What was heard by a name, and what was last sent to one.
Heard(name) ==
    LET own == SelectSeq(heard, LAMBDA h : h.name = name) IN
    [i \in DOMAIN own |-> own[i].atoms]
Number(name) == Heard(name)[1][1][2]
Latest(name, upTo, default) ==
    LET own == {i \in 1..upTo : fed[i].name = name} IN
    IF own = {} THEN default ELSE fed[Max(own)].atoms
Answered(patch, name) ==
    AtRest /\ root = patch /\ fed # <<>> /\ Last(fed).name = name

\* A counter of [f] and [+ 1] counts on from the last number it was set to:
\* what comes back is stored and not sent, and the "1" on the next line of the
\* file belongs to the object.
CountsOn ==
    Answered("counter", "in") =>
        LET count[k \in 0..Len(fed)] ==
                IF k = 0 THEN -Unit
                ELSE IF isFloat(fed[k].atoms, 0) THEN getFloat(fed[k].atoms, 0)
                ELSE count[k - 1] + Unit
        IN  Heard("out") = <<<<Float(count[Len(fed)])>>>>

\* A loop that is stopped from inside of it stops before its next round; one
\* of fewer rounds is not touched.
LoopCounts ==
    Answered("loop", "in") =>
        LET n == FloatOr(Last(fed).atoms, 0, 3 * Unit) \div Unit IN
        Heard("out") = [i \in 1..Min({n, 3}) |-> <<Whole(i - 1)>>]

\* The operators agree with each other on one pair of numbers: quotient and
\* remainder make up the dividend, of <, == and > one is true, and the rest
\* follow.  A bang repeats a comparison with the number it was made with.
NumbersAgree ==
    /\ Answered("numbers", "c") => heard = <<>>
    /\ Answered("numbers", "x") =>
        LET x == Last(fed).atoms
            asked == {i \in DOMAIN fed : fed[i].name = "x" /\ isFloat(fed[i].atoms, 0)}
            at == IF asked = {} THEN 0 ELSE Max(asked)
            c == getFloat(Latest("c", at, <<Float(0)>>), 0)
            n == IF at = 0 THEN 0 ELSE getFloat(fed[at].atoms, 0)
            Is(name) == Number(name) = Unit
        IN  /\ at # 0 =>
                /\ Number("min") + Number("max") = n + c
                /\ Number("min") <= Number("max")
                /\ Cardinality({name \in {"<", "==", ">"} : Is(name)}) = 1
                /\ Is("<=") # Is(">") /\ Is(">=") # Is("<") /\ Is("!=") # Is("==")
                /\ Is("<") => Number("min") = n
            /\ isFloat(x, 0) =>
                /\ Number("+") + Number("-") = 2 * n
                /\ c # 0 =>
                    /\ Number("div") * Magnitude(c) + Number("mod") * Unit = n * Unit
                    /\ Number("mod") \in 0..(Magnitude(c) - Unit)
                    /\ Magnitude(Number("*")) = Magnitude(n) * (Magnitude(c) \div Unit)
                    /\ (n - Number("%")) % Magnitude(c) = 0
                    /\ (Number("/") * c - n * Unit) \in (-Magnitude(c))..Magnitude(c)
                /\ Is("&&") = (n # 0 /\ c # 0)
                /\ Is("&&") => Is("||")

\* [wrap] gives a number of the range that is whole ranges away, the upper
\* bound excluded and the bounds in either order; [clip] the nearest number of
\* the range; and [moses] uses one outlet.
StaysInRange ==
    Answered("ranges", "x") =>
        LET x == getFloat(Last(fed).atoms, 0)
            range == Latest("range", Len(fed), <<Float(0), Float(Unit)>>)
            low == Min({range[1][2], range[2][2]})
            high == Max({range[1][2], range[2][2]})
            set == Latest("range", Len(fed), <<Float(0), Float(0)>>)
        IN  /\ Number("wrap") >= low /\ Number("wrap") < high
            /\ (Number("wrap") - x) % (high - low) = 0
            /\ set[1][2] <= set[2][2] =>
                \A y \in set[1][2]..set[2][2] :
                    Magnitude(Number("clip") - x) <= Magnitude(y - x)
            /\ Len(Heard("below")) = IF x < 0 THEN 1 ELSE 0
            /\ Len(Heard("above")) = IF x < 0 THEN 0 ELSE 1

\* A list that [unpack] takes apart, or that is distributed to the inlets of
\* [pack], is complete when it is sent on: the left inlet comes last.  [swap]
\* exchanges two atoms, the later of which may be kept from before.
ListsArrive ==
    /\ Answered("lists", "in") =>
        /\ Heard("unpacked") = <<Last(fed).atoms>>
        /\ Heard("distributed") = <<Last(fed).atoms>>
        /\ Heard("trimmed") = <<Last(fed).atoms>>
        /\ Number("length") = 4 * Unit
    /\ Answered("atoms", "in") /\ Len(Last(fed).atoms) = 2 =>
        Heard("swapped") = <<Reverse(Last(fed).atoms)>>

\* [route] and [select] choose the same outlet for a message, the last if no
\* selector equals its first atom; [route] takes away what it was chosen by.
SameOutlet ==
    Answered("choice", "in") =>
        /\ \A i \in 1..4 : Len(Heard(<<"r0", "r1", "r2", "r3">>[i]))
                           = Len(Heard(<<"s0", "s1", "s2", "s3">>[i]))
        /\ Len(heard) = 2
        /\ LET routed == CHOOSE h \in {heard[1], heard[2]} :
                             h.name \in {"r0", "r1", "r2", "r3"}
           IN  routed.atoms = IF routed.name = "r3" THEN Last(fed).atoms
                              ELSE Tail(Last(fed).atoms)

\* A name with "$0" is that of one instance of an abstraction and of its
\* subpatches: each reads what it has set, and not what the other has.
LocalNames ==
    \A cell \in {"a", "b"} :
        Answered("shared", cell \o "-get") =>
            heard = <<[name |-> cell \o "-out",
                       atoms |-> Latest(cell \o "-set", Len(fed), <<Float(0)>>)]>>

\* A table gives at an index what was last written there, also after it has
\* grown, and gives nothing past its end.
TableKeeps ==
    Answered("table", "read") =>
        LET Index(n) == getFloat(Latest("index", n, <<Float(0)>>), 0) \div Unit
            Size(n) == IF \E i \in 1..n : fed[i].name = "t" THEN 3 ELSE 2
            read == getFloat(Last(fed).atoms, 0) \div Unit
            written == {i \in DOMAIN fed : /\ fed[i].name = "write"
                                          /\ Index(i) = read /\ read < Size(i)}
        IN  Heard("out") =
                IF read >= Size(Len(fed)) THEN <<>>
                ELSE IF written = {} THEN <<<<Float(0)>>>>
                ELSE <<fed[Max(written)].atoms>>

\* A table has the samples of the last sound file that was loaded into it and
\* reaches so far, and the length of the last that it was resized to; the frames
\* are told when the file and the table are there, and otherwise nothing is.
SoundsFill ==
    LET Words(k) == [i \in DOMAIN fed[k].atoms |-> fed[k].atoms[i][2]]
        FileOf(k) == "/patches/" \o Words(k)[Len(Words(k)) - 1]
        Loads(k) == /\ fed[k].name = "load" /\ Last(Words(k)) = "t"
                    /\ FileOf(k) \in DOMAIN Sounds
        FramesOf(k) == Sounds[FileOf(k)]
        loads == {k \in DOMAIN fed : Loads(k)}
        resized == {k \in loads : Words(k)[2] = "-resize"}
        length == IF resized = {} THEN 2 ELSE Len(FramesOf(Max(resized)))
    IN  /\ Answered("sound", "load") =>
            Heard("frames") = IF Loads(Len(fed)) THEN <<<<Whole(Len(FramesOf(Len(fed))))>>>>
                              ELSE <<>>
        /\ Answered("sound", "read") =>
            LET i == getFloat(Last(fed).atoms, 0) \div Unit
                \* what a shorter length cut off is not there when it grows again
                reaching == {k \in loads : Len(FramesOf(k)) > i}
                cuts == {k \in resized : Len(FramesOf(k)) <= i}
                last == IF reaching = {} THEN 0 ELSE Max(reaching)
            IN  Heard("out") =
                    IF i >= length THEN <<>>
                    ELSE IF last = 0 \/ \E k \in cuts : k > last THEN <<<<Float(0)>>>>
                    ELSE <<<<Float(Last(FramesOf(last)[i + 1]))>>>>

\* An array has the elements that its file gives, up to its end, and sums up
\* to 1 when it has been normalised.
ArrayIsItsFile ==
    Answered("array", "read") =>
        LET i == getFloat(Last(fed).atoms, 0) \div Unit
            elements == <<1, 3, 0>>
            whole == IF \E k \in DOMAIN fed : fed[k].name = "t" THEN 4 ELSE 1
        IN  Heard("out") = IF i > 2 THEN <<>>
                           ELSE <<<<Float((elements[i + 1] * Unit) \div whole)>>>>

\* A file is found in a directory that its patch declares, or a subpatch of it,
\* and each instance has its own arguments.
InstancesFound ==
    Answered("library", "in") =>
        LET x == getFloat(Last(fed).atoms, 0) IN
        /\ Heard("plus") = <<<<Float(x + 4 * Unit)>>>>
        /\ Heard("times") = <<<<Float(3 * x)>>>>

\* The arguments of a message box are the atoms of the message it received,
\* from 1, and 0 where there are none; what follows ";" is sent by name, after
\* what is sent from the outlet.
BoxesFill ==
    Answered("boxes", "in") =>
        LET atoms == Last(fed).atoms
            Argument(i) == IF i > Len(atoms) THEN Float(0)
                           ELSE IF atoms[i] = Bang THEN EmptyText ELSE atoms[i]
        IN  heard = <<[name |-> "local",
                       atoms |-> <<Argument(2), Symbol("x"), Argument(1)>>],
                      [name |-> "local", atoms |-> <<Argument(3)>>],
                      [name |-> "remote", atoms |-> <<AsSymbol(Argument(1))>>]>>

\* The inlets of a subpatch count from left to right, whichever was made
\* first; what [loadbang] sent was there before the first message of the host.
InletsByPosition ==
    Answered("inlets", "left") =>
        Heard("out") = <<<<Float(getFloat(Last(fed).atoms, 0)
                                 - getFloat(Latest("right", Len(fed), <<Whole(1)>>), 0))>>>>

\* Note and frequency, decibels and amplitude or power, square and root,
\* exponent and logarithm lead back to where they began.
InversesReturn ==
    /\ \A name \in {"note", "rms", "power", "exponent", "angle"} :
           Answered("inverses", name) =>
               Heard(name \o "-back") = <<Last(fed).atoms>>
    /\ Answered("inverses", "root") =>
           Number("root-back") = Magnitude(getFloat(Last(fed).atoms, 0))

\* A note arrives with its velocity, and with its channel where all are
\* listened to; an object with a channel hears that one only.
NotesArrive ==
    \A name \in {"zg_notein_1", "zg_notein_omni"} :
        Answered("notes", name) =>
            LET note == Last(fed).atoms IN
            IF name = "zg_notein_omni"
            THEN heard = <<[name |-> "omni", atoms |-> note]>>
            ELSE /\ Heard("channel") = <<<<note[1]>>>>
                 /\ Heard("file") = <<<<Symbol("note60")>>>>
                 /\ Heard("omni") = <<>>

\* A gate that is opened by any number but 0, and by every other bang, lets a
\* message through exactly when it is open.
GateOpens ==
    Answered("gate", "in") =>
        LET open[k \in 0..Len(fed)] ==
                IF k = 0 THEN FALSE
                ELSE IF fed[k].name # "gate" THEN open[k - 1]
                ELSE IF isBang(fed[k].atoms, 0) THEN ~open[k - 1]
                ELSE getFloat(fed[k].atoms, 0) # 0
            word == isSymbol(Last(fed).atoms, 0)
        IN  Heard("out") = IF open[Len(fed)] /\ ~word THEN <<<<Whole(1)>>>> ELSE <<>>

\* A timer gives the time since it was last started, however often it is
\* stopped.
TimeSinceStart ==
    Answered("clock", "stop") =>
        LET starts == {k \in DOMAIN fed : fed[k].name = "start"}
            start == IF starts = {} THEN 0 ELSE fed[Max(starts)].at
        IN  /\ Number("elapsed") = Last(fed).at - start
            /\ Number("random") \in {0, Unit, 2 * Unit}

\* Objects that keep something between two messages have it right after any
\* sequence of them (MessageFloat, MessageUntil, MessageSpigot, MessageTimer).
StateIsKept == CountsOn /\ LoopCounts /\ GateOpens /\ TimeSinceStart

\* Objects that compute related numbers agree on them.
ArithmeticAgrees == NumbersAgree /\ StaysInRange /\ InversesReturn

\* A message that is taken apart, chosen, put together or written by a message
\* box arrives whole, once, where it should and in order.
MessagesArrive == ListsArrive /\ SameOutlet /\ BoxesFill /\ NotesArrive

\* A patch read from its files has the names, the instances and the inlets that
\* they describe (PdFileParser, PdGraph::addLetObjectToLetList).
PatchIsItsFile == LocalNames /\ InstancesFound /\ InletsByPosition

\* A table holds what its file, a sound file and the messages wrote into it,
\* within its length at the time (MessageTable, PdFileParser, MessageSoundfiler).
TablesKeep == TableKeeps /\ SoundsFill /\ ArrayIsItsFile

=============================================================================
