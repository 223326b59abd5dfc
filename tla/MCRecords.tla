----------------------------- MODULE MCRecords ------------------------------
(* Values that conversions could confuse, each set and mapping in two       *)
(* orders; a name with a slash, and ordinals 1 and 10.                      *)
EXTENDS Identities, FiniteSetsExt

CONSTANT MoreValues

MCWords == <<"", "0a", "1", "__glyff_fallback__", "__partial__", "a", "args", "b", "keywords",
             "m.T", "m.f", "null", "true", "x">>
MCRepresentation == [T |-> Str("m.T")]

Number(n, text) == Atom("num", n, text)
One == Number(1, "1")
Two == Number(2, "2")
True == Number(1, "true")
Null == Atom("null", 0, "null")
Dict(s) == <<"dict", s>>
Set(s) == <<"set", s>>
List(s) == <<"list", s>>

Keys == {Dict(<< <<One, Str("a")>> >>), Dict(<< <<Str("1"), Str("a")>> >>),
         Dict(<< <<One, Str("a")>>, <<Str("1"), Str("b")>> >>),
         Dict(<< <<Str("1"), Str("b")>> >>),
         Dict(<< <<True, One>>, <<Null, Two>> >>), Dict(<< <<Null, Two>>, <<True, One>> >>)}
Marks == {<<"opaque", "T">>, <<"opaque", "Other">>, <<"named", "m.T">>, Str("m.T"),
          Dict(<< <<Str(Marker), Str("m.T")>> >>), <<"fallback", Str("m.T")>>,
          <<"fallback", Dict(<< <<Str("a"), <<"fallback", Null>> >> >>)>>,
          <<"dataclass", << <<Str(Marker), One, TRUE>>, <<Str("a"), Two, FALSE>> >> >>,
          <<"dataclass", << <<Str("a"), One, TRUE>>, <<Str("b"), Two, FALSE>> >> >>,
          Dict(<< <<Str("a"), One>> >>), Dict(<< <<Str("a"), True>> >>)}
Bound == {<<"partial", << <<"named", "m.f">>, <<One>>, << <<Str("a"), One>> >> >> >>,
          <<"partial", << <<"named", "m.f">>, <<>>, << <<Str("a"), One>> >> >> >>,
          <<"bytes", "0a">>, Str("0a")}
Sets == {Set(<<Two, One>>), Set(<<One, Two>>), List(<<One, Two>>), List(<<Two, One>>),
         Set(<<Str("a"), One>>), Set(<<One, Str("a")>>),
         Set(<<List(<<Str("b"), One>>), Set(<<Str("b"), Str("a")>>)>>),
         Set(<<Set(<<Str("a"), Str("b")>>), List(<<Str("b"), One>>)>>),
         Set(<<Null, <<"opaque", "T">>, Null>>), List(<<>>), List(<<Null>>)}
(* {(("a",), 1), (frozenset({"a"}), True)}: members whose canonical forms   *)
(* Python takes for equal.                                                  *)
Equal == LET p == List(<<List(<<Str("a")>>), One>>)
             q == List(<<Set(<<Str("a")>>), True>>)
         IN  {Set(<<p, q>>), Set(<<q, p>>)}

MCCommon == {One}
MCValues == MCCommon \cup Keys \cup Marks \cup Bound \cup Sets
              \cup (IF MoreValues THEN Equal ELSE {})

MCBytesOf == ArgumentBytes(MCValues)
AllBytes == {Bytes(v) : v \in {w \in MCValues : Accepts(w)}}
MCRestorable == RecordedBytes(AllBytes)

MCHex ==
    LET order == FoldSet(LAMBDA b, s : Append(s, b), <<>>, AllBytes) IN
    [b \in AllBytes |-> LET n == CHOOSE i \in DOMAIN order : order[i] = b
                    IN  <<97 + (n \div 10), 48 + (n % 10)>>]

MCSites == {[domain |-> <<97>>, name |-> <<97>>, sequence |-> 1],
            [domain |-> <<97>>, name |-> <<97, Slash>>, sequence |-> 10]}

JsonText(text, spelling) == [says |-> text, spelling |-> spelling]
MCContents == {[status |-> "started", result |-> None],
               [status |-> "completed", result |-> JsonText("null", "loose")],
               [status |-> "completed", result |-> JsonText("", "none")]}
=============================================================================
