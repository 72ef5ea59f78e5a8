----------------------------- MODULE MCOptions -----------------------------
(***************************************************************************)
(* Two goroutines apply options to a literal with preset, compatibility    *)
(* and capture structs, to one with a capture that has no redactor, and to *)
(* each other's results; maps of the caller occur in several options.      *)
(***************************************************************************)
EXTENDS Options

CONSTANTS p1, p2, redact

MCProcs == {p1, p2}
MCKeys == {"a", "key"}
MCValues == {1, 2, 3, 9}
MCTexts == {"", "x", "y"}
MCRedactors == {dropAll, redact}

Map(a, key) == [kind |-> "map", entries |-> [k \in MCKeys |-> IF k = "a" THEN a ELSE key]]

\* 1, 2: maps passed to options; 3, 4: a preset; 5, 6: compatibility; 7, 8: captures,
\* one with no redactor.
MCCallerHeap ==
  << Map(1, Absent), Map(2, 3),
     Map(3, Absent), [kind |-> "preset", enabled |-> FALSE, text |-> "x", map |-> 3],
     Map(3, Absent), [kind |-> "compat", text |-> "x", map |-> 5],
     [kind |-> "capture", redactor |-> redact, mode |-> "returnError"],
     [kind |-> "capture", redactor |-> Nil, mode |-> "drop"] >>

MCCallerOptions ==
  { [preset |-> Nil, compat |-> Nil, capture |-> 8, dev |-> Nil],
    [preset |-> 4, compat |-> 6, capture |-> 7, dev |-> Nil] }

Text(t) == [sets |-> TRUE, text |-> t, map |-> Nil]
Entry(a) == [sets |-> FALSE, text |-> "", map |-> a]
Both(t, a) == [sets |-> t # "", text |-> t, map |-> a]

MCOptionLists ==
  { << [kind |-> "preset", subs |-> <<Entry(1), Nil, Entry(2), Text("y")>>] >>,
    << [kind |-> "preset", subs |-> <<Entry(2)>>], Nil,
       [kind |-> "preset", subs |-> <<Text("")>>],
       [kind |-> "capture", redactor |-> Nil, resets |-> {redact}, mode |-> "drop"] >>,
    << [kind |-> "compat", subs |-> <<Both("y", 1), Both("", 2)>>] >>,
    << [kind |-> "compat", subs |-> <<Both("", 1)>>],
       [kind |-> "capture", redactor |-> Nil, resets |-> {}, mode |-> "drop"],
       [kind |-> "dev", text |-> "y"] >>,
    << [kind |-> "dev", text |-> "x"],
       [kind |-> "preset", subs |-> <<>>],
       [kind |-> "capture", redactor |-> redact, resets |-> {Nil}, mode |-> "drop"] >> }
=============================================================================
