------------------------------ MODULE Options ------------------------------
(***************************************************************************)
(* The option constructors of options.go, openllmetry.go and redact.go, as *)
(* ApplyOptions runs them, and what Init keeps of the result: structs that *)
(* are copied and that share, through pointers and maps, what they copy.   *)
(*                                                                         *)
(* The heap holds what the caller built first and then what the options    *)
(* allocate; an address is a position in it.  A base may be used by        *)
(* several calls at once, a result may be the base of the next call, and   *)
(* providers that Init has made go on reading what they were given.        *)
(***************************************************************************)
EXTENDS Integers, Sequences, FiniteSets, SequencesExt

CONSTANTS
  Procs,          \* goroutines
  Nil,            \* the nil pointer, map, function or option
  Absent,         \* a key that is not in a map
  Keys, Values,   \* of header and property maps
  ApiKey, Secret, \* the header of the API key, and the key
  Texts,          \* endpoints and workflow names, "" among them
  Redactors,      \* dropAll, the redactor that drops everything, among them
  dropAll,
  CallerHeap,     \* what the caller built
  CallerOptions,  \* the Options literals of the caller
  OptionLists,    \* the arguments of ApplyOptions
  MaxCalls,       \* bound on the calls of ApplyOptions
  MaxInits        \* bound on the calls of Init

Addresses == Nat \ {0}
Entries == [Keys -> Values \cup {Absent}]
NoEntries == [k \in Keys |-> Absent]

MapCells == [kind : {"map"}, entries : Entries]
PresetCells ==
  [kind : {"preset"}, enabled : BOOLEAN, text : Texts, map : Addresses \cup {Nil}]
CompatCells == [kind : {"compat"}, text : Texts, map : Addresses \cup {Nil}]
CaptureCells ==
  [kind : {"capture"}, redactor : Redactors \cup {Nil}, mode : {"drop", "returnError"}]
DevCells == [kind : {"dev"}, text : Texts]
Cells == MapCells \cup PresetCells \cup CompatCells \cup CaptureCells \cup DevCells

\* A pointer into h is nil or leads to a cell of its kind.
Points(h, a, kind) == a = Nil \/ (a \in DOMAIN h /\ h[a].kind = kind)

WellFormed(h) ==
  /\ h \in Seq(Cells)
  /\ \A a \in DOMAIN h :
       h[a].kind \in {"preset", "compat"} => Points(h, h[a].map, "map")

Kinds == {"preset", "compat", "capture", "dev"}
WellFormedOptions(h, o) ==
  /\ DOMAIN o = Kinds
  /\ \A kind \in DOMAIN o : Points(h, o[kind], kind)

\* What an option is made of: the maps that suboptions put in are the caller's.  A
\* capture may have suboptions of the caller's own, which run after the default: the
\* last that sets the redactor says what it becomes, nil perhaps.
CallerMaps == {a \in DOMAIN CallerHeap : CallerHeap[a].kind = "map"}
SubOptions == [sets : BOOLEAN, text : Texts, map : CallerMaps \cup {Nil}]
Resets == {{}} \cup {{redactor} : redactor \in Redactors \cup {Nil}}
OptionTypes ==
  [kind : {"preset", "compat"}, subs : Seq(SubOptions \cup {Nil})]
    \cup [kind : {"capture"}, redactor : Redactors \cup {Nil}, resets : Resets,
          mode : {"drop", "returnError"}]
    \cup [kind : {"dev"}, text : Texts]

ASSUME OptionsAssumption ==
  /\ WellFormed(CallerHeap)
  /\ \A o \in CallerOptions : WellFormedOptions(CallerHeap, o)
  /\ Nil \notin Addresses \cup Redactors
  /\ Absent \notin Values
  /\ ApiKey \in Keys /\ Secret \in Values
  /\ "" \in Texts /\ dropAll \in Redactors
  /\ {MaxCalls, MaxInits} \subseteq Nat

ASSUME ListsAssumption == \A list \in OptionLists : list \in Seq(OptionTypes \cup {Nil})

VARIABLES
  heap,     \* the cells
  call,     \* call[p]: the ApplyOptions that p runs
  results,  \* what callers hold: literals and results, with what they mean
  live,     \* what the providers of each Init hold, with what it meant then
  calls     \* how many ApplyOptions have begun

vars == <<heap, call, results, live, calls>>

NoOptions == [preset |-> Nil, compat |-> Nil, capture |-> Nil, dev |-> Nil]
NoCall == [running |-> FALSE, opts |-> NoOptions, todo |-> <<>>, cur |-> Nil,
           subs |-> <<>>, meant |-> Nil]

-----------------------------------------------------------------------------
(***************************************************************************)
(* What a set of options means, whatever it shares.                        *)
(***************************************************************************)

EntriesAt(h, a) == IF a = Nil THEN NoEntries ELSE h[a].entries

\* The struct at a, with its map in the place of the pointer; nothing for nil.
Read(h, a) ==
  IF a = Nil THEN {}
  ELSE IF h[a].kind \in {"preset", "compat"}
    THEN {[h[a] EXCEPT !.map = EntriesAt(h, @)]}
    ELSE {h[a]}

Meaning(h, o) == [kind \in Kinds |-> Read(h, o[kind])]

\* What providers read.
Settings(h, kept) ==
  [compat |-> Read(h, kept.compat), capture |-> Read(h, kept.capture),
   headers |-> EntriesAt(h, kept.headers)]

IsA(option, kind) == option # Nil /\ option.kind = kind
Has(list, kind) == \E i \in DOMAIN list : IsA(list[i], kind)

\* Who says nothing says {}; the last one that says something wins.
LastSaid(said) ==
  LET who == {i \in DOMAIN said : said[i] # {}} IN
  IF who = {} THEN {} ELSE said[Max(who)]
The(said, otherwise) == IF said = {} THEN otherwise ELSE CHOOSE x \in said : TRUE

\* What a suboption says of the text and of a key, what all of an option say, and
\* what all options of a kind say.
TextSaid(sub) == IF sub # Nil /\ sub.sets THEN {sub.text} ELSE {}
ValueSaid(sub, k) ==
  IF sub = Nil THEN {} ELSE {EntriesAt(CallerHeap, sub.map)[k]} \ {Absent}
TextOf(subs) == LastSaid([i \in DOMAIN subs |-> TextSaid(subs[i])])
ValueOf(subs, k) == LastSaid([i \in DOMAIN subs |-> ValueSaid(subs[i], k)])
TextIn(list, kind) ==
  LastSaid([i \in DOMAIN list |->
    IF IsA(list[i], kind) THEN TextOf(list[i].subs) ELSE {}])
ValueIn(list, kind, k) ==
  LastSaid([i \in DOMAIN list |->
    IF IsA(list[i], kind) THEN ValueOf(list[i].subs, k) ELSE {}])

\* The struct that is built from old, or from nothing, when that is said.
Built(kind, old, text, value) ==
  LET newText == The(text, The({struct.text : struct \in old}, ""))
      newMap == [k \in Keys |-> The(value[k], The({struct.map[k] : struct \in old}, Absent))]
  IN  IF kind = "preset"
        THEN {[kind |-> kind, enabled |-> TRUE, text |-> newText, map |-> newMap]}
        ELSE {[kind |-> kind, text |-> newText, map |-> newMap]}

\* The struct that an option makes anew.
Made(option, kind) ==
  IF ~IsA(option, kind) THEN {}
  ELSE IF kind = "capture"
    THEN {[kind |-> kind, mode |-> option.mode,
           redactor |-> The(option.resets,
                            IF option.redactor = Nil THEN dropAll ELSE option.redactor)]}
    ELSE {[kind |-> kind, text |-> option.text]}

\* What ApplyOptions is meant to return for a base that means m.
MeantOf(kind, old, list) ==
  LET made == LastSaid([i \in DOMAIN list |-> Made(list[i], kind)]) IN
  IF kind \in {"preset", "compat"}
    THEN IF Has(list, kind)
           THEN Built(kind, old, TextIn(list, kind),
                      [k \in Keys |-> ValueIn(list, kind, k)])
           ELSE old
    ELSE IF made # {} THEN made ELSE old
Meant(m, list) == [kind \in Kinds |-> MeantOf(kind, m[kind], list)]

-----------------------------------------------------------------------------
(***************************************************************************)
(* Copying and writing.  Each operator gives the heap after it and the     *)
(* address of the map.                                                     *)
(***************************************************************************)

\* maps.Clone, of nil too; mutant: the map is shared.
Clone_Shared(h, a) == [heap |-> h, at |-> a]
Clone(h, a) ==
  IF a = Nil THEN [heap |-> h, at |-> Nil]
             ELSE [heap |-> Append(h, h[a]), at |-> Len(h) + 1]

Overlay(old, new) == [k \in Keys |-> IF new[k] # Absent THEN new[k] ELSE old[k]]

\* The entries of the map at src are put into the map at a, which is made if it
\* is nil; mutants: what is there stays; a nil map becomes the one at src.
PutAll_Keep(h, a, src) ==
  IF EntriesAt(h, src) = NoEntries THEN [heap |-> h, at |-> a]
  ELSE IF a = Nil THEN [heap |-> Append(h, h[src]), at |-> Len(h) + 1]
  ELSE [heap |-> [h EXCEPT ![a].entries = Overlay(h[src].entries, @)], at |-> a]
PutAll_Take(h, a, src) ==
  IF EntriesAt(h, src) = NoEntries THEN [heap |-> h, at |-> a]
  ELSE IF a = Nil THEN [heap |-> h, at |-> src]
  ELSE [heap |-> [h EXCEPT ![a].entries = Overlay(@, h[src].entries)], at |-> a]
PutAll(h, a, src) ==
  IF EntriesAt(h, src) = NoEntries THEN [heap |-> h, at |-> a]
  ELSE IF a = Nil THEN [heap |-> Append(h, h[src]), at |-> Len(h) + 1]
  ELSE [heap |-> [h EXCEPT ![a].entries = Overlay(@, h[src].entries)], at |-> a]

\* A nil redactor drops everything.
Redactor(r) == IF r = Nil THEN dropAll ELSE r

\* The struct an option starts from: the one there is, or a default.
Default(kind) ==
  IF kind = "preset"
    THEN [kind |-> "preset", enabled |-> TRUE, text |-> "", map |-> Nil]
    ELSE [kind |-> "compat", text |-> "", map |-> Nil]
Copy(h, a, map) ==
  IF h[a].kind = "preset" THEN [h[a] EXCEPT !.enabled = TRUE, !.map = map]
                          ELSE [h[a] EXCEPT !.map = map]

-----------------------------------------------------------------------------

Init ==
  /\ heap = CallerHeap
  /\ call = [p \in Procs |-> NoCall]
  /\ results = {[opts |-> o, meant |-> Meaning(CallerHeap, o)] : o \in CallerOptions}
  /\ live = {}
  /\ calls = 0

\* The next option of p's call, if it is of this kind and not begun.
Begins(p, kind) ==
  /\ call[p].cur = Nil
  /\ call[p].todo # <<>>
  /\ Head(call[p].todo) # Nil
  /\ Head(call[p].todo).kind = kind

Done(p, opts) == [call[p] EXCEPT !.opts = opts, !.todo = Tail(@), !.cur = Nil]

\* ApplyOptions gets a copy of the base.
ApplyOptions(p) ==
  /\ ~call[p].running
  /\ calls < MaxCalls
  /\ calls' = calls + 1
  /\ \E r \in results, list \in OptionLists :
       call' = [call EXCEPT ![p] = [NoCall EXCEPT
                  !.running = TRUE, !.opts = r.opts, !.todo = list,
                  !.meant = Meant(Meaning(heap, r.opts), list)]]
  /\ UNCHANGED <<heap, results, live>>

SkipNil(p) ==
  /\ call[p].cur = Nil
  /\ call[p].todo # <<>>
  /\ Head(call[p].todo) = Nil
  /\ call' = [call EXCEPT ![p] = Done(p, call[p].opts)]
  /\ UNCHANGED <<heap, results, live, calls>>

\* WithDatadogPreset and WithOpenLLMetryCompat begin with a copy of the struct
\* there is, and a clone of its map, or with a new struct.
Open(p, kind) ==
  LET old == call[p].opts[kind]
      clone == Clone(heap, IF old = Nil THEN Nil ELSE heap[old].map)
      cell == IF old = Nil THEN Default(kind) ELSE Copy(heap, old, clone.at)
  IN
  /\ Begins(p, kind)
  /\ heap' = Append(clone.heap, cell)
  /\ call' = [call EXCEPT ![p].cur = Len(clone.heap) + 1,
                          ![p].subs = Head(call[p].todo).subs]
  /\ UNCHANGED <<results, live, calls>>
OpenPreset(p) == Open(p, "preset")
OpenCompat(p) == Open(p, "compat")

InCall(p, kind) == call[p].cur # Nil /\ heap[call[p].cur].kind = kind

\* A suboption writes to the new struct and to its map.
Refine(p, kind) ==
  /\ InCall(p, kind)
  /\ call[p].subs # <<>>
  /\ LET sub == Head(call[p].subs)
         put == PutAll(heap, heap[call[p].cur].map, sub.map)
     IN
     heap' = IF sub = Nil THEN heap
             ELSE [put.heap EXCEPT ![call[p].cur].map = put.at,
                                   ![call[p].cur].text = IF sub.sets THEN sub.text ELSE @]
  /\ call' = [call EXCEPT ![p].subs = Tail(@)]
  /\ UNCHANGED <<results, live, calls>>
PresetOption(p) == Refine(p, "preset")
MergeCompat(p) == Refine(p, "compat")

\* opts.DatadogPreset = &preset, opts.OpenLLMetryCompat = &compat
Close(p, kind) ==
  /\ InCall(p, kind)
  /\ call[p].subs = <<>>
  /\ call' = [call EXCEPT ![p] = Done(p, [call[p].opts EXCEPT ![kind] = call[p].cur])]
  /\ UNCHANGED <<heap, results, live, calls>>
ClosePreset(p) == Close(p, "preset")
CloseCompat(p) == Close(p, "compat")

\* WithPayloadCapture and WithDevSink make a new struct, whatever there was.
Fresh(p, kind, cell) ==
  /\ heap' = Append(heap, cell)
  /\ call' = [call EXCEPT ![p] = Done(p, [call[p].opts EXCEPT ![kind] = Len(heap) + 1])]
  /\ UNCHANGED <<results, live, calls>>
PayloadCapture(p) ==
  /\ Begins(p, "capture")
  /\ LET o == Head(call[p].todo) IN
     Fresh(p, "capture",
           [kind |-> "capture", redactor |-> The(o.resets, Redactor(o.redactor)),
            mode |-> o.mode])
DevSink(p) ==
  /\ Begins(p, "dev")
  /\ Fresh(p, "dev", [kind |-> "dev", text |-> Head(call[p].todo).text])

Return(p) ==
  /\ call[p].running
  /\ call[p].todo = <<>>
  /\ call' = [call EXCEPT ![p] = NoCall]
  /\ results' = results \cup {[opts |-> call[p].opts, meant |-> call[p].meant]}
  /\ UNCHANGED <<heap, live, calls>>

\* The headers an enabled preset gives the trace exporter: a clone of its own,
\* made if there are none, and the API key in it.
TraceHeaders(h, preset) ==
  IF preset = Nil \/ (preset # Nil /\ ~h[preset].enabled) THEN [heap |-> h, at |-> Nil]
  ELSE LET clone == Clone(h, h[preset].map)
           made == IF clone.at # Nil THEN clone
                   ELSE [heap |-> Append(h, [kind |-> "map", entries |-> NoEntries]),
                         at |-> Len(h) + 1]
       IN  [made EXCEPT !.heap[made.at].entries[ApiKey] = Secret]

\* Init builds the exporters; the providers keep pointers of the options.
InitProviders ==
  /\ Cardinality(live) < MaxInits
  /\ \E r \in results :
       LET headers == TraceHeaders(heap, r.opts.preset)
           kept == [compat |-> r.opts.compat, capture |-> r.opts.capture,
                    headers |-> headers.at]
       IN
       /\ heap' = headers.heap
       /\ live' = live \cup {[kept |-> kept, meant |-> Settings(headers.heap, kept)]}
  /\ UNCHANGED <<call, results, calls>>

Step(p) ==
  \/ ApplyOptions(p)
  \/ SkipNil(p)
  \/ OpenPreset(p)
  \/ PresetOption(p)
  \/ ClosePreset(p)
  \/ OpenCompat(p)
  \/ MergeCompat(p)
  \/ CloseCompat(p)
  \/ PayloadCapture(p)
  \/ DevSink(p)
  \/ Return(p)

Next == (\E p \in Procs : Step(p)) \/ InitProviders

Spec == Init /\ [][Next]_vars

-----------------------------------------------------------------------------
\* Properties

\* Every pointer leads to a cell of its kind.
TypeOK ==
  /\ WellFormed(heap)
  /\ \A p \in Procs :
       /\ WellFormedOptions(heap, call[p].opts)
       /\ call[p].running \in BOOLEAN
       /\ call[p].cur \in DOMAIN heap \cup {Nil}
  /\ \A r \in results : WellFormedOptions(heap, r.opts)
  /\ \A l \in live :
       /\ Points(heap, l.kept.compat, "compat")
       /\ Points(heap, l.kept.capture, "capture")
       /\ Points(heap, l.kept.headers, "map")
  /\ calls \in 0..MaxCalls

\* What is reached when options, or what providers keep of them, are used.
Reach(h, o) ==
  {o.preset, o.compat, o.capture, o.dev}
    \cup (IF o.preset = Nil THEN {} ELSE {h[o.preset].map})
    \cup (IF o.compat = Nil THEN {} ELSE {h[o.compat].map})
Held(h, kept) ==
  {kept.compat, kept.capture, kept.headers}
    \cup (IF kept.compat = Nil THEN {} ELSE {h[kept.compat].map})

\* The struct that a call is filling in, and its map.
Own(p) ==
  IF call[p].cur = Nil THEN {}
  ELSE {call[p].cur} \cup ({heap[call[p].cur].map} \ {Nil})

\* Nobody else can reach what a call is writing to: not the caller, no result, no
\* running provider, no other call and not even the options the call will return, so
\* that no goroutine reads or writes a struct or a map that another one writes
\* (options.go:86-96,115-126, openllmetry.go:50-58,127-134).
NobodyElseReaches ==
  \A p \in Procs : \A a \in Own(p) :
    /\ a > Len(CallerHeap)
    /\ \A r \in results : a \notin Reach(heap, r.opts)
    /\ \A q \in Procs : a \notin Reach(heap, call[q].opts)
    /\ \A q \in Procs : q # p => a \notin Own(q)
    /\ \A l \in live : a \notin Held(heap, l.kept)

\* A result means what its options say on top of what its base meant when the
\* call began: the last text and the last value of a key win, capture and dev
\* sink are there only if asked for.  It goes on meaning that, whatever other
\* calls do with the same base, the same maps or the result itself
\* (options.go:73-127, openllmetry.go:47-59,111-136, redact.go:48-61).
MeansWhatWasAsked == \A r \in results : Meaning(heap, r.opts) = r.meant

\* What the caller built is never written, neither a map it passed to an option
\* nor a struct or a map behind its literals (options.go:86-89,115-126,
\* openllmetry.go:50-53,127-134, datadog.go:21-35).
CallersCellsUntouched == SubSeq(heap, 1, Len(CallerHeap)) = CallerHeap

\* Running providers keep the compatibility, capture and header settings of their
\* Init: options made from the same base later do not reach them
\* (exporters.go:79-80, options.go:86-89, openllmetry.go:50-53).
ProvidersKeepSettings == \A l \in live : Settings(heap, l.kept) = l.meant

\* Options have no effect on anybody but the caller that gets the result.
OthersKeepTheirs == CallersCellsUntouched /\ ProvidersKeepSettings
=============================================================================
