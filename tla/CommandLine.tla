----------------------------- MODULE CommandLine ----------------------------
(***************************************************************************)
(* The command line: the options the modules of a program declare are       *)
(* collected, the arguments are scanned against them, one after the other,  *)
(* and the values are written to the program's variables: src/command-line. *)
(*                                                                         *)
(* A name is a sequence of pieces, as far as the scan looks into it, and a  *)
(* value the sequence of the pieces between its commas.  An argument is the *)
(* dashes it starts with, a name, and a value, <<>> when it has none; a     *)
(* plain argument is only a value.                                         *)
(***************************************************************************)
EXTENDS Naturals, SequencesExt

CONSTANTS Declarations, \* sequences of categories: whether it is the main one, its options
          Arguments,    \* what an argument may be
          MaxArguments

VARIABLES declared, args,
          options,  \* the swOptionValuePairs: normalValues and positionalValues
          values,   \* the values found for each
          place,    \* where each argument scanned so far went
          sink, after,
          external, \* the program's variables, one for each option
          result    \* "none", "scanning", "scanned", "ok", "help" or "failed"

lineVars == <<declared, args, options, values, place, sink, after, external, result>>

True == << <<"true">> >>
False == << <<"false">> >>
Numbers == { << <<"1">> >>, << <<"2">> >> }

\* What modules declare, and an argument.
Text == Seq(Seq(STRING))
Option ==
  [names : SUBSET Seq(STRING), type : {"bool", "int", "string", "enum"},
   array : {"none", "simple", "multi", "comma"}, count : Nat,
   positional : BOOLEAN, required : BOOLEAN, prefix : BOOLEAN, default : Seq(Text),
   enums : SUBSET [name : Seq(STRING), value : Text, is : Text]]
Category == [main : BOOLEAN, options : Seq(Option)]
Argument == [dashes : Nat, name : Seq(STRING), value : Text]

\* The members of a set of positions, in their order.
InOrder(set) ==
  [k \in 1..Cardinality(set) |->
     CHOOSE i \in set : Cardinality({j \in set : j < i}) = k - 1]

Init ==
  /\ declared \in Declarations
  /\ args \in UNION {[1..n -> Arguments] : n \in 0..MaxArguments}
  /\ options = <<>> /\ values = <<>> /\ place = <<>> /\ sink = <<>> /\ after = <<>>
  /\ external = <<>> /\ result = "none"

-----------------------------------------------------------------------------
(* The options declared                                                      *)

\* The names under which an option is found: its aliases, and for each of them the
\* names its enumerators are given as.  No positional option here has enumerators.
Aliases(o) == o.names
EnumNames(o) ==
  IF o.type = "enum" THEN {n \o e.name : n \in Aliases(o), e \in o.enums} ELSE {}
Named(o) == Aliases(o) \cup EnumNames(o)

ValidateDefault(o) == o.default # <<>> /\ o.count > 0 => Len(o.default) = o.count

\* swCommandLineDataValidateOption
ValidateOption(o, main) ==
  /\ o.positional => main /\ o.array \in {"none", "comma"}
  /\ o.count > 0 => o.array # "none"
  /\ o.prefix => ~o.positional /\ o.array \in {"none", "simple"}
  /\ ValidateDefault(o)

\* The options of a category that are valid before the first that is not; a positional
\* one of the right kind is collected before the rest of it is looked at.
ValidCount(category) ==
  CHOOSE n \in 0..Len(category.options) :
    /\ \A i \in 1..n : ValidateOption(category.options[i], category.main)
    /\ n < Len(category.options) => ~ValidateOption(category.options[n + 1], category.main)

Collected(category) ==
  LET n == ValidCount(category)
      os == category.options
      next == IF n < Len(os) THEN {os[n + 1]} ELSE {}
  IN  IF \E o \in next : o.positional /\ category.main /\ o.array \in {"none", "comma"}
      THEN SubSeq(os, 1, n + 1) ELSE SubSeq(os, 1, n)

\* Arguments that swCommandLineStateTokenize, which comes before the scan, fails on:
\* a dash alone, and "no" with nothing behind it.
NoToken(a) ==
  \/ a.dashes = 1 /\ a.name = <<>>
  \/ a.dashes > 0 /\ a.name = <<"no">> /\ a.value = <<>>

\* swCommandLineDataSetCategories and swCommandLineDataSetOptions: an invalid option
\* is noticed by its name, so that a positional one, which has none, is not.
SetOptions ==
  LET taken == FlattenSeq([i \in DOMAIN declared |-> Collected(declared[i])])
      noticed(c) == LET n == ValidCount(c)
                    IN  n < Len(c.options) /\ c.options[n + 1].names # {}
  IN  /\ result = "none"
      /\ options' = taken
      /\ values' = [i \in DOMAIN taken |-> <<>>]
      /\ external' = [i \in DOMAIN taken |-> <<>>]
      /\ result' =
           IF \/ \E i, j \in DOMAIN declared : i # j /\ declared[i].main /\ declared[j].main
              \/ \E i \in DOMAIN declared : noticed(declared[i])
              \/ \E i, j \in DOMAIN taken :
                   i # j /\ Named(taken[i]) \cap Named(taken[j]) # {}
              \/ \E i \in DOMAIN args : NoToken(args[i])
           THEN "failed" ELSE "scanning"
      /\ UNCHANGED <<declared, args, place, sink, after>>

-----------------------------------------------------------------------------
(* The arguments                                                             *)

PairOf(name) == {i \in DOMAIN options : name \in Named(options[i])}
PrefixOf(name) == {i \in DOMAIN options : options[i].prefix /\ name \in options[i].names}
Plain(a) == a.dashes = 0
Dashes(a) == a.dashes = 2 /\ a.name = <<>>

\* token->full, taken for a value.
Full(a) ==
  IF Plain(a) THEN a.value
  ELSE LET own == <<ToString(a.dashes)>> \o a.name
       IN  IF a.value = <<>> THEN <<own>> ELSE <<own \o Head(a.value)>> \o Tail(a.value)

\* swOptionTokenSet: a name that no option has, given without a value, may be one with
\* its value behind it; the shortest that fits is taken.
Token(a) ==
  LET n == Len(a.name)
      fits == {k \in 1..(n - 1) : PrefixOf(SubSeq(a.name, 1, k)) # {}}
      k == CHOOSE m \in fits : \A l \in fits : m <= l
  IN  IF ~Plain(a) /\ PairOf(a.name) = {} /\ a.value = <<>> /\ fits # {}
      THEN [a EXCEPT !.name = SubSeq(a.name, 1, k), !.value = <<SubSeq(a.name, k + 1, n)>>]
      ELSE a

\* swOptionCallParser and the parsers: the values in a text, none if it is not one.
ParsedOne(o, text) ==
  CASE o.type = "bool" -> IF text \in {True, False} THEN <<text>> ELSE <<>>
    [] o.type = "string" -> <<text>>
    [] o.type = "int" -> IF text \in Numbers THEN <<text>> ELSE <<>>
    [] o.type = "enum" -> IF text \in Numbers THEN <<text>>
                          ELSE IF \E e \in o.enums : e.value = text
                               THEN <<(CHOOSE e \in o.enums : e.value = text).is>> ELSE <<>>

CallParser(o, text) ==
  IF o.array # "comma" THEN ParsedOne(o, text)
  ELSE LET each == [i \in DOMAIN text |-> ParsedOne(o, <<text[i]>>)]
       IN  IF \E i \in DOMAIN text : each[i] = <<>> THEN <<>> ELSE FlattenSeq(each)

\* swOptionValuePairValueSet: an array is added to, the last value counts otherwise.
With(o, old, new) == IF o.array # "none" THEN old \o new ELSE <<Last(new)>>

at == Len(place) + 1
Scanned == at > Len(args)
Positional == InOrder({i \in DOMAIN options : options[i].positional})
Used == Cardinality({i \in DOMAIN place : place[i] = "positional"})

\* What the arguments from at on are taken for; swCommandLineDataSetValues goes on.
Take(where, n, vs) == place' = place \o [i \in 1..n |-> where] /\ values' = vs
Fail == result' = "failed" /\ UNCHANGED <<place, values, sink, after>>
Kept == UNCHANGED <<sink, after, result>>

\* How many plain arguments follow the one at the position.
Followers(i) ==
  CHOOSE n \in 0..(Len(args) - i) :
    /\ \A j \in (i + 1)..(i + n) : Plain(args[j])
    /\ i + n < Len(args) => ~Plain(args[i + n + 1])

\* Mutant: the values after an option's name are read, and scanned once more.
ConsumedNoValues(o, t) == 1

\* How many arguments a named option stands for, itself included.
Consumed(o, t) ==
  IF t.value # <<>> \/ t.name \in EnumNames(o) \/ Followers(at) = 0 THEN 1
  ELSE IF o.array = "multi" THEN 1 + Followers(at) ELSE 2

\* The values it is given, none if that is an error: with the name, by the name of an
\* enumerator, behind it, or true for a boolean alone.
NamedValues(o, t) ==
  LET n == IF o.array = "multi" THEN Followers(at) ELSE 1
      each == [i \in 1..n |-> CallParser(o, args[at + i].value)]
  IN  IF t.value # <<>> THEN IF o.array = "multi" \/ t.name \in EnumNames(o) THEN <<>>
                             ELSE CallParser(o, t.value)
      ELSE IF t.name \in EnumNames(o)
           THEN <<(CHOOSE e \in o.enums : \E a \in Aliases(o) : t.name = a \o e.name).is>>
      ELSE IF Followers(at) > 0
           THEN IF \E i \in 1..n : each[i] = <<>> THEN <<>> ELSE FlattenSeq(each)
      ELSE IF o.type = "bool" /\ o.array \in {"none", "simple"} THEN <<True>> ELSE <<>>

NamedOption(t) ==
  \E i \in PairOf(t.name) :
    LET new == NamedValues(options[i], t)
    IN  IF new = <<>> THEN Fail
        ELSE /\ Take("value", Consumed(options[i], t),
                     [values EXCEPT ![i] = With(options[i], @, new)])
             /\ Kept

\* A boolean behind "no", and single letters that are booleans, behind one dash.
Negated(t) ==
  IF t.value = <<>> /\ t.name # <<>> /\ Head(t.name) = "no" THEN
    {i \in PairOf(Tail(t.name)) :
       options[i].type = "bool" /\ options[i].array \in {"none", "simple"}}
  ELSE {}

Grouped(t) ==
  LET of == [k \in DOMAIN t.name |-> {i \in PairOf(<<t.name[k]>>) :
                                       options[i].type = "bool" /\ options[i].array = "none"}]
  IN  IF t.dashes = 1 /\ \A k \in DOMAIN of : of[k] # {} THEN UNION {of[k] : k \in DOMAIN of} ELSE {}

Unnamed(t) ==
  \/ \E i \in Negated(t) :
       Take("value", 1, [values EXCEPT ![i] = With(options[i], @, <<False>>)]) /\ Kept
  \/ /\ Negated(t) = {} /\ Grouped(t) # {}
     /\ Take("value", 1, [i \in DOMAIN values |-> IF i \in Grouped(t) THEN <<True>> ELSE values[i]])
     /\ Kept
  \/ /\ Negated(t) = {} /\ Grouped(t) = {}
     /\ Take("sink", 1, values) /\ sink' = Append(sink, args[at])
     /\ UNCHANGED <<after, result>>

\* swCommandLineStateScanAllPositional from a position on, for at most so many of the
\* positional options, and then swCommandLineStateScanConsumeAfter, which takes all
\* the rest, options too.
ScanAllPositional(from, n, consumes) ==
  LET of == [k \in 1..n |-> Positional[Used + k]]
      new == [k \in 1..n |-> CallParser(options[of[k]], Full(args[from + k - 1]))]
      rest == IF consumes THEN SubSeq(args, from + n, Len(args)) ELSE <<>>
  IN  IF \E k \in 1..n : new[k] = <<>> THEN Fail
      ELSE /\ place' = place \o [i \in 1..(from - at) |-> "dashes"] \o [k \in 1..n |-> "positional"]
                             \o [i \in DOMAIN rest |-> "after"]
           /\ values' = [i \in DOMAIN values |->
                           IF \E k \in 1..n : of[k] = i
                           THEN With(options[i], values[i], new[CHOOSE k \in 1..n : of[k] = i])
                           ELSE values[i]]
           /\ after' = after \o rest
           /\ UNCHANGED <<sink, result>>

Left == Len(Positional) - Used

PlainArgument ==
  \/ Left > 0 /\ ScanAllPositional(at, 1, FALSE)
  \/ Left = 0 /\ Positional # <<>> /\ ScanAllPositional(at, 0, TRUE)
  \/ /\ Positional = <<>>
     /\ Take("sink", 1, values) /\ sink' = Append(sink, args[at])
     /\ UNCHANGED <<after, result>>

\* One turn of swCommandLineStateScanArguments.
ScanArguments ==
  /\ result = "scanning" /\ ~Scanned
  /\ LET t == Token(args[at])
     IN  \/ Dashes(t) /\ LET n == Len(args) - at
                         IN  ScanAllPositional(at + 1, IF n < Left THEN n ELSE Left, n > Left)
         \/ Plain(t) /\ PlainArgument
         \/ ~Plain(t) /\ ~Dashes(t) /\ IF PairOf(t.name) # {} THEN NamedOption(t) ELSE Unnamed(t)
  /\ UNCHANGED <<declared, args, options, external>>

-----------------------------------------------------------------------------
(* The values                                                                *)

\* swOptionValueGet..., of an option that is found by its name, and
\* swPositionalOptionValueGet..., of one that is found by its position.
Single(found, type) ==
  {values[i][1] : i \in {j \in found : /\ options[j].type = type /\ options[j].array = "none"
                                       /\ values[j] # <<>>}}
Several(found, type) ==
  {values[i] : i \in {j \in found : options[j].type = type /\ options[j].array # "none"}}

ValueGet(name, type) == Single(PairOf(name), type)
ValueGetArray(name, type) == Several(PairOf(name), type)
PositionalValueGet(n, type) == Single({Positional[n]}, type)
PositionalValueGetArray(n, type) == Several({Positional[n]}, type)

\* swOptionValuePairSetDefaults
Defaults == [i \in DOMAIN options |-> IF values[i] = <<>> THEN options[i].default ELSE values[i]]

\* swOptionValuePairCheckArrays
CheckArrays(found) ==
  \A i \in DOMAIN options :
    found[i] # <<>> /\ options[i].count > 0 => Len(found[i]) = options[i].count

\* swCommandLineDataCheckRequired
CheckRequired(found) == \A i \in DOMAIN options : options[i].required => found[i] # <<>>

\* swOptionValuePairSetExternal, of every pair: a variable that is no array is set to the
\* first value, although the default may have been declared with more.
SetExternal(found) ==
  [i \in DOMAIN options |->
     IF options[i].array = "none" /\ found[i] # <<>> THEN <<found[i][1]>> ELSE found[i]]

\* Mutant: the program's variables are set in the walk that sets the defaults.
CheckValuesSetting ==
  /\ result = "scanning" /\ Scanned
  /\ values' = Defaults /\ external' = SetExternal(Defaults)
  /\ result' = IF CheckArrays(Defaults) /\ CheckRequired(Defaults) THEN "ok" ELSE "failed"
  /\ UNCHANGED <<declared, args, options, place, sink, after>>

\* What swCommandLineDataSetValues does after the scan, and swCommandLineInit, which
\* prints the usage and fails if that was asked for.
CheckValues ==
  /\ result = "scanning" /\ Scanned
  /\ values' = Defaults
  /\ IF CheckArrays(Defaults) /\ CheckRequired(Defaults)
     THEN /\ external' = SetExternal(Defaults)
          /\ result' = IF \E i \in PairOf(<<"help">>) : Defaults[i] = <<True>> THEN "help" ELSE "ok"
     ELSE result' = "failed" /\ UNCHANGED external
  /\ UNCHANGED <<declared, args, options, place, sink, after>>

\* swCommandLineShutdown
Shutdown ==
  /\ result = "ok" /\ result' = "none"
  /\ options' = <<>> /\ values' = <<>> /\ place' = <<>> /\ sink' = <<>> /\ after' = <<>>
  /\ external' = <<>> \* not read any more
  /\ UNCHANGED <<declared, args>>

CommandLineInit == SetOptions \/ ScanArguments \/ CheckValues

Next == CommandLineInit \/ Shutdown

-----------------------------------------------------------------------------
(* Properties                                                                *)

\* The program's variables are set all together, to what the accessors give, or, when
\* the command line is wrong anywhere, not at all.
SetTogether ==
  /\ result = "failed" => \A i \in DOMAIN external : external[i] = <<>>
  /\ result = "ok" =>
       \A i \in DOMAIN options :
         /\ options[i].required => external[i] # <<>>
         /\ options[i].array # "none" /\ external[i] # <<>> /\ options[i].count > 0
            => Len(external[i]) = options[i].count
         /\ LET type == options[i].type
                single == {external[i][j] : j \in DOMAIN external[i]}
                n == CHOOSE k \in DOMAIN Positional : Positional[k] = i
            IN  IF options[i].positional
                THEN IF options[i].array = "none" THEN PositionalValueGet(n, type) = single
                     ELSE PositionalValueGetArray(n, type) = {external[i]}
                ELSE \A name \in Named(options[i]) :
                       IF options[i].array = "none" THEN ValueGet(name, type) = single
                       ELSE ValueGetArray(name, type) = {external[i]}

\* The arguments that went to a place, and their texts.
Placed(where) == InOrder({i \in DOMAIN place : place[i] = where})
TextsOf(where) == [k \in DOMAIN Placed(where) |-> args[Placed(where)[k]]]

\* Each argument of a command line that is accepted has gone to one place, and what
\* collects arguments holds them in their order: positional arguments first and as
\* many as there are options for, all the others behind them; and nothing that
\* has a value of an option is anything else.
ArgumentsPlaced ==
  result = "ok" =>
    /\ Len(place) = Len(args)
    /\ sink = TextsOf("sink") /\ after = TextsOf("after")
    /\ after # <<>> => Left = 0
    /\ \A i, j \in DOMAIN place : i < j /\ place[i] = "after" => place[j] = "after"
    /\ \A i, j \in DOMAIN place :
         i < j /\ place[i] = "dashes" => place[j] \in {"positional", "after"}
    /\ \A i \in DOMAIN place :
         place[i] = "sink" => Positional = <<>> \/ ~Plain(args[i])
    \* a plain argument behind an option that is no boolean is its value
    /\ \A i \in DOMAIN place :
         /\ i > 1 /\ Plain(args[i]) /\ place[i - 1] = "value" /\ ~Plain(args[i - 1])
         /\ Token(args[i - 1]).value = <<>> /\ PairOf(args[i - 1].name) # {}
         /\ \A o \in PairOf(args[i - 1].name) : options[o].type \in {"int", "string"}
         => place[i] = "value"
=============================================================================
