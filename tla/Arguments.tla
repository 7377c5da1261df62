------------------------------ MODULE Arguments ------------------------------
(***************************************************************************)
(* How the arguments of a call become the variables of the function that   *)
(* is called: one of the program (src/function.js, and what                *)
(* src/compile.js makes of its definition), a generator of the program,    *)
(* and a function of the library (src/abstract.js).                        *)
(*                                                                         *)
(* A value is a pair which says where it comes from.                       *)
(***************************************************************************)
EXTENDS Integers, Sequences, SequencesExt

CONSTANTS Signatures,  \* of functions, as records
          GivenMost,   \* bound: positional arguments of a call
          Keyword      \* names that calls use

Undefined == <<"undefined", 0>>
Position(i) == <<"position", i>>
Named(name) == <<"keyword", name>>
Mapped(name) == <<"mapping", name>>
Default(name) == <<"default", name>>

VARIABLES signature,  \* the function
          call,       \* the call that was made
          outcome     \* what its variables are, or that it raised an exception

vars == <<signature, call, outcome>>

Raised == [raised |-> TRUE, args |-> <<>>, rest |-> <<>>, named |-> <<>>]
Bound(args, rest, named) == [raised |-> FALSE, args |-> args, rest |-> rest, named |-> named]

NotCalled == [given |-> 0, keywords |-> <<>>, mapping |-> <<>>]

Init == /\ signature \in Signatures
        /\ call = NotCalled /\ outcome = Raised

-----------------------------------------------------------------------------
(* A signature names the positional arguments, and then those by keyword   *)
(* only.  A function of the library may not tell the name of the first, and *)
(* may pass no array of defaults (hasDefaults), not even an empty one.     *)

Smaller(m, n) == IF m < n THEN m ELSE n
Names(s) == s.positional \o s.keywordOnly
Size(s) == Len(Names(s))
ArgCount(s) == Len(s.positional)
IndexOf(s, name) ==
  LET found == {i \in DOMAIN Names(s) : Names(s)[i] = name}
  IN IF found = {} THEN 0 ELSE CHOOSE i \in found : TRUE

(* $defaults, of the last positional arguments. *)
Defaults(s) == [k \in 1..s.defaults |-> Default(s.positional[ArgCount(s) - s.defaults + k])]

(* Arrays may be read, and written, beyond their end. *)
Padded(args, n) == [i \in 1..n |-> IF i <= Len(args) THEN args[i] ELSE Undefined]

-----------------------------------------------------------------------------
(* Functions of the program.                                               *)

FastPath(s, posargs, kw) ==
  /\ s.keywordOnly = <<>> /\ ~s.kwargs /\ ~s.varargs /\ kw = <<>>
  /\ Len(posargs) = ArgCount(s) \/ (posargs = <<>> /\ s.defaults = ArgCount(s))

(* A bug: an argument by keyword replaces the one by its position. *)
TakeLast(s, bound, name, value) ==
  LET i == IndexOf(s, name)
  IN IF bound.raised THEN bound
     ELSE IF i > 0 THEN [bound EXCEPT !.args[i] = value]
     ELSE IF s.kwargs THEN [bound EXCEPT !.named = Append(@, <<name, value>>)]
     ELSE Raised

TakeKeyword(s, bound, name, value) ==
  LET i == IndexOf(s, name)
  IN IF bound.raised THEN bound
     ELSE IF i > 0 THEN IF bound.args[i] # Undefined THEN Raised
                        ELSE [bound EXCEPT !.args[i] = value]
     ELSE IF s.kwargs THEN [bound EXCEPT !.named = Append(@, <<name, value>>)]
     ELSE Raised

(* A bug: the first default is taken for the first argument. *)
DefaultsFromFirst(s, i) == IF i <= s.defaults THEN Defaults(s)[i] ELSE Undefined

DefaultFor(s, i) ==
  LET start == ArgCount(s) - s.defaults
  IN IF i > ArgCount(s) THEN IF s.kwdefaults THEN Default(Names(s)[i]) ELSE Undefined
     ELSE IF i > start THEN Defaults(s)[i - start] ELSE Undefined

(* The dict for **kwargs has the last value of each name. *)
DictOf(pairs) ==
  [name \in {pairs[k][1] : k \in DOMAIN pairs} |->
     pairs[CHOOSE k \in DOMAIN pairs :
             /\ pairs[k][1] = name
             /\ \A j \in (k + 1)..Len(pairs) : pairs[j][1] # name][2]]

ResolveArgs(s, posargs, kw) ==
  IF FastPath(s, posargs, kw)
  THEN Bound(IF Len(posargs) = ArgCount(s) THEN posargs ELSE Defaults(s), <<>>, <<>>)
  ELSE IF Len(posargs) > ArgCount(s) /\ ~s.varargs THEN Raised
  ELSE
    LET copied == Padded(SubSeq(posargs, 1, Smaller(Len(posargs), ArgCount(s))), Size(s))
        rest == SubSeq(posargs, ArgCount(s) + 1, Len(posargs))
        taken == FoldLeft(LAMBDA bound, pair : TakeKeyword(s, bound, pair[1], pair[2]),
                          Bound(copied, rest, <<>>), kw)
        filled == [i \in 1..Size(s) |->
                     IF taken.args[i] = Undefined THEN DefaultFor(s, i) ELSE taken.args[i]]
    IN IF taken.raised \/ Undefined \in Range(filled) THEN Raised
       ELSE Bound(filled, rest, DictOf(taken.named))

-----------------------------------------------------------------------------
(* Generators: the function that makes one takes positional arguments.     *)

MakeGenerator(s, posargs, kw) ==
  IF kw # <<>> \/ Len(posargs) > ArgCount(s) \/ Len(posargs) < ArgCount(s) - s.defaults THEN Raised
  ELSE LET args == Padded(posargs, ArgCount(s))
       IN Bound([i \in 1..ArgCount(s) |-> IF args[i] = Undefined THEN DefaultFor(s, i) ELSE args[i]],
                <<>>, <<>>)

-----------------------------------------------------------------------------
(* Functions of the library.  One which passes no defaults looks itself for *)
(* the arguments that are missing.                                         *)

CopyKeywordsToNamedArgs(s, posargs, kw) ==
  LET nargs == Len(posargs) + Len(kw)
      taken == FoldLeft(LAMBDA bound, pair : TakeKeyword(s, bound, pair[1], pair[2]),
                        Bound(Padded(posargs, Size(s)), <<>>, <<>>), kw)
      filled == [i \in 1..Size(s) |->
                   IF taken.args[i] = Undefined THEN DefaultFor(s, i) ELSE taken.args[i]]
  IN IF nargs > Size(s) THEN Raised
     ELSE IF kw = <<>> /\ (~s.hasDefaults \/ nargs = Size(s))
     THEN Bound(Padded(posargs, Size(s)), <<>>, <<>>)
     ELSE IF nargs = 0 /\ s.defaults = Size(s) THEN Bound(Defaults(s), <<>>, <<>>)
     ELSE IF taken.raised \/ ~s.hasDefaults THEN taken
     ELSE IF Undefined \in Range(filled) THEN Raised
     ELSE Bound(filled, <<>>, <<>>)

-----------------------------------------------------------------------------
(* Calls.  Keywords are distinct, or the program is not compiled; those in *)
(* a mapping come after the others.                                        *)

Sequences(S) == {<<>>} \cup {<<n>> : n \in S} \cup {<<n, m>> : n \in S, m \in S}
Distinct(s) == \A i, j \in DOMAIN s : s[i] = s[j] => i = j

Call == \E given \in 0..GivenMost, keywords, mapping \in {s \in Sequences(Keyword) : Distinct(s)} :
  LET posargs == [i \in 1..given |-> Position(i)]
      kw == [k \in DOMAIN keywords |-> <<keywords[k], Named(keywords[k])>>]
              \o [k \in DOMAIN mapping |-> <<mapping[k], Mapped(mapping[k])>>]
  IN /\ call = NotCalled
     /\ Len(keywords) + Len(mapping) <= 2
     /\ call' = [given |-> given, keywords |-> keywords, mapping |-> mapping]
     /\ outcome' = CASE signature.kind = "function" -> ResolveArgs(signature, posargs, kw)
                     [] signature.kind = "generator" -> MakeGenerator(signature, posargs, kw)
                     [] signature.kind = "library" -> CopyKeywordsToNamedArgs(signature, posargs, kw)
     /\ UNCHANGED signature

Next == Call

Spec == Init /\ [][Next]_vars

-----------------------------------------------------------------------------
(* What Python says.                                                       *)

(* An argument is given by its place, by keyword or in a mapping, and in   *)
(* one of these ways only.                                                 *)
ByKeyword == Range(call.keywords)
ByMapping == Range(call.mapping)
ByPlace == {signature.positional[i] : i \in 1..Smaller(call.given, ArgCount(signature))}
Parameters == Range(Names(signature)) \ {"?"}
HaveDefaults ==
  {signature.positional[i] : i \in (ArgCount(signature) - signature.defaults + 1)..ArgCount(signature)}
    \cup IF signature.kwdefaults THEN Range(signature.keywordOnly) ELSE {}

(* Of a function of the library the first name may be untold, "?"; if it   *)
(* passes no defaults, it is called with less, and finds the rest undefined. *)
IsAccepted ==
  /\ call.given <= ArgCount(signature) \/ signature.varargs
  /\ ByKeyword \cap ByMapping = {}
  /\ (ByKeyword \cup ByMapping) \cap ByPlace = {}
  /\ ByKeyword \cup ByMapping \subseteq Parameters \/ signature.kwargs
  /\ signature.hasDefaults =>
       Range(Names(signature)) \subseteq ByPlace \cup ByKeyword \cup ByMapping \cup HaveDefaults

Meant ==
  LET s == signature
      others == (ByKeyword \cup ByMapping) \ Parameters
      value(name) == IF name \in ByKeyword THEN Named(name) ELSE Mapped(name)
  IN Bound([i \in 1..Size(s) |->
              IF Names(s)[i] \in ByPlace THEN Position(i)
              ELSE IF Names(s)[i] \in ByKeyword \cup ByMapping THEN value(Names(s)[i])
              ELSE IF s.hasDefaults THEN Default(Names(s)[i])
              ELSE Undefined],
           [i \in 1..(call.given - Smaller(call.given, ArgCount(s))) |-> Position(ArgCount(s) + i)],
           [name \in others |-> value(name)])

(* Known to be otherwise: one name by keyword and in a mapping, both for   *)
(* **kwargs; a generator called with keywords.                             *)
TwiceInKwargs == (ByKeyword \cap ByMapping) \ Parameters # {} /\ signature.kwargs
GeneratorWithKeywords == signature.kind = "generator" /\ ByKeyword \cup ByMapping # {}

(* A call is accepted if every argument is given once or has a default (or *)
(* the function passes none and sees to those missing), and then each      *)
(* variable has its own value: none is lost, taken twice or shifted.       *)
ArgumentsAreBound ==
  call # NotCalled /\ ~TwiceInKwargs /\ ~GeneratorWithKeywords =>
    IF IsAccepted THEN outcome = Meant ELSE outcome.raised

=============================================================================
