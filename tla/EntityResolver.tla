--------------------------- MODULE EntityResolver ---------------------------
(***************************************************************************)
(* resolve.py: which subject a surface form stands for.  A name is the     *)
(* sequence of its normalized tokens.  A name of several tokens is a full  *)
(* name; a single token may be short for the one full name that claims it  *)
(* as its given name or surname, unless it was ever an entity by itself.   *)
(*                                                                         *)
(* The module has no variables: a resolver is a record, and each method is *)
(* an operator on it.                                                      *)
(***************************************************************************)
EXTENDS Naturals, Sequences

CONSTANTS
    Honorifics,     \* _HONORIFICS
    Ambiguous       \* _AMBIGUOUS: a component that two full names claim

ASSUME AmbiguousAssumption == Ambiguous \notin Seq(STRING)

NewResolver == [full |-> {}, given |-> <<>>, surname |-> <<>>, singletons |-> {}]

Single(name) == Len(name) = 1
GivenOf(name) == name[1]
SurnameOf(name) == name[Len(name)]

\* Drop one leading honorific if a token remains.
StripHonorific(surface) ==
    IF Len(surface) > 1 /\ Head(surface) \in Honorifics THEN Tail(surface) ELSE surface

With(f, x, v) == [y \in DOMAIN f \union {x} |-> IF y = x THEN v ELSE f[y]]

\* What an index says of a token: a full name, Ambiguous, or nothing.
Claims(index, token) == IF token \in DOMAIN index THEN {index[token]} ELSE {}

\* A second, different full name poisons the token.
RegisterComponent(index, token, name) ==
    With(index, token, IF Claims(index, token) \subseteq {name} THEN name ELSE Ambiguous)

RegisterFull(resolver, name) ==
    [resolver EXCEPT !.full    = @ \union {name},
                     !.given   = RegisterComponent(@, GivenOf(name), name),
                     !.surname = RegisterComponent(@, SurnameOf(name), name)]

\* Mutant: a token that was an entity by itself is promoted all the same.
CandidatesOfSingletons(resolver, token) ==
    LET claims == Claims(resolver.given, token) \union Claims(resolver.surname, token)
    IN  IF Ambiguous \in claims THEN {} ELSE claims

\* The full names that a token may be promoted to, both roles together.
Candidates(resolver, token) ==
    LET claims == Claims(resolver.given, token) \union Claims(resolver.surname, token)
    IN  IF <<token>> \in resolver.singletons \/ Ambiguous \in claims THEN {} ELSE claims

Promotes(resolver, token) == \E name \in Candidates(resolver, token) : Candidates(resolver, token) = {name}
Promote(resolver, token) == CHOOSE name \in Candidates(resolver, token) : TRUE

\* canonical(): what a surface stands for, changing nothing.
Canonical(resolver, surface) ==
    LET name == StripHonorific(surface)
    IN  IF Single(name) /\ Promotes(resolver, GivenOf(name))
        THEN Promote(resolver, GivenOf(name)) ELSE name

\* resolve_and_register(): what remains of the resolver.  The surface then
\* stands for what Canonical says, for no token becomes claimed by it.
ResolveAndRegister(resolver, surface) ==
    LET name == StripHonorific(surface)
    IN  IF name \in resolver.full THEN resolver
        ELSE IF ~Single(name) THEN RegisterFull(resolver, name)
        ELSE IF Promotes(resolver, GivenOf(name)) THEN resolver
        ELSE [resolver EXCEPT !.singletons = @ \union {name}]

\* register_canonical(): a stored subject, when a legacy snapshot is restored.
RegisterCanonical(resolver, subject) ==
    IF Single(subject) THEN [resolver EXCEPT !.singletons = @ \union {subject}]
    ELSE RegisterFull(resolver, subject)

\* The index for claims <<token, name>> that are made in whatever order.
IndexOf(claims) ==
    [token \in {c[1] : c \in claims} |->
       LET names == {c[2] : c \in {d \in claims : d[1] = token}}
       IN  IF \E name \in names : names = {name} THEN CHOOSE name \in names : TRUE
           ELSE Ambiguous]

\* register_canonical() of each of the subjects in turn.
RegisterAll(subjects) ==
    LET full == {name \in subjects : ~Single(name)}
    IN  [full       |-> full,
         given      |-> IndexOf({<<GivenOf(name), name>> : name \in full}),
         surname    |-> IndexOf({<<SurnameOf(name), name>> : name \in full}),
         singletons |-> subjects \ full]

Unclaimed(index, name) ==
    [token \in {t \in DOMAIN index : index[t] # name} |-> index[token]]

\* Mutant: forgetting a name also clears the tokens that were ambiguous.
ForgetClaims(resolver, name) ==
    LET parts        == {GivenOf(name), SurnameOf(name)}
        clear(index) == [t \in DOMAIN Unclaimed(index, name) \ parts |-> index[t]]
    IN  [full |-> resolver.full \ {name}, given |-> clear(resolver.given),
         surname |-> clear(resolver.surname), singletons |-> resolver.singletons \ {name}]

\* forget(): ambiguous components stay ambiguous.
ForgetName(resolver, name) ==
    [full       |-> resolver.full \ {name},
     given      |-> Unclaimed(resolver.given, name),
     surname    |-> Unclaimed(resolver.surname, name),
     singletons |-> resolver.singletons \ {name}]

\* entities: the names and tokens that questions are matched against.
Entities(resolver) ==
    resolver.full \union resolver.singletons
      \union {<<t>> : t \in {u \in DOMAIN resolver.given \union DOMAIN resolver.surname :
                                Promotes(resolver, u)}}
=============================================================================
