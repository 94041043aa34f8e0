--------------------------- MODULE WritePathProofs ---------------------------
(***************************************************************************)
(* What a write guarantees for all texts, names, retries and settings of   *)
(* the gate.  The resolver is sound if each index has an entry for every   *)
(* registered full name, which is the name itself or says that the token   *)
(* is ambiguous, and no entry for any other name.  The brain is sound if   *)
(* its resolver is and every fact is about a registered name; a write      *)
(* under way leaves everything but the resolver as it found it.            *)
(* Types need the bounds of what is counted and the names that texts have; *)
(* that a run over a cassette is repeatable needs what each request left   *)
(* on it.  That a call ends rests on how few steps it may take, and that a *)
(* legacy snapshot restores to one resolver on registrations commuting.    *)
(***************************************************************************)
EXTENDS WritePath, SequenceTheorems, WellFoundedInduction, TLAPS

\* Names without a title.
Plain == {name \in Seq(STRING) : name # <<>> /\ StripHonorific(name) = name}

\* An index for a set of claims <<token, name>>.
IndexSound(index, claims) ==
    /\ \A c \in claims : c[1] \in DOMAIN index /\ index[c[1]] \in {c[2], Ambiguous}
    /\ \A t \in DOMAIN index : index[t] = Ambiguous \/ \E c \in claims : index[t] = c[2]

GivenClaims(full)   == {<<GivenOf(name), name>> : name \in full}
SurnameClaims(full) == {<<SurnameOf(name), name>> : name \in full}

SoundResolver(r) ==
    /\ r = [full |-> r.full, given |-> r.given, surname |-> r.surname,
            singletons |-> r.singletons]
    /\ \A name \in r.full : name \in Plain /\ ~Single(name)
    /\ \A name \in r.singletons : name \in Plain /\ Single(name)
    /\ IndexSound(r.given, GivenClaims(r.full))
    /\ IndexSound(r.surname, SurnameClaims(r.full))

Known(r) == r.full \union r.singletons

-----------------------------------------------------------------------------
(* Lemmas on names *)

\* Stripping a title leaves a name.
LEMMA StripIsName ==
    ASSUME NEW surface \in Seq(STRING), surface # <<>>
    PROVE  StripHonorific(surface) \in Seq(STRING) /\ StripHonorific(surface) # <<>>
<1>1. CASE Len(surface) > 1 /\ Head(surface) \in Honorifics
  <2>1. Tail(surface) \in Seq(STRING) /\ Len(Tail(surface)) = Len(surface) - 1
    BY HeadTailProperties
  <2>2. Len(<<>>) = 0
    OBVIOUS
  <2> QED
    BY <1>1, <2>1, <2>2 DEF StripHonorific
<1>2. CASE ~(Len(surface) > 1 /\ Head(surface) \in Honorifics)
  BY <1>2 DEF StripHonorific
<1> QED
  BY <1>1, <1>2

\* A name of one token has no title and consists of that token.
LEMMA SingleName ==
    ASSUME NEW name \in Seq(STRING), Len(name) = 1
    PROVE  StripHonorific(name) = name /\ name = <<GivenOf(name)>> /\ GivenOf(name) \in STRING
BY DEF StripHonorific, GivenOf

\* A sequence of one element.
LEMMA OneElement ==
    ASSUME NEW S, NEW e \in S
    PROVE  <<e>> \in Seq(S)
OBVIOUS

\* A token is a name of one token.
LEMMA TokenName ==
    ASSUME NEW token \in STRING
    PROVE  /\ <<token>> \in Seq(STRING) /\ Len(<<token>>) = 1 /\ GivenOf(<<token>>) = token
           /\ StripHonorific(<<token>>) = <<token>> /\ <<token>> # <<>>
<1>1. <<token>> \in Seq(STRING)
  BY OneElement
<1>2. Len(<<token>>) = 1
  OBVIOUS
<1>3. <<token>>[1] = token
  OBVIOUS
<1>4. GivenOf(<<token>>) = token
  BY <1>3 DEF GivenOf
<1>5. StripHonorific(<<token>>) = <<token>>
  <2>1. ~(Len(<<token>>) > 1)
    BY <1>2
  <2> QED
    BY <2>1 DEF StripHonorific
<1>6. <<token>> # <<>>
  BY <1>3
<1> QED
  BY <1>1, <1>2, <1>4, <1>5, <1>6

\* No name is the mark of an ambiguous token.
LEMMA NotAmbiguous == \A name \in Plain : name # Ambiguous
BY AmbiguousAssumption DEF Plain

-----------------------------------------------------------------------------
(* Lemmas on one index *)

\* Registering a component adds its claim and spoils no other.
LEMMA RegisteredIndex ==
    ASSUME NEW index, NEW claims, IndexSound(index, claims), NEW token, NEW name,
           name # Ambiguous
    PROVE  IndexSound(RegisterComponent(index, token, name), claims \union {<<token, name>>})
<1> DEFINE value == IF Claims(index, token) \subseteq {name} THEN name ELSE Ambiguous
           new   == RegisterComponent(index, token, name)
<1>1. /\ DOMAIN new = DOMAIN index \union {token} /\ new[token] = value
      /\ \A t \in DOMAIN index : t # token => new[t] = index[t]
  BY DEF RegisterComponent, With
<1>3. value \in {name, Ambiguous}
  OBVIOUS
<1>4. ASSUME NEW c \in claims \union {<<token, name>>}
      PROVE  c[1] \in DOMAIN new /\ new[c[1]] \in {c[2], Ambiguous}
  <2>1. CASE c = <<token, name>>
    <3>1. c[1] = token /\ c[2] = name
      BY <2>1
    <3> QED
      BY <3>1, <1>1, <1>3
  <2>2. CASE c \in claims /\ c[1] # token
    BY <2>2, <1>1 DEF IndexSound
  <2>3. CASE c \in claims /\ c[1] = token
    <3>1. token \in DOMAIN index /\ index[token] \in {c[2], Ambiguous}
      BY <2>3 DEF IndexSound
    <3>2. Claims(index, token) = {index[token]}
      BY <3>1 DEF Claims
    <3>3. value = Ambiguous \/ value = c[2]
      BY <3>1, <3>2
    <3> QED
      BY <2>3, <3>3, <1>1
  <2> QED
    BY <1>4, <2>1, <2>2, <2>3
<1>5. ASSUME NEW t \in DOMAIN new
      PROVE  new[t] = Ambiguous \/ \E c \in claims \union {<<token, name>>} : new[t] = c[2]
  <2>1. CASE t = token
    <3>1. <<token, name>>[2] = name
      OBVIOUS
    <3> QED
      BY <2>1, <3>1, <1>1, <1>3
  <2>2. CASE t # token
    BY <2>2, <1>1 DEF IndexSound
  <2> QED
    BY <2>1, <2>2
<1> HIDE DEF new, value
<1> QED
  BY <1>4, <1>5 DEF IndexSound, new

\* Dropping a name drops its claims and no other.
LEMMA UnclaimedIndex ==
    ASSUME NEW index, NEW claims, IndexSound(index, claims), NEW name, name # Ambiguous
    PROVE  IndexSound(Unclaimed(index, name), {c \in claims : c[2] # name})
BY DEF IndexSound, Unclaimed

\* The index of a set of claims is sound for them.
LEMMA IndexOfSound ==
    ASSUME NEW claims
    PROVE  IndexSound(IndexOf(claims), claims)
<1> DEFINE names(t) == {c[2] : c \in {d \in claims : d[1] = t}}
           index    == IndexOf(claims)
<1>1. /\ DOMAIN index = {c[1] : c \in claims}
      /\ \A t \in DOMAIN index :
            index[t] = IF \E name \in names(t) : names(t) = {name}
                       THEN CHOOSE name \in names(t) : TRUE ELSE Ambiguous
  BY DEF IndexOf
<1>2. \A t \in DOMAIN index : names(t) # {}
  BY <1>1
<1>3. \A t \in DOMAIN index : index[t] = Ambiguous \/ names(t) = {index[t]}
  BY <1>1, <1>2
<1>4. \A c \in claims : c[2] \in names(c[1])
  OBVIOUS
<1>5. \A t : \A name \in names(t) : \E c \in claims : c[2] = name
  OBVIOUS
<1> HIDE DEF names, index
<1> QED
  BY <1>1, <1>3, <1>4, <1>5 DEF IndexSound, index

-----------------------------------------------------------------------------
(* Lemmas on the resolver *)

\* A candidate is a registered full name.
LEMMA CandidateIsFull ==
    ASSUME NEW r, SoundResolver(r), NEW token, Promotes(r, token)
    PROVE  /\ Promote(r, token) \in r.full
           /\ Candidates(r, token) = {Promote(r, token)}
           /\ <<token>> \notin r.singletons
<1>1. PICK name \in Candidates(r, token) : Candidates(r, token) = {name}
  BY DEF Promotes
<1>2. Promote(r, token) = name
  BY <1>1 DEF Promote
<1>3. /\ <<token>> \notin r.singletons
      /\ Ambiguous \notin Claims(r.given, token) \union Claims(r.surname, token)
      /\ name \in Claims(r.given, token) \union Claims(r.surname, token)
  BY <1>1 DEF Candidates
<1>4. CASE name \in Claims(r.given, token)
  <2>1. token \in DOMAIN r.given /\ name = r.given[token] /\ name # Ambiguous
    BY <1>3, <1>4 DEF Claims
  <2>2. \E c \in GivenClaims(r.full) : name = c[2]
    BY <2>1 DEF SoundResolver, IndexSound
  <2>3. name \in r.full
    BY <2>2 DEF GivenClaims
  <2> QED
    BY <1>1, <1>2, <1>3, <2>3
<1>5. CASE name \in Claims(r.surname, token)
  <2>1. token \in DOMAIN r.surname /\ name = r.surname[token] /\ name # Ambiguous
    BY <1>3, <1>5 DEF Claims
  <2>2. \E c \in SurnameClaims(r.full) : name = c[2]
    BY <2>1 DEF SoundResolver, IndexSound
  <2>3. name \in r.full
    BY <2>2 DEF SurnameClaims
  <2> QED
    BY <1>1, <1>2, <1>3, <2>3
<1> QED
  BY <1>3, <1>4, <1>5

\* A registered name stands for itself.
LEMMA KnownStandsForItself ==
    ASSUME NEW r, SoundResolver(r), NEW name \in Known(r)
    PROVE  name \in Plain /\ Canonical(r, name) = name
<1>1. name \in Plain
  BY DEF Known, SoundResolver
<1>2. CASE Single(name)
  <2>1. name \in r.singletons
    BY <1>2 DEF Known, SoundResolver
  <2>2. <<GivenOf(name)>> \in r.singletons
    BY <1>1, <1>2, <2>1, SingleName DEF Plain, Single
  <2>3. ~Promotes(r, GivenOf(name))
    BY <2>2, CandidateIsFull
  <2> QED
    BY <1>1, <2>3 DEF Canonical, Plain
<1>3. CASE ~Single(name)
  BY <1>1, <1>3 DEF Canonical, Plain
<1> QED
  BY <1>1, <1>2, <1>3

\* What a surface stands for has no title, if without its title it has none.
LEMMA CanonicalIsPlain ==
    ASSUME NEW r, SoundResolver(r), NEW surface, StripHonorific(surface) \in Plain
    PROVE  Canonical(r, surface) \in Plain
<1> DEFINE name == StripHonorific(surface)
<1>1. CASE Single(name) /\ Promotes(r, GivenOf(name))
  <2>1. Promote(r, GivenOf(name)) \in r.full
    BY <1>1, CandidateIsFull
  <2> QED
    BY <1>1, <2>1 DEF Canonical, SoundResolver
<1>2. CASE ~(Single(name) /\ Promotes(r, GivenOf(name)))
  BY <1>2 DEF Canonical
<1> QED
  BY <1>1, <1>2

\* A new resolver is sound.
LEMMA NewSound == SoundResolver(NewResolver)
BY DEF SoundResolver, NewResolver, IndexSound, GivenClaims, SurnameClaims

\* Registering a full name.
LEMMA RegisterFullSound ==
    ASSUME NEW r, SoundResolver(r), NEW name \in Plain, ~Single(name)
    PROVE  /\ SoundResolver(RegisterFull(r, name))
           /\ RegisterFull(r, name).full = r.full \union {name}
           /\ RegisterFull(r, name).singletons = r.singletons
<1> DEFINE new == RegisterFull(r, name)
<1>1. /\ new.full = r.full \union {name} /\ new.singletons = r.singletons
      /\ new.given = RegisterComponent(r.given, GivenOf(name), name)
      /\ new.surname = RegisterComponent(r.surname, SurnameOf(name), name)
      /\ new = [full |-> new.full, given |-> new.given, surname |-> new.surname,
                singletons |-> new.singletons]
  <2>1. new = [r EXCEPT !.full    = r.full \union {name},
                        !.given   = RegisterComponent(r.given, GivenOf(name), name),
                        !.surname = RegisterComponent(r.surname, SurnameOf(name), name)]
    BY Zenon DEF RegisterFull
  <2>2. r = [full |-> r.full, given |-> r.given, surname |-> r.surname,
             singletons |-> r.singletons]
    BY DEF SoundResolver
  <2> HIDE DEF new
  <2> QED
    BY <2>1, <2>2
<1>2. name # Ambiguous
  BY NotAmbiguous
<1>3. IndexSound(new.given, GivenClaims(r.full) \union {<<GivenOf(name), name>>})
  BY <1>1, <1>2, RegisteredIndex DEF SoundResolver
<1>4. IndexSound(new.surname, SurnameClaims(r.full) \union {<<SurnameOf(name), name>>})
  BY <1>1, <1>2, RegisteredIndex DEF SoundResolver
<1>5. /\ GivenClaims(new.full) = GivenClaims(r.full) \union {<<GivenOf(name), name>>}
      /\ SurnameClaims(new.full) = SurnameClaims(r.full) \union {<<SurnameOf(name), name>>}
  BY <1>1 DEF GivenClaims, SurnameClaims
<1> HIDE DEF new
<1>6. SoundResolver(new)
  BY <1>1, <1>3, <1>4, <1>5 DEF SoundResolver
<1> QED
  BY <1>1, <1>6 DEF new

\* Registering a surface keeps the resolver sound, forgets no name, and what the
\* surface stood for before is registered afterwards.
LEMMA RegisterSound ==
    ASSUME NEW r, SoundResolver(r), NEW surface, StripHonorific(surface) \in Plain
    PROVE  /\ SoundResolver(ResolveAndRegister(r, surface))
           /\ r.full \subseteq ResolveAndRegister(r, surface).full
           /\ r.singletons \subseteq ResolveAndRegister(r, surface).singletons
           /\ Canonical(r, surface) \in Known(ResolveAndRegister(r, surface))
<1> DEFINE name == StripHonorific(surface)
           new  == ResolveAndRegister(r, surface)
<1>1. CASE name \in r.full
  <2>1. new = r /\ ~Single(name)
    BY <1>1 DEF ResolveAndRegister, SoundResolver
  <2> QED
    BY <1>1, <2>1 DEF Canonical, Known
<1>2. CASE name \notin r.full /\ ~Single(name)
  <2>1. new = RegisterFull(r, name)
    BY <1>2 DEF ResolveAndRegister
  <2>2. Canonical(r, surface) = name
    BY <1>2 DEF Canonical
  <2> QED
    BY <1>2, <2>1, <2>2, RegisterFullSound DEF Known
<1>3. CASE name \notin r.full /\ Single(name) /\ Promotes(r, GivenOf(name))
  <2>1. new = r
    BY <1>3 DEF ResolveAndRegister
  <2>2. Canonical(r, surface) = Promote(r, GivenOf(name))
    BY <1>3 DEF Canonical
  <2> QED
    BY <1>3, <2>1, <2>2, CandidateIsFull DEF Known
<1>4. CASE name \notin r.full /\ Single(name) /\ ~Promotes(r, GivenOf(name))
  <2>1. new = [r EXCEPT !.singletons = @ \union {name}]
    BY <1>4 DEF ResolveAndRegister
  <2>2. /\ new.full = r.full /\ new.singletons = r.singletons \union {name}
        /\ new.given = r.given /\ new.surname = r.surname
        /\ new = [full |-> new.full, given |-> new.given, surname |-> new.surname,
                  singletons |-> new.singletons]
    BY <2>1 DEF SoundResolver
  <2>3. Canonical(r, surface) = name
    BY <1>4 DEF Canonical
  <2> HIDE DEF new
  <2>4. SoundResolver(new)
    BY <1>4, <2>2 DEF SoundResolver
  <2> QED
    BY <2>2, <2>3, <2>4 DEF Known, new
<1> QED
  BY <1>1, <1>2, <1>3, <1>4

\* Forgetting a name.
LEMMA ForgetSound ==
    ASSUME NEW r, SoundResolver(r), NEW name \in Plain
    PROVE  SoundResolver(ForgetName(r, name)) /\ Known(ForgetName(r, name)) = Known(r) \ {name}
<1> DEFINE new == ForgetName(r, name)
<1>1. /\ new.full = r.full \ {name} /\ new.singletons = r.singletons \ {name}
      /\ new.given = Unclaimed(r.given, name) /\ new.surname = Unclaimed(r.surname, name)
      /\ new = [full |-> new.full, given |-> new.given, surname |-> new.surname,
                singletons |-> new.singletons]
  BY DEF ForgetName
<1>2. /\ GivenClaims(new.full) = {c \in GivenClaims(r.full) : c[2] # name}
      /\ SurnameClaims(new.full) = {c \in SurnameClaims(r.full) : c[2] # name}
  BY <1>1 DEF GivenClaims, SurnameClaims
<1>3. IndexSound(new.given, GivenClaims(new.full)) /\ IndexSound(new.surname, SurnameClaims(new.full))
  BY <1>1, <1>2, NotAmbiguous, UnclaimedIndex DEF SoundResolver
<1> HIDE DEF new
<1>4. SoundResolver(new)
  BY <1>1, <1>3 DEF SoundResolver
<1> QED
  BY <1>1, <1>4 DEF Known, new

\* Registering the subjects of a legacy snapshot.
LEMMA RegisterAllSound ==
    ASSUME NEW subjects \in SUBSET Plain
    PROVE  SoundResolver(RegisterAll(subjects)) /\ Known(RegisterAll(subjects)) = subjects
<1> DEFINE new  == RegisterAll(subjects)
           full == {name \in subjects : ~Single(name)}
<1>1. /\ new.full = full /\ new.singletons = subjects \ full
      /\ new.given = IndexOf(GivenClaims(full)) /\ new.surname = IndexOf(SurnameClaims(full))
      /\ new = [full |-> new.full, given |-> new.given, surname |-> new.surname,
                singletons |-> new.singletons]
  BY DEF RegisterAll, GivenClaims, SurnameClaims
<1>2. IndexSound(new.given, GivenClaims(full)) /\ IndexSound(new.surname, SurnameClaims(full))
  BY <1>1, IndexOfSound
<1> HIDE DEF new
<1>3. SoundResolver(new)
  BY <1>1, <1>2 DEF SoundResolver
<1> QED
  BY <1>1, <1>3 DEF Known, new

-----------------------------------------------------------------------------
(* Lemmas on the gate *)

\* A set of novelties with One in it has a least element.
LEMMA LeastNovelty ==
    ASSUME NEW D \in SUBSET (0 .. One), One \in D
    PROVE  (CHOOSE d \in D : \A e \in D : d <= e) \in 0 .. One
<1>1. One \in Nat
  BY GateAssumption
<1>2. D \subseteq Nat /\ D # {}
  BY <1>1
<1>3. PICK d \in D : \A e \in D : ~ (<<e, d>> \in OpToRel(<, Nat))
  BY <1>2, NatLessThanWellFounded, WFMin
<1>4. \A e \in D : d <= e
  <2>1. OpToRel(<, Nat) = {ss \in Nat \X Nat : ss[1] < ss[2]}
    BY Zenon DEF OpToRel
  <2>2. \A e \in Nat, f \in Nat : e < f => <<e, f>> \in OpToRel(<, Nat)
    BY <2>1
  <2>3. \A e \in D : e \in Nat /\ d \in Nat
    BY <1>2
  <2>4. \A e \in D : ~(e < d)
    BY <1>3, <2>2, <2>3, Zenon
  <2> QED
    BY <2>3, <2>4
<1> QED
  BY <1>4

\* The threshold stays between its bounds, whatever it was.
LEMMA ThetaBounded ==
    ASSUME NEW theta \in Int, NEW seen \in Nat \ {0}, NEW stored \in Nat
    PROVE  NextTheta(theta, seen, stored) \in Floor .. Ceiling
<1> DEFINE moved == theta + (Rate * (100 * stored - Budget * seen)) \div (100 * seen)
<1>1. Rate \in Int /\ Budget \in Int /\ Floor \in Int /\ Ceiling \in Int /\ Floor <= Ceiling
  BY GateAssumption
<1>2. 100 * stored - Budget * seen \in Int
  BY <1>1
<1>3. Rate * (100 * stored - Budget * seen) \in Int
  BY <1>1, <1>2
<1>4. 100 * seen \in Int /\ 100 * seen > 0
  OBVIOUS
<1>5. ASSUME NEW a \in Int, NEW b \in Int, b > 0
      PROVE  a \div b \in Int
  BY <1>5
<1>6. moved \in Int
  <2>1. (Rate * (100 * stored - Budget * seen)) \div (100 * seen) \in Int
    BY <1>3, <1>4, <1>5
  <2> QED
    BY <2>1
<1>7. NextTheta(theta, seen, stored)
        = IF moved < Floor THEN Floor ELSE IF moved > Ceiling THEN Ceiling ELSE moved
  BY DEF NextTheta
<1> HIDE DEF moved
<1> QED
  BY <1>1, <1>6, <1>7

-----------------------------------------------------------------------------
(* The inductive invariant *)

SoundBrain(b) ==
    /\ b = [resolver |-> b.resolver, gate |-> b.gate, facts |-> b.facts,
            memories |-> b.memories, asserted |-> b.asserted]
    /\ SoundResolver(b.resolver)
    /\ DOMAIN b.facts \subseteq Known(b.resolver)
    /\ b.gate.theta \in Floor .. Ceiling \union {Theta0}
    /\ b.gate.seen \in Nat /\ b.gate.stored \in Nat
    /\ \A m \in b.memories : m.text \in Texts

\* While a write is under way, only the resolver differs from before.
SoundCall ==
    ~Idle =>
       /\ call = [stage |-> call.stage, text |-> call.text, tries |-> call.tries,
                  value |-> call.value, subject |-> call.subject,
                  version |-> call.version, novelty |-> call.novelty,
                  before |-> call.before]
       /\ call.text \in Texts /\ call.novelty \in 0 .. One
       /\ call.value # NoValue => call.subject \in Known(brain.resolver)
       /\ call.before.facts = brain.facts /\ call.before.memories = brain.memories
       /\ call.before.gate = brain.gate
       /\ call.before.resolver.full \subseteq brain.resolver.full
       /\ call.before.resolver.singletons \subseteq brain.resolver.singletons

Inv ==
    /\ SoundBrain(brain)
    /\ saved # NoBlob => SoundBrain(saved)
    /\ SoundCall

\* No subject of a text has a title.
LEMMA SurfacePlain == \A x \in Texts : StripHonorific(SurfaceOf[x]) \in Plain
BY TextAssumption, TitleAssumption, StripIsName DEF Plain

\* A new brain is sound.
LEMMA EmptySound == SoundBrain(Empty)
<1>1. DOMAIN <<>> = {}
  OBVIOUS
<1>2. Empty.resolver = NewResolver /\ Empty.gate = NewGate /\ DOMAIN Empty.facts = {}
      /\ Empty.memories = {}
  BY <1>1 DEF Empty
<1>3. NewGate.theta = Theta0 /\ NewGate.seen = 0 /\ NewGate.stored = 0
  BY DEF NewGate
<1>4. Empty = [resolver |-> Empty.resolver, gate |-> Empty.gate, facts |-> Empty.facts,
               memories |-> Empty.memories, asserted |-> Empty.asserted]
  BY DEF Empty
<1> QED
  BY <1>2, <1>3, <1>4, NewSound DEF SoundBrain

\* The invariant holds at first.
LEMMA InitInv == Init => Inv
BY EmptySound DEF Init, Inv, SoundCall, Idle

\* What a gate has counted, and its threshold, after a decision.
LEMMA ObserveSound ==
    ASSUME NEW gate, gate.theta \in Floor .. Ceiling \union {Theta0}, gate.seen \in Nat,
           gate.stored \in Nat, NEW decision
    PROVE  /\ Observe(gate, decision).theta \in Floor .. Ceiling
           /\ Observe(gate, decision).seen \in Nat /\ Observe(gate, decision).stored \in Nat
<1> DEFINE seen   == gate.seen + 1
           stored == gate.stored + IF decision = "stored" THEN 1 ELSE 0
<1>1. seen \in Nat \ {0} /\ stored \in Nat
  OBVIOUS
<1>2. gate.theta \in Int
  BY GateAssumption
<1>3. /\ Observe(gate, decision).theta = NextTheta(gate.theta, seen, stored)
      /\ Observe(gate, decision).seen = seen /\ Observe(gate, decision).stored = stored
  BY DEF Observe
<1> HIDE DEF seen, stored
<1> QED
  BY <1>1, <1>2, <1>3, ThetaBounded

\* A novelty is between none and One.
LEMMA NoveltyRange ==
    ASSUME SoundBrain(brain), NEW text \in Texts, NEW version
    PROVE  Novelty(text, version) \in 0 .. One
<1> DEFINE D == {Distance(m, text, version) : m \in brain.memories} \union {One}
<1>1. One \in 0 .. One /\ 0 \in 0 .. One
  BY GateAssumption
<1>2. \A m \in brain.memories : Distance(m, text, version) \in 0 .. One
  BY <1>1, TextAssumption DEF Distance, SoundBrain
<1>3. D \in SUBSET (0 .. One) /\ One \in D
  BY <1>1, <1>2
<1>4. Novelty(text, version) = CHOOSE d \in D : \A e \in D : d <= e
  BY DEF Novelty
<1> HIDE DEF D
<1> QED
  BY <1>3, <1>4, LeastNovelty

\* A write begins with the state before it in hand.
LEMMA BeginInv ==
    ASSUME Inv, NEW text \in Texts, Begin(text)
    PROVE  Inv'
<1>1. brain' = brain /\ saved' = saved
  BY DEF Begin
<1>2. PICK stage : call' = [stage |-> stage, text |-> text, tries |-> 0, value |-> NoValue,
              subject |-> <<>>, version |-> 0, novelty |-> 0, before |-> brain]
  BY DEF Begin
<1>3. 0 \in 0 .. One
  BY GateAssumption
<1>4. SoundCall'
  BY <1>1, <1>2, <1>3 DEF SoundCall
<1> QED
  BY <1>1, <1>4 DEF Inv

\* The fact of the text is found or not; its subject is registered at once.
LEMMA ExtractInv ==
    ASSUME Inv, NEW found \in BOOLEAN, Extract(found)
    PROVE  Inv'
<1> DEFINE value   == IF found THEN ValueOf[call.text] ELSE NoValue
           surface == SurfaceOf[call.text]
<1>1. ~Idle /\ saved' = saved /\ Extracted(value)
  BY DEF Extract
<1>2. SoundCall /\ SoundBrain(brain) /\ call.text \in Texts
  BY <1>1 DEF Inv, SoundCall
<1> HIDE DEF value
<1>3. PICK subject :
        /\ call' = [call EXCEPT !.stage = "embed", !.tries = 0, !.value = value,
                                !.subject = subject]
        /\ value # NoValue => subject = Canonical(brain.resolver, surface)
  BY <1>1 DEF Extracted
<1>4. /\ call' = [stage |-> call'.stage, text |-> call'.text, tries |-> call'.tries,
                  value |-> call'.value, subject |-> call'.subject,
                  version |-> call'.version, novelty |-> call'.novelty,
                  before |-> call'.before]
      /\ call'.text = call.text /\ call'.novelty = call.novelty /\ call'.before = call.before
      /\ call'.value = value /\ call'.subject = subject
  BY <1>1, <1>2, <1>3 DEF SoundCall
<1>5. CASE value = NoValue
  <2>1. brain' = brain
    BY <1>1, <1>5 DEF Extracted
  <2>2. SoundCall'
    BY <1>1, <1>2, <1>4, <1>5, <2>1 DEF SoundCall
  <2> QED
    BY <1>1, <2>1, <2>2 DEF Inv
<1>6. CASE value # NoValue
  <2> DEFINE new == ResolveAndRegister(brain.resolver, surface)
  <2>1. brain' = [brain EXCEPT !.asserted = brain.asserted \union {call.text},
                               !.resolver = new]
    BY <1>1, <1>6 DEF Extracted
  <2>2. /\ SoundResolver(new) /\ brain.resolver.full \subseteq new.full
        /\ brain.resolver.singletons \subseteq new.singletons
        /\ Canonical(brain.resolver, surface) \in Known(new)
    <3>1. SoundResolver(brain.resolver) /\ StripHonorific(surface) \in Plain
      BY <1>2, SurfacePlain DEF SoundBrain
    <3> QED
      BY <3>1, RegisterSound
  <2> HIDE DEF new, surface
  <2>3. /\ brain'.resolver = new /\ brain'.gate = brain.gate /\ brain'.facts = brain.facts
        /\ brain'.memories = brain.memories
        /\ brain' = [resolver |-> brain'.resolver, gate |-> brain'.gate,
                     facts |-> brain'.facts, memories |-> brain'.memories,
                     asserted |-> brain'.asserted]
    BY <1>2, <2>1 DEF SoundBrain
  <2>4. SoundBrain(brain')
    BY <1>2, <2>2, <2>3 DEF SoundBrain, Known
  <2>5. SoundCall'
    BY <1>1, <1>2, <1>3, <1>4, <1>6, <2>2, <2>3 DEF SoundCall
  <2> QED
    BY <1>1, <2>4, <2>5 DEF Inv
<1> QED
  BY <1>5, <1>6

\* The vector is known, and with it the novelty.
LEMMA EmbedInv ==
    ASSUME Inv, NEW version \in 1 .. 2, Embed(version)
    PROVE  Inv'
<1>1. /\ ~Idle /\ saved' = saved /\ brain' = brain
      /\ call' = [call EXCEPT !.tries = 0, !.version = version, !.stage = "decide",
                              !.novelty = Novelty(call.text, version)]
  BY DEF Embed
<1>2. SoundCall /\ SoundBrain(brain) /\ call.text \in Texts
  BY <1>1 DEF Inv, SoundCall
<1>3. Novelty(call.text, version) \in 0 .. One
  BY <1>2, NoveltyRange
<1>4. SoundCall'
  BY <1>1, <1>2, <1>3 DEF SoundCall
<1> QED
  BY <1>1, <1>4 DEF Inv

\* Another attempt.
LEMMA RetryInv ==
    ASSUME Inv, Retry
    PROVE  Inv'
<1>1. ~Idle /\ saved' = saved /\ brain' = brain /\ call' = [call EXCEPT !.tries = @ + 1]
  BY DEF Retry, Requesting
<1>2. SoundCall'
  BY <1>1 DEF Inv, SoundCall
<1> QED
  BY <1>1, <1>2 DEF Inv

\* The gate counts, and the fact is about a subject registered since Extract.
LEMMA SettleInv ==
    ASSUME Inv, Settle
    PROVE  Inv'
<1>1. ~Idle /\ saved' = saved /\ call' = NoCall
  BY DEF Settle
<1>2. SoundCall /\ SoundBrain(brain) /\ call.text \in Texts
  BY <1>1 DEF Inv, SoundCall
<1> DEFINE decision == Decide(brain.gate, call.novelty, Contradicts)
           memory   == [text |-> call.text, version |-> call.version,
                        subject |-> call.subject]
           memories == IF decision = "stored" THEN brain.memories \union {memory}
                       ELSE brain.memories
           facts    == IF call.value = NoValue THEN brain.facts
                       ELSE With(brain.facts, call.subject, call.value)
<1>3. /\ brain' = [brain EXCEPT !.gate = Observe(brain.gate, decision),
                                !.memories = memories, !.facts = facts]
      /\ \A m \in memories : m \in brain.memories \/ m.text = call.text
      /\ \/ facts = brain.facts
         \/ call.value # NoValue /\ facts = With(brain.facts, call.subject, call.value)
  <2>1. brain' = [brain EXCEPT !.gate = Observe(brain.gate, decision),
                               !.memories = memories, !.facts = facts]
    BY DEF Settle
  <2>2. memory.text = call.text
    OBVIOUS
  <2>3. \A m \in memories : m \in brain.memories \/ m.text = call.text
    BY <2>2
  <2>4. \/ facts = brain.facts
        \/ call.value # NoValue /\ facts = With(brain.facts, call.subject, call.value)
    OBVIOUS
  <2> QED
    BY <2>1, <2>3, <2>4
<1> HIDE DEF decision, memory, memories, facts
<1>4. /\ brain'.resolver = brain.resolver /\ brain'.gate = Observe(brain.gate, decision)
      /\ brain'.facts = facts /\ brain'.memories = memories
      /\ brain' = [resolver |-> brain'.resolver, gate |-> brain'.gate,
                   facts |-> brain'.facts, memories |-> brain'.memories,
                   asserted |-> brain'.asserted]
  BY <1>2, <1>3 DEF SoundBrain
<1>5. DOMAIN facts \subseteq Known(brain.resolver)
  <2>1. CASE facts = brain.facts
    BY <1>2, <2>1 DEF SoundBrain
  <2>2. CASE call.value # NoValue /\ facts = With(brain.facts, call.subject, call.value)
    <3>1. call.subject \in Known(brain.resolver)
      BY <1>1, <1>2, <2>2 DEF SoundCall
    <3>2. DOMAIN facts = DOMAIN brain.facts \union {call.subject}
      BY <2>2 DEF With
    <3> QED
      BY <1>2, <3>1, <3>2 DEF SoundBrain
  <2> QED
    BY <1>3, <2>1, <2>2
<1>6. \A m \in memories : m.text \in Texts
  BY <1>2, <1>3 DEF SoundBrain
<1>7. /\ Observe(brain.gate, decision).theta \in Floor .. Ceiling
      /\ Observe(brain.gate, decision).seen \in Nat
      /\ Observe(brain.gate, decision).stored \in Nat
  BY <1>2, ObserveSound DEF SoundBrain
<1>8. SoundBrain(brain')
  BY <1>2, <1>4, <1>5, <1>6, <1>7 DEF SoundBrain
<1> QED
  BY <1>1, <1>8 DEF Inv, SoundCall, Idle

\* A forgotten name has no fact left.
LEMMA ForgetInv ==
    ASSUME Inv, NEW x \in Texts, NEW keep \in BOOLEAN, Forget(SurfaceOf[x], keep)
    PROVE  Inv'
<1> DEFINE name == Canonical(brain.resolver, SurfaceOf[x])
           kept == [s \in DOMAIN brain.facts \ {name} |-> brain.facts[s]]
           removed  == {m \in brain.memories : m.subject = name}
           resolver == IF keep THEN brain.resolver ELSE ForgetName(brain.resolver, name)
<1>1. Idle /\ saved' = saved /\ call' = call
  BY DEF Forget
<1>2. SoundBrain(brain) /\ SoundResolver(brain.resolver)
  BY DEF Inv, SoundBrain
<1>3. brain' = [brain EXCEPT !.facts = kept, !.memories = brain.memories \ removed,
                             !.asserted = brain.asserted \ {m.text : m \in removed},
                             !.resolver = resolver]
  BY DEF Forget
<1>4. name \in Plain
  BY <1>2, SurfacePlain, CanonicalIsPlain
<1>5. DOMAIN kept = DOMAIN brain.facts \ {name}
  OBVIOUS
<1>6. SoundResolver(resolver) /\ Known(brain.resolver) \ {name} \subseteq Known(resolver)
  BY <1>2, <1>4, ForgetSound
<1> HIDE DEF name, kept, removed, resolver
<1>7. /\ brain'.resolver = resolver /\ brain'.gate = brain.gate /\ brain'.facts = kept
      /\ brain'.memories = brain.memories \ removed
      /\ brain' = [resolver |-> brain'.resolver, gate |-> brain'.gate,
                   facts |-> brain'.facts, memories |-> brain'.memories,
                   asserted |-> brain'.asserted]
  BY <1>2, <1>3 DEF SoundBrain
<1>8. SoundBrain(brain')
  BY <1>2, <1>5, <1>6, <1>7 DEF SoundBrain
<1> QED
  BY <1>1, <1>8 DEF Inv, SoundCall, Idle

\* The subjects of the restored facts are registered, with their history or anew.
LEMMA RestoreInv ==
    ASSUME Inv, NEW legacy \in BOOLEAN, Restore(legacy)
    PROVE  Inv'
<1> DEFINE resolver == IF legacy THEN RegisterAll(DOMAIN saved.facts) ELSE saved.resolver
<1>1. /\ Idle /\ saved # NoBlob /\ saved' = saved /\ call' = call
      /\ brain' = [saved EXCEPT !.resolver = resolver]
  BY DEF Restore
<1>2. SoundBrain(saved) /\ SoundResolver(saved.resolver)
  BY <1>1 DEF Inv, SoundBrain
<1>3. DOMAIN saved.facts \in SUBSET Plain
  BY <1>2, KnownStandsForItself DEF SoundBrain
<1>4. SoundResolver(resolver) /\ DOMAIN saved.facts \subseteq Known(resolver)
  BY <1>2, <1>3, RegisterAllSound DEF SoundBrain
<1> HIDE DEF resolver
<1>5. /\ brain'.resolver = resolver /\ brain'.gate = saved.gate /\ brain'.facts = saved.facts
      /\ brain'.memories = saved.memories
      /\ brain' = [resolver |-> brain'.resolver, gate |-> brain'.gate,
                   facts |-> brain'.facts, memories |-> brain'.memories,
                   asserted |-> brain'.asserted]
  BY <1>1, <1>2 DEF SoundBrain
<1>6. SoundBrain(brain')
  BY <1>2, <1>4, <1>5 DEF SoundBrain
<1> QED
  BY <1>1, <1>2, <1>6 DEF Inv, SoundCall, Idle

\* Every step preserves the invariant.
LEMMA StepInv == Inv /\ [Next]_vars => Inv'
<1> SUFFICES ASSUME Inv, [Next]_vars PROVE Inv'
  OBVIOUS
<1>1. ASSUME NEW text \in Texts, Begin(text) PROVE Inv'
  BY <1>1, BeginInv
<1>2. ASSUME NEW found \in BOOLEAN, Extract(found) PROVE Inv'
  BY <1>2, ExtractInv
<1>3. ASSUME NEW version \in 1 .. 2, Embed(version) PROVE Inv'
  BY <1>3, EmbedInv
<1>4. CASE Retry
  BY <1>4, RetryInv
<1>5. CASE Raise
  BY <1>5 DEF Raise, Inv, SoundCall, Idle
<1>6. CASE Settle
  BY <1>6, SettleInv
<1>7. ASSUME NEW x \in Texts, NEW keep \in BOOLEAN, Forget(SurfaceOf[x], keep) PROVE Inv'
  BY <1>7, ForgetInv
<1>8. CASE Snapshot
  BY <1>8 DEF Snapshot, Inv, SoundCall, Idle
<1>9. ASSUME NEW legacy \in BOOLEAN, Restore(legacy) PROVE Inv'
  BY <1>9, RestoreInv
<1>10. ASSUME NEW live \in BOOLEAN, NewBrain(live) PROVE Inv'
  BY <1>10, EmptySound DEF NewBrain, Inv, SoundCall, Idle
<1>11. CASE UNCHANGED vars
  BY <1>11 DEF vars, Inv, SoundCall, Idle
<1> QED
  BY <1>1, <1>2, <1>3, <1>4, <1>5, <1>6, <1>7, <1>8, <1>9, <1>10, <1>11 DEF Next, CallStep

\* The tiers stay consistent with each other and with the write under way.
THEOREM InvIsInvariant == Spec => []Inv
BY InitInv, StepInv, PTL DEF Spec

-----------------------------------------------------------------------------
(* What follows *)

\* Every fact, whatever was registered, forgotten or restored, is under a subject
\* that is offered to the planner and stands for itself.
THEOREM FindableHolds == Spec => []Findable
<1>1. Inv => Findable
  <2> SUFFICES ASSUME Inv, NEW name \in DOMAIN brain.facts
               PROVE  /\ name \in Entities(brain.resolver)
                      /\ Canonical(brain.resolver, name) = name
    BY DEF Findable
  <2>1. SoundResolver(brain.resolver) /\ name \in Known(brain.resolver)
    BY DEF Inv, SoundBrain
  <2>2. Canonical(brain.resolver, name) = name
    BY <2>1, KnownStandsForItself
  <2>3. name \in Entities(brain.resolver)
    BY <2>1 DEF Known, Entities
  <2> QED
    BY <2>2, <2>3
<1> QED
  BY <1>1, InvIsInvariant, PTL

\* A token is read as short for a name only if no fact is about anybody else who
\* bears it.
THEOREM NoFalseMergeHolds == Spec => []NoFalseMerge
<1>1. Inv => NoFalseMerge
  <2> DEFINE r == brain.resolver
  <2> SUFFICES ASSUME Inv, NEW token \in Tokens, Canonical(r, <<token>>) # <<token>>,
                      NEW name \in DOMAIN brain.facts, Bears(name, token)
               PROVE  name = Canonical(r, <<token>>)
    BY DEF NoFalseMerge
  <2>1. SoundResolver(r) /\ name \in Known(r)
    BY DEF Inv, SoundBrain
  <2>2. token \in STRING
    <3>1. PICK x \in Texts : \E i \in DOMAIN SurfaceOf[x] : token = SurfaceOf[x][i]
      BY DEF Tokens
    <3>2. SurfaceOf[x] \in Seq(STRING)
      BY TextAssumption
    <3> QED
      BY <3>1, <3>2
  <2>3. StripHonorific(<<token>>) = <<token>> /\ GivenOf(<<token>>) = token
    BY <2>2, TokenName
  <2>4. Promotes(r, token) /\ Canonical(r, <<token>>) = Promote(r, token)
    BY <2>3 DEF Canonical
  <2>5. /\ Candidates(r, token) = {Promote(r, token)} /\ <<token>> \notin r.singletons
    BY <2>1, <2>4, CandidateIsFull
  <2>6. /\ Ambiguous \notin Claims(r.given, token) \union Claims(r.surname, token)
        /\ Candidates(r, token) = Claims(r.given, token) \union Claims(r.surname, token)
    BY <2>5 DEF Candidates
  <2>7. name \in r.full
    <3> SUFFICES ASSUME name \in r.singletons PROVE FALSE
      BY <2>1 DEF Known
    <3>1. name \in Seq(STRING) /\ Len(name) = 1
      BY <2>1 DEF SoundResolver, Plain, Single
    <3>2. name = <<GivenOf(name)>> /\ SurnameOf(name) = GivenOf(name)
      BY <3>1, SingleName DEF SurnameOf, GivenOf
    <3>3. token = GivenOf(name)
      BY <3>2 DEF Bears
    <3> QED
      BY <2>5, <3>2, <3>3
  <2>8. name \in Claims(r.given, token) \union Claims(r.surname, token)
    <3>1. CASE token = GivenOf(name)
      <4>1. <<token, name>> \in GivenClaims(r.full)
        BY <2>7, <3>1 DEF GivenClaims
      <4>2. token \in DOMAIN r.given /\ r.given[token] \in {name, Ambiguous}
        BY <2>1, <4>1 DEF SoundResolver, IndexSound
      <4> QED
        BY <2>6, <4>2 DEF Claims
    <3>2. CASE token = SurnameOf(name)
      <4>1. <<token, name>> \in SurnameClaims(r.full)
        BY <2>7, <3>2 DEF SurnameClaims
      <4>2. token \in DOMAIN r.surname /\ r.surname[token] \in {name, Ambiguous}
        BY <2>1, <4>1 DEF SoundResolver, IndexSound
      <4> QED
        BY <2>6, <4>2 DEF Claims
    <3> QED
      BY <3>1, <3>2 DEF Bears
  <2> QED
    BY <2>4, <2>5, <2>6, <2>8
<1> QED
  BY <1>1, InvIsInvariant, PTL

\* A write that raises leaves facts, memories and the gate as they were before it.
THEOREM FailedWriteKeepsDataHolds == Spec => FailedWriteKeepsData
<1>1. Inv /\ [Next]_vars =>
        [Raise =>
           /\ brain'.facts = call.before.facts /\ brain'.memories = call.before.memories
           /\ brain'.gate = call.before.gate
           /\ call.before.resolver.full \subseteq brain'.resolver.full
           /\ call.before.resolver.singletons \subseteq brain'.resolver.singletons]_vars
  BY DEF Raise, Requesting, Inv, SoundCall
<1> QED
  BY <1>1, InvIsInvariant, PTL DEF Spec, FailedWriteKeepsData

\* If the first threshold is between the bounds, so is every later one: a
\* contradiction or a text as novel as the ceiling is remembered, and a text below
\* the floor that contradicts nothing is not.
THEOREM GateKeepsItsBoundsHolds ==
    ASSUME Theta0 \in Floor .. Ceiling
    PROVE  Spec => GateKeepsItsBounds
<1>1. ASSUME Inv, Settle
      PROVE  /\ Contradicts \/ call.novelty >= Ceiling => Remembered
             /\ call.novelty < Floor /\ ~Contradicts => brain'.memories = brain.memories
  <2> DEFINE decision == Decide(brain.gate, call.novelty, Contradicts)
             memory   == [text |-> call.text, version |-> call.version,
                          subject |-> call.subject]
             memories == IF decision = "stored" THEN brain.memories \union {memory}
                         ELSE brain.memories
  <2>1. call.novelty \in 0 .. One
    BY <1>1 DEF Inv, SoundCall, Settle
  <2>2. brain.gate.theta \in Floor .. Ceiling
    BY <1>1 DEF Inv, SoundBrain
  <2>3. brain'.memories = memories
    <3>1. PICK gate, facts : brain' = [brain EXCEPT !.gate = gate, !.memories = memories,
                                                    !.facts = facts]
      BY <1>1, Zenon DEF Settle
    <3> HIDE DEF memories
    <3> QED
      BY <1>1, <3>1 DEF Inv, SoundBrain
  <2>4. Contradicts \/ call.novelty >= Ceiling => decision = "stored"
    BY <2>1, <2>2, GateAssumption DEF Decide
  <2>5. call.novelty < Floor /\ ~Contradicts => decision # "stored"
    BY <2>1, <2>2, GateAssumption DEF Decide
  <2>6. memory.text = call.text
    OBVIOUS
  <2> HIDE DEF decision, memory
  <2> QED
    BY <2>3, <2>4, <2>5, <2>6 DEF Remembered
<1>2. Inv /\ [Next]_vars =>
        [Settle =>
           /\ Contradicts \/ call.novelty >= Ceiling => Remembered
           /\ call.novelty < Floor /\ ~Contradicts => brain'.memories = brain.memories]_vars
  BY <1>1
<1> QED
  BY <1>2, InvIsInvariant, PTL DEF Spec, GateKeepsItsBounds

-----------------------------------------------------------------------------
(* Types *)

\* A resolver has the names of the texts only, and their tokens.
NamesTyped(r) ==
    /\ r.full \union r.singletons \subseteq Subjects
    /\ DOMAIN r.given \union DOMAIN r.surname \subseteq Tokens

\* What is kept is about the texts, and the gate has counted past writes only.
Bounded(b) ==
    /\ b.gate.stored \in 0 .. b.gate.seen /\ b.gate.seen \in 0 .. ops
    /\ DOMAIN b.facts \subseteq Subjects /\ b.memories \subseteq Memory
    /\ b.asserted \subseteq Texts /\ NamesTyped(b.resolver)

\* The write under way is counted among the operations, not yet by the gate.
TypedCall ==
    ~Idle =>
       /\ call.stage \in Kinds \union {"decide"} /\ call.tries \in 0 .. Retries
       /\ call.subject \in Subjects \union {<<>>}
       /\ call.value # NoValue => call.subject \in Subjects
       /\ call.stage = "decide" => call.version \in 1 .. 2
       /\ brain.gate.seen < ops

TypeInv ==
    /\ Bounded(brain) /\ (saved # NoBlob => Bounded(saved)) /\ TypedCall
    /\ inner \in BOOLEAN /\ ops \in 0 .. MaxOps

\* The first and the last token of a subject are tokens of a text.
LEMMA PartsAreTokens ==
    ASSUME NEW name \in Subjects
    PROVE  GivenOf(name) \in Tokens /\ SurnameOf(name) \in Tokens
<1>1. PICK x \in Texts : name = StripHonorific(SurfaceOf[x])
  BY DEF Subjects
<1> DEFINE surface == SurfaceOf[x]
<1>2. surface \in Seq(STRING) /\ surface # <<>>
  BY TextAssumption
<1>3. Len(surface) \in Nat \ {0} /\ DOMAIN surface = 1 .. Len(surface)
  BY <1>2, EmptySeq, LenProperties
<1>4. \A i \in 1 .. Len(surface) : surface[i] \in Tokens
  BY <1>3 DEF Tokens
<1>5. CASE Len(surface) > 1 /\ Head(surface) \in Honorifics
  <2>1. name = Tail(surface)
    BY <1>1, <1>5 DEF StripHonorific
  <2> HIDE DEF surface
  <2>2. /\ Len(name) = Len(surface) - 1
        /\ \A i \in 1 .. Len(surface) - 1 : name[i] = surface[i + 1]
    BY <1>2, <2>1, HeadTailProperties
  <2>3. name[1] = surface[2] /\ name[Len(name)] = surface[Len(surface)]
    BY <1>3, <1>5, <2>2
  <2> QED
    BY <1>3, <1>4, <1>5, <2>3 DEF GivenOf, SurnameOf
<1>6. CASE ~(Len(surface) > 1 /\ Head(surface) \in Honorifics)
  <2>1. name = surface
    BY <1>1, <1>6 DEF StripHonorific
  <2> HIDE DEF surface
  <2> QED
    BY <1>3, <1>4, <2>1 DEF GivenOf, SurnameOf
<1> QED
  BY <1>5, <1>6

\* What a text is about is the subject of a text.
LEMMA CanonicalIsSubject ==
    ASSUME NEW r, SoundResolver(r), NamesTyped(r), NEW x \in Texts
    PROVE  Canonical(r, SurfaceOf[x]) \in Subjects
<1> DEFINE name == StripHonorific(SurfaceOf[x])
<1>1. name \in Subjects
  BY DEF Subjects
<1>2. Promotes(r, GivenOf(name)) => Promote(r, GivenOf(name)) \in Subjects
  BY CandidateIsFull DEF NamesTyped
<1> QED
  BY <1>1, <1>2 DEF Canonical

\* Registering the subject of a text.
LEMMA RegisterTyped ==
    ASSUME NEW r, SoundResolver(r), NamesTyped(r), NEW x \in Texts
    PROVE  NamesTyped(ResolveAndRegister(r, SurfaceOf[x]))
<1> DEFINE name == StripHonorific(SurfaceOf[x])
           new  == ResolveAndRegister(r, SurfaceOf[x])
<1>1. name \in Subjects /\ GivenOf(name) \in Tokens /\ SurnameOf(name) \in Tokens
  BY PartsAreTokens DEF Subjects
<1>2. CASE new = RegisterFull(r, name)
  <2>1. new = [r EXCEPT !.full    = r.full \union {name},
                        !.given   = RegisterComponent(r.given, GivenOf(name), name),
                        !.surname = RegisterComponent(r.surname, SurnameOf(name), name)]
    BY <1>2, Zenon DEF RegisterFull
  <2>2. r = [full |-> r.full, given |-> r.given, surname |-> r.surname,
             singletons |-> r.singletons]
    BY DEF SoundResolver
  <2>3. \A index, token : DOMAIN RegisterComponent(index, token, name)
                            = DOMAIN index \union {token}
    BY DEF RegisterComponent, With
  <2> HIDE DEF new, name
  <2>4. /\ new.full = r.full \union {name} /\ new.singletons = r.singletons
        /\ new.given = RegisterComponent(r.given, GivenOf(name), name)
        /\ new.surname = RegisterComponent(r.surname, SurnameOf(name), name)
    BY <2>1, <2>2
  <2>5. new.full \union new.singletons \subseteq Subjects
    BY <1>1, <2>4 DEF NamesTyped
  <2>6. DOMAIN new.given \union DOMAIN new.surname \subseteq Tokens
    <3>1. /\ DOMAIN new.given = DOMAIN r.given \union {GivenOf(name)}
          /\ DOMAIN new.surname = DOMAIN r.surname \union {SurnameOf(name)}
      BY <2>3, <2>4
    <3> QED
      BY <1>1, <3>1 DEF NamesTyped
  <2> QED
    BY <2>5, <2>6 DEF NamesTyped, new
<1>3. CASE new = r
  BY <1>3
<1>4. CASE new = [r EXCEPT !.singletons = @ \union {name}]
  <2> HIDE DEF new, name
  <2>1. /\ new.full = r.full /\ new.singletons = r.singletons \union {name}
        /\ new.given = r.given /\ new.surname = r.surname
    BY <1>4 DEF SoundResolver
  <2> QED
    BY <1>1, <2>1 DEF NamesTyped, new
<1> QED
  BY <1>2, <1>3, <1>4 DEF ResolveAndRegister

\* Forgetting a name.
LEMMA ForgetTyped ==
    ASSUME NEW r, NamesTyped(r), NEW name
    PROVE  NamesTyped(ForgetName(r, name))
BY DEF NamesTyped, ForgetName, Unclaimed

\* Registering the subjects of a legacy snapshot.
LEMMA RegisterAllTyped ==
    ASSUME NEW subjects \in SUBSET Subjects
    PROVE  NamesTyped(RegisterAll(subjects))
<1>1. \A name \in subjects : GivenOf(name) \in Tokens /\ SurnameOf(name) \in Tokens
  BY PartsAreTokens
<1>2. \A claims : DOMAIN IndexOf(claims) = {c[1] : c \in claims}
  BY DEF IndexOf
<1> DEFINE new  == RegisterAll(subjects)
           full == {name \in subjects : ~Single(name)}
<1>3. /\ new.full = full /\ new.singletons = subjects \ full
      /\ new.given = IndexOf(GivenClaims(full)) /\ new.surname = IndexOf(SurnameClaims(full))
  BY DEF RegisterAll, GivenClaims, SurnameClaims
<1>4. full \subseteq subjects
  OBVIOUS
<1> HIDE DEF new, full
<1>5. new.full \union new.singletons \subseteq Subjects
  BY <1>3, <1>4
<1>6. DOMAIN new.given \union DOMAIN new.surname \subseteq Tokens
  <2>1. /\ DOMAIN new.given = {c[1] : c \in GivenClaims(full)}
        /\ DOMAIN new.surname = {c[1] : c \in SurnameClaims(full)}
    BY <1>2, <1>3
  <2>2. \A c \in GivenClaims(full) \union SurnameClaims(full) : c[1] \in Tokens
    BY <1>1, <1>4 DEF GivenClaims, SurnameClaims
  <2> QED
    BY <2>1, <2>2
<1> QED
  BY <1>5, <1>6 DEF NamesTyped, new

\* What was kept is still about the texts when there is one more operation.
LEMMA LaterBounded ==
    ASSUME NEW b, Bounded(b), ops \in 0 .. MaxOps, ops' = ops + 1
    PROVE  /\ b.gate.stored \in 0 .. b.gate.seen /\ b.gate.seen \in 0 .. ops'
           /\ DOMAIN b.facts \subseteq Subjects /\ b.memories \subseteq Memory
           /\ b.asserted \subseteq Texts /\ NamesTyped(b.resolver)
BY RetryAssumption DEF Bounded

\* A new brain keeps nothing.
LEMMA EmptyBounded ==
    /\ Empty.gate.stored \in 0 .. Empty.gate.seen
    /\ \A n \in Nat : Empty.gate.seen \in 0 .. n
    /\ DOMAIN Empty.facts \subseteq Subjects /\ Empty.memories \subseteq Memory
    /\ Empty.asserted \subseteq Texts /\ NamesTyped(Empty.resolver)
<1>1. DOMAIN <<>> = {}
  OBVIOUS
<1>2. /\ Empty.resolver = NewResolver /\ Empty.gate = NewGate /\ DOMAIN Empty.facts = {}
      /\ Empty.memories = {} /\ Empty.asserted = {}
  BY <1>1 DEF Empty
<1>3. NewGate.seen = 0 /\ NewGate.stored = 0
  BY DEF NewGate
<1>4. NamesTyped(NewResolver)
  BY <1>1 DEF NamesTyped, NewResolver
<1> QED
  BY <1>2, <1>3, <1>4

\* The types hold at first.
LEMMA InitTyped == Init => TypeInv
<1> SUFFICES ASSUME Init PROVE TypeInv
  OBVIOUS
<1>1. /\ brain = Empty /\ saved = NoBlob /\ Idle /\ inner = TRUE /\ ops = 0
  BY DEF Init, Idle
<1>2. MaxOps \in Nat /\ 0 \in 0 .. MaxOps
  BY RetryAssumption
<1> QED
  BY <1>1, <1>2, EmptyBounded DEF TypeInv, TypedCall, Bounded

\* A write begins and is counted.
LEMMA BeginTyped ==
    ASSUME Inv, TypeInv, NEW text \in Texts, Begin(text)
    PROVE  TypeInv'
<1>1. /\ Idle /\ ops < MaxOps /\ brain' = brain /\ saved' = saved /\ ops' = ops + 1
      /\ inner' = inner
  BY DEF Begin
<1>2. PICK stage \in Kinds :
        call' = [stage |-> stage, text |-> text, tries |-> 0, value |-> NoValue,
                 subject |-> <<>>, version |-> 0, novelty |-> 0, before |-> brain]
  BY DEF Begin, Kinds
<1>3. Bounded(brain)' /\ (saved' # NoBlob => Bounded(saved)')
  BY <1>1, LaterBounded DEF TypeInv, Bounded
<1>4. brain.gate.seen < ops + 1 /\ ops + 1 \in 0 .. MaxOps /\ 0 \in 0 .. Retries
  BY <1>1, RetryAssumption DEF TypeInv, Bounded
<1>5. "decide" \notin Kinds
  BY DEF Kinds
<1>6. TypedCall'
  BY <1>1, <1>2, <1>4, <1>5 DEF TypedCall
<1> QED
  BY <1>1, <1>3, <1>4, <1>6 DEF TypeInv

\* The subject of the fact is registered.
LEMMA ExtractTyped ==
    ASSUME Inv, TypeInv, NEW found \in BOOLEAN, Extract(found)
    PROVE  TypeInv'
<1> DEFINE value   == IF found THEN ValueOf[call.text] ELSE NoValue
           surface == SurfaceOf[call.text]
           new     == ResolveAndRegister(brain.resolver, surface)
<1>1. /\ ~Idle /\ saved' = saved /\ inner' = inner /\ ops' = ops /\ Extracted(value)
  BY DEF Extract
<1>2. SoundCall /\ SoundBrain(brain) /\ call.text \in Texts /\ SoundResolver(brain.resolver)
  BY <1>1 DEF Inv, SoundCall, SoundBrain
<1>3. Canonical(brain.resolver, surface) \in Subjects /\ NamesTyped(new)
  BY <1>2, CanonicalIsSubject, RegisterTyped DEF TypeInv, Bounded
<1> HIDE DEF value, surface, new
<1>4. PICK subject :
        /\ call' = [call EXCEPT !.stage = "embed", !.tries = 0, !.value = value,
                                !.subject = subject]
        /\ subject = IF value = NoValue THEN <<>> ELSE Canonical(brain.resolver, surface)
        /\ brain' = IF value = NoValue THEN brain
                    ELSE [brain EXCEPT !.asserted = brain.asserted \union {call.text},
                                       !.resolver = new]
  BY <1>1 DEF Extracted, surface, new
<1>5. /\ call'.stage = "embed" /\ call'.tries = 0 /\ call'.value = value
      /\ call'.subject = subject
  BY <1>1, <1>2, <1>4 DEF SoundCall
<1>6. /\ brain'.gate = brain.gate /\ brain'.facts = brain.facts
      /\ brain'.memories = brain.memories
      /\ brain'.asserted \subseteq brain.asserted \union {call.text}
      /\ brain'.resolver = brain.resolver \/ brain'.resolver = new
  BY <1>2, <1>4 DEF SoundBrain
<1>7. Bounded(brain)'
  <2>1. NamesTyped(brain'.resolver)
    BY <1>3, <1>6 DEF TypeInv, Bounded
  <2> QED
    BY <1>1, <1>2, <1>6, <2>1 DEF TypeInv, Bounded
<1>8. TypedCall'
  <2>1. "embed" \in Kinds /\ "embed" # "decide" /\ 0 \in 0 .. Retries
    BY RetryAssumption DEF Kinds
  <2>2. value # NoValue => subject \in Subjects
    BY <1>3, <1>4
  <2>3. subject \in Subjects \union {<<>>}
    BY <1>3, <1>4
  <2>4. brain'.gate.seen < ops'
    BY <1>1, <1>6 DEF TypeInv, TypedCall
  <2> QED
    BY <1>5, <2>1, <2>2, <2>3, <2>4 DEF TypedCall
<1>9. saved' # NoBlob => Bounded(saved)'
  BY <1>1 DEF TypeInv, Bounded
<1> QED
  BY <1>1, <1>7, <1>8, <1>9 DEF TypeInv

\* The vector is known.
LEMMA EmbedTyped ==
    ASSUME Inv, TypeInv, NEW version \in 1 .. 2, Embed(version)
    PROVE  TypeInv'
<1>1. /\ ~Idle /\ saved' = saved /\ brain' = brain /\ inner' = inner /\ ops' = ops
      /\ call' = [call EXCEPT !.tries = 0, !.version = version, !.stage = "decide",
                              !.novelty = Novelty(call.text, version)]
  BY DEF Embed
<1>2. /\ call'.stage = "decide" /\ call'.tries = 0 /\ call'.version = version
      /\ call'.subject = call.subject /\ call'.value = call.value
  BY <1>1 DEF Inv, SoundCall
<1>3. 0 \in 0 .. Retries
  BY RetryAssumption
<1>4. TypedCall'
  BY <1>1, <1>2, <1>3 DEF TypeInv, TypedCall
<1> QED
  BY <1>1, <1>4 DEF TypeInv, Bounded

\* Another attempt.
LEMMA RetryTyped ==
    ASSUME Inv, TypeInv, Retry
    PROVE  TypeInv'
<1>1. /\ ~Idle /\ saved' = saved /\ brain' = brain /\ inner' = inner /\ ops' = ops
      /\ call.tries < Retries /\ call' = [call EXCEPT !.tries = @ + 1]
  BY DEF Retry, Requesting
<1>2. /\ call'.stage = call.stage /\ call'.tries = call.tries + 1
      /\ call'.version = call.version /\ call'.subject = call.subject
      /\ call'.value = call.value
  BY <1>1 DEF Inv, SoundCall
<1>3. call.tries + 1 \in 0 .. Retries
  BY <1>1, RetryAssumption DEF TypeInv, TypedCall
<1>4. TypedCall'
  BY <1>1, <1>2, <1>3 DEF TypeInv, TypedCall
<1> QED
  BY <1>1, <1>4 DEF TypeInv, Bounded

\* The gate counts the write that was under way, and a memory of it is kept.
LEMMA SettleTyped ==
    ASSUME Inv, TypeInv, Settle
    PROVE  TypeInv'
<1>1. /\ ~Idle /\ call.stage = "decide" /\ saved' = saved /\ call' = NoCall
      /\ inner' = inner /\ ops' = ops
  BY DEF Settle
<1>2. SoundBrain(brain) /\ call.text \in Texts
  BY <1>1 DEF Inv, SoundCall
<1> DEFINE decision == Decide(brain.gate, call.novelty, Contradicts)
           memory   == [text |-> call.text, version |-> call.version,
                        subject |-> call.subject]
           memories == IF decision = "stored" THEN brain.memories \union {memory}
                       ELSE brain.memories
           facts    == IF call.value = NoValue THEN brain.facts
                       ELSE With(brain.facts, call.subject, call.value)
<1>3. brain' = [brain EXCEPT !.gate = Observe(brain.gate, decision),
                             !.memories = memories, !.facts = facts]
  BY DEF Settle
<1>4. memories \subseteq Memory
  <2>1. memory \in Memory
    BY <1>1, <1>2 DEF TypeInv, TypedCall, Memory
  <2> HIDE DEF memory
  <2> QED
    BY <2>1 DEF TypeInv, Bounded
<1>5. DOMAIN facts \subseteq Subjects
  <2>1. call.value # NoValue => call.subject \in Subjects
    BY <1>1 DEF TypeInv, TypedCall
  <2>2. DOMAIN brain.facts \subseteq Subjects
    BY DEF TypeInv, Bounded
  <2> QED
    BY <2>1, <2>2 DEF With
<1> HIDE DEF decision, memory, memories, facts
<1>6. /\ brain'.resolver = brain.resolver /\ brain'.gate = Observe(brain.gate, decision)
      /\ brain'.facts = facts /\ brain'.memories = memories
      /\ brain'.asserted = brain.asserted
  BY <1>2, <1>3 DEF SoundBrain
<1>7. /\ brain'.gate.seen \in 0 .. ops'
      /\ brain'.gate.stored \in 0 .. brain'.gate.seen
  <2> DEFINE one == IF decision = "stored" THEN 1 ELSE 0
  <2>1. /\ brain'.gate.seen = brain.gate.seen + 1
        /\ brain'.gate.stored = brain.gate.stored + one
    BY <1>6 DEF Observe
  <2>2. one \in 0 .. 1
    OBVIOUS
  <2> HIDE DEF one
  <2>3. brain.gate.seen < ops /\ brain.gate.stored \in 0 .. brain.gate.seen
        /\ brain.gate.seen \in 0 .. ops /\ ops \in Nat
    BY <1>1 DEF TypeInv, TypedCall, Bounded
  <2> QED
    BY <1>1, <2>1, <2>2, <2>3
<1>8. Bounded(brain)'
  BY <1>4, <1>5, <1>6, <1>7 DEF TypeInv, Bounded
<1>9. saved' # NoBlob => Bounded(saved)'
  BY <1>1 DEF TypeInv, Bounded
<1> QED
  BY <1>1, <1>8, <1>9 DEF TypeInv, TypedCall, Idle

\* Nothing new is kept.
LEMMA ForgetKeepsTypes ==
    ASSUME Inv, TypeInv, NEW x \in Texts, NEW keep \in BOOLEAN, Forget(SurfaceOf[x], keep)
    PROVE  TypeInv'
<1> DEFINE name == Canonical(brain.resolver, SurfaceOf[x])
           kept == [s \in DOMAIN brain.facts \ {name} |-> brain.facts[s]]
           removed  == {m \in brain.memories : m.subject = name}
           resolver == IF keep THEN brain.resolver ELSE ForgetName(brain.resolver, name)
<1>1. /\ Idle /\ ops < MaxOps /\ saved' = saved /\ call' = call /\ inner' = inner
      /\ ops' = ops + 1
  BY DEF Forget
<1>2. SoundBrain(brain)
  BY DEF Inv
<1>3. brain' = [brain EXCEPT !.facts = kept, !.memories = brain.memories \ removed,
                             !.asserted = brain.asserted \ {m.text : m \in removed},
                             !.resolver = resolver]
  BY DEF Forget
<1>4. DOMAIN kept \subseteq DOMAIN brain.facts
  OBVIOUS
<1>5. NamesTyped(resolver)
  BY ForgetTyped DEF TypeInv, Bounded
<1> HIDE DEF name, kept, removed, resolver
<1>6. /\ brain'.resolver = resolver /\ brain'.gate = brain.gate /\ brain'.facts = kept
      /\ brain'.memories = brain.memories \ removed
      /\ brain'.asserted \subseteq brain.asserted
  BY <1>2, <1>3 DEF SoundBrain
<1>7. Bounded(brain)' /\ (saved' # NoBlob => Bounded(saved)')
  <2>1. saved' # NoBlob => Bounded(saved)'
    BY <1>1, LaterBounded DEF TypeInv, Bounded
  <2>2. brain.gate.seen \in 0 .. ops + 1
    BY <1>1 DEF TypeInv, Bounded
  <2> QED
    BY <1>1, <1>4, <1>5, <1>6, <2>1, <2>2 DEF TypeInv, Bounded
<1>8. ops' \in 0 .. MaxOps
  BY <1>1, RetryAssumption DEF TypeInv
<1> QED
  BY <1>1, <1>7, <1>8 DEF TypeInv, TypedCall, Idle

\* What a snapshot had is kept again.
LEMMA RestoreTyped ==
    ASSUME Inv, TypeInv, NEW legacy \in BOOLEAN, Restore(legacy)
    PROVE  TypeInv'
<1> DEFINE resolver == IF legacy THEN RegisterAll(DOMAIN saved.facts) ELSE saved.resolver
<1>1. /\ Idle /\ ops < MaxOps /\ saved # NoBlob /\ saved' = saved /\ call' = call
      /\ inner' = inner /\ ops' = ops + 1 /\ brain' = [saved EXCEPT !.resolver = resolver]
  BY DEF Restore
<1>2. SoundBrain(saved) /\ Bounded(saved)
  BY <1>1 DEF Inv, TypeInv
<1>3. NamesTyped(resolver)
  BY <1>2, RegisterAllTyped DEF Bounded
<1> HIDE DEF resolver
<1>4. /\ brain'.resolver = resolver /\ brain'.gate = saved.gate /\ brain'.facts = saved.facts
      /\ brain'.memories = saved.memories /\ brain'.asserted = saved.asserted
  BY <1>1, <1>2 DEF SoundBrain
<1>5. saved.gate.seen \in 0 .. ops + 1
  BY <1>1, <1>2 DEF TypeInv, Bounded
<1>6. Bounded(brain)'
  BY <1>1, <1>2, <1>3, <1>4, <1>5 DEF Bounded
<1>7. saved' # NoBlob => Bounded(saved)'
  BY <1>1, LaterBounded DEF TypeInv, Bounded
<1>8. ops' \in 0 .. MaxOps
  BY <1>1, RetryAssumption DEF TypeInv
<1> QED
  BY <1>1, <1>6, <1>7, <1>8 DEF TypeInv, TypedCall, Idle

\* Every step preserves the types.
LEMMA StepTyped == Inv /\ TypeInv /\ [Next]_vars => TypeInv'
<1> SUFFICES ASSUME Inv, TypeInv, [Next]_vars PROVE TypeInv'
  OBVIOUS
<1>1. ASSUME NEW text \in Texts, Begin(text) PROVE TypeInv'
  BY <1>1, BeginTyped
<1>2. ASSUME NEW found \in BOOLEAN, Extract(found) PROVE TypeInv'
  BY <1>2, ExtractTyped
<1>3. ASSUME NEW version \in 1 .. 2, Embed(version) PROVE TypeInv'
  BY <1>3, EmbedTyped
<1>4. CASE Retry
  BY <1>4, RetryTyped
<1>5. CASE Raise
  BY <1>5 DEF Raise, TypeInv, Bounded, TypedCall, Idle
<1>6. CASE Settle
  BY <1>6, SettleTyped
<1>7. ASSUME NEW x \in Texts, NEW keep \in BOOLEAN, Forget(SurfaceOf[x], keep) PROVE TypeInv'
  BY <1>7, ForgetKeepsTypes
<1>8. CASE Snapshot
  <2>1. /\ Idle /\ ops < MaxOps /\ saved' = brain /\ ops' = ops + 1 /\ brain' = brain
        /\ call' = call /\ inner' = inner
    BY <1>8 DEF Snapshot
  <2>2. Bounded(brain)' /\ Bounded(saved)'
    BY <2>1, LaterBounded DEF TypeInv, Bounded
  <2>3. ops' \in 0 .. MaxOps
    BY <2>1, RetryAssumption DEF TypeInv
  <2> QED
    BY <2>1, <2>2, <2>3 DEF TypeInv, TypedCall, Idle
<1>9. ASSUME NEW legacy \in BOOLEAN, Restore(legacy) PROVE TypeInv'
  BY <1>9, RestoreTyped
<1>10. ASSUME NEW live \in BOOLEAN, NewBrain(live) PROVE TypeInv'
  <2>1. /\ Idle /\ ops < MaxOps /\ brain' = Empty /\ inner' = live /\ saved' = NoBlob
        /\ ops' = ops + 1 /\ call' = call
    BY <1>10 DEF NewBrain
  <2>2. ops' \in 0 .. MaxOps
    BY <2>1, RetryAssumption DEF TypeInv
  <2>3. Bounded(brain)'
    BY <2>1, <2>2, EmptyBounded DEF Bounded
  <2> QED
    BY <2>1, <2>2, <2>3 DEF TypeInv, TypedCall, Idle
<1>11. CASE UNCHANGED vars
  BY <1>11 DEF vars, TypeInv, Bounded, TypedCall, Idle
<1> QED
  BY <1>1, <1>2, <1>3, <1>4, <1>5, <1>6, <1>7, <1>8, <1>9, <1>10, <1>11 DEF Next, CallStep

\* A resolver that is sound has entries of the right type.
LEMMA TiersFollow ==
    ASSUME NEW b, SoundBrain(b), Bounded(b), ops \in 0 .. MaxOps
    PROVE  Tiers(b)
<1>1. /\ SoundResolver(b.resolver) /\ NamesTyped(b.resolver)
      /\ b.gate.theta \in Floor .. Ceiling \union {Theta0}
  BY DEF SoundBrain, Bounded
<1>2. ASSUME NEW index \in {b.resolver.given, b.resolver.surname}, NEW t \in DOMAIN index
      PROVE  t \in Tokens /\ index[t] \in b.resolver.full \union {Ambiguous}
  <2>1. t \in Tokens
    BY <1>1, <1>2 DEF NamesTyped
  <2>2. \/ IndexSound(index, GivenClaims(b.resolver.full))
        \/ IndexSound(index, SurnameClaims(b.resolver.full))
    BY <1>1, <1>2 DEF SoundResolver
  <2>3. \A c \in GivenClaims(b.resolver.full) \union SurnameClaims(b.resolver.full) :
           c[2] \in b.resolver.full
    BY DEF GivenClaims, SurnameClaims
  <2> QED
    BY <2>1, <2>2, <2>3 DEF IndexSound
<1>3. b.gate.seen \in 0 .. MaxOps
  BY RetryAssumption DEF Bounded
<1> QED
  BY <1>1, <1>2, <1>3 DEF Tiers, Bounded, NamesTyped

\* Every reachable state has its type: an index names registered names only, the
\* gate counts no more writes than there were, and no request is tried too often.
THEOREM TypeCorrect == Spec => []TypeOK
<1>1. Spec => []TypeInv
  BY InitTyped, StepTyped, InvIsInvariant, PTL DEF Spec
<1>2. Inv /\ TypeInv => TypeOK
  <2> SUFFICES ASSUME Inv, TypeInv PROVE TypeOK
    OBVIOUS
  <2>1. Tiers(brain) /\ (saved # NoBlob => Tiers(saved))
    BY TiersFollow DEF Inv, TypeInv
  <2>2. ~Idle => /\ call.stage \in Kinds \union {"decide"} /\ call.text \in Texts
                 /\ call.tries \in 0 .. Retries /\ call.novelty \in 0 .. One
    BY DEF Inv, SoundCall, TypeInv, TypedCall
  <2> QED
    BY <2>1, <2>2 DEF TypeOK, TypeInv
<1> QED
  BY <1>1, <1>2, InvIsInvariant, PTL

-----------------------------------------------------------------------------
(* A run over a cassette *)

\* What a write of text x makes of a brain b, once the requests are answered: the
\* value found, the subject, the brain when the fact is known, and at the end.
ValueFor(b, x, c) ==
    IF x \notin b.asserted /\ c["extract"][x] THEN ValueOf[x] ELSE NoValue

SubjectFor(b, x, v) == IF v = NoValue THEN <<>> ELSE Canonical(b.resolver, SurfaceOf[x])

AfterExtract(b, x, v) ==
    IF v = NoValue THEN b
    ELSE [b EXCEPT !.asserted = @ \union {x},
                   !.resolver = ResolveAndRegister(@, SurfaceOf[x])]

NoveltyIn(memories, x, w) ==
    LET distances == {Distance(m, x, w) : m \in memories} \union {One}
    IN  CHOOSE d \in distances : \A e \in distances : d <= e

Settled(b, x, v, s, w, n) ==
    LET decision == Decide(b.gate, n, v # NoValue /\ s \in DOMAIN b.facts /\ b.facts[s] # v)
        memory   == [text |-> x, version |-> w, subject |-> s]
    IN  [b EXCEPT !.gate     = Observe(@, decision),
                  !.memories = IF decision = "stored" THEN @ \union {memory} ELSE @,
                  !.facts    = IF v = NoValue THEN @ ELSE With(@, s, v)]

Outcome(b, x, v, w) ==
    LET e == AfterExtract(b, x, v)
    IN  Settled(e, x, v, SubjectFor(b, x, v), w, NoveltyIn(e.memories, x, w))

\* The cassette has what the write had to ask for, and it led from b to a.
Extractable(b, x, c) == x \in b.asserted \/ x \in DOMAIN c["extract"]

Follows(b, x, a, c) ==
    /\ Extractable(b, x, c) /\ x \in DOMAIN c["embed"]
    /\ a = Outcome(b, x, ValueFor(b, x, c), c["embed"][x])

BeforeIn(t, i) == IF i = 1 THEN Empty ELSE t[i - 1].brain
EndOf(t) == IF t = <<>> THEN Empty ELSE t[Len(t)].brain

IsRun(t, c) ==
    /\ \E S : t \in Seq(S)
    /\ \A i \in 1 .. Len(t) : Follows(BeforeIn(t, i), t[i].text, t[i].brain, c)

\* The write under way follows from the brain before it and from the cassette.
CallFollows ==
    ~Idle =>
       /\ call.stage = "extract" => /\ call.text \notin call.before.asserted
                                    /\ brain = call.before
       /\ call.stage # "extract" =>
            /\ Extractable(call.before, call.text, cassette)
            /\ call.value = ValueFor(call.before, call.text, cassette)
            /\ call.subject = SubjectFor(call.before, call.text, call.value)
            /\ brain = AfterExtract(call.before, call.text, call.value)
       /\ call.stage = "decide" =>
            /\ call.text \in DOMAIN cassette["embed"]
            /\ call.version = cassette["embed"][call.text]
            /\ call.novelty = NoveltyIn(brain.memories, call.text, call.version)

\* Both histories are runs over the cassette as it is now.
ReplayInv ==
    /\ DOMAIN cassette = Kinds
    /\ trace # NoTrace => /\ IsRun(trace, cassette)
                          /\ EndOf(trace) = IF Idle THEN brain ELSE call.before
    /\ previous # NoTrace => IsRun(previous, cassette)
    /\ CallFollows

\* Nothing recorded is ever recorded anew.
Extends(c, d) ==
    \A kind \in Kinds : /\ DOMAIN c[kind] \subseteq DOMAIN d[kind]
                        /\ \A x \in DOMAIN c[kind] : d[kind][x] = c[kind][x]

\* The answer to a request is on the cassette from then on, and nothing is lost.
LEMMA AnsweredExtends ==
    ASSUME DOMAIN cassette = Kinds, NEW kind \in Kinds, NEW answer, Answered(kind, answer)
    PROVE  /\ DOMAIN cassette' = Kinds /\ Extends(cassette, cassette')
           /\ call.text \in DOMAIN cassette'[kind] /\ cassette'[kind][call.text] = answer
<1>1. CASE Recorded(kind)
  <2>1. answer = cassette[kind][call.text] /\ cassette' = cassette
    BY <1>1 DEF Answered
  <2> QED
    BY <1>1, <2>1 DEF Recorded, Extends
<1>2. CASE ~Recorded(kind)
  <2>1. cassette' = [cassette EXCEPT ![kind] = With(cassette[kind], call.text, answer)]
    BY <1>2 DEF Answered
  <2>2. /\ DOMAIN cassette' = Kinds
        /\ cassette'[kind] = With(cassette[kind], call.text, answer)
        /\ \A k \in Kinds : k # kind => cassette'[k] = cassette[k]
    BY <2>1
  <2>3. /\ DOMAIN cassette'[kind] = DOMAIN cassette[kind] \union {call.text}
        /\ cassette'[kind][call.text] = answer
        /\ \A x \in DOMAIN cassette[kind] : x # call.text =>
              cassette'[kind][x] = cassette[kind][x]
    BY <2>2 DEF With
  <2>4. call.text \notin DOMAIN cassette[kind]
    BY <1>2 DEF Recorded
  <2> QED
    BY <2>2, <2>3, <2>4 DEF Extends
<1> QED
  BY <1>1, <1>2

\* What followed from a cassette follows from a longer one.
LEMMA FollowsLater ==
    ASSUME NEW c, NEW d, Extends(c, d), NEW b, NEW x, Extractable(b, x, c)
    PROVE  /\ Extractable(b, x, d) /\ ValueFor(b, x, d) = ValueFor(b, x, c)
           /\ \A a : Follows(b, x, a, c) => Follows(b, x, a, d)
<1>1. "extract" \in Kinds /\ "embed" \in Kinds
  BY DEF Kinds
<1>2. Extractable(b, x, d)
  BY <1>1 DEF Extends, Extractable
<1>3. ValueFor(b, x, d) = ValueFor(b, x, c)
  BY <1>1 DEF Extends, Extractable, ValueFor
<1>4. x \in DOMAIN c["embed"] => x \in DOMAIN d["embed"] /\ d["embed"][x] = c["embed"][x]
  BY <1>1 DEF Extends
<1> QED
  BY <1>2, <1>3, <1>4 DEF Follows

\* So does a run.
LEMMA RunLater ==
    ASSUME NEW c, NEW d, Extends(c, d), NEW t, IsRun(t, c)
    PROVE  IsRun(t, d)
<1>1. ASSUME NEW i \in 1 .. Len(t)
      PROVE  Follows(BeforeIn(t, i), t[i].text, t[i].brain, d)
  <2>1. Follows(BeforeIn(t, i), t[i].text, t[i].brain, c)
    BY DEF IsRun
  <2>2. Extractable(BeforeIn(t, i), t[i].text, c)
    BY <2>1 DEF Follows
  <2> QED
    BY <2>1, <2>2, FollowsLater
<1> QED
  BY <1>1 DEF IsRun

\* A brain without a write is the end of a run without one.
LEMMA EmptyRun == \A c : IsRun(<<>>, c) /\ EndOf(<<>>) = Empty
<1>1. <<>> \in Seq({}) /\ Len(<<>>) = 0
  OBVIOUS
<1>2. 1 .. Len(<<>>) = {}
  BY <1>1
<1> QED
  BY <1>1, <1>2 DEF IsRun, EndOf

\* A write that follows from the end of a run makes it longer.
LEMMA RunAppended ==
    ASSUME NEW t, NEW c, IsRun(t, c), NEW x, NEW a, Follows(EndOf(t), x, a, c)
    PROVE  LET u == Append(t, [text |-> x, brain |-> a])
           IN  IsRun(u, c) /\ EndOf(u) = a
<1> DEFINE e == [text |-> x, brain |-> a]
           u == Append(t, e)
<1>1. PICK S : t \in Seq(S)
  BY DEF IsRun
<1>2. t \in Seq(S \union {e}) /\ e \in S \union {e}
  BY <1>1
<1>3. e.text = x /\ e.brain = a
  OBVIOUS
<1> HIDE DEF e
<1>4. /\ u \in Seq(S \union {e}) /\ Len(u) = Len(t) + 1 /\ Len(t) \in Nat
      /\ \A i \in 1 .. Len(t) : u[i] = t[i]
      /\ u[Len(t) + 1] = e
  BY <1>2, AppendProperties
<1> HIDE DEF u
<1>5. EndOf(u) = a
  <2>1. u # <<>>
    BY <1>4, EmptySeq
  <2> QED
    BY <1>3, <1>4, <2>1 DEF EndOf
<1>6. BeforeIn(u, Len(t) + 1) = EndOf(t)
  <2>1. CASE t = <<>>
    <3>1. Len(t) = 0
      BY <2>1
    <3> QED
      BY <2>1, <3>1 DEF BeforeIn, EndOf
  <2>2. CASE t # <<>>
    <3>1. Len(t) \in Nat \ {0}
      BY <1>2, <1>4, <2>2, EmptySeq
    <3>2. Len(t) + 1 # 1 /\ Len(t) + 1 - 1 = Len(t) /\ Len(t) \in 1 .. Len(t)
      BY <3>1
    <3> QED
      BY <1>4, <2>2, <3>2 DEF BeforeIn, EndOf
  <2> QED
    BY <2>1, <2>2
<1>7. ASSUME NEW i \in 1 .. Len(u)
      PROVE  Follows(BeforeIn(u, i), u[i].text, u[i].brain, c)
  <2>1. CASE i = Len(t) + 1
    <3>1. u[i].text = x /\ u[i].brain = a /\ BeforeIn(u, i) = EndOf(t)
      BY <1>3, <1>4, <1>6, <2>1
    <3> QED
      BY <3>1
  <2>2. CASE i # Len(t) + 1
    <3>1. i \in 1 .. Len(t)
      BY <1>4, <2>2
    <3>2. i # 1 => i - 1 \in 1 .. Len(t)
      BY <1>4, <3>1
    <3>3. u[i] = t[i] /\ BeforeIn(u, i) = BeforeIn(t, i)
      BY <1>4, <3>1, <3>2 DEF BeforeIn
    <3> QED
      BY <3>1, <3>3 DEF IsRun
  <2> QED
    BY <2>1, <2>2
<1>8. IsRun(u, c)
  BY <1>4, <1>7 DEF IsRun
<1> QED
  BY <1>5, <1>8 DEF u, e

\* Two runs over one cassette agree for as long as their texts do: at the first
\* place where they did not, both would follow from the same brain.
LEMMA RunsAgree ==
    ASSUME NEW c, NEW t, NEW u, IsRun(t, c), IsRun(u, c), NEW n \in Nat,
           n <= Len(t), n <= Len(u), Len(t) \in Nat, Len(u) \in Nat,
           \A i \in 1 .. n : t[i].text = u[i].text
    PROVE  \A i \in 1 .. n : t[i].brain = u[i].brain
<1> DEFINE D == {i \in 1 .. n : t[i].brain # u[i].brain}
<1>1. SUFFICES ASSUME D # {} PROVE FALSE
  OBVIOUS
<1>2. D \subseteq Nat
  OBVIOUS
<1>3. PICK i \in D : \A j \in D : ~ (<<j, i>> \in OpToRel(<, Nat))
  BY <1>1, <1>2, NatLessThanWellFounded, WFMin
<1>4. \A j \in Nat, k \in Nat : j < k => <<j, k>> \in OpToRel(<, Nat)
  <2>1. OpToRel(<, Nat) = {ss \in Nat \X Nat : ss[1] < ss[2]}
    BY Zenon DEF OpToRel
  <2> QED
    BY <2>1
<1>5. i \in 1 .. n /\ t[i].brain # u[i].brain
  OBVIOUS
<1>6. i # 1 => i - 1 \in 1 .. n /\ i - 1 < i /\ i - 1 \in Nat /\ i \in Nat
  BY <1>5
<1>7. i # 1 => i - 1 \notin D
  BY <1>3, <1>4, <1>6, Zenon
<1>8. i # 1 => t[i - 1].brain = u[i - 1].brain
  BY <1>6, <1>7
<1>9. BeforeIn(t, i) = BeforeIn(u, i) /\ t[i].text = u[i].text
  BY <1>5, <1>8 DEF BeforeIn
<1>10. i \in 1 .. Len(t) /\ i \in 1 .. Len(u)
  BY <1>5
<1>11. /\ Follows(BeforeIn(t, i), t[i].text, t[i].brain, c)
       /\ Follows(BeforeIn(u, i), u[i].text, u[i].brain, c)
  BY <1>10 DEF IsRun
<1> QED
  BY <1>5, <1>9, <1>11 DEF Follows

\* The longer cassette, and what was known of the write under way.
LEMMA CallLater ==
    ASSUME ReplayInv, ~Idle, Extends(cassette, cassette')
    PROVE  /\ trace # NoTrace => IsRun(trace, cassette') /\ EndOf(trace) = call.before
           /\ previous # NoTrace => IsRun(previous, cassette')
           /\ call.stage # "extract" =>
                /\ Extractable(call.before, call.text, cassette')
                /\ call.value = ValueFor(call.before, call.text, cassette')
                /\ call.subject = SubjectFor(call.before, call.text, call.value)
                /\ brain = AfterExtract(call.before, call.text, call.value)
<1>1. /\ trace # NoTrace => IsRun(trace, cassette) /\ EndOf(trace) = call.before
      /\ previous # NoTrace => IsRun(previous, cassette)
  BY DEF ReplayInv
<1>2. call.stage # "extract" =>
         /\ Extractable(call.before, call.text, cassette)
         /\ call.value = ValueFor(call.before, call.text, cassette)
         /\ call.subject = SubjectFor(call.before, call.text, call.value)
         /\ brain = AfterExtract(call.before, call.text, call.value)
  BY DEF ReplayInv, CallFollows
<1>3. trace # NoTrace => IsRun(trace, cassette')
  BY <1>1, RunLater
<1>4. previous # NoTrace => IsRun(previous, cassette')
  BY <1>1, RunLater
<1>5. call.stage # "extract" =>
         /\ Extractable(call.before, call.text, cassette')
         /\ ValueFor(call.before, call.text, cassette')
              = ValueFor(call.before, call.text, cassette)
  BY <1>2, FollowsLater
<1> QED
  BY <1>1, <1>2, <1>3, <1>4, <1>5

\* Both histories are empty at first.
LEMMA InitReplay == Init => ReplayInv
<1> SUFFICES ASSUME Init PROVE ReplayInv
  OBVIOUS
<1>1. /\ Idle /\ brain = Empty /\ cassette = [kind \in Kinds |-> <<>>] /\ trace = <<>>
      /\ previous = NoTrace
  BY DEF Init, Idle
<1> QED
  BY <1>1, EmptyRun DEF ReplayInv, CallFollows

\* A write begins at the end of the run.
LEMMA BeginReplay ==
    ASSUME Inv, ReplayInv, NEW text \in Texts, Begin(text)
    PROVE  ReplayInv'
<1> DEFINE stage == IF text \in brain.asserted THEN "embed" ELSE "extract"
<1>1. /\ Idle /\ brain' = brain /\ cassette' = cassette /\ trace' = trace
      /\ previous' = previous
      /\ call' = [stage |-> stage, text |-> text, tries |-> 0, value |-> NoValue,
                  subject |-> <<>>, version |-> 0, novelty |-> 0, before |-> brain]
  BY DEF Begin
<1>2. /\ stage = "extract" <=> text \notin brain.asserted
      /\ stage # "decide"
  OBVIOUS
<1> HIDE DEF stage
<1>3. /\ call'.stage = stage /\ call'.text = text /\ call'.value = NoValue
      /\ call'.subject = <<>> /\ call'.before = brain
  BY <1>1
<1>4. text \in brain.asserted =>
         /\ Extractable(brain, text, cassette) /\ ValueFor(brain, text, cassette) = NoValue
         /\ SubjectFor(brain, text, NoValue) = <<>> /\ AfterExtract(brain, text, NoValue) = brain
  BY DEF Extractable, ValueFor, SubjectFor, AfterExtract
<1>5. CallFollows'
  BY <1>1, <1>2, <1>3, <1>4 DEF CallFollows
<1>6. trace # NoTrace => IsRun(trace, cassette) /\ EndOf(trace) = brain
  BY <1>1 DEF ReplayInv
<1>7. trace' # NoTrace =>
         /\ IsRun(trace', cassette')
         /\ EndOf(trace') = IF Idle' THEN brain' ELSE call'.before
  BY <1>1, <1>3, <1>6
<1> QED
  BY <1>1, <1>5, <1>7 DEF ReplayInv

\* The fact is what the cassette says it is.
LEMMA ExtractReplay ==
    ASSUME Inv, ReplayInv, NEW found \in BOOLEAN, Extract(found)
    PROVE  ReplayInv'
<1> DEFINE value == IF found THEN ValueOf[call.text] ELSE NoValue
<1>1. /\ ~Idle /\ call.stage = "extract" /\ Answered("extract", found) /\ Extracted(value)
      /\ trace' = trace /\ previous' = previous
  BY DEF Extract
<1>2. /\ DOMAIN cassette' = Kinds /\ Extends(cassette, cassette')
      /\ call.text \in DOMAIN cassette'["extract"]
      /\ cassette'["extract"][call.text] = found
  BY <1>1, AnsweredExtends DEF ReplayInv, Kinds
<1>3. call.text \notin call.before.asserted /\ brain = call.before
  BY <1>1 DEF ReplayInv, CallFollows
<1>4. value = ValueFor(call.before, call.text, cassette')
  BY <1>2, <1>3 DEF ValueFor
<1> HIDE DEF value
<1>5. /\ call' = [call EXCEPT !.stage = "embed", !.tries = 0, !.value = value,
                              !.subject = SubjectFor(brain, call.text, value)]
      /\ brain' = AfterExtract(brain, call.text, value)
  BY <1>1 DEF Extracted, SubjectFor, AfterExtract
<1>6. /\ call'.stage = "embed" /\ call'.text = call.text /\ call'.value = value
      /\ call'.subject = SubjectFor(brain, call.text, value)
      /\ call'.before = call.before
      /\ call' = [stage |-> call'.stage, text |-> call'.text, tries |-> call'.tries,
                  value |-> call'.value, subject |-> call'.subject,
                  version |-> call'.version, novelty |-> call'.novelty,
                  before |-> call'.before]
  BY <1>1, <1>5 DEF Inv, SoundCall
<1>7. Extractable(call.before, call.text, cassette')
  BY <1>2 DEF Extractable
<1>8. CallFollows'
  BY <1>3, <1>4, <1>5, <1>6, <1>7 DEF CallFollows
<1>9. /\ trace # NoTrace => IsRun(trace, cassette') /\ EndOf(trace) = call.before
      /\ previous # NoTrace => IsRun(previous, cassette')
  BY <1>1, <1>2, CallLater
<1>10. ~Idle'
  BY <1>6 DEF Idle, NoCall
<1>11. trace' # NoTrace =>
         /\ IsRun(trace', cassette')
         /\ EndOf(trace') = IF Idle' THEN brain' ELSE call'.before
  BY <1>1, <1>6, <1>9, <1>10
<1> QED
  BY <1>1, <1>2, <1>8, <1>9, <1>11 DEF ReplayInv

\* The vector is the one on the cassette.
LEMMA EmbedReplay ==
    ASSUME Inv, ReplayInv, NEW version \in 1 .. 2, Embed(version)
    PROVE  ReplayInv'
<1>1. /\ ~Idle /\ call.stage = "embed" /\ Answered("embed", version) /\ brain' = brain
      /\ trace' = trace /\ previous' = previous
      /\ call' = [call EXCEPT !.tries = 0, !.version = version, !.stage = "decide",
                              !.novelty = Novelty(call.text, version)]
  BY DEF Embed
<1>2. /\ DOMAIN cassette' = Kinds /\ Extends(cassette, cassette')
      /\ call.text \in DOMAIN cassette'["embed"]
      /\ cassette'["embed"][call.text] = version
  BY <1>1, AnsweredExtends DEF ReplayInv, Kinds
<1>3. /\ call'.stage = "decide" /\ call'.text = call.text /\ call'.value = call.value
      /\ call'.subject = call.subject /\ call'.version = version
      /\ call'.novelty = Novelty(call.text, version) /\ call'.before = call.before
  BY <1>1 DEF Inv, SoundCall
<1>4. Novelty(call.text, version) = NoveltyIn(brain.memories, call.text, version)
  BY DEF Novelty, NoveltyIn
<1>5. /\ trace # NoTrace => IsRun(trace, cassette') /\ EndOf(trace) = call.before
      /\ previous # NoTrace => IsRun(previous, cassette')
      /\ Extractable(call.before, call.text, cassette')
      /\ call.value = ValueFor(call.before, call.text, cassette')
      /\ call.subject = SubjectFor(call.before, call.text, call.value)
      /\ brain = AfterExtract(call.before, call.text, call.value)
  BY <1>1, <1>2, CallLater
<1>6. CallFollows'
  BY <1>1, <1>2, <1>3, <1>4, <1>5 DEF CallFollows
<1>7. ~Idle'
  BY <1>3 DEF Idle, NoCall
<1> QED
  BY <1>1, <1>2, <1>3, <1>5, <1>6, <1>7 DEF ReplayInv

\* Another attempt.
LEMMA RetryReplay ==
    ASSUME Inv, ReplayInv, Retry
    PROVE  ReplayInv'
<1>1. /\ ~Idle /\ call.stage \in Kinds /\ brain' = brain /\ cassette' = cassette
      /\ trace' = trace /\ previous' = previous /\ call' = [call EXCEPT !.tries = @ + 1]
  BY DEF Retry, Requesting
<1>2. /\ call'.stage = call.stage /\ call'.text = call.text /\ call'.value = call.value
      /\ call'.subject = call.subject /\ call'.version = call.version
      /\ call'.novelty = call.novelty /\ call'.before = call.before
  BY <1>1 DEF Inv, SoundCall
<1>3. ~Idle'
  BY <1>1, <1>2 DEF Idle, NoCall, Kinds
<1>4. CallFollows'
  BY <1>1, <1>2 DEF ReplayInv, CallFollows
<1> QED
  BY <1>1, <1>2, <1>3, <1>4 DEF ReplayInv

\* The write ends as it had to, and is the last of the run.
LEMMA SettleReplay ==
    ASSUME Inv, ReplayInv, Settle
    PROVE  ReplayInv'
<1>1. /\ ~Idle /\ call.stage = "decide" /\ call' = NoCall /\ cassette' = cassette
      /\ previous' = previous
      /\ trace' = IF trace = NoTrace THEN NoTrace
                  ELSE Append(trace, [text |-> call.text, brain |-> brain'])
  BY DEF Settle
<1>2. brain' = Settled(brain, call.text, call.value, call.subject, call.version, call.novelty)
  BY DEF Settle, Settled, Contradicts
<1>3. CallFollows
  BY DEF ReplayInv
<1>4. /\ Extractable(call.before, call.text, cassette)
      /\ call.value = ValueFor(call.before, call.text, cassette)
      /\ call.subject = SubjectFor(call.before, call.text, call.value)
      /\ brain = AfterExtract(call.before, call.text, call.value)
      /\ call.text \in DOMAIN cassette["embed"]
      /\ call.version = cassette["embed"][call.text]
      /\ call.novelty = NoveltyIn(brain.memories, call.text, call.version)
  BY <1>1, <1>3 DEF CallFollows
<1>5. brain' = Outcome(call.before, call.text, call.value, call.version)
  BY <1>2, <1>4 DEF Outcome
<1>6. Follows(call.before, call.text, brain', cassette)
  BY <1>4, <1>5 DEF Follows
<1>7. trace' # NoTrace => IsRun(trace', cassette) /\ EndOf(trace') = brain'
  <2>1. SUFFICES ASSUME trace' # NoTrace
                 PROVE  IsRun(trace', cassette) /\ EndOf(trace') = brain'
    OBVIOUS
  <2>2. /\ trace # NoTrace
        /\ trace' = Append(trace, [text |-> call.text, brain |-> brain'])
    BY <1>1, <2>1
  <2>3. IsRun(trace, cassette) /\ EndOf(trace) = call.before
    BY <1>1, <2>2 DEF ReplayInv
  <2> QED
    BY <1>6, <2>2, <2>3, RunAppended
<1>8. Idle' /\ CallFollows'
  BY <1>1 DEF Idle, CallFollows
<1> QED
  BY <1>1, <1>7, <1>8 DEF ReplayInv

\* Every step keeps both histories runs over the cassette.
LEMMA StepReplay == Inv /\ ReplayInv /\ [Next]_vars => ReplayInv'
<1> SUFFICES ASSUME Inv, ReplayInv, [Next]_vars PROVE ReplayInv'
  OBVIOUS
<1>1. ASSUME NEW text \in Texts, Begin(text) PROVE ReplayInv'
  BY <1>1, BeginReplay
<1>2. ASSUME NEW found \in BOOLEAN, Extract(found) PROVE ReplayInv'
  BY <1>2, ExtractReplay
<1>3. ASSUME NEW version \in 1 .. 2, Embed(version) PROVE ReplayInv'
  BY <1>3, EmbedReplay
<1>4. CASE Retry
  BY <1>4, RetryReplay
<1>5. CASE Raise
  BY <1>5 DEF Raise, ReplayInv, CallFollows, Idle
<1>6. CASE Settle
  BY <1>6, SettleReplay
<1>7. ASSUME NEW x \in Texts, NEW keep \in BOOLEAN, Forget(SurfaceOf[x], keep) PROVE ReplayInv'
  BY <1>7 DEF Forget, ReplayInv, CallFollows, Idle
<1>8. CASE Snapshot
  BY <1>8 DEF Snapshot, ReplayInv, CallFollows, Idle
<1>9. ASSUME NEW legacy \in BOOLEAN, Restore(legacy) PROVE ReplayInv'
  BY <1>9 DEF Restore, ReplayInv, CallFollows, Idle
<1>10. ASSUME NEW live \in BOOLEAN, NewBrain(live) PROVE ReplayInv'
  <2>1. /\ Idle /\ brain' = Empty /\ trace' = <<>> /\ previous' = trace /\ call' = call
        /\ cassette' = cassette
    BY <1>10 DEF NewBrain
  <2> QED
    BY <2>1, EmptyRun DEF ReplayInv, CallFollows, Idle
<1>11. CASE UNCHANGED vars
  BY <1>11 DEF vars, ReplayInv, CallFollows, Idle
<1> QED
  BY <1>1, <1>2, <1>3, <1>4, <1>5, <1>6, <1>7, <1>8, <1>9, <1>10, <1>11 DEF Next, CallStep

\* Whatever the models answer and whether there are models at all: writing the
\* same texts to another brain over the same cassette gives the same brain after
\* each of them, also after writes that asked for more than was recorded.
THEOREM ReplayIsDeterministicHolds == Spec => []ReplayIsDeterministic
<1>1. Spec => []ReplayInv
  BY InitReplay, StepReplay, InvIsInvariant, PTL DEF Spec
<1>2. ReplayInv => ReplayIsDeterministic
  <2> SUFFICES ASSUME ReplayInv, trace # NoTrace, trace # <<>>, previous # NoTrace,
                      Len(trace) <= Len(previous),
                      \A i \in 1 .. Len(trace) : trace[i].text = previous[i].text
               PROVE  trace[Len(trace)].brain = previous[Len(trace)].brain
    BY DEF ReplayIsDeterministic
  <2>1. IsRun(trace, cassette) /\ IsRun(previous, cassette)
    BY DEF ReplayInv
  <2>2. PICK S : trace \in Seq(S)
    BY <2>1 DEF IsRun
  <2>3. PICK T : previous \in Seq(T)
    BY <2>1 DEF IsRun
  <2>4. Len(trace) \in Nat \ {0} /\ Len(previous) \in Nat
    BY <2>2, <2>3, EmptySeq, LenProperties
  <2>5. \A i \in 1 .. Len(trace) : trace[i].brain = previous[i].brain
    BY <2>1, <2>4, RunsAgree
  <2> QED
    BY <2>4, <2>5
<1> QED
  BY <1>1, <1>2, PTL

-----------------------------------------------------------------------------
(* How long a call may last *)

\* How many more steps the write under way can take: the attempts that are left for
\* the request it waits for, those of the request after it, and the decision.
StepsLeft ==
    IF Idle THEN 0
    ELSE IF call.stage = "decide" THEN 1
    ELSE IF call.stage = "embed" THEN 2 + (Retries - call.tries)
    ELSE 3 + Retries + (Retries - call.tries)

\* Whatever happens while a write is under way, it has fewer steps left afterwards: no
\* more than 2 * Retries + 3 of them lie between its begin and its end.  This is the
\* part of CallEnds that is not about fairness.
CallShrinks == [][~Idle => StepsLeft' \in 0 .. StepsLeft - 1 /\ StepsLeft <= 3 + 2 * Retries]_vars

THEOREM CallsAreBounded == Spec => CallShrinks
<1>1. ASSUME Inv, TypeInv, ~Idle, Next
      PROVE  StepsLeft' \in 0 .. StepsLeft - 1 /\ StepsLeft <= 3 + 2 * Retries
  <2>1. /\ Retries \in Nat /\ call.tries \in 0 .. Retries
        /\ call.stage \in {"extract", "embed", "decide"}
    BY <1>1, RetryAssumption DEF TypeInv, TypedCall, Kinds
  <2>2. /\ StepsLeft \in Nat \ {0} /\ StepsLeft <= 3 + 2 * Retries
        /\ call.stage = "extract" => StepsLeft >= 3 + Retries
        /\ call.stage = "embed" => StepsLeft >= 2
    BY <1>1, <2>1 DEF StepsLeft
  <2>3. SUFFICES StepsLeft' \in 0 .. StepsLeft - 1
    BY <2>2
  <2>4. SUFFICES ASSUME call' # NoCall PROVE StepsLeft' \in 0 .. StepsLeft - 1
    BY <2>2 DEF StepsLeft, Idle
  <2>5. ASSUME NEW found \in BOOLEAN, Extract(found) PROVE StepsLeft' \in 0 .. StepsLeft - 1
    <3>1. call.stage = "extract" /\ call'.stage = "embed" /\ call'.tries = 0
      BY <1>1, <2>5 DEF Extract, Extracted, Inv, SoundCall
    <3>2. StepsLeft' = 2 + Retries
      BY <2>1, <2>4, <3>1 DEF StepsLeft, Idle
    <3> QED
      BY <2>1, <2>2, <3>1, <3>2
  <2>6. ASSUME NEW version \in 1 .. 2, Embed(version) PROVE StepsLeft' \in 0 .. StepsLeft - 1
    <3>1. call.stage = "embed" /\ call'.stage = "decide"
      BY <1>1, <2>6 DEF Embed, Inv, SoundCall
    <3>2. StepsLeft' = 1
      BY <2>4, <3>1 DEF StepsLeft, Idle
    <3> QED
      BY <2>2, <3>1, <3>2
  <2>7. CASE Retry
    <3>1. /\ call.stage \in Kinds /\ call.tries < Retries
          /\ call'.stage = call.stage /\ call'.tries = call.tries + 1
      BY <1>1, <2>7 DEF Retry, Requesting, Inv, SoundCall
    <3>2. CASE call.stage = "embed"
      <4>1. StepsLeft = 2 + (Retries - call.tries)
        BY <1>1, <3>2 DEF StepsLeft
      <4>2. StepsLeft' = 2 + (Retries - (call.tries + 1))
        BY <2>4, <3>1, <3>2 DEF StepsLeft, Idle
      <4> QED
        BY <2>1, <3>1, <4>1, <4>2
    <3>3. CASE call.stage = "extract"
      <4>1. StepsLeft = 3 + Retries + (Retries - call.tries)
        BY <1>1, <3>3 DEF StepsLeft
      <4>2. StepsLeft' = 3 + Retries + (Retries - (call.tries + 1))
        BY <2>4, <3>1, <3>3 DEF StepsLeft, Idle
      <4> QED
        BY <2>1, <3>1, <4>1, <4>2
    <3> QED
      BY <3>1, <3>2, <3>3 DEF Kinds
  <2>8. ~Raise /\ ~Settle
    BY <2>4 DEF Raise, Settle
  <2> QED
    BY <1>1, <2>5, <2>6, <2>7, <2>8
       DEF Next, CallStep, Begin, Forget, Snapshot, Restore, NewBrain
<1>2. Inv /\ TypeInv /\ [Next]_vars =>
        [~Idle => StepsLeft' \in 0 .. StepsLeft - 1 /\ StepsLeft <= 3 + 2 * Retries]_vars
  BY <1>1
<1>3. Spec => []TypeInv
  BY InitTyped, StepTyped, InvIsInvariant, PTL DEF Spec
<1> QED
  BY <1>2, <1>3, InvIsInvariant, PTL DEF Spec, CallShrinks

-----------------------------------------------------------------------------
(* The order of registrations *)

\* The names that claim a token.
NamesOf(claims, t) == {c[2] : c \in {d \in claims : d[1] = t}}

\* One more claim changes the index as registering it does.
LEMMA IndexOfMore ==
    ASSUME NEW claims, NEW token, NEW name, name # Ambiguous
    PROVE  RegisterComponent(IndexOf(claims), token, name) = IndexOf(claims \union {<<token, name>>})
<1> DEFINE more == claims \union {<<token, name>>}
           old  == IndexOf(claims)
           new  == IndexOf(more)
           Entry(names) == IF \E n \in names : names = {n} THEN CHOOSE n \in names : TRUE
                           ELSE Ambiguous
           value == IF Claims(old, token) \subseteq {name} THEN name ELSE Ambiguous
<1>1. /\ DOMAIN old = {c[1] : c \in claims}
      /\ \A t \in DOMAIN old : old[t] = Entry(NamesOf(claims, t))
  BY DEF IndexOf, NamesOf
<1>2. new = [t \in {c[1] : c \in more} |-> Entry(NamesOf(more, t))]
  BY DEF IndexOf, NamesOf
<1>3. <<token, name>>[1] = token /\ <<token, name>>[2] = name
  OBVIOUS
<1>4. {c[1] : c \in more} = DOMAIN old \union {token}
  BY <1>1, <1>3
<1>5. /\ NamesOf(more, token) = NamesOf(claims, token) \union {name}
      /\ \A t : t # token => NamesOf(more, t) = NamesOf(claims, t)
  BY <1>3 DEF NamesOf
<1>6. \A n : Entry({n}) = n
  OBVIOUS
<1>7. \A names : (\A n : names # {n}) => Entry(names) = Ambiguous
  OBVIOUS
<1>8. token \notin DOMAIN old => NamesOf(claims, token) = {}
  BY <1>1 DEF NamesOf
<1>9. token \in DOMAIN old => NamesOf(claims, token) # {}
  BY <1>1 DEF NamesOf
<1> DEFINE names == NamesOf(claims, token)
<1> HIDE DEF more, old, new, Entry, names
<1>10. Entry(names \union {name}) = value
  <2>1. CASE token \notin DOMAIN old
    <3>1. names \union {name} = {name} /\ Claims(old, token) = {}
      BY <2>1, <1>8 DEF Claims, names
    <3> QED
      BY <3>1, <1>6
  <2>2. ASSUME token \in DOMAIN old, NEW m, names = {m} PROVE Entry(names \union {name}) = value
    <3>1. Claims(old, token) = {m}
      BY <2>2, <1>1, <1>6 DEF Claims, names
    <3>2. CASE m = name
      <4>1. names \union {name} = {name}
        BY <2>2, <3>2
      <4> QED
        BY <3>1, <3>2, <4>1, <1>6
    <3>3. CASE m # name
      <4>1. \A n : names \union {name} # {n}
        BY <2>2, <3>3
      <4>2. Entry(names \union {name}) = Ambiguous
        BY <4>1, <1>7
      <4> QED
        BY <3>1, <3>3, <4>2
    <3> QED
      BY <3>2, <3>3
  <2>3. ASSUME token \in DOMAIN old, \A m : names # {m} PROVE Entry(names \union {name}) = value
    <3>1. Claims(old, token) = {Ambiguous}
      <4>1. Entry(names) = Ambiguous
        BY <2>3, <1>7
      <4> QED
        BY <2>3, <1>1, <4>1 DEF Claims, names
    <3>2. names # {}
      BY <2>3, <1>9 DEF names
    <3>3. \A n : names \union {name} # {n}
      BY <2>3, <3>2
    <3>4. Entry(names \union {name}) = Ambiguous
      BY <3>3, <1>7
    <3> QED
      BY <3>1, <3>4
  <2> QED
    BY <2>1, <2>2, <2>3
<1>11. RegisterComponent(old, token, name)
         = [t \in DOMAIN old \union {token} |-> IF t = token THEN value ELSE old[t]]
  BY DEF RegisterComponent, With
<1>12. \A t \in DOMAIN old \union {token} :
          Entry(NamesOf(more, t)) = IF t = token THEN value ELSE old[t]
  BY <1>1, <1>5, <1>10 DEF names
<1> HIDE DEF value
<1>13. RegisterComponent(old, token, name) = new
  BY <1>2, <1>4, <1>11, <1>12
<1> QED
  BY <1>13 DEF old, new, more

\* Registering one more name gives what registering them together gives.
LEMMA RegisterOneMore ==
    ASSUME NEW subjects \in SUBSET Plain, NEW name \in Plain
    PROVE  RegisterCanonical(RegisterAll(subjects), name) = RegisterAll(subjects \union {name})
<1> DEFINE old  == RegisterAll(subjects)
           full == {n \in subjects : ~Single(n)}
           more == {n \in subjects \union {name} : ~Single(n)}
<1>1. old = [full |-> full, given |-> IndexOf(GivenClaims(full)),
             surname |-> IndexOf(SurnameClaims(full)), singletons |-> subjects \ full]
  BY DEF RegisterAll, GivenClaims, SurnameClaims
<1>2. RegisterAll(subjects \union {name})
        = [full |-> more, given |-> IndexOf(GivenClaims(more)),
           surname |-> IndexOf(SurnameClaims(more)),
           singletons |-> (subjects \union {name}) \ more]
  BY DEF RegisterAll, GivenClaims, SurnameClaims
<1>3. CASE Single(name)
  <2>1. more = full /\ (subjects \union {name}) \ more = (subjects \ full) \union {name}
    BY <1>3
  <2>2. RegisterCanonical(old, name)
          = [old EXCEPT !.singletons = old.singletons \union {name}]
    BY <1>3 DEF RegisterCanonical
  <2> HIDE DEF old, full, more
  <2> QED
    BY <1>1, <1>2, <2>1, <2>2 DEF old
<1>4. CASE ~Single(name)
  <2>1. more = full \union {name} /\ (subjects \union {name}) \ more = subjects \ full
    BY <1>4
  <2>2. /\ GivenClaims(more) = GivenClaims(full) \union {<<GivenOf(name), name>>}
        /\ SurnameClaims(more) = SurnameClaims(full) \union {<<SurnameOf(name), name>>}
    BY <2>1 DEF GivenClaims, SurnameClaims
  <2>3. name # Ambiguous
    BY NotAmbiguous
  <2>4. /\ IndexOf(GivenClaims(more))
             = RegisterComponent(IndexOf(GivenClaims(full)), GivenOf(name), name)
        /\ IndexOf(SurnameClaims(more))
             = RegisterComponent(IndexOf(SurnameClaims(full)), SurnameOf(name), name)
    <3> HIDE DEF more, full
    <3> QED
      BY <2>2, <2>3, IndexOfMore
  <2>5. RegisterCanonical(old, name)
          = [old EXCEPT !.full    = old.full \union {name},
                        !.given   = RegisterComponent(old.given, GivenOf(name), name),
                        !.surname = RegisterComponent(old.surname, SurnameOf(name), name)]
    BY <1>4 DEF RegisterCanonical, RegisterFull
  <2> HIDE DEF old, full, more
  <2>6. RegisterCanonical(old, name)
          = [full |-> full \union {name},
             given |-> RegisterComponent(IndexOf(GivenClaims(full)), GivenOf(name), name),
             surname |-> RegisterComponent(IndexOf(SurnameClaims(full)), SurnameOf(name), name),
             singletons |-> subjects \ full]
    BY <1>1, <2>5
  <2> QED
    BY <1>2, <2>1, <2>4, <2>6 DEF old
<1> QED
  BY <1>3, <1>4

\* In whatever order and however often names are registered one by one, the resolver
\* is the one RegisterAll gives: a legacy snapshot restores to the same resolver
\* whatever the order of its facts.
THEOREM AnyOrderHolds ==
    ASSUME NEW order \in Seq(Plain), NEW resolverAfter,
           resolverAfter[0] = NewResolver,
           \A i \in 1 .. Len(order) :
              resolverAfter[i] = RegisterCanonical(resolverAfter[i - 1], order[i])
    PROVE  resolverAfter[Len(order)] = RegisterAll({order[i] : i \in 1 .. Len(order)})
<1> DEFINE first(n) == {order[i] : i \in 1 .. n}
           U == {n \in 0 .. Len(order) : resolverAfter[n] # RegisterAll(first(n))}
<1>1. Len(order) \in Nat /\ \A i \in 1 .. Len(order) : order[i] \in Plain
  BY LenProperties, ElementOfSeq
<1>2. SUFFICES U = {}
  <2>1. Len(order) \in 0 .. Len(order)
    BY <1>1
  <2>2. U = {} => resolverAfter[Len(order)] = RegisterAll(first(Len(order)))
    <3> HIDE DEF first
    <3> QED
      BY <2>1
  <2> QED
    BY <2>2
<1>3. SUFFICES ASSUME U # {} PROVE FALSE
  OBVIOUS
<1>4. PICK n \in U : \A m \in U : ~ (<<m, n>> \in OpToRel(<, Nat))
  <2>1. U \subseteq Nat
    BY <1>1
  <2> HIDE DEF U
  <2> QED
    BY <1>3, <2>1, NatLessThanWellFounded, WFMin
<1>5. n # 0
  <2>1. first(0) = {}
    OBVIOUS
  <2>2. IndexOf({}) = <<>>
    BY DEF IndexOf
  <2>3. RegisterAll({}) = NewResolver
    BY <2>2 DEF RegisterAll, NewResolver
  <2> QED
    BY <2>1, <2>3
<1>6. n \in 1 .. Len(order) /\ n - 1 \in 0 .. Len(order)
  BY <1>1, <1>5
<1>7. n - 1 \notin U
  <2>1. <<n - 1, n>> \in OpToRel(<, Nat)
    BY <1>6 DEF OpToRel
  <2> HIDE DEF U
  <2> QED
    BY <1>4, <2>1
<1>8. resolverAfter[n - 1] = RegisterAll(first(n - 1))
  BY <1>6, <1>7
<1>9. first(n) = first(n - 1) \union {order[n]}
  <2>1. 1 .. n = (1 .. (n - 1)) \union {n}
    BY <1>6
  <2> QED
    BY <2>1
<1>10. first(n - 1) \in SUBSET Plain /\ order[n] \in Plain
  BY <1>1, <1>6
<1> HIDE DEF first
<1>11. resolverAfter[n] = RegisterAll(first(n))
  BY <1>6, <1>8, <1>9, <1>10, RegisterOneMore
<1> QED
  BY <1>11
=============================================================================
