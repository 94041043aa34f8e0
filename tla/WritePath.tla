------------------------------ MODULE WritePath ------------------------------
(***************************************************************************)
(* One write from start to end (_write in backend.py) over the parts it    *)
(* asks: an extractor that prompts a language model (extraction.py), the   *)
(* entity resolver, an embedder and the surprise gate.                     *)
(* The models are remote (providers.py): a request may fail and is tried   *)
(* again a bounded number of times; a cassette (cassette.py) may record    *)
(* their answers, or replay them without a model.                          *)
(*                                                                         *)
(* The brain's lock is held from the first request to the last, so nothing *)
(* else runs meanwhile; what a failed request leaves behind is the matter. *)
(* A text states at most one fact, all of one predicate, and only current  *)
(* values are kept: StructuredTier and CuratedBrain model the rest.        *)
(***************************************************************************)
EXTENDS EntityResolver, SurpriseGate, FiniteSets

CONSTANTS
    Texts,          \* observations
    SurfaceOf,      \* text -> the name its fact is about
    ValueOf,        \* text -> the value it states, NoValue for none
    Apart,          \* two texts -> the novelty of the one when the other is known
    Drift,          \* the novelty of a text when the model answers differently
    Retries,        \* retries: further attempts after a failed request
    MaxOps,         \* bound: operations in one behaviour
    NoValue, NoBlob, NoTrace

ASSUME TextAssumption ==
    /\ SurfaceOf \in [Texts -> Seq(STRING) \ {<<>>}]
    /\ \A x, y \in Texts : Apart[x][y] \in 0 .. One /\ Apart[x][x] = 0
    /\ Drift \in 0 .. One
ASSUME TitleAssumption ==      \* nobody has two titles
    \A x \in Texts : StripHonorific(StripHonorific(SurfaceOf[x])) = StripHonorific(SurfaceOf[x])
ASSUME RetryAssumption == Retries \in Nat /\ MaxOps \in Nat

VARIABLES
    brain,      \* the tiers (see Empty)
    call,       \* the write under way, with what its requests answered so far
    cassette,   \* recorded answers: per kind of request, text -> answer
    inner,      \* the wrapped providers exist: record mode, not replay mode
    saved,      \* the last snapshot taken
    trace,      \* history: texts written to this brain and the brain after each
    previous,   \* history: the trace of the brain before
    ops         \* history: operations so far

vars == <<brain, call, cassette, inner, saved, trace, previous, ops>>

Empty == [resolver |-> NewResolver, gate |-> NewGate,
          facts    |-> <<>>,    \* subject -> current value
          memories |-> {},      \* episodes and their vectors
          asserted |-> {}]      \* _asserted_texts

Kinds == {"extract", "embed"}
NoCall == [stage |-> "none"]
Idle == call = NoCall    \* the lock of the brain is free

-----------------------------------------------------------------------------
(* Requests: what a model answers, recorded or replayed *)

Recorded(kind) == call.text \in DOMAIN cassette[kind]

\* Mutant: the model is asked although there is a recording.
AnsweredAfresh(kind, answer) ==
    /\ inner
    /\ cassette' = [cassette EXCEPT ![kind] = With(@, call.text, answer)]

\* A recorded answer is served; without one, the model's answer is recorded.
Answered(kind, answer) ==
    IF Recorded(kind)
    THEN answer = cassette[kind][call.text] /\ UNCHANGED cassette
    ELSE /\ inner
         /\ cassette' = [cassette EXCEPT ![kind] = With(@, call.text, answer)]

Requesting == ~Idle /\ call.stage \in Kinds /\ ~Recorded(call.stage)

\* Mutant: the count of attempts starts over.
RetryForever ==
    /\ Requesting /\ inner
    /\ call' = [call EXCEPT !.tries = (@ + 1) % (Retries + 1)]
    /\ UNCHANGED <<brain, cassette, inner, saved, trace, previous, ops>>

\* An attempt fails and another is left.
Retry ==
    /\ Requesting /\ inner /\ call.tries < Retries
    /\ call' = [call EXCEPT !.tries = @ + 1]
    /\ UNCHANGED <<brain, cassette, inner, saved, trace, previous, ops>>

\* The write raises: the last attempt failed, a reply is malformed, which no other
\* attempt makes up for, or there is nothing to replay.
Raise ==
    /\ Requesting
    /\ call' = NoCall /\ trace' = NoTrace
    /\ UNCHANGED <<brain, cassette, inner, saved, previous, ops>>

-----------------------------------------------------------------------------
(* The stages of a write *)

\* A text whose facts were asserted is an echo and is not extracted again.
Begin(text) ==
    /\ Idle /\ ops < MaxOps
    /\ call' = [stage |-> IF text \in brain.asserted THEN "embed" ELSE "extract",
                text |-> text, tries |-> 0, value |-> NoValue, subject |-> <<>>,
                version |-> 0, novelty |-> 0, before |-> brain]
    /\ ops' = ops + 1
    /\ UNCHANGED <<brain, cassette, inner, saved, trace, previous>>

\* A text that yields a fact counts as asserted, and its subject is registered.
Extracted(value) ==
    LET surface == SurfaceOf[call.text]
        subject == IF value = NoValue THEN <<>> ELSE Canonical(brain.resolver, surface)
    IN  /\ call' = [call EXCEPT !.stage = "embed", !.tries = 0,
                                !.value = value, !.subject = subject]
        /\ brain' = IF value = NoValue THEN brain
                    ELSE [brain EXCEPT
                            !.asserted = @ \union {call.text},
                            !.resolver = ResolveAndRegister(@, surface)]

\* Mutant: the fact is asserted before the text is embedded.
ExtractAsserting(found) ==
    LET value   == IF found THEN ValueOf[call.text] ELSE NoValue
        surface == SurfaceOf[call.text]
        subject == Canonical(brain.resolver, surface)
    IN  /\ ~Idle /\ call.stage = "extract"
        /\ Answered("extract", found)
        /\ call' = [call EXCEPT !.stage = "embed", !.tries = 0,
                                !.value = value, !.subject = subject]
        /\ brain' = IF value = NoValue THEN brain
                    ELSE [brain EXCEPT !.facts = With(@, subject, value),
                                       !.resolver = ResolveAndRegister(@, surface)]
        /\ UNCHANGED <<inner, saved, trace, previous, ops>>

\* The model's reply is searched for triples; what the text does not support is
\* dropped, so the fact of the text is found or none is.
Extract(found) ==
    /\ ~Idle /\ call.stage = "extract"
    /\ Answered("extract", found)
    /\ Extracted(IF found THEN ValueOf[call.text] ELSE NoValue)
    /\ UNCHANGED <<inner, saved, trace, previous, ops>>

Distance(memory, text, version) ==
    IF memory.text # text THEN Apart[text][memory.text]
    ELSE IF memory.version = version THEN 0 ELSE Drift

\* One minus the similarity of the nearest memory, if there is any.
Novelty(text, version) ==
    LET distances == {Distance(m, text, version) : m \in brain.memories} \union {One}
    IN  CHOOSE d \in distances : \A e \in distances : d <= e

\* Models are not deterministic: an answer is one of two versions of a vector.
Embed(version) ==
    /\ ~Idle /\ call.stage = "embed"
    /\ Answered("embed", version)
    /\ call' = [call EXCEPT !.tries = 0, !.version = version,
                            !.stage = "decide",
                            !.novelty = Novelty(call.text, version)]
    /\ UNCHANGED <<brain, inner, saved, trace, previous, ops>>

Contradicts == call.value # NoValue /\ call.subject \in DOMAIN brain.facts
               /\ brain.facts[call.subject] # call.value

\* The gate decides; a stored text becomes a memory; the fact, if there is one,
\* is asserted whatever the decision.  The write returns.
Settle ==
    LET decision == Decide(brain.gate, call.novelty, Contradicts)
        memory   == [text |-> call.text, version |-> call.version, subject |-> call.subject]
        after    == [brain EXCEPT
                       !.gate     = Observe(@, decision),
                       !.memories = IF decision = "stored" THEN @ \union {memory} ELSE @,
                       !.facts    = IF call.value = NoValue THEN @
                                    ELSE With(@, call.subject, call.value)]
    IN  /\ ~Idle /\ call.stage = "decide"
        /\ brain' = after /\ call' = NoCall
        /\ trace' = IF trace = NoTrace THEN NoTrace
                    ELSE Append(trace, [text |-> call.text, brain |-> after])
        /\ UNCHANGED <<cassette, inner, saved, previous, ops>>

-----------------------------------------------------------------------------
(* The other operations on the same state *)

\* forget(surface), of one predicate (of all facts here) if keep, else in full.
Forget(surface, keep) ==
    LET name    == Canonical(brain.resolver, surface)
        removed == {m \in brain.memories : m.subject = name}
    IN  /\ Idle /\ ops < MaxOps
        /\ brain' = [brain EXCEPT
                       !.facts    = [s \in DOMAIN @ \ {name} |-> @[s]],
                       !.memories = @ \ removed,
                       !.asserted = @ \ {m.text : m \in removed},
                       !.resolver = IF keep THEN @ ELSE ForgetName(@, name)]
        /\ trace' = NoTrace /\ ops' = ops + 1
        /\ UNCHANGED <<call, cassette, inner, saved, previous>>

Snapshot ==
    /\ Idle /\ ops < MaxOps
    /\ saved' = brain /\ ops' = ops + 1
    /\ UNCHANGED <<brain, call, cassette, inner, trace, previous>>

\* A legacy snapshot holds no resolver: the subjects of its facts are registered.
Restore(legacy) ==
    /\ Idle /\ ops < MaxOps /\ saved # NoBlob
    /\ brain' = [saved EXCEPT !.resolver = IF legacy THEN RegisterAll(DOMAIN saved.facts) ELSE @]
    /\ trace' = NoTrace /\ ops' = ops + 1
    /\ UNCHANGED <<call, cassette, inner, saved, previous>>

\* Another brain over the same cassette, with the models or without them.
NewBrain(live) ==
    /\ Idle /\ ops < MaxOps
    /\ brain' = Empty /\ inner' = live /\ saved' = NoBlob
    /\ trace' = <<>> /\ previous' = trace
    /\ ops' = ops + 1
    /\ UNCHANGED <<call, cassette>>

-----------------------------------------------------------------------------
Init ==
    /\ brain = Empty /\ call = NoCall /\ cassette = [kind \in Kinds |-> <<>>]
    /\ inner = TRUE /\ saved = NoBlob /\ trace = <<>> /\ previous = NoTrace /\ ops = 0

\* What drives a call that has begun: its own steps and its failed requests.
CallStep ==
    \/ \E found \in BOOLEAN : Extract(found)
    \/ \E version \in 1 .. 2 : Embed(version)
    \/ Retry \/ Raise \/ Settle

Next ==
    \/ \E text \in Texts : Begin(text)
    \/ CallStep
    \/ \E x \in Texts, keep \in BOOLEAN : Forget(SurfaceOf[x], keep)
    \/ Snapshot \/ \E legacy \in BOOLEAN : Restore(legacy)
    \/ \E live \in BOOLEAN : NewBrain(live)

\* Every request has a timeout, so a call that has begun takes its next step.
Spec == Init /\ [][Next]_vars /\ WF_vars(CallStep)

-----------------------------------------------------------------------------
(* Properties *)

Tokens == UNION {{SurfaceOf[x][i] : i \in DOMAIN SurfaceOf[x]} : x \in Texts}
Subjects == {StripHonorific(SurfaceOf[x]) : x \in Texts}
Memory == [text : Texts, version : 1 .. 2, subject : Subjects \union {<<>>}]

Tiers(b) ==
    /\ b.gate.theta \in Floor .. Ceiling \union {Theta0}
    /\ b.gate.stored \in 0 .. b.gate.seen /\ b.gate.seen \in 0 .. MaxOps
    /\ DOMAIN b.facts \subseteq Subjects /\ b.memories \subseteq Memory
    /\ b.asserted \subseteq Texts
    /\ b.resolver.full \union b.resolver.singletons \subseteq Subjects
    /\ \A index \in {b.resolver.given, b.resolver.surname} :
          \A t \in DOMAIN index :
             t \in Tokens /\ index[t] \in b.resolver.full \union {Ambiguous}

\* Every part of the state has its type; an index names registered names only.
TypeOK ==
    /\ Tiers(brain) /\ (saved # NoBlob => Tiers(saved))
    /\ ~Idle => /\ call.stage \in Kinds \union {"decide"} /\ call.text \in Texts
                /\ call.tries \in 0 .. Retries /\ call.novelty \in 0 .. One
    /\ inner \in BOOLEAN /\ ops \in 0 .. MaxOps

\* The subject a fact is stored under is offered to the planner and stands for
\* itself, so a question that names it finds the fact: whatever was registered,
\* forgotten or restored since, with the resolver's history or without it.
Findable ==
    \A name \in DOMAIN brain.facts :
       /\ name \in Entities(brain.resolver)
       /\ Canonical(brain.resolver, name) = name

Bears(name, token) == token \in {GivenOf(name), SurnameOf(name)}

\* "Every merge gated on store-provable uniqueness": a token is read as short
\* for a name only if no fact is about anybody else who bears it.
NoFalseMerge ==
    \A token \in Tokens :
       LET meant == Canonical(brain.resolver, <<token>>)
       IN  meant # <<token>> =>
              \A name \in DOMAIN brain.facts : Bears(name, token) => name = meant

\* A write that raises has changed no fact, no memory and no count of the gate;
\* the resolver has not lost a name.
FailedWriteKeepsData ==
    [][Raise =>
         /\ brain'.facts = call.before.facts /\ brain'.memories = call.before.memories
         /\ brain'.gate = call.before.gate
         /\ call.before.resolver.full \subseteq brain'.resolver.full
         /\ call.before.resolver.singletons \subseteq brain'.resolver.singletons]_vars

Remembered == \E m \in brain'.memories : m.text = call.text

\* However the threshold moved: a contradiction and a text as novel as the ceiling
\* are remembered, a text below the floor that contradicts nothing is not.
GateKeepsItsBounds ==
    [][Settle =>
         /\ Contradicts \/ call.novelty >= Ceiling => Remembered
         /\ call.novelty < Floor /\ ~Contradicts => brain'.memories = brain.memories]_vars

\* A cassette makes a run repeatable: the same texts written to another brain
\* over it, with models or without, lead to the same state after each.
ReplayIsDeterministic ==
    trace \notin {NoTrace, <<>>} /\ previous # NoTrace =>
       LET n == Len(trace)
       IN  n <= Len(previous) /\ (\A i \in 1 .. n : trace[i].text = previous[i].text) =>
              trace[n].brain = previous[n].brain

\* A write that has begun returns or raises, even if no request ever succeeds;
\* it holds the brain's lock until then.
CallEnds == ~Idle ~> Idle

Claimants(resolver, token) == {name \in resolver.full : Bears(name, token)}

\* "Forgetting one of two homonym entities must not let the survivor silently
\* claim the shared token that was refused while both existed" (resolve.py).
RefusedStaysRefused ==
    [][\A x \in Texts, keep \in BOOLEAN : Forget(SurfaceOf[x], keep) =>
         \A token \in Tokens :
            Cardinality(Claimants(brain.resolver, token)) > 1 =>
               Canonical(brain'.resolver, <<token>>) = <<token>>]_vars
=============================================================================
