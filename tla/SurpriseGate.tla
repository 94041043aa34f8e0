---------------------------- MODULE SurpriseGate ----------------------------
(***************************************************************************)
(* surprise.py: whether an observation is stored, reinforces what is known *)
(* or is dropped.  A novelty is an integer from 0 to One, and so are the   *)
(* thresholds; a gate is the record of what to_dict() saves and decide()   *)
(* changes.                                                                *)
(***************************************************************************)
EXTENDS Integers

CONSTANTS
    One,            \* the novelty of a text like no other
    Theta0,         \* theta0: the threshold at first
    Floor,          \* theta_floor
    Ceiling,        \* theta_max
    ReinforceAt,    \* the novelty up to which a text is a repetition: 1 - reinforce_sim
    Budget,         \* budget: the share of the stream to store, in hundredths
    Rate            \* lr: how far the threshold follows the store rate

ASSUME GateAssumption ==
    /\ One \in Nat /\ Floor \in 0 .. One /\ Ceiling \in Floor .. One
    /\ Theta0 \in 0 .. One /\ ReinforceAt \in 0 .. One
    /\ Budget \in 0 .. 100 /\ Rate \in Nat

NewGate == [theta |-> Theta0, seen |-> 0, stored |-> 0]

\* Mutant: repetition is tested before contradiction.
DecideRepetitionFirst(gate, novelty, contradiction) ==
    IF novelty <= ReinforceAt THEN "reinforced"
    ELSE IF contradiction \/ novelty >= gate.theta THEN "stored" ELSE "discarded"

Decide(gate, novelty, contradiction) ==
    IF contradiction \/ novelty >= gate.theta THEN "stored"
    ELSE IF novelty <= ReinforceAt THEN "reinforced" ELSE "discarded"

\* Mutant: the threshold is not kept between its bounds.
UnboundedTheta(theta, seen, stored) ==
    theta + (Rate * (100 * stored - Budget * seen)) \div (100 * seen)

\* The threshold rises while more than the budget is stored, and falls while
\* less is, between its bounds.
NextTheta(theta, seen, stored) ==
    LET moved == theta + (Rate * (100 * stored - Budget * seen)) \div (100 * seen)
    IN  IF moved < Floor THEN Floor ELSE IF moved > Ceiling THEN Ceiling ELSE moved

Observe(gate, decision) ==
    LET seen   == gate.seen + 1
        stored == gate.stored + IF decision = "stored" THEN 1 ELSE 0
    IN  [theta |-> NextTheta(gate.theta, seen, stored), seen |-> seen, stored |-> stored]
=============================================================================
