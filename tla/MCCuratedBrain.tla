--------------------------- MODULE MCCuratedBrain ---------------------------
(***************************************************************************)
(* CuratedBrain for TLC: two phrasings of one fact, a text that contradicts*)
(* them and says of "him" where he lives now, one that states two facts and*)
(* names a subject as object, and one that states none.  The second facts  *)
(* of the two texts supersede each other.                                  *)
(***************************************************************************)
EXTENDS Retrieval, TLC

CONSTANTS riga, rigaToo, oslo, boss, chat

MCTexts == {riga, rigaToo, oslo, boss, chat}
Triple(s, p, o) == [subject |-> s, predicate |-> p, object |-> o]

MCSays ==
    [x \in MCTexts |->
       CASE x \in {riga, rigaToo} -> <<Triple("ann", "city", "Riga")>>
         [] x = oslo -> <<Triple("ann", "city", "Oslo"), Triple("abe", "city", "Riga")>>
         [] x = boss -> <<Triple("abe", "boss", "ann"), Triple("abe", "city", "Oslo")>>
         [] x = chat -> <<>>]

MCWords ==
    [x \in MCTexts |->
       CASE x \in {riga, rigaToo} -> {"ann", "Riga"}
         [] x = oslo -> {"ann", "Oslo", "Riga"}
         [] x = boss -> {"abe", "ann", "Oslo"}
         [] x = chat -> {}]

\* Nothing tells the two phrasings apart.
MCSymmetry == Permutations({riga, rigaToo})

MCSubjects == {"ann", "abe"}

MCQuestions ==
    {<<"abe", "boss", "city">>, <<"ann", "city">>, <<"abe", "ann">>, <<"abe", "live">>,
     <<"city">>}

MCAlphabet      == <<"abe", "ann", "boss", "city", "live">>
MCKeywords      == [city |-> {"city", "live"}]
MCKeywordOrder  == <<"city">>
MCHardRelations == {"manager"}
=============================================================================
