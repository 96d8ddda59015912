------------------------------- MODULE MCJudges -------------------------------
(* Small instance of Judges for TLC: an opinion of the Tax Court that names  *)
(* a judge twice, after its first 5,000 characters, a later one of the       *)
(* Supreme Court whose panel has the same surname, and releases with rows    *)
(* for two ways to match a judge, with none, and without a score.  A third   *)
(* opinion, of the Tax Court and that judge, is for the rerun.               *)
EXTENDS Judges

W(key, words, shape, role) == [key |-> key, words |-> words, shape |-> shape, role |-> role]
Surname(k, shape) == W(<<k>>, 1, shape, "none")
Signed(names) == [long |-> FALSE, panel |-> <<>>, signed |-> names]
Before(pieces) == [long |-> FALSE, panel |-> pieces, signed |-> <<>>]

tax == [id |-> "tax", marks |-> {}, len |-> 3]
scotus == [id |-> "scotus", marks |-> {}, len |-> 6]
MCCourts == <<scotus, tax>>

chief == W(<<"chief", "judge">>, 2, "mixed", "title")
MCKeys == <<<<"jones">>, <<"smith">>>>

lawyer(shape) == W("abney", 2, shape, "none")
For(names, side) ==
  [long |-> FALSE, clauses |->
     <<[head |-> [mr |-> FALSE, comma |-> TRUE, pieces |-> <<>>], side |-> NoOne],
       [head |-> [mr |-> FALSE, comma |-> TRUE, pieces |-> names], side |-> side]>>]

Opinion(court, head, body, counsel, decisions, closing) ==
  [court |-> court, head |-> head, body |-> body, counsel |-> counsel, cues |-> {"section 6662"},
   decisions |-> decisions, closing |-> closing, idioms |-> closing]

MCText == <<
  Opinion(tax, <<>>, <<Signed(<<Surname("smith", "caps")>>), Signed(<<Surname("smith", "mixed")>>)>>,
          <<For(<<lawyer("mixed")>>, "petitioner"), For(<<lawyer("caps")>>, "respondent")>>,
          <<{"for respondent"}, {"under rule 155"}>>, {}),
  Opinion(scotus, <<Before(<<Surname("jones", "caps"), chief, Surname("smith", "caps")>>)>>, <<>>,
          <<>>, <<>>, {"affirmed"}),
  Opinion(tax, <<Signed(<<Surname("smith", "caps")>>)>>, <<>>, <<>>, <<{"for petitioner"}>>, {})>>

Person(given, last) == [given |-> given, last |-> last]
Row(name, court, score) == [name |-> name, court |-> court, score |-> score]
Term(j, name, term, score) == [justice |-> j, name |-> name, term |-> term, score |-> score]
mq == Person(<<"a", "b.">>, "jones")
MCRelease == [
  bonica_dime |-> <<Row(Person(<<"adam">>, "smith"), scotus, 1), Row(Person(<<>>, "smith"), NoCourt, 2)>>,
  judicial_common_space |-> <<Row(Person(<<>>, "smith"), scotus, NoScore)>>,
  martin_quinn |-> <<Term(7, mq, 1, -5), Term(7, mq, 3, NoScore), Term(7, mq, 2, 1),
                     Term(7, mq, 2, 2)>>]
=============================================================================
