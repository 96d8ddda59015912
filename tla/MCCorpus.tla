------------------------------- MODULE MCCorpus -------------------------------
(* Small instance of Corpus for TLC: a court with four opinions, one of    *)
(* them blank and of the date of another, and a scan window of two, so that *)
(* the walk moves and may stall; and a CAP jurisdiction with a case of the  *)
(* oldest one's number.                                                     *)
EXTENDS Corpus, TLC

CONSTANTS tax, us

MCIds == 1..6
MCCourts == {tax, us}

Op(c, d, cites) == [court |-> c, date |-> d, cites |-> cites]
MCArchive ==
  (1 :> Op(tax, 2, {})) @@ (2 :> Op(tax, 3, {2, 4, 5, NotAnOpinion}))
  @@ (3 :> Op(tax, 2, {})) @@ (4 :> Op(tax, 1, {}))

MCFirst == {1, 2, 4}
MCUndated == [search |-> {4}, dump |-> {1}]
MCCapDates == [i \in MCIds |-> IF i = 5 THEN NoDate ELSE 0]
MCCapVolumes == <<[court |-> us, volumes |-> <<<<4, 5, 6>>>>]>>
=============================================================================
