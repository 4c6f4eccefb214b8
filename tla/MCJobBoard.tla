----------------------------- MODULE MCJobBoard -----------------------------
(***************************************************************************)
(* An instance of JobBoard for TLC: three jobs of two kinds, of which the  *)
(* client fetches two at most, one to a page.                              *)
(***************************************************************************)
EXTENDS JobBoard

\* 500 lies in two budget ranges.
TwoKinds == {"rust", "logo"}
KindCategory == [k \in TwoKinds |-> IF k = "rust" THEN "Backend" ELSE "Design"]
KindPrice == [k \in TwoKinds |-> IF k = "rust" THEN 500 ELSE 12000]
InTitle == [kw \in Keyword |-> {"rust"}]
InTexts == [kw \in Keyword |-> {"rust"}]

SomeSelections ==
    {[category |-> Unset, range |-> Unset],
     [category |-> "Design", range |-> Unset],
     [category |-> Unset, range |-> [min |-> 500, max |-> 1000]]}

SomeLimits == {-1, 1, 5}
=============================================================================
