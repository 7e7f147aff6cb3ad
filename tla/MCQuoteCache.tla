---------------------------- MODULE MCQuoteCache ----------------------------
(* QuoteCache for TLC: four requests with one request id, three of them with *)
(* the same API key, the fourth with a key that differs from it within the   *)
(* characters its id keeps.                                                  *)
EXTENDS QuoteCache

CONSTANTS r1, r2, r3, r4

MCChars == {"a", "b", "c", "i", "x", "y", Colon, "."}

Key1  == <<"a", Colon, "b", "x">>
Other == <<"a", Colon, "c", "x">>
Id    == <<"i">>

MCHolderOf == [r \in Requests |-> IF r = r4 THEN Other ELSE Key1]
MCIDOf     == [r \in Requests |-> Id]

\* The first asks for more lines than the others.
MCCovering ==
  [r \in Requests |->
     IF r = r1 THEN Carriers ELSE {CHOOSE c \in Carriers : TRUE}]

\* Two keys that begin alike, and a short key whose request id makes up for
\* what it lacks: one scoped key for all.
Alike == <<"a", Colon, "b", "y">>
Short == <<"a">>

AlikeHolderOf ==
  [r \in Requests |-> IF r = r4 THEN Alike ELSE IF r = r3 THEN Short ELSE Key1]
AlikeIDOf ==
  [r \in Requests |-> IF r = r3 THEN <<"b", ".", ".", ".", Colon, "i">> ELSE Id]

=============================================================================
