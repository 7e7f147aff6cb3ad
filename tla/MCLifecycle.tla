------------------------------ MODULE MCLifecycle -----------------------------
(* Lifecycle with inputs for every way through it, and timeouts scaled so  *)
(* that the longest one equals the write deadline and the drain window, as *)
(* 30 s does in the code.                                                  *)
EXTENDS Lifecycle

MCKeyID == [k \in {"key"} |-> "key..."]

Quotes(token, decodes, idOK, timeout) ==
  [path |-> "quotes", token |-> token, decodes |-> decodes, idOK |-> idOK,
   linesOK |-> TRUE, timeout |-> timeout]

UnknownLine == [Quotes("key", TRUE, TRUE, 0) EXCEPT !.linesOK = FALSE]

Other(path, token) ==
  [path |-> path, token |-> token, decodes |-> FALSE, idOK |-> FALSE,
   linesOK |-> FALSE, timeout |-> 0]

\* One request asks for quotes for the longest time, while the other may ask
\* for the default time, or be anything else: a body that does not decode, one
\* without a request_id, with an unknown line, or with a timeout out of bounds,
\* a wrong key, the other routes.
Asks == {Quotes("key", TRUE, TRUE, MaxTimeout)}

Others ==
  {Quotes("key", TRUE, TRUE, 0), Quotes("key", FALSE, TRUE, 0),
   Quotes("key", TRUE, FALSE, 0), UnknownLine, Quotes("key", TRUE, TRUE, MaxTimeout + 1),
   Quotes(NoKey, TRUE, TRUE, 0), Other("health", NoKey), Other("unknown", "key")}

MCRequests == {"asking", "any"}
MCInputs == [r \in MCRequests |-> IF r = "asking" THEN Asks ELSE Others]

=============================================================================
