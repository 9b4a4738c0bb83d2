----------------------------- MODULE MCGateway -----------------------------
(* Instances of Gateway for TLC.                                           *)
EXTENDS Gateway, TLC

CONSTANTS m1, m2, m3, m4, p1, p2

(* Two models of one provider, one of another, and one nobody serves. *)
MCProviderOf == (m1 :> p1) @@ (m2 :> p2) @@ (m3 :> p1) @@ (m4 :> None)
MCChain == (m1 :> <<m4, m2, m3>>) @@ (m2 :> <<m1>>) @@ (m3 :> <<m1>>) @@ (m4 :> <<m2>>)

(* The universal fallback of fallback.py, for every model without a chain, *)
(* and for the fallback model itself.                                      *)
UniversalChain == [m \in Models |-> <<m2>>]

Tries(r, m) == /\ pc'[r] = "calling" /\ asked'[r] # None
               /\ <<asked'[r], at'[r]>> # <<asked[r], at[r]>>
               /\ Plan(asked'[r])[at'[r]] = m

(* "failed_models: Set of models that have already failed ... These are    *)
(* skipped."                                                               *)
FailedAreSkipped ==
  [][\A r \in Requests : \A m \in Models : Tries(r, m) => m \notin failed'[r]]_vars
=============================================================================
