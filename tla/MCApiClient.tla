----------------------------- MODULE MCApiClient -----------------------------
(* Constants of ApiClient's TLC runs. *)
EXTENDS ApiClient

DefaultRetryPolicy == [max |-> 3, backoff |-> <<100, 400, 1600>>, jitter |-> 25]

(* The default, no retries, fewer attempts than one, no delays, and a schedule *)
(* shorter than the attempts.                                                  *)
ManyPolicies ==
    {DefaultRetryPolicy,
     [max |-> 1, backoff |-> <<100>>, jitter |-> 25],
     [max |-> 0, backoff |-> <<100>>, jitter |-> 25],
     [max |-> 3, backoff |-> <<>>, jitter |-> 0],
     [max |-> 3, backoff |-> <<200>>, jitter |-> 50]}

ManyPasses ==
    {<<"probe">>, <<"vault-reveal">>, <<"bulk-reveal">>, <<"oidc-exchange", "probe">>,
     <<"oidc-exchange", "vault-reveal">>, <<"oidc-exchange", "bulk-reveal">>}
=============================================================================
