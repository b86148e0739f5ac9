------------------------------ MODULE SecretSync ------------------------------
(***************************************************************************)
(* What a FerrVaultSecret promises, without the passes that keep the       *)
(* promise: the operator is a place for one content between the vault and  *)
(* the target Secret.  It fetches what the vault reveals for a generation  *)
(* of the specification that was asked for, writes it, and then says of    *)
(* that generation that it is in the target.  SecretReconciler implements  *)
(* this specification.                                                     *)
(***************************************************************************)
EXTENDS Integers

CONSTANTS
    Contents,       \* what the vault may reveal, transformed
    Broken,         \* those whose transforms fail
    Partial,        \* those with a selected key missing
    Keyless,        \* those without the connection's token key
    None,           \* no content, no generation
    Edited          \* the content of a Secret that others wrote

VARIABLES
    asked,          \* the generation of the specification
    wanted,         \* there is a FerrVaultSecret
    vault,          \* what the vault would reveal now
    token,          \* the connection authenticates with the target itself
    lent,           \* and the operator has looked and knows it
    holding,        \* what the operator holds, and whether it has written it
    secret,         \* the target
    promised        \* the generation the status says is in it

vars == <<asked, wanted, vault, token, lent, holding, secret, promised>>

Nothing            == [content |-> None, gen |-> None, written |-> FALSE]
Absent             == [by |-> "nobody", content |-> None, gen |-> None]
Foreign            == [by |-> "others", content |-> Edited, gen |-> None]
Unclaimed          == [by |-> "anyone", content |-> Edited, gen |-> None]
Ours(content, gen) == [by |-> "operator", content |-> content, gen |-> gen]

Init ==
    /\ asked = 1 /\ wanted = TRUE
    /\ vault \in Contents
    /\ token \in BOOLEAN /\ lent = FALSE
    /\ holding = Nothing
    /\ secret \in {Absent, Foreign}
    /\ promised = None

-----------------------------------------------------------------------------
(* The operator *)

Look ==
    /\ holding = Nothing
    /\ lent' = token
    /\ UNCHANGED <<asked, wanted, vault, token, holding, secret, promised>>

(* Of any generation that has been asked for, but never of one before what *)
(* is in the target or was promised.                                       *)
Fetch ==
    /\ holding = Nothing /\ wanted
    /\ vault \notin Broken /\ ~(lent /\ vault \in Keyless)
    /\ \E gen \in 1..asked :
         /\ gen >= secret.gen /\ gen >= promised
         /\ holding' = [content |-> vault, gen |-> gen, written |-> FALSE]
    /\ UNCHANGED <<asked, wanted, vault, token, lent, secret, promised>>

(* What others wrote and claim is only replaced if it is lent, and with     *)
(* keys missing nothing that the operator wrote is replaced.  The operator  *)
(* need not learn that it succeeded.                                        *)
Write ==
    /\ holding # Nothing /\ ~holding.written /\ wanted
    /\ lent \/ secret.by # "others"
    /\ lent \/ secret.by # "operator" \/ holding.content \notin Partial
    /\ secret' = Ours(holding.content, holding.gen)
    /\ \/ holding' = [holding EXCEPT !.written = TRUE] /\ UNCHANGED lent
       \/ holding' = Nothing /\ lent' = FALSE
    /\ UNCHANGED <<asked, wanted, vault, token, promised>>

(* A pass fails, ends or dies: the next one starts from nothing. *)
Forget ==
    /\ holding' = Nothing /\ lent' = FALSE
    /\ UNCHANGED <<asked, wanted, vault, token, secret, promised>>

Promise ==
    /\ holding.written
    /\ promised' = IF holding.content \in Partial THEN None ELSE holding.gen
    /\ holding' = Nothing /\ lent' = FALSE
    /\ UNCHANGED <<asked, wanted, vault, token, secret>>

Refuse ==
    /\ holding = Nothing
    /\ promised' = None
    /\ UNCHANGED <<asked, wanted, vault, token, lent, holding, secret>>

(* The FerrVaultSecret goes, but never under a pass that holds a content. *)
Release ==
    /\ holding = Nothing
    /\ wanted' = FALSE /\ promised' = None /\ lent' = FALSE
    /\ UNCHANGED <<asked, vault, token, holding, secret>>

-----------------------------------------------------------------------------
(* Everybody else *)

Ask ==
    /\ asked' = asked + 1
    /\ wanted' = TRUE
    /\ UNCHANGED <<vault, token, lent, holding, secret, promised>>

VaultChange ==
    /\ vault' \in Contents
    /\ UNCHANGED <<asked, wanted, token, lent, holding, secret, promised>>

ConnEdit ==
    /\ token' \in BOOLEAN
    /\ UNCHANGED <<asked, wanted, vault, lent, holding, secret, promised>>

(* The target is deleted, edited, or created by somebody else, who may not *)
(* have claimed it: it passes for one that the operator wrote.             *)
Others ==
    /\ \/ secret' = Absent
       \/ secret # Absent /\ secret' = [secret EXCEPT !.content = Edited]
       \/ secret = Absent /\ secret' \in {Foreign, Unclaimed}
    /\ UNCHANGED <<asked, wanted, vault, token, lent, holding, promised>>

Next ==
    \/ Look \/ Fetch \/ Write \/ Forget \/ Promise \/ Refuse \/ Release
    \/ Ask \/ VaultChange \/ ConnEdit \/ Others

Spec == Init /\ [][Next]_vars
=============================================================================
