---- MODULE MCAccounts ----
(***************************************************************************)
(* Accounts with an admin and two ids for one further name, so that the    *)
(* name can be given out again after the account was deleted.              *)
(***************************************************************************)
EXTENDS Accounts, TLC

CONSTANTS root, bob, bob2

MCNameOf == (root :> "root" @@ bob :> "bob" @@ bob2 :> "bob")

Symmetric ==
  Permutations(Passwords) \cup Permutations(Browsers)
    \cup Permutations({bob, bob2})
====
