---------------------------- MODULE MCProfileStore -----------------------------
(* Profiles and certificates are interchangeable. *)
EXTENDS ProfileStore, TLC

Symmetry == Permutations(Ids) \union Permutations(Certs)
=============================================================================
