---------------------------- MODULE ZoneSecurity ----------------------------
(***************************************************************************)
(* The security level of a zone, and the three database functions that     *)
(* move it by a tier (migrations 148 and 221).                             *)
(***************************************************************************)
EXTENDS Integers

Tiers == <<"lawless", "contested", "low", "moderate",
           "guarded", "high", "maximum", "fortress">>

\* Cloned simulations are given the levels high, medium, medium and low:
\* "medium" is not a tier but the old name of one.
Level == {Tiers[i] : i \in 1..8} \cup {"medium"}

Canonical(l) == IF l = "medium" THEN "moderate" ELSE l

Rank(l) == CHOOSE i \in 1..8 : Tiers[i] = Canonical(l)

\* fn_fortify_zone_atomic: one tier up, from the level's canonical name.
Fortified(l) == IF Rank(l) < 8 THEN Tiers[Rank(l) + 1] ELSE l

\* fn_expire_fortifications: one tier down, likewise.
Unfortified(l) == IF Rank(l) > 1 THEN Tiers[Rank(l) - 1] ELSE l

\* fn_downgrade_zone_security: one tier down, by an UPDATE that compares the
\* stored level with the canonical name of the level it read.
Sabotaged(l) == IF Rank(l) > 1 /\ l = Canonical(l) THEN Tiers[Rank(l) - 1] ELSE l

=============================================================================
