-------------------------- MODULE MCListing -------------------------
(* Constants for TLC: two organisations with a user each. *)
EXTENDS Listing

TwoTenants == [u1 |-> "a", u2 |-> "b"]

====
