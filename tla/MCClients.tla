------------------------------ MODULE MCClients ------------------------------
(* Clients on a small instance; the registrations are interchangeable. *)
EXTENDS Clients, TLC

CONSTANTS r1, r2, app, slash, other, bad
Requests == {r1, r2}
Symmetry == Permutations(Requests)

Uris  == {app, slash, other, bad}
Bad   == {bad}
Slash == {slash}
Lists == {<<app>>, <<other, slash>>, <<other, bad, app>>}
=============================================================================
