------------------------------ MODULE MCBoard -------------------------------
(***************************************************************************)
(* Small sets of listings, for TLC, from which the board is made.          *)
(***************************************************************************)
EXTENDS JobBoard

Posting(id, site, address, look, rich, preview, kind, fit) ==
  [id |-> id, site |-> site, apply |-> address, url |-> <<address, "page">>,
   fingerprint |-> look, rich |-> rich, preview |-> preview, kind |-> kind, fit |-> fit]
Syndicated(id, address, look, rich, fit) ==
  [Posting(id, "feed", address, look, rich, FALSE, "feed", fit) EXCEPT !.url = address]

\* Two postings of one role at different addresses, each known to the crawler
\* as a preview and in full; a richer copy of the first in a feed, and a job
\* only the feed has.
Listings ==
  {Posting("a", "site", <<"1">>, "role", 1, TRUE, "canonical", 1),
   Posting("a", "site", <<"1">>, "role", 2, FALSE, "canonical", 1),
   Posting("b", "site", <<"2">>, "role", 3, TRUE, "canonical", 2),
   Posting("b", "site", <<"2">>, "role", 3, FALSE, "canonical", 2),
   Syndicated("x", <<"1">>, "copy", 4, 3),
   Syndicated("y", <<"3">>, "other", 2, 4)}

\* A posting on a board that sends applicants to the employer's own page, the
\* posting on that page, and a feed's rich copy of it with that one address.
Copies ==
  {[Posting("i", "board", <<"2">>, "first", 1, FALSE, "canonical", 1) EXCEPT !.url = <<"1">>],
   [Posting("j", "site", <<"3">>, "second", 1, FALSE, "canonical", 1) EXCEPT !.url = <<"2">>],
   Syndicated("f", <<"2">>, "copy", 5, 1)}
=============================================================================
