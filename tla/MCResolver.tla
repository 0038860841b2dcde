----------------------------- MODULE MCResolver -----------------------------
(***************************************************************************)
(* Two posts about one vendor, one of them near the top of the scale, and  *)
(* a row on the vendor's own domain at the reporting threshold.  The web   *)
(* is the vendor's entry page, which the search index knows too, and a     *)
(* blog.                                                                   *)
(***************************************************************************)
EXTENDS Resolver

CONSTANTS post, repost, page, entry, blog, vendor

MCRows == {post, repost, page}
MCPages == {entry, blog}
MCOwner == [p \in Pages |-> IF p = blog THEN None ELSE vendor]
MCVendor == [r \in Rows |-> vendor]
MCEntry == [v \in {vendor} |-> entry]
MCScore == [r \in Rows |-> IF r = post THEN 97 ELSE IF r = repost THEN 52 ELSE 45]
=============================================================================
