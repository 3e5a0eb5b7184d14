---------------------------- MODULE PromotionCache ----------------------------
(***************************************************************************)
(* The public side of the promotion slides: a browser that lists them and  *)
(* loads their images, beside the administrators of PromotionAssets.       *)
(*                                                                         *)
(* The URL of an image is the slot's, with the hash of the listed picture  *)
(* as a query parameter.  The image route looks at the slot only and sends *)
(* what is active there by then, to be cached for a year without asking    *)
(* again.  Listing and loading are two requests.                           *)
(***************************************************************************)
EXTENDS PromotionAssets

VARIABLES
  listed,   \* the pictures of the last list the browser received
  cached    \* its HTTP cache: the picture it keeps for an image URL

cacheVars == <<promoVars, listed, cached>>

CacheInit ==
  /\ PromoInit
  /\ listed = [s \in Places |-> NoPicture]
  /\ cached = [u \in Asset |-> NoPicture]

\* ListActive, one statement: the URL of a slide is <<slot, hash>>.
ListPromotions ==
  /\ listed' = slide
  /\ UNCHANGED <<promoVars, cached>>

\* GET of the image URL of a listed slide, unless the cache has it; 404 when the
\* slot has no slide any more.
LoadImage(s) ==
  LET url == <<s, listed[s]>> IN
  /\ listed[s] # NoPicture /\ cached[url] = NoPicture
  /\ ActiveImage(s) # NoPicture
  /\ cached' = [cached EXCEPT ![url] = ActiveImage(s)]
  /\ UNCHANGED <<promoVars, listed>>

CacheNext ==
  \/ PromoNext /\ UNCHANGED <<listed, cached>>
  \/ ListPromotions
  \/ \E s \in Places : LoadImage(s)

CacheSpec == CacheInit /\ [][CacheNext]_cacheVars

-----------------------------------------------------------------------------

\* "The hash query parameter invalidates the browser's old metadata URL when an
\* admin replaces the image" (postgres_promotions.go:182-183): the URL of a
\* picture never shows another one.
UrlsShowTheirPicture ==
  \A u \in Asset : cached[u] # NoPicture => u = <<u[1], cached[u]>>

=============================================================================
