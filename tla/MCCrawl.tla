------------------------------- MODULE MCCrawl -------------------------------
(* Small sites for TLC to crawl. *)
EXTENDS Crawl, TLC

CONSTANTS s, a, b, c, x, y

\* The seed links to two pages that link to each other and back; one of them
\* also links to the third.
Triangle == (s :> <<a, b>>) @@ (a :> <<b, s>>) @@ (b :> <<a>>)
Quad == (s :> <<b, a, b>>) @@ (a :> <<c, s>>) @@ (b :> <<c, a>>) @@ (c :> <<s>>)

\* x is two links from the seed through a, three through b and c.
Detour == (s :> <<a, b>>) @@ (a :> <<x>>) @@ (b :> <<c>>) @@ (c :> <<x>>)
          @@ (x :> <<y>>) @@ (y :> <<>>)

AllUrls == {{s, a, b}}
Narrowed == {{s, a, b}, {s, a}}
AllFour == {{s, a, b, c}}
AllSix == {{s, a, b, c, x, y}}

Sym == Permutations(Worker)
=============================================================================
